---------------------------- MODULE MCSpinlock ----------------------------
(* Two threads, two locks: the instance model-checked for Spinlock. *)
EXTENDS Spinlock

CONSTANTS t1, t2, l1, l2

==============================================================================
