------------------------------ MODULE MCTimers ------------------------------
(* Instances of Timers for model checking. *)
EXTENDS TimedThreads

CONSTANT a

(* Sleeper a is the thread of a device handler. *)
DeferredTimerA == [v \in {Tick, Device} |-> IF v = Tick THEN Timer ELSE a]
=============================================================================
