-------------------------------- MODULE Cpu --------------------------------
(***************************************************************************)
(* What the scheduler promises to the code above it: one thread has the    *)
(* CPU; a thread is taken off the ready set by nobody but itself, and put  *)
(* back by anyone; the CPU goes to ready threads only, at any moment.      *)
(* Threads implements this specification, and the drivers are written on   *)
(* top of it.                                                              *)
(***************************************************************************)
CONSTANT Threads

VARIABLES
  current,      \* the thread that has the CPU
  ready         \* the threads the CPU may be given to

cpu == <<current, ready>>

CpuInit == current \in Threads /\ ready \subseteq Threads

(* thread_spawn_kthread, thread_wake, and the wake-up of a handler. *)
Wake(t) == ready' = ready \cup {t} /\ UNCHANGED current

(* The current thread goes to sleep, and keeps the CPU until the switch. *)
Block == ready' = ready \ {current} /\ UNCHANGED current

(* A yield, or the end of the outermost handler. *)
Yield == current' \in ready /\ UNCHANGED ready

(* scheduler_block *)
BlockAndYield == ready' = ready \ {current} /\ current' \in ready'

CpuNext == (\E t \in Threads : Wake(t)) \/ Block \/ Yield \/ BlockAndYield

CpuSpec == CpuInit /\ [][CpuNext]_cpu
=============================================================================
