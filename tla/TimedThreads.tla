---------------------------- MODULE TimedThreads ----------------------------
(***************************************************************************)
(* The timers of Timers as a part of the system of threads: what they do   *)
(* to the scheduler is what Threads lets its threads and handlers do.      *)
(***************************************************************************)
EXTENDS Timers

----------------------------------------------------------------------------
(* The refinement mapping to Threads.  The steps of a timed sleep up to    *)
(* its current_thread_sleep are the caller's own code there, and the clock *)
(* is the tick handler's choice to wake the timer thread or not.           *)
framesBar ==
  [t \in Threads |->
     [i \in DOMAIN frames[t] |->
        IF frames[t][i].at \in {"advance", "wake"}
          THEN [at |-> "timers", loaded |-> 0]
          ELSE frames[t][i]]]

pcBar ==
  [t \in Threads |->
     CASE pc[t] = "gone" -> "gone"
       [] pc[t] = "yield" -> "asleep"
       [] OTHER -> "run"]

T == INSTANCE Threads WITH frames <- framesBar, pc <- pcBar, Exiting <- {}

(* Timers implements Threads: what the timers, the timer thread and the    *)
(* timed sleepers do to the scheduler is a step that threads and handlers  *)
(* may take there, from a state in which the bootstrap thread has exited.  *)
ImplementsThreads == [][T!Next]_(T!vars)

=============================================================================
