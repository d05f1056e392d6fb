------------------------------ MODULE Threads ------------------------------
(***************************************************************************)
(* Kernel threads on the scheduler, preempted by interrupts: kern/thread.c *)
(* and the part of kern/main.c that brings the threads up.                 *)
(*                                                                         *)
(* The bootstrap thread spawns the others while every interrupt line is    *)
(* masked, starts the tick interrupt and exits.  It is never on a run      *)
(* list, and its time slice is whatever was on the boot stack.  The idle   *)
(* thread only halts.  Every other thread calls the thread API in any      *)
(* order; between two calls, and between the two halves of a call that is  *)
(* not atomic, it can be interrupted and preempted.                        *)
(***************************************************************************)
EXTENDS Interrupts

CONSTANTS
  Boot,         \* kbootstrap
  Idle,         \* the idle thread
  Exiting       \* the threads whose function returns (thread_exit)

VARIABLE pc     \* where each thread is in its own code

vars == <<sched, current, ticks, nesting, frames, pc>>

ASSUME ThreadsAssumption ==
  /\ Boot \in Threads /\ Idle \in Threads /\ Boot # Idle
  /\ Exiting \subseteq Threads \ {Boot, Idle}
  /\ \A v \in Vectors : Deferred[v] \notin {Boot, Idle} \cup Exiting

Workers == Threads \ {Boot, Idle}

(* "boot": in kmain; "run": between calls; "asleep": inside                *)
(* current_thread_sleep, blocked but not yet switched away; "exit": dead,  *)
(* before the yield of thread_exit; "gone": after it.                      *)
Labels == {"boot", "run", "asleep", "exit", "gone"}

Init ==
  /\ \E garbage \in Words : sched = scheduler_init(Boot, garbage)
  /\ current = Boot
  /\ InterruptsInit
  /\ pc = [t \in Threads |-> IF t = Boot THEN "boot" ELSE "run"]

----------------------------------------------------------------------------
(* Thread t executes its own code: it has the CPU and no handler is on its *)
(* stack.                                                                  *)
At(t, label) ==
  /\ ~sched.panic
  /\ current = t
  /\ frames[t] = <<>>
  /\ pc[t] = label

GoTo(t, label) == pc' = [pc EXCEPT ![t] = label]

Spawned(t) == sched.state[t] # "created"

(* thread_spawn_kthread; kmain starts the idle thread first. *)
thread_spawn_kthread(t, u) ==
  /\ At(t, "boot") \/ (At(t, "run") /\ t \in Workers)
  /\ sched.state[u] = "created"
  /\ u = Idle \/ Spawned(Idle)
  /\ sched' = scheduler_add_thread(sched, u)
  /\ UNCHANGED <<current, ticks, nesting, frames, pc>>

(* Variant: the tick interrupt is unmasked before the threads exist. *)
TicksBeforeIdle ==
  /\ At(Boot, "boot")
  /\ GoTo(Boot, "run")
  /\ UNCHANGED cpuVars

(* ticks_init unmasks the tick interrupt: kmain is about to exit. *)
ticks_init ==
  /\ At(Boot, "boot")
  /\ Spawned(Idle)
  /\ GoTo(Boot, "run")
  /\ UNCHANGED cpuVars

(* A thread that calls scheduler_yield itself. *)
ThreadYield(t) ==
  /\ t \in Workers /\ At(t, "run")
  /\ scheduler_yield(sched)
  /\ UNCHANGED <<ticks, nesting, frames, pc>>

(* current_thread_sleep: make_blocked and yield, interrupts on between. *)
current_thread_sleep(t) ==
  /\ t \in Workers /\ At(t, "run")
  /\ sched' = scheduler_make_blocked(sched, t)
  /\ GoTo(t, "asleep")
  /\ UNCHANGED <<current, ticks, nesting, frames>>

SleepYield(t) ==
  /\ At(t, "asleep")
  /\ scheduler_yield(sched)
  /\ GoTo(t, "run")
  /\ UNCHANGED <<ticks, nesting, frames>>

(* scheduler_block: the same two calls under one interrupts_enter_cli. *)
scheduler_block(t) ==
  /\ t \in Workers /\ At(t, "run")
  /\ scheduler_yield(scheduler_make_blocked(sched, t))
  /\ UNCHANGED <<ticks, nesting, frames, pc>>

(* Variant: the other thread is blocked. *)
WakeBlocks(t, u) ==
  /\ t \in Workers /\ At(t, "run")
  /\ u \in Workers \ {t} /\ sched.state[u] \notin {"created", "dead"}
  /\ sched' = scheduler_make_blocked(sched, u)
  /\ UNCHANGED <<current, ticks, nesting, frames, pc>>

(* thread_wake of a thread that has been started and lives. *)
thread_wake(t, u) ==
  /\ t \in Workers /\ At(t, "run")
  /\ u \in Workers /\ sched.state[u] \notin {"created", "dead"}
  /\ sched' = scheduler_make_runnable(sched, u)
  /\ UNCHANGED <<current, ticks, nesting, frames, pc>>

(* thread_exit: the state is set without unlinking the thread. *)
thread_exit(t) ==
  /\ t \in Exiting \cup {Boot} /\ At(t, "run")
  /\ sched' = SetState(sched, t, "dead")
  /\ GoTo(t, "exit")
  /\ UNCHANGED <<current, ticks, nesting, frames>>

ExitYield(t) ==
  /\ At(t, "exit")
  /\ scheduler_yield(sched)
  /\ GoTo(t, "gone")
  /\ UNCHANGED <<ticks, nesting, frames>>

(* panic("scheduler_yield returned control to dead thread") *)
DeadResumed(t) ==
  /\ At(t, "gone")
  /\ sched' = [sched EXCEPT !.panic = TRUE]
  /\ UNCHANGED <<current, ticks, nesting, frames, pc>>

ThreadStep(t) ==
  \/ \E u \in Threads : thread_spawn_kthread(t, u) \/ thread_wake(t, u)
  \/ ThreadYield(t)
  \/ current_thread_sleep(t) \/ SleepYield(t) \/ scheduler_block(t)
  \/ thread_exit(t) \/ ExitYield(t) \/ DeadResumed(t)

(* Interrupts arrive once kmain has unmasked them. *)
Arrival(v) == pc[Boot] # "boot" /\ Interrupt(v) /\ UNCHANGED pc

Handler == HandlerStep /\ UNCHANGED pc

Next ==
  \/ ticks_init
  \/ \E t \in Threads : ThreadStep(t)
  \/ \E v \in Vectors : Arrival(v)
  \/ Handler

Spec == Init /\ [][Next]_vars

----------------------------------------------------------------------------
(* Type invariant. *)
TypeOK ==
  /\ CpuTypeOK
  /\ pc \in [Threads -> Labels]

(* Every thread is on the list its state names, once, and on no other:     *)
(* whatever order make_runnable, make_blocked, add_thread and next_thread  *)
(* are called in from threads and handlers.                                *)
ListsMatchStates == Consistent(sched, {Boot})

(* No assertion of scheduler.c or of utlist.h fails and the panic of       *)
(* scheduler_next_thread is not reached.  The panic of thread_exit is      *)
(* reached only in a thread other than the bootstrap thread whose function *)
(* has returned.                                                           *)
NoPanic == sched.panic => current \in Exiting /\ pc[current] = "gone"

(* The life of a thread, as its state and its code tell it: only a thread  *)
(* inside thread_exit is dead; the thread that has the CPU was started,    *)
(* and is blocked only inside current_thread_sleep; the idle thread, once  *)
(* started, never leaves the runnable list, and is started before any      *)
(* interrupt or switch; the bootstrap thread exits for good.               *)
Lifecycle ==
  /\ \A t \in Threads : sched.state[t] = "dead" => pc[t] \in {"exit", "gone"}
  /\ \A t \in Threads : pc[t] \in {"exit", "gone"} => t \in Exiting \cup {Boot}
  /\ \A t \in Threads : pc[t] = "boot" => t = Boot
  /\ Spawned(current)
  /\ sched.state[current] = "blocked" => pc[current] = "asleep"
  /\ sched.state[Idle] \in {"created", "running", "runnable"}
  /\ IF pc[Boot] = "boot"
       THEN current = Boot /\ \A t \in Threads : frames[t] = <<>>
       ELSE Spawned(Idle)
  /\ sched.state[Boot] \in {"running", "runnable", "dead"}
  /\ pc[Boot] \in {"exit", "gone"} => sched.state[Boot] = "dead"
  /\ pc[Boot] = "gone" => current # Boot

(* Round robin: while a thread waits on the runnable list nothing is put   *)
(* in front of it, whoever is woken, spawned or preempted meanwhile.       *)
NoOvertaking ==
  [][\A t \in Threads :
       /\ sched.state[t] = "runnable" /\ sched'.state[t] = "runnable"
       /\ InList(sched.runnable, t)
       => Index(sched'.runnable, t) <= Index(sched.runnable, t)]_vars

(* Fairness: kmain finishes, the PIT keeps interrupting, and the CPU keeps *)
(* executing the handler that is on top of the stack.                      *)
FairSpec ==
  /\ Spec
  /\ WF_vars(ticks_init)
  /\ SF_vars(Arrival(Tick))
  /\ WF_vars(Handler)

(* The threads that are ready to run: a thread that has exited is never    *)
(* unlinked, so that it still is.  The bootstrap thread never is.          *)
readyBar ==
  {t \in Threads \ {Boot} : sched.state[t] \notin {"created", "blocked"}}

C == INSTANCE Cpu WITH ready <- readyBar

(* The scheduler keeps the promise of Cpu under every interleaving of      *)
(* calls and handlers: the CPU is given to ready threads only, and no      *)
(* thread but the current one stops being ready.                           *)
ImplementsCpu == C!CpuSpec

(* A runnable thread eventually gets the CPU, unless the kernel panics. *)
NoStarvation ==
  \A t \in Threads \ {Boot} :
    sched.state[t] = "runnable" ~> (current = t \/ sched.panic)

=============================================================================
