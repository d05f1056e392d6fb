------------------------------- MODULE Timers -------------------------------
(***************************************************************************)
(* The timers of kern/timer.c, the timed sleep of kern/thread.c and the    *)
(* part of ticks_irq_handler (ia32/ticks.c) that drives them, on the       *)
(* scheduler and the interrupts.                                           *)
(*                                                                         *)
(* The timer lists are protected by a spinlock, that is by disabling       *)
(* interrupts, so each use of them is one step.  The exception is          *)
(* timer_schedule_at, which returns with the lock held and interrupts off: *)
(* lock is the thread it left in that state.                               *)
(*                                                                         *)
(* Delays are counted in quanta of the clock.  The module implements       *)
(* Threads: it refines what the tick handler and the threads do there.     *)
(***************************************************************************)
EXTENDS Interrupts, FiniteSetsExt

CONSTANTS
  Boot,         \* kbootstrap, which has exited
  Idle,         \* the idle thread
  Timer,        \* _timer_thread
  Delays,       \* the delays a timed sleep asks for
  PERIOD,       \* ticks per advance of the clock (50 in the code)
  MaxPending,   \* bound on the near timers set by other uses of the API
  Ids,          \* bound on the ids of timers (2^31 - 1 of them in the code)
  Nobody,       \* the timer has no callback
  Free, Hung    \* the lock is free; a thread spins on it for ever

VARIABLES
  near,         \* _near_timers, each with the thread its callback wakes
  far,          \* the threads that have a timer on _far_timers
  lock,         \* who was left holding _timer_lock
  timed,        \* t->timed_sleep_timer_id
  reg,          \* the id timer_schedule_delay has returned to t
  pc            \* where each thread is in its own code

timerVars == <<near, far, lock, timed, reg>>
vars == <<sched, current, ticks, nesting, frames, near, far, lock, timed, reg, pc>>

Users == Threads \ {Boot, Idle}
Sleepers == Users \ {Timer}

ASSUME TimersAssumption ==
  /\ Cardinality(Users) \in Nat
  /\ Boot \in Threads /\ Idle \in Threads /\ Timer \in Threads
  /\ Boot # Idle /\ Timer \notin {Boot, Idle}
  /\ Delays \subseteq Nat
  /\ PERIOD \in Nat \ {0} /\ MaxPending \in Nat /\ Ids \subseteq Nat \ {0}
  /\ {Free, Hung, Nobody} \cap Threads = {} /\ Free # Hung
  /\ Deferred[Tick] = Timer /\ Deferred[Device] \notin {Boot, Idle}

(* pc[t] is "run" or "gone" as in Threads. In timer_thread: "handle"       *)
(* before timers_handle_near_timers. In current_thread_sleep_usecs:        *)
(* "assign" before the id is stored, "woken" before it is tested, "cancel" *)
(* before timer_cancel, "clear" before it is zeroed. In                    *)
(* current_thread_sleep: "block" before make_blocked, "yield" before the   *)
(* yield. A frame of the tick handler also stops at "advance" and "wake",  *)
(* around timers_advance_clock.                                            *)

(* Ids are positive; 0 means none and -1 a failed allocation.  The counter *)
(* of timer_next_id has 2^31 - 1 values, so an id is not met again while   *)
(* something remembers it: the next id is one that is not in use.          *)
Remembered ==
  {near[i].id : i \in DOMAIN near}
    \cup {timed[t] : t \in Threads} \cup {reg[t] : t \in Threads}

HasId == \E i \in Ids : i \notin Remembered

timer_next_id == CHOOSE i \in Ids : i \notin Remembered

(* A delay that has passed stays at Overdue: no timer is ever queued with  *)
(* a delay below 0, so overdue timers need not be told apart.              *)
Overdue == -1

(* kbootstrap has exited; the idle thread was first on the list and runs.  *)
Init ==
  /\ \E order \in Bijection(1 .. Cardinality(Users), Users) :
       sched = [ runnable |-> Append(order, Idle),
                 blocked  |-> <<>>,
                 state    |-> [t \in Threads |-> CASE t = Boot -> "dead"
                                                   [] t = Idle -> "running"
                                                   [] OTHER -> "runnable"],
                 slice    |-> [t \in Threads |-> TIME_SLICE],
                 last     |-> 0,
                 panic    |-> FALSE ]
  /\ current = Idle
  /\ InterruptsInit
  /\ near = <<>> /\ far = {} /\ lock = Free
  /\ timed = [t \in Threads |-> 0]
  /\ reg = [t \in Threads |-> 0]
  /\ pc = [t \in Threads |-> CASE t = Boot -> "gone"
                               [] t = Timer -> "handle"
                               [] OTHER -> "run"]

----------------------------------------------------------------------------
At(t, label) ==
  /\ ~sched.panic
  /\ current = t
  /\ frames[t] = <<>>
  /\ pc[t] = label

GoTo(t, label) == pc' = [pc EXCEPT ![t] = label]

(* spinlock_acquire nests for its owner. *)
CanLock == lock \in {Free, current}

----------------------------------------------------------------------------
(* current_thread_sleep_usecs *)

(* DL_PREPEND and the stable DL_SORT: behind the smaller delays and ahead  *)
(* of the equal ones of a list that is sorted already.                     *)
Behind(l, k, timer) ==
  /\ \A i \in 1 .. k : l[i].delay < timer.delay
  /\ k < Len(l) => l[k + 1].delay >= timer.delay

Inserted(l, k, timer) == SubSeq(l, 1, k) \o <<timer>> \o SubSeq(l, k + 1, Len(l))

timer_schedule_delay_with_id(timer) ==
  \E k \in 0 .. Len(near) : Behind(near, k, timer) /\ near' = Inserted(near, k, timer)

(* timer_schedule_delay, called by current_thread_sleep_usecs. *)
ScheduleWake(t, usecs) ==
  /\ t \in Sleepers /\ At(t, "run") /\ CanLock
  /\ \/ /\ HasId
        /\ timer_schedule_delay_with_id(
             [id |-> timer_next_id, delay |-> usecs, wakes |-> t])
        /\ reg' = [reg EXCEPT ![t] = timer_next_id]
     \/ reg' = [reg EXCEPT ![t] = -1] /\ UNCHANGED near
  /\ GoTo(t, "assign")
  /\ UNCHANGED <<cpuVars, far, lock, timed>>

AssignTimerId(t) ==
  /\ At(t, "assign")
  /\ timed' = [timed EXCEPT ![t] = reg[t]]
  /\ reg' = [reg EXCEPT ![t] = 0]
  /\ GoTo(t, "block")
  /\ UNCHANGED <<cpuVars, near, far, lock>>

(* Variant: the state is set without moving the thread to its list. *)
SleepStillLinked(t) ==
  /\ At(t, "block")
  /\ sched' = SetState(sched, t, "blocked")
  /\ GoTo(t, "yield")
  /\ UNCHANGED <<current, ticks, nesting, frames, timerVars>>

current_thread_sleep(t) ==
  /\ At(t, "block")
  /\ sched' = scheduler_make_blocked(sched, t)
  /\ GoTo(t, "yield")
  /\ UNCHANGED <<current, ticks, nesting, frames, timerVars>>

SleepYield(t) ==
  /\ At(t, "yield")
  /\ scheduler_yield(sched)
  /\ GoTo(t, IF t = Timer THEN "handle" ELSE "woken")
  /\ UNCHANGED <<ticks, nesting, frames, timerVars>>

(* Variant: a sleep that was cut short leaves its timer behind. *)
NeverCancel(t) ==
  /\ At(t, "woken")
  /\ GoTo(t, "run")
  /\ UNCHANGED <<cpuVars, timerVars>>

TestTimerId(t) ==
  /\ At(t, "woken")
  /\ GoTo(t, IF timed[t] # 0 THEN "cancel" ELSE "run")
  /\ UNCHANGED <<cpuVars, timerVars>>

(* The first near timer with the id is unlinked.  A far timer has an id of *)
(* its own, which nobody cancels.                                          *)
Cancelled(l, id) ==
  LET found == {i \in DOMAIN l : l[i].id = id}
  IN  IF found = {} THEN l ELSE DL_DELETE(l, l[Min(found)])

CancelWake(t) ==
  /\ At(t, "cancel") /\ CanLock
  /\ near' = Cancelled(near, timed[t])
  /\ GoTo(t, "clear")
  /\ UNCHANGED <<cpuVars, far, lock, timed, reg>>

ClearTimerId(t) ==
  /\ At(t, "clear")
  /\ timed' = [timed EXCEPT ![t] = 0]
  /\ GoTo(t, "run")
  /\ UNCHANGED <<cpuVars, near, far, lock, reg>>

(* A thread that uses the API itself: timer_schedule_delay without a       *)
(* callback, when it succeeds, and timer_cancel of such a timer.           *)
timer_schedule_delay(t, usecs) ==
  /\ t \in Sleepers /\ At(t, "run") /\ CanLock
  /\ Len(near) < MaxPending /\ HasId
  /\ timer_schedule_delay_with_id(
       [id |-> timer_next_id, delay |-> usecs, wakes |-> Nobody])
  /\ UNCHANGED <<cpuVars, far, lock, timed, reg, pc>>

timer_cancel(t) ==
  /\ t \in Sleepers /\ At(t, "run") /\ CanLock
  /\ \E i \in DOMAIN near :
       near[i].wakes = Nobody /\ near' = Cancelled(near, near[i].id)
  /\ UNCHANGED <<cpuVars, far, lock, timed, reg, pc>>

(* timer_schedule_at returns before timers_unlock; when the allocation     *)
(* fails it does unlock, and nothing has changed.                          *)
timer_schedule_at(t) ==
  /\ t \in Sleepers /\ At(t, "run") /\ CanLock
  /\ far' = far \cup {t}
  /\ lock' = t
  /\ UNCHANGED <<cpuVars, near, timed, reg, pc>>

----------------------------------------------------------------------------
(* timer_thread *)

Due == near # <<>> /\ Head(near).delay <= 0

thread_wake_timer_callback(t) ==
  /\ timed' = [timed EXCEPT ![t] = 0]
  /\ sched' = scheduler_make_runnable(sched, t)

(* The first due timer is cancelled after its callback, in the same locked *)
(* section.                                                                *)
timers_handle_near_timers ==
  /\ At(Timer, "handle") /\ CanLock
  /\ IF Due
       THEN /\ IF Head(near).wakes \in Threads
                 THEN thread_wake_timer_callback(Head(near).wakes)
                 ELSE UNCHANGED <<timed, sched>>
            /\ near' = Cancelled(near, Head(near).id)
            /\ UNCHANGED pc
       ELSE GoTo(Timer, "block") /\ UNCHANGED <<sched, near, timed>>
  /\ UNCHANGED <<current, ticks, nesting, frames, far, lock, reg>>

----------------------------------------------------------------------------
(* ticks_irq_handler after _ticks_since_boot++, which it reads again. *)

TickSkip ==
  /\ InHandler("timers")
  /\ ticks % PERIOD # 0
  /\ Goto("leave", 0)
  /\ UNCHANGED <<sched, current, ticks, nesting>>

TickAdvance ==
  /\ InHandler("timers")
  /\ ticks % PERIOD = 0
  /\ Goto("advance", 0)
  /\ UNCHANGED <<sched, current, ticks, nesting>>

(* timers_update_far_timers finds no far timer whenever it gets here: see  *)
(* FarTimersAreStranded.                                                   *)
timers_advance_clock ==
  /\ InHandler("advance") /\ CanLock
  /\ near' = [i \in DOMAIN near |->
                [near[i] EXCEPT !.delay = IF @ = Overdue THEN @ ELSE @ - 1]]
  /\ Goto("wake", 0)
  /\ UNCHANGED <<sched, current, ticks, nesting, far, lock, timed, reg>>

(* Variant: an overdue timer's delay is returned as it is. *)
NextDelayUnclamped == IF near = <<>> THEN -1 ELSE Head(near).delay

timers_next_delay ==
  IF near = <<>> THEN -1 ELSE Max({0, Head(near).delay})

(* timers_next_delay and timers_wake_thread. *)
TickWake ==
  /\ InHandler("wake") /\ CanLock
  /\ sched' = IF timers_next_delay = 0 THEN scheduler_make_runnable(sched, Timer) ELSE sched
  /\ Goto("leave", 0)
  /\ UNCHANGED <<current, ticks, nesting>>

(* spinlock_acquire spins with interrupts off on a lock that another       *)
(* thread was left holding.                                                *)
SpinForEver ==
  /\ ~CanLock
  /\ \/ InHandler("advance") \/ InHandler("wake")
     \/ At(Timer, "handle")
     \/ \E t \in Sleepers : At(t, "run") \/ At(t, "cancel")
  /\ lock' = Hung
  /\ UNCHANGED <<cpuVars, near, far, timed, reg, pc>>

----------------------------------------------------------------------------
SleeperStep(t) ==
  \/ \E usecs \in Delays : ScheduleWake(t, usecs) \/ timer_schedule_delay(t, usecs)
  \/ timer_cancel(t) \/ timer_schedule_at(t)
  \/ AssignTimerId(t) \/ TestTimerId(t) \/ CancelWake(t) \/ ClearTimerId(t)

ThreadStep(t) ==
  \/ SleeperStep(t)
  \/ current_thread_sleep(t) \/ SleepYield(t)
  \/ t = Timer /\ timers_handle_near_timers

(* Variant: interrupts reach the owner of the lock. *)
ArrivalAnywhere(v) == Interrupt(v) /\ UNCHANGED <<timerVars, pc>>

(* The owner of the lock goes on with interrupts off. *)
Arrival(v) ==
  /\ lock # current
  /\ Interrupt(v)
  /\ UNCHANGED <<timerVars, pc>>

Handler ==
  /\ \/ /\ \/ TickLoad \/ TickStore \/ TickSkip \/ TickAdvance \/ TickWake
           \/ HandlerDefer(Device) \/ HandlerDone(Device)
           \/ HandlerLeave \/ HandlerYield
        /\ UNCHANGED timerVars
     \/ timers_advance_clock
  /\ UNCHANGED pc

Next ==
  /\ lock # Hung
  /\ \/ \E t \in Threads : ThreadStep(t)
     \/ \E v \in Vectors : Arrival(v)
     \/ Handler
     \/ SpinForEver

Spec == Init /\ [][Next]_vars

(* Fairness: the PIT keeps interrupting, and the CPU executes both the     *)
(* handlers and, between two interrupts, the thread that is current.  No   *)
(* thread need start another sleep.                                        *)
FairSpec ==
  /\ Spec
  /\ SF_vars(Arrival(Tick))
  /\ WF_vars(Handler)
  /\ SF_vars(ThreadStep(Timer))

----------------------------------------------------------------------------
(* A pending timer that wakes a thread belongs to the timed sleep the      *)
(* thread is in, however the last one ended: no timer outlives its sleep   *)
(* to wake the thread out of something else, a sleep has one timer, and    *)
(* the id the thread would cancel is that timer's and nobody else's.       *)
TimersBelongToSleeps ==
  \A i \in DOMAIN near :
    /\ near[i].wakes # Nobody =>
         /\ pc[near[i].wakes] \in {"assign", "block", "yield", "woken", "cancel"}
         /\ \A j \in DOMAIN near : near[i].wakes = near[j].wakes => i = j
    /\ \A t \in Threads : near[i].id \in {timed[t], reg[t]} <=> near[i].wakes = t

(* timers_update_far_timers never meets a far timer: once timer_schedule_at*)
(* has run, the only thread that could take the lock runs with interrupts  *)
(* off and never executes the tick handler.                                *)
FarTimersAreStranded ==
  /\ far # {} => lock # Free
  /\ InHandler("advance") /\ CanLock => far = {}

(* A pending timer fires or is cancelled, as long as nobody was left       *)
(* holding the lock: a wake-up of the timer thread that comes between its  *)
(* last look at the list and make_blocked is lost, and made good by the    *)
(* next advance of the clock.                                              *)
PendingTimerEnds ==
  \A t \in Sleepers :
    (\E k \in DOMAIN near : near[k].wakes = t)
      ~> (lock # Free \/ ~\E k \in DOMAIN near : near[k].wakes = t)

(* "waking up": a thread that sleeps with a timed sleep has a timer that   *)
(* will wake it.                                                           *)
SleeperHasTimer ==
  \A t \in Sleepers :
    sched.state[t] = "blocked" /\ pc[t] = "woken" /\ timed[t] # -1
      => \E i \in DOMAIN near : near[i].wakes = t

=============================================================================
