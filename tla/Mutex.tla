------------------------------- MODULE Mutex -------------------------------
(***************************************************************************)
(* The blocking, nestable mutex of kern/mutex.c, composed with the         *)
(* scheduler (scheduler_wait_object_acquire, make_runnable) and with       *)
(* preemption by the tick interrupt.                                       *)
(*                                                                         *)
(* The waiting list is protected by a spinlock, that is by disabling       *)
(* interrupts, so each use of it is one step.  Between the steps of        *)
(* mutex_acquire and mutex_release interrupts are on.                      *)
(***************************************************************************)
EXTENDS Interrupts, FiniteSets

CONSTANTS
  Idle,         \* the idle thread, which uses no mutex
  Mutexes,      \* the struct mutexes
  NoOwner,      \* owner = 0
  TryLockers,   \* the threads that call mutex_trylock
  MaxNested     \* bound on how often one thread nests one mutex

VARIABLES
  mutex,        \* mutex[m]: owner, nested and waiting_threads
  held,         \* held[t][m]: locks t has been given and not begun to release
  pc            \* where each thread is, and with which mutex

vars == <<sched, current, ticks, nesting, frames, mutex, held, pc>>

Lockers == Threads \ {Idle}

ASSUME MutexAssumption ==
  /\ Idle \in Threads /\ Cardinality(Lockers) \in Nat
  /\ Mutexes # {}
  /\ NoOwner \notin Threads
  /\ TryLockers \subseteq Threads \ {Idle}
  /\ MaxNested \in Nat \ {0}

(* "out": between calls; then the steps of mutex_acquire: "observe" before *)
(* mutex_add_observer, "wait" in scheduler_wait_object_acquire,            *)
(* "unobserve" before mutex_remove_observer, "nest" before nested++; and   *)
(* "wake" before mutex_release_and_wake_next_thread.                       *)
Labels == {"out", "observe", "wait", "unobserve", "nest", "wake"}

MutexType ==
  [owner : Threads \cup {NoOwner}, nested : Nat, waiting : Seq(Threads)]

mutex_init == [owner |-> NoOwner, nested |-> 0, waiting |-> <<>>]

(* kbootstrap has exited; the idle thread was first on the list and runs.  *)
Init ==
  /\ \E order \in Bijection(1 .. Cardinality(Lockers), Lockers) :
       sched = [ runnable |-> Append(order, Idle),
                 blocked  |-> <<>>,
                 state    |-> [t \in Threads |->
                                 IF t = Idle THEN "running" ELSE "runnable"],
                 slice    |-> [t \in Threads |-> TIME_SLICE],
                 last     |-> 0,
                 panic    |-> FALSE ]
  /\ current = Idle
  /\ InterruptsInit
  /\ mutex = [m \in Mutexes |-> mutex_init]
  /\ held = [t \in Threads |-> [m \in Mutexes |-> 0]]
  /\ pc = [t \in Threads |-> [at |-> "out", mutex |-> CHOOSE m \in Mutexes : TRUE]]

----------------------------------------------------------------------------
At(t, label, m) ==
  /\ ~sched.panic
  /\ current = t
  /\ frames[t] = <<>>
  /\ pc[t] = [at |-> label, mutex |-> m]

(* Between calls the mutex of the last call does not matter. *)
AtCall(t) ==
  /\ ~sched.panic
  /\ t \in Lockers /\ current = t
  /\ frames[t] = <<>>
  /\ pc[t].at = "out"

GoTo(t, label, m) == pc' = [pc EXCEPT ![t] = [at |-> label, mutex |-> m]]

(* __sync_val_compare_and_swap(&m->owner, 0, t): the new owner.  The value *)
(* it returns is the old one.                                              *)
CompareAndSwap(m, t) ==
  IF mutex[m].owner = NoOwner THEN t ELSE mutex[m].owner

SetOwner(m, o) == mutex' = [mutex EXCEPT ![m].owner = o]

threadVars == <<sched, current, ticks, nesting, frames>>

----------------------------------------------------------------------------
mutex_acquire(t, m) ==
  /\ AtCall(t)
  /\ held[t][m] < MaxNested
  /\ SetOwner(m, CompareAndSwap(m, t))
  /\ GoTo(t, IF mutex[m].owner = t THEN "nest" ELSE "observe", m)
  /\ UNCHANGED <<threadVars, held>>

(* assert(t->wait_queue_next == 0): t is not already queued ahead of       *)
(* another thread.                                                         *)
LinkedAhead(t) ==
  \E m \in Mutexes : \E i \in 1 .. Len(mutex[m].waiting) - 1 : mutex[m].waiting[i] = t

mutex_add_observer(t, m) ==
  /\ At(t, "observe", m)
  /\ sched' = [sched EXCEPT !.panic = LinkedAhead(t)]
  /\ mutex' = [mutex EXCEPT ![m].waiting = Append(@, t)]
  /\ GoTo(t, "wait", m)
  /\ UNCHANGED <<current, ticks, nesting, frames, held>>

(* One turn of the loop: the compare-and-swap must return the caller, or   *)
(* the caller blocks and the next thread runs.  A thread that is switched  *)
(* to again takes another turn.                                            *)
scheduler_wait_object_acquire(t, m) ==
  /\ At(t, "wait", m)
  /\ SetOwner(m, CompareAndSwap(m, t))
  /\ IF mutex[m].owner = t
       THEN GoTo(t, "unobserve", m) /\ UNCHANGED threadVars
       ELSE /\ scheduler_yield(scheduler_make_blocked(sched, t))
            /\ UNCHANGED <<pc, ticks, nesting, frames>>
  /\ UNCHANGED held

(* Variant: the thread stays on the waiting list. *)
RemoveNothing(t, m) ==
  /\ At(t, "unobserve", m)
  /\ GoTo(t, "nest", m)
  /\ UNCHANGED <<threadVars, held, mutex>>

mutex_remove_observer(t, m) ==
  /\ At(t, "unobserve", m)
  /\ mutex' = [mutex EXCEPT ![m].waiting = DL_DELETE(@, t)]
  /\ GoTo(t, "nest", m)
  /\ UNCHANGED <<threadVars, held>>

(* Variant: nested = 1. *)
AcquireReturnsOnce(t, m) ==
  /\ At(t, "nest", m)
  /\ mutex' = [mutex EXCEPT ![m].nested = 1]
  /\ held' = [held EXCEPT ![t][m] = @ + 1]
  /\ GoTo(t, "out", m)
  /\ UNCHANGED threadVars

(* nested++, and mutex_acquire returns. *)
AcquireReturns(t, m) ==
  /\ At(t, "nest", m)
  /\ mutex' = [mutex EXCEPT ![m].nested = @ + 1]
  /\ held' = [held EXCEPT ![t][m] = @ + 1]
  /\ GoTo(t, "out", m)
  /\ UNCHANGED threadVars

mutex_trylock(t, m) ==
  /\ t \in TryLockers /\ AtCall(t)
  /\ held[t][m] < MaxNested
  /\ IF mutex[m].owner = t
       THEN /\ mutex' = [mutex EXCEPT ![m].nested = @ + 1]
            /\ held' = [held EXCEPT ![t][m] = @ + 1]
       ELSE SetOwner(m, CompareAndSwap(m, t)) /\ UNCHANGED held
  /\ UNCHANGED <<threadVars, pc>>

(* Variant: the first release of a nested lock gives the mutex away. *)
ReleaseNested(t, m) ==
  /\ AtCall(t)
  /\ held[t][m] > 0
  /\ mutex' = [mutex EXCEPT ![m].nested = @ - 1]
  /\ held' = [held EXCEPT ![t][m] = @ - 1]
  /\ GoTo(t, "wake", m)
  /\ UNCHANGED threadVars

mutex_release(t, m) ==
  /\ AtCall(t)
  /\ held[t][m] > 0
  /\ mutex' = [mutex EXCEPT ![m].nested = @ - 1]
  /\ held' = [held EXCEPT ![t][m] = @ - 1]
  /\ IF mutex'[m].nested = 0 THEN GoTo(t, "wake", m) ELSE UNCHANGED pc
  /\ UNCHANGED threadVars

(* Variants: the mutex is set free and nobody is woken; the thread that    *)
(* queued last is served first.                                            *)
ReleaseWithoutWake(t, m) ==
  /\ At(t, "wake", m)
  /\ SetOwner(m, NoOwner)
  /\ GoTo(t, "out", m)
  /\ UNCHANGED <<threadVars, held>>

ReleaseToLast(t, m) ==
  LET queue == mutex[m].waiting
  IN  /\ At(t, "wake", m)
      /\ IF queue # <<>>
           THEN /\ SetOwner(m, queue[Len(queue)])
                /\ sched' = scheduler_make_runnable(sched, queue[Len(queue)])
           ELSE /\ SetOwner(m, NoOwner)
                /\ UNCHANGED sched
      /\ GoTo(t, "out", m)
      /\ UNCHANGED <<current, ticks, nesting, frames, held>>

mutex_release_and_wake_next_thread(t, m) ==
  /\ At(t, "wake", m)
  /\ IF mutex[m].waiting # <<>>
       THEN /\ SetOwner(m, Head(mutex[m].waiting))
            /\ sched' = scheduler_make_runnable(sched, Head(mutex[m].waiting))
       ELSE /\ SetOwner(m, NoOwner)
            /\ UNCHANGED sched
  /\ GoTo(t, "out", m)
  /\ UNCHANGED <<current, ticks, nesting, frames, held>>

ThreadStep(t) ==
  \E m \in Mutexes :
    \/ mutex_acquire(t, m) \/ mutex_add_observer(t, m)
    \/ scheduler_wait_object_acquire(t, m)
    \/ mutex_remove_observer(t, m) \/ AcquireReturns(t, m)
    \/ mutex_trylock(t, m)
    \/ mutex_release(t, m) \/ mutex_release_and_wake_next_thread(t, m)

mutexVars == <<mutex, held, pc>>

(* The tick interrupt; no timer is due in this module. *)
Arrival == Interrupt(Tick) /\ UNCHANGED mutexVars

Handler ==
  /\ TickLoad \/ TickStore \/ HandlerDone(Tick) \/ HandlerLeave \/ HandlerYield
  /\ UNCHANGED mutexVars

Next ==
  \/ \E t \in Threads : ThreadStep(t)
  \/ Arrival
  \/ Handler

Spec == Init /\ [][Next]_vars

----------------------------------------------------------------------------
(* At most one thread is inside a mutex, however the steps of acquire,     *)
(* trylock, hand-off and preemption interleave, and the mutex knows it as  *)
(* its owner.                                                              *)
MutualExclusion ==
  \A m \in Mutexes : \A t \in Threads : held[t][m] > 0 => mutex[m].owner = t

(* m->nested is the number of locks the threads still hold: the unlocked   *)
(* nested++ and nested-- of two threads never meet.                        *)
NestedCountsHolders ==
  \A m \in Mutexes : \A t \in Threads :
    mutex[m].owner = t => mutex[m].nested = held[t][m]

(* A thread asleep in scheduler_wait_object_acquire is on the waiting list *)
(* of its mutex, once, so that a release can find it.                      *)
SleepersAreQueued ==
  \A m \in Mutexes :
    /\ IsInjective(mutex[m].waiting)
    /\ \A t \in Threads :
         InList(mutex[m].waiting, t) <=> pc[t] \in [at : {"wait", "unobserve"}, mutex : {m}]

(* The release half of the wake-up protocol: a free mutex has no sleeping  *)
(* waiter, because a release hands the mutex over whenever someone is      *)
(* queued.                                                                 *)
FreeMutexHasNoSleeper ==
  \A m \in Mutexes : mutex[m].owner = NoOwner =>
    \A t \in Threads : InList(mutex[m].waiting, t) => sched.state[t] # "blocked"

(* No assertion of mutex.c or scheduler.c fails. *)
NoPanic == ~sched.panic

(* Ownership passes from one thread to another only by hand-off to the     *)
(* thread that has waited longest.                                         *)
HandOffInOrder ==
  [][\A m \in Mutexes :
       /\ mutex[m].owner # NoOwner
       /\ mutex'[m].owner \notin {mutex[m].owner, NoOwner}
       => IsHead(mutex[m].waiting, mutex'[m].owner)]_vars

(* "test and set ptr to value or block until we can": a thread that has    *)
(* been given the mutex does not sleep waiting for it.                     *)
OwnerIsAwake ==
  \A m \in Mutexes : \A t \in Threads :
    pc[t] = [at |-> "wait", mutex |-> m] /\ mutex[m].owner = t
      => sched.state[t] # "blocked"

=============================================================================
