----------------------------- MODULE Scheduler -----------------------------
(***************************************************************************)
(* The run lists of kern/scheduler.c.                                      *)
(*                                                                         *)
(* The scheduler keeps two doubly linked lists of threads and, in each     *)
(* thread, a state and a time slice.  Every function of scheduler.c runs   *)
(* between scheduler_lock and scheduler_unlock, that is with interrupts    *)
(* off on the only CPU, so each is an atomic function from one scheduler   *)
(* record to the next.  The modules that give threads a program (Threads,  *)
(* Mutex) compose these functions exactly as the C code nests the calls.   *)
(*                                                                         *)
(* A scheduler record s has the fields                                     *)
(*   runnable, blocked  the lists _runnable_threads and _blocked_threads   *)
(*   state, slice       thread->state and thread->time_slice               *)
(*   last               _last_scheduled_time_ticks                         *)
(*   panic              an assertion of the C code has failed or panic()   *)
(*                      was called: the kernel has stopped                 *)
(***************************************************************************)
EXTENDS Integers, Sequences, Functions

CONSTANTS
  Threads,      \* every struct thread, the bootstrap thread included
  TIME_SLICE,   \* sys/scheduler.h: ticks a thread gets when it is queued
  WORD          \* number of values of a uint32_t (2^32 in the code)

ASSUME WordAssumption == WORD \in Nat \ {0, 1}
ASSUME TimeSliceAssumption == TIME_SLICE \in 1 .. WORD - 1

ThreadStates == {"created", "running", "runnable", "blocked", "dead"}
Words == 0 .. WORD - 1

SchedulerType ==
  [ runnable : Seq(Threads),
    blocked  : Seq(Threads),
    state    : [Threads -> ThreadStates],
    slice    : [Threads -> Words],
    last     : Words,
    panic    : BOOLEAN ]

----------------------------------------------------------------------------
(* utlist.h, as scheduler.c uses it. *)

InList(l, t) == \E i \in DOMAIN l : l[i] = t

Index(l, t) == CHOOSE i \in DOMAIN l : l[i] = t

DL_DELETE(l, t) ==
  [i \in 1 .. Len(l) - 1 |-> IF i < Index(l, t) THEN l[i] ELSE l[i + 1]]

IsHead(l, t) == l # <<>> /\ Head(l) = t

----------------------------------------------------------------------------
(* The unlocked list operations.  DL_DELETE asserts that the thread is     *)
(* linked; unlinking it from a list it is not on is a fault either way.    *)

(* Variant: LL_PREPEND for LL_APPEND. *)
AddRunnableInFront(s, t) ==
  [s EXCEPT !.slice = [@ EXCEPT ![t] = TIME_SLICE],
            !.runnable = <<t>> \o @]

scheduler_add_runnable_thread(s, t) ==
  [s EXCEPT !.panic = @ \/ IsHead(s.runnable, t),
            !.slice = [@ EXCEPT ![t] = TIME_SLICE],
            !.runnable = Append(@, t)]

scheduler_add_blocked_thread(s, t) ==
  [s EXCEPT !.panic = @ \/ IsHead(s.blocked, t),
            !.blocked = Append(@, t)]

scheduler_remove_runnable_thread(s, t) ==
  IF InList(s.runnable, t)
    THEN [s EXCEPT !.runnable = DL_DELETE(@, t)]
    ELSE [s EXCEPT !.panic = TRUE]

scheduler_remove_blocked_thread(s, t) ==
  IF InList(s.blocked, t)
    THEN [s EXCEPT !.blocked = DL_DELETE(@, t)]
    ELSE [s EXCEPT !.panic = TRUE]

(* Variant: a running thread is looked for on the blocked list. *)
RemoveOnlyRunnable(s, t) ==
  IF s.state[t] = "runnable"
    THEN scheduler_remove_runnable_thread(s, t)
    ELSE scheduler_remove_blocked_thread(s, t)

scheduler_remove_thread(s, t) ==
  IF s.state[t] \in {"running", "runnable"}
    THEN scheduler_remove_runnable_thread(s, t)
    ELSE scheduler_remove_blocked_thread(s, t)

SetState(s, t, st) == [s EXCEPT !.state = [@ EXCEPT ![t] = st]]

----------------------------------------------------------------------------
(* The operations of sys/scheduler.h. *)

(* The lists after scheduler_init, with the bootstrap thread running and   *)
(* its time slice never set.                                               *)
scheduler_init(running, garbage) ==
  [ runnable |-> <<>>,
    blocked  |-> <<>>,
    state    |-> [t \in Threads |-> IF t = running THEN "running" ELSE "created"],
    slice    |-> [t \in Threads |-> IF t = running THEN garbage ELSE 0],
    last     |-> 0,
    panic    |-> FALSE ]

(* A created thread becomes runnable; any other goes to the list its state *)
(* names.                                                                  *)
scheduler_add_thread(s, t) ==
  CASE s.state[t] = "running" -> [s EXCEPT !.panic = TRUE]
    [] s.state[t] \in {"created", "runnable"} ->
         scheduler_add_runnable_thread(SetState(s, t, "runnable"), t)
    [] OTHER -> scheduler_add_blocked_thread(s, t)

scheduler_make_runnable(s, t) ==
  IF s.state[t] = "runnable"
    THEN s
    ELSE scheduler_add_runnable_thread(
           SetState(scheduler_remove_thread(s, t), t, "runnable"), t)

(* Variant: the thread is not unlinked first. *)
MakeBlockedStillLinked(s, t) ==
  IF s.state[t] = "blocked"
    THEN s
    ELSE scheduler_add_blocked_thread(SetState(s, t, "blocked"), t)

scheduler_make_blocked(s, t) ==
  IF s.state[t] = "blocked"
    THEN s
    ELSE scheduler_add_blocked_thread(
           SetState(scheduler_remove_thread(s, t), t, "blocked"), t)

(* The ticks since the last scheduling decision are charged to the current *)
(* thread, in unsigned arithmetic.                                         *)
Charge(s, cur, now) ==
  [s EXCEPT !.last = now,
            !.slice = [@ EXCEPT ![cur] = (s.slice[cur] - (now - s.last)) % WORD]]

KeepsCpu(s, cur) == s.state[cur] = "running" /\ s.slice[cur] > 0

(* Variant: the preempted thread stays in state running. *)
PreemptNothing(s, cur) == s

Preempt(s, cur) ==
  IF s.state[cur] = "running" THEN SetState(s, cur, "runnable") ELSE s

(* Variant: the thread that is picked stays at the head. *)
PickInPlace(s) ==
  IF s.runnable = <<>>
    THEN [s EXCEPT !.panic = TRUE]
    ELSE SetState(s, Head(s.runnable), "running")

(* The head of the runnable list is moved to its back and set running. *)
Pick(s) ==
  IF s.runnable = <<>>
    THEN [s EXCEPT !.panic = TRUE]
    ELSE LET t == Head(s.runnable)
         IN  SetState(scheduler_add_runnable_thread(
                        scheduler_remove_runnable_thread(s, t), t), t, "running")

(* scheduler_next_thread in two parts: the lists it leaves behind and the  *)
(* thread it returns.                                                      *)
NextSched(s, cur, now) ==
  LET c == Charge(s, cur, now)
  IN  IF KeepsCpu(c, cur) THEN c ELSE Pick(Preempt(c, cur))

NextThread(s, cur, now) ==
  IF KeepsCpu(Charge(s, cur, now), cur) \/ s.runnable = <<>>
    THEN cur
    ELSE Head(s.runnable)

----------------------------------------------------------------------------
(* The lists of a scheduler record agree with the threads' states.  A dead *)
(* thread may still be on the runnable list, because thread_exit does not  *)
(* unlink it; the threads of unlisted, among them the bootstrap thread,    *)
(* never are on a list.                                                    *)
Consistent(s, unlisted) ==
  /\ IsInjective(s.runnable) /\ IsInjective(s.blocked)
  /\ \A t \in Threads :
       /\ InList(s.blocked, t) <=> s.state[t] = "blocked"
       /\ t \notin unlisted /\ s.state[t] \in {"running", "runnable"} => InList(s.runnable, t)
       /\ InList(s.runnable, t) =>
            t \notin unlisted /\ s.state[t] \in {"running", "runnable", "dead"}

=============================================================================
