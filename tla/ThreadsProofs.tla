--------------------------- MODULE ThreadsProofs ---------------------------
(***************************************************************************)
(* Proofs about Threads, for every set of threads, time slice, word size   *)
(* and interrupt depth.                                                    *)
(***************************************************************************)
EXTENDS Threads, InterruptsProofs, TLAPS

----------------------------------------------------------------------------
(* The inductive invariant.                                                *)

IInv ==
  /\ CpuInv({Boot})
  /\ pc \in [Threads -> Labels]
  /\ Lifecycle

USE DEF Spawned

(* The invariant holds when kmain begins. *)
LEMMA InitIInv == Init => IInv
<1> SUFFICES ASSUME Init PROVE IInv
  OBVIOUS
<1> USE ThreadsAssumption
<1>1. PICK g \in Words : sched = scheduler_init(Boot, g)
  BY DEF Init
<1>2. /\ sched.runnable = <<>> /\ sched.blocked = <<>> /\ sched.panic = FALSE
      /\ sched.state = [t \in Threads |-> IF t = Boot THEN "running" ELSE "created"]
  BY <1>1 DEF scheduler_init
<1>3. sched \in SchedulerType
  <2>1. 0 \in Words
    BY WordAssumption DEF Words
  <2>2. [t \in Threads |-> IF t = Boot THEN g ELSE 0] \in [Threads -> Words]
    BY <2>1
  <2>3. [t \in Threads |-> IF t = Boot THEN "running" ELSE "created"] \in [Threads -> ThreadStates]
    BY States
  <2> QED BY <1>1, <2>1, <2>2, <2>3 DEF scheduler_init, SchedulerType
<1>4. /\ current = Boot /\ nesting = 0
      /\ frames = [t \in Threads |-> <<>>]
      /\ pc = [t \in Threads |-> IF t = Boot THEN "boot" ELSE "run"]
  BY DEF Init, InterruptsInit
<1>5. TypeOK
  BY <1>3, <1>4, MaxFramesAssumption, WordAssumption
  DEF Init, InterruptsInit, TypeOK, CpuTypeOK, Labels, Words
<1>6. ListsMatchStates
  BY <1>2 DEF ListsMatchStates, Consistent, IsInjective, InList
<1>7. RunningIsCurrent
  BY <1>2, <1>4 DEF RunningIsCurrent
<1>8. HandlersFinishBeforeSwitch
  BY <1>4 DEF HandlersFinishBeforeSwitch, Depth
<1>9. Lifecycle
  BY <1>2, <1>4 DEF Lifecycle
<1> QED
  BY <1>5, <1>6, <1>7, <1>8, <1>9 DEF IInv, CpuInv, TypeOK, ListsMatchStates

(* scheduler_yield once the idle thread has been started, from a scheduler *)
(* record s that the caller may have changed first.                        *)
LEMMA YieldGood ==
  ASSUME CpuTypeOK, NEW s, Good(s, {Boot}), scheduler_yield(s),
         s.state[Idle] \in {"running", "runnable"},
         \A t \in Threads : s.state[t] = "running" => t = current
  PROVE  /\ Good(sched', {Boot})
         /\ sched'.panic = s.panic
         /\ current' \in Threads
         /\ sched'.state[current'] = "running"
         /\ RunningIsCurrent'
         /\ \A t \in Threads : sched'.state[t] \in {s.state[t], "running", "runnable"}
         /\ \A t \in Threads : sched'.state[t] = "created" <=> s.state[t] = "created"
         /\ current' = Boot => s.state[Boot] = "running"
         /\ s.state[Boot] = "dead" <=> sched'.state[Boot] = "dead"
<1> USE ThreadsAssumption
<1>1. InList(s.runnable, Idle)
  BY DEF Good, Consistent
<1>2. s.runnable # <<>>
  BY <1>1 DEF InList
<1>5. /\ Good(sched', {Boot})
      /\ sched'.panic = s.panic
      /\ current' \in Threads
      /\ (current' = current /\ s.state[current] = "running") \/ InList(s.runnable, current')
      /\ \A t \in Threads :
           sched'.state[t] = IF t = current' THEN "running"
                             ELSE IF t = current /\ s.state[current] = "running" THEN "runnable"
                             ELSE s.state[t]
      /\ RunningIsCurrent'
  BY <1>2, YieldStates
<1>6. s.state[current'] \in {"running", "runnable", "dead"}
      /\ (current' = Boot => s.state[Boot] = "running")
  BY <1>5 DEF Good, Consistent
<1> QED
  BY <1>5, <1>6

(* The parts of IInv that a thread's own step can disturb. *)
LEMMA ThreadStepGood ==
  ASSUME IInv, frames[current] = <<>>,
         UNCHANGED <<ticks, nesting, frames>>,
         Good(sched', {Boot}), current' \in Threads, RunningIsCurrent',
         pc' \in [Threads -> Labels], Lifecycle'
  PROVE  IInv'
  BY ThreadGood DEF IInv

(* Every step of a thread's own code preserves the invariant. *)
LEMMA ThreadStepIInv ==
  ASSUME IInv, NEW t \in Threads, ThreadStep(t)
  PROVE  IInv' /\ (sched'.panic = sched.panic \/ DeadResumed(t))
<1> USE ThreadsAssumption
<1>1. Good(sched, {Boot}) /\ CpuTypeOK /\ Lifecycle /\ RunningIsCurrent
  BY DEF IInv, CpuInv, CpuTypeOK, Good
<1>2. /\ pc \in [Threads -> Labels] /\ current \in Threads
      /\ sched.state \in [Threads -> ThreadStates]
  BY <1>1 DEF IInv, CpuTypeOK, SchedulerType
<1>3. ASSUME NEW u \in Threads, thread_spawn_kthread(t, u)
      PROVE  IInv' /\ sched'.panic = sched.panic
  <2>1. /\ current = t /\ frames[t] = <<>> /\ sched.state[u] = "created"
        /\ sched' = scheduler_add_thread(sched, u)
        /\ UNCHANGED <<current, ticks, nesting, frames, pc>>
    BY <1>3 DEF thread_spawn_kthread, At
  <2>2. u # Boot
    BY <1>1, <2>1 DEF Lifecycle
  <2>3. Good(sched', {Boot}) /\ sched'.panic = sched.panic
        /\ sched'.state = [sched.state EXCEPT ![u] = "runnable"]
    BY <1>1, <2>1, <2>2, AddThread
  <2>4. \A w \in Threads : sched'.state[w] = IF w = u THEN "runnable" ELSE sched.state[w]
    BY <1>2, <2>3
  <2>5. RunningIsCurrent'
    BY <1>1, <2>1, <2>4 DEF RunningIsCurrent
  <2>6. Lifecycle'
    BY SMTT(30), <1>1, <1>2, <2>1, <2>2, <2>4 DEF Lifecycle
  <2> QED BY <1>2, <2>1, <2>3, <2>5, <2>6, ThreadStepGood
<1>4. ASSUME NEW u \in Threads, thread_wake(t, u)
      PROVE  IInv' /\ sched'.panic = sched.panic
  <2>1. /\ current = t /\ frames[t] = <<>> /\ pc[t] = "run"
        /\ u \in Workers /\ sched.state[u] \notin {"created", "dead"}
        /\ sched' = scheduler_make_runnable(sched, u)
        /\ UNCHANGED <<current, ticks, nesting, frames, pc>>
    BY <1>4 DEF thread_wake, At
  <2>2. Good(sched', {Boot}) /\ sched'.panic = sched.panic
        /\ sched'.state = [sched.state EXCEPT ![u] = "runnable"]
    <3>1. Good(sched, {Boot}) /\ u \notin {Boot} /\ sched.state[u] \notin {"created", "dead"}
      BY <1>1, <2>1 DEF Workers
    <3>2. LET r == scheduler_make_runnable(sched, u)
          IN  Good(r, {Boot}) /\ r.panic = sched.panic
              /\ r.state = [sched.state EXCEPT ![u] = "runnable"]
      BY <3>1, MakeRunnable
    <3> QED BY <2>1, <3>2
  <2>3. \A w \in Threads : sched'.state[w] = IF w = u THEN "runnable" ELSE sched.state[w]
    BY <1>2, <2>2
  <2>4. RunningIsCurrent'
    BY <1>1, <2>1, <2>3 DEF RunningIsCurrent
  <2>5. Lifecycle'
    BY <1>1, <1>2, <2>1, <2>3 DEF Lifecycle, Workers
  <2> QED BY <1>2, <2>1, <2>2, <2>4, <2>5, ThreadStepGood
<1>5. CASE ThreadYield(t)
  <2>1. /\ t \in Workers /\ current = t /\ frames[t] = <<>> /\ pc[t] = "run"
        /\ scheduler_yield(sched)
        /\ UNCHANGED <<ticks, nesting, frames, pc>>
    BY <1>5 DEF ThreadYield, At
  <2>2. pc[Boot] # "boot" /\ sched.state[Idle] \in {"running", "runnable"}
    BY <1>1, <2>1 DEF Lifecycle, Workers
  <2>3. /\ Good(sched', {Boot}) /\ current' \in Threads /\ RunningIsCurrent'
        /\ sched'.panic = sched.panic /\ sched'.state[current'] = "running"
        /\ \A w \in Threads : sched'.state[w] \in {sched.state[w], "running", "runnable"}
        /\ \A w \in Threads : sched'.state[w] = "created" <=> sched.state[w] = "created"
        /\ current' = Boot => sched.state[Boot] = "running"
        /\ sched.state[Boot] = "dead" <=> sched'.state[Boot] = "dead"
    BY <1>1, <2>1, <2>2, YieldGood, Zenon DEF RunningIsCurrent
  <2>4. Lifecycle'
    BY <1>1, <1>2, <2>1, <2>2, <2>3 DEF Lifecycle
  <2> QED BY <1>2, <2>1, <2>3, <2>4, ThreadStepGood
<1>6. CASE current_thread_sleep(t)
  <2>1. /\ t \in Workers /\ current = t /\ frames[t] = <<>> /\ pc[t] = "run"
        /\ sched' = scheduler_make_blocked(sched, t)
        /\ pc' = [pc EXCEPT ![t] = "asleep"]
        /\ UNCHANGED <<current, ticks, nesting, frames>>
    BY <1>6 DEF current_thread_sleep, At, GoTo
  <2>2. t # Boot /\ t # Idle /\ sched.state[t] \notin {"created", "dead"}
    BY <1>1, <2>1 DEF Lifecycle, Workers
  <2>3. Good(sched', {Boot}) /\ sched'.panic = sched.panic
        /\ sched'.state = [sched.state EXCEPT ![t] = "blocked"]
    BY <1>1, <2>1, <2>2, MakeBlocked
  <2>4. \A w \in Threads : sched'.state[w] = IF w = t THEN "blocked" ELSE sched.state[w]
    BY <1>2, <2>3
  <2>5. RunningIsCurrent'
    BY <1>1, <2>1, <2>4 DEF RunningIsCurrent
  <2>6. /\ pc' \in [Threads -> Labels]
        /\ \A w \in Threads : pc'[w] = IF w = t THEN "asleep" ELSE pc[w]
    BY SMTT(30), <1>2, <2>1 DEF Labels
  <2>7. Lifecycle'
    BY SMTT(30), <1>1, <1>2, <2>1, <2>2, <2>4, <2>6 DEF Lifecycle
  <2> QED BY <1>2, <2>1, <2>3, <2>5, <2>6, <2>7, ThreadStepGood
<1>7. CASE SleepYield(t)
  <2>1. /\ current = t /\ frames[t] = <<>> /\ pc[t] = "asleep"
        /\ scheduler_yield(sched)
        /\ pc' = [pc EXCEPT ![t] = "run"]
        /\ UNCHANGED <<ticks, nesting, frames>>
    BY <1>7 DEF SleepYield, At, GoTo
  <2>2. pc[Boot] # "boot" /\ sched.state[Idle] \in {"running", "runnable"}
    BY <1>1, <2>1 DEF Lifecycle
  <2>3. /\ Good(sched', {Boot}) /\ current' \in Threads /\ RunningIsCurrent'
        /\ sched'.panic = sched.panic /\ sched'.state[current'] = "running"
        /\ \A w \in Threads : sched'.state[w] \in {sched.state[w], "running", "runnable"}
        /\ \A w \in Threads : sched'.state[w] = "created" <=> sched.state[w] = "created"
        /\ current' = Boot => sched.state[Boot] = "running"
        /\ sched.state[Boot] = "dead" <=> sched'.state[Boot] = "dead"
    BY <1>1, <2>1, <2>2, YieldGood, Zenon DEF RunningIsCurrent
  <2>4. /\ pc' \in [Threads -> Labels]
        /\ \A w \in Threads : pc'[w] = IF w = t THEN "run" ELSE pc[w]
    BY SMTT(30), <1>2, <2>1 DEF Labels
  <2>5. Lifecycle'
    BY SMTT(30), <1>1, <1>2, <2>1, <2>2, <2>3, <2>4 DEF Lifecycle
  <2> QED BY <1>2, <2>1, <2>3, <2>4, <2>5, ThreadStepGood
<1>8. CASE scheduler_block(t)
  <2> DEFINE s == scheduler_make_blocked(sched, t)
  <2>1. /\ t \in Workers /\ current = t /\ frames[t] = <<>> /\ pc[t] = "run"
        /\ scheduler_yield(s)
        /\ UNCHANGED <<ticks, nesting, frames, pc>>
    BY <1>8 DEF scheduler_block, At
  <2>2. /\ t # Boot /\ t # Idle /\ sched.state[t] \notin {"created", "dead"}
        /\ pc[Boot] # "boot" /\ sched.state[Idle] \in {"running", "runnable"}
    BY <1>1, <2>1 DEF Lifecycle, Workers
  <2>3. Good(s, {Boot}) /\ s.panic = sched.panic
        /\ s.state = [sched.state EXCEPT ![t] = "blocked"]
    BY <1>1, <2>2, MakeBlocked
  <2> HIDE DEF s
  <2>4. \A w \in Threads : s.state[w] = IF w = t THEN "blocked" ELSE sched.state[w]
    BY <1>2, <2>3
  <2>5. /\ s.state[Idle] \in {"running", "runnable"}
        /\ \A w \in Threads : s.state[w] = "running" => w = current
    BY <1>1, <2>2, <2>4 DEF RunningIsCurrent
  <2>6. /\ Good(sched', {Boot}) /\ current' \in Threads /\ RunningIsCurrent'
        /\ sched'.panic = sched.panic /\ sched'.state[current'] = "running"
        /\ \A w \in Threads : sched'.state[w] \in {s.state[w], "running", "runnable"}
        /\ \A w \in Threads : sched'.state[w] = "created" <=> s.state[w] = "created"
        /\ current' = Boot => s.state[Boot] = "running"
        /\ s.state[Boot] = "dead" <=> sched'.state[Boot] = "dead"
    BY <1>1, <2>1, <2>3, <2>5, YieldGood, Zenon
  <2>7. Lifecycle'
    BY <1>1, <1>2, <2>1, <2>2, <2>4, <2>6 DEF Lifecycle
  <2> QED BY SMTT(30), <1>2, <2>1, <2>6, <2>7, ThreadStepGood
<1>9. CASE thread_exit(t)
  <2>1. /\ t \in Exiting \cup {Boot} /\ current = t /\ frames[t] = <<>> /\ pc[t] = "run"
        /\ sched' = SetState(sched, t, "dead")
        /\ pc' = [pc EXCEPT ![t] = "exit"]
        /\ UNCHANGED <<current, ticks, nesting, frames>>
    BY <1>9 DEF thread_exit, At, GoTo
  <2>2. t # Idle /\ sched.state[t] \notin {"created", "blocked", "dead"}
    BY <1>1, <2>1 DEF Lifecycle
  <2>3. /\ sched' = [sched EXCEPT !.state = [sched.state EXCEPT ![t] = "dead"]]
        /\ [sched.state EXCEPT ![t] = "dead"] \in [Threads -> ThreadStates]
    BY <1>2, <2>1, States DEF SetState
  <2>4. sched' \in SchedulerType
    BY <1>1, <2>3, Zenon DEF Good, SchedulerType
  <2>5. /\ sched'.runnable = sched.runnable /\ sched'.blocked = sched.blocked
        /\ sched'.panic = sched.panic
        /\ sched'.state = [sched.state EXCEPT ![t] = "dead"]
    BY <1>1, <2>3 DEF Good, SchedulerType
  <2>6. \A w \in Threads : sched'.state[w] = IF w = t THEN "dead" ELSE sched.state[w]
    BY <1>2, <2>5
  <2>7. Consistent(sched', {Boot})
    BY <1>1, <2>2, <2>5, <2>6 DEF Good, Consistent
  <2>8. RunningIsCurrent'
    BY <1>1, <2>1, <2>6 DEF RunningIsCurrent
  <2>9. /\ pc' \in [Threads -> Labels]
        /\ \A w \in Threads : pc'[w] = IF w = t THEN "exit" ELSE pc[w]
    BY <1>2, <2>1 DEF Labels
  <2>10. Lifecycle'
    BY SMTT(30), <1>1, <1>2, <2>1, <2>2, <2>6, <2>9 DEF Lifecycle
  <2> QED BY <1>2, <2>1, <2>4, <2>5, <2>7, <2>8, <2>9, <2>10, ThreadStepGood DEF Good
<1>10. CASE ExitYield(t)
  <2>1. /\ current = t /\ frames[t] = <<>> /\ pc[t] = "exit"
        /\ scheduler_yield(sched)
        /\ pc' = [pc EXCEPT ![t] = "gone"]
        /\ UNCHANGED <<ticks, nesting, frames>>
    BY <1>10 DEF ExitYield, At, GoTo
  <2>2. pc[Boot] # "boot" /\ sched.state[Idle] \in {"running", "runnable"}
    BY <1>1, <2>1 DEF Lifecycle
  <2>3. /\ Good(sched', {Boot}) /\ current' \in Threads /\ RunningIsCurrent'
        /\ sched'.panic = sched.panic /\ sched'.state[current'] = "running"
        /\ \A w \in Threads : sched'.state[w] \in {sched.state[w], "running", "runnable"}
        /\ \A w \in Threads : sched'.state[w] = "created" <=> sched.state[w] = "created"
        /\ current' = Boot => sched.state[Boot] = "running"
        /\ sched.state[Boot] = "dead" <=> sched'.state[Boot] = "dead"
    BY <1>1, <2>1, <2>2, YieldGood, Zenon DEF RunningIsCurrent
  <2>4. /\ pc' \in [Threads -> Labels]
        /\ \A w \in Threads : pc'[w] = IF w = t THEN "gone" ELSE pc[w]
    BY SMTT(30), <1>2, <2>1 DEF Labels
  <2>5. Lifecycle'
    BY <1>1, <1>2, <2>1, <2>2, <2>3, <2>4 DEF Lifecycle
  <2> QED BY <1>2, <2>1, <2>3, <2>4, <2>5, ThreadStepGood
<1>11. CASE DeadResumed(t)
  <2>1. /\ current = t /\ frames[t] = <<>>
        /\ sched' = [sched EXCEPT !.panic = TRUE]
        /\ UNCHANGED <<current, ticks, nesting, frames, pc>>
    BY <1>11 DEF DeadResumed, At
  <2>2. /\ sched' \in SchedulerType
        /\ sched'.runnable = sched.runnable /\ sched'.blocked = sched.blocked
        /\ sched'.state = sched.state
    BY <1>1, <2>1, Zenon DEF Good, SchedulerType
  <2>3. Consistent(sched', {Boot})
    BY <1>1, <2>2 DEF Good, Consistent
  <2>4. RunningIsCurrent'
    BY <1>1, <2>1, <2>2 DEF RunningIsCurrent
  <2>5. Lifecycle'
    BY <1>1, <2>1, <2>2 DEF Lifecycle
  <2> QED BY <1>2, <1>11, <2>1, <2>2, <2>3, <2>4, <2>5, ThreadStepGood DEF Good
<1> QED
  BY <1>3, <1>4, <1>5, <1>6, <1>7, <1>8, <1>9, <1>10, <1>11 DEF ThreadStep

----------------------------------------------------------------------------
(* The induction.                                                          *)

(* Every step of a handler preserves the invariant and does not panic. *)
LEMMA HandlerIInv ==
  ASSUME IInv, Handler
  PROVE  IInv' /\ sched'.panic = sched.panic
<1> USE ThreadsAssumption
<1>1. CpuInv({Boot}) /\ Lifecycle /\ \A v \in Vectors : Deferred[v] \notin {Boot}
  BY DEF IInv
<1>2. Good(sched, {Boot}) /\ CpuTypeOK /\ RunningIsCurrent /\ current \in Threads
  BY <1>1 DEF CpuInv, CpuTypeOK, Good
<1>3. Depth > 0 /\ HandlerStep /\ pc' = pc
  BY DEF Handler, HandlerStep, TickLoad, TickStore, HandlerDefer, HandlerDone, Defers,
         HandlerLeave, HandlerYield, InHandler
<1>4. pc[Boot] # "boot" /\ sched.state[Idle] \in {"running", "runnable"}
  BY <1>1, <1>2, <1>3 DEF Lifecycle, Depth
<1>5. CASE ~HandlerYield
  <2>1. /\ CpuInv({Boot})' /\ current' = current /\ sched'.panic = sched.panic
        /\ WakesOnly
    BY <1>1, <1>3, <1>5, HandlerGood
  <2>2. Lifecycle'
    BY <1>1, <1>2, <1>3, <1>4, <2>1 DEF Lifecycle, WakesOnly
  <2> QED BY <1>3, <2>1, <2>2 DEF IInv
<1>6. CASE HandlerYield
  <2>1. scheduler_yield(sched)
    BY <1>6 DEF HandlerYield
  <2>2. /\ Good(sched', {Boot}) /\ current' \in Threads /\ RunningIsCurrent'
        /\ sched'.panic = sched.panic /\ sched'.state[current'] = "running"
        /\ \A w \in Threads : sched'.state[w] \in {sched.state[w], "running", "runnable"}
        /\ \A w \in Threads : sched'.state[w] = "created" <=> sched.state[w] = "created"
        /\ current' = Boot => sched.state[Boot] = "running"
        /\ sched.state[Boot] = "dead" <=> sched'.state[Boot] = "dead"
    BY <1>2, <1>4, <2>1, YieldGood DEF RunningIsCurrent
  <2>3. HandlersFinishBeforeSwitch' /\ CpuTypeOK'
    BY <1>1, <1>2, <1>6, <2>2, YieldKeepsFrames DEF Good, CpuInv
  <2>4. Lifecycle'
    BY SMTT(30), <1>1, <1>2, <1>3, <1>4, <2>1, <2>2 DEF Lifecycle
  <2> QED BY <1>3, <2>2, <2>3, <2>4 DEF IInv, CpuInv, Good
<1> QED
  BY <1>5, <1>6

(* The invariant is inductive, and only DeadResumed panics. *)
LEMMA NextIInv ==
  ASSUME IInv, [Next]_vars
  PROVE  IInv' /\ (sched'.panic = sched.panic \/ \E t \in Threads : DeadResumed(t))
<1> USE ThreadsAssumption
<1>1. CASE ticks_init
  <2>1. /\ current = Boot /\ frames[Boot] = <<>> /\ pc[Boot] = "boot" /\ Spawned(Idle)
        /\ pc' = [pc EXCEPT ![Boot] = "run"]
        /\ UNCHANGED <<sched, current, ticks, nesting, frames>>
    BY <1>1 DEF ticks_init, At, GoTo, cpuVars
  <2>2. /\ Good(sched, {Boot}) /\ Lifecycle /\ RunningIsCurrent
        /\ pc \in [Threads -> Labels] /\ current \in Threads
    BY DEF IInv, CpuInv, CpuTypeOK, Good
  <2>3. /\ pc' \in [Threads -> Labels]
        /\ \A w \in Threads : pc'[w] = IF w = Boot THEN "run" ELSE pc[w]
    BY <2>1, <2>2 DEF Labels
  <2>4. Lifecycle'
    BY <2>1, <2>2, <2>3 DEF Lifecycle
  <2> QED BY <2>1, <2>2, <2>3, <2>4, ThreadStepGood DEF RunningIsCurrent
<1>2. ASSUME NEW t \in Threads, ThreadStep(t)
      PROVE  IInv' /\ (sched'.panic = sched.panic \/ DeadResumed(t))
  BY <1>2, ThreadStepIInv
<1>3. ASSUME NEW v \in Vectors, Arrival(v)
      PROVE  IInv' /\ sched'.panic = sched.panic
  <2>1. /\ pc[Boot] # "boot" /\ Interrupt(v) /\ UNCHANGED <<sched, current, pc>>
    BY <1>3 DEF Arrival, Interrupt
  <2>2. CpuInv({Boot})'
    BY <2>1, InterruptGood DEF IInv
  <2>3. Lifecycle'
    BY <2>1 DEF IInv, Lifecycle
  <2> QED BY <2>1, <2>2, <2>3 DEF IInv
<1>4. CASE Handler
  BY SMTT(30), <1>4, HandlerIInv
<1>5. CASE UNCHANGED vars
  BY <1>5 DEF vars, IInv, CpuInv, CpuTypeOK, Consistent, InList, RunningIsCurrent,
              HandlersFinishBeforeSwitch, Depth, Lifecycle
<1> QED
  BY <1>1, <1>2, <1>3, <1>4, <1>5 DEF Next

(* The inductive invariant holds in every reachable state. *)
THEOREM Invariance == Spec => []IInv
<1>1. IInv /\ [Next]_vars => IInv'
  BY NextIInv
<1> QED
  BY InitIInv, <1>1, PTL DEF Spec

(* Type correctness. *)
THEOREM TypeCorrect == Spec => []TypeOK
<1>1. IInv => TypeOK
  BY DEF IInv, CpuInv, TypeOK
<1> QED
  BY Invariance, <1>1, PTL

(* scheduler.c: whatever the threads and the handlers call, in whatever    *)
(* order, every thread is on the list its state names, once.               *)
THEOREM ListsCorrect == Spec => []ListsMatchStates
<1>1. IInv => ListsMatchStates
  BY DEF IInv, CpuInv, ListsMatchStates
<1> QED
  BY Invariance, <1>1, PTL

(* scheduler_next_thread: only the thread that has the CPU is running. *)
THEOREM RunningCorrect == Spec => []RunningIsCurrent
<1>1. IInv => RunningIsCurrent
  BY DEF IInv, CpuInv
<1> QED
  BY Invariance, <1>1, PTL

(* interrupts_handler: no switch away from an unfinished handler, for any  *)
(* depth of nesting.                                                       *)
THEOREM HandlersCorrect == Spec => []HandlersFinishBeforeSwitch
<1>1. IInv => HandlersFinishBeforeSwitch
  BY DEF IInv, CpuInv
<1> QED
  BY Invariance, <1>1, PTL

(* thread.c and kmain: the life of a thread. *)
THEOREM LifecycleCorrect == Spec => []Lifecycle
<1>1. IInv => Lifecycle
  BY DEF IInv
<1> QED
  BY Invariance, <1>1, PTL

(* A kernel that has panicked takes no further step. *)
LEMMA PanicStops ==
  ASSUME Next
  PROVE  ~sched.panic
<1>1. CASE ticks_init
  BY <1>1 DEF ticks_init, At
<1>2. ASSUME NEW t \in Threads, ThreadStep(t)
      PROVE  ~sched.panic
  BY <1>2 DEF ThreadStep, thread_spawn_kthread, thread_wake, ThreadYield, current_thread_sleep,
              SleepYield, scheduler_block, thread_exit, ExitYield, DeadResumed, At
<1>3. ASSUME NEW v \in Vectors, Arrival(v)
      PROVE  ~sched.panic
  BY <1>3 DEF Arrival, Interrupt
<1>4. CASE Handler
  BY <1>4 DEF Handler, HandlerStep, TickLoad, TickStore, HandlerDefer, HandlerDone, Defers,
              HandlerLeave, HandlerYield, InHandler
<1> QED
  BY <1>1, <1>2, <1>3, <1>4 DEF Next

(* scheduler.c and thread.c: no assertion of the scheduler fails, and the  *)
(* panic of thread_exit is reached only by a thread, other than            *)
(* kbootstrap, whose function has returned.                                *)
THEOREM PanicFree == Spec => []NoPanic
<1>1. Init => NoPanic
  BY DEF Init, NoPanic, scheduler_init
<1>2. IInv /\ NoPanic /\ [Next]_vars => NoPanic'
  <2> SUFFICES ASSUME IInv, NoPanic, [Next]_vars PROVE NoPanic'
    OBVIOUS
  <2>1. CASE UNCHANGED vars
    BY <2>1 DEF vars, NoPanic
  <2>2. CASE Next
    <3>1. ~sched.panic
      BY <2>2, PanicStops
    <3>2. sched'.panic = sched.panic \/ \E t \in Threads : DeadResumed(t)
      BY NextIInv
    <3>3. ASSUME NEW t \in Threads, DeadResumed(t)
          PROVE  current' \in Exiting /\ pc'[current'] = "gone"
      <4>1. current = t /\ pc[t] = "gone" /\ UNCHANGED <<current, pc>>
        BY <3>3 DEF DeadResumed, At
      <4> QED BY <4>1 DEF IInv, Lifecycle
    <3>4. CASE sched'.panic = sched.panic
      <4>1. ~sched'.panic
        BY <3>1, <3>4
      <4> QED BY <4>1, Zenon DEF NoPanic
    <3>5. CASE \E t \in Threads : DeadResumed(t)
      <4>1. current' \in Exiting /\ pc'[current'] = "gone"
        BY <3>3, <3>5, Zenon
      <4> QED BY <4>1, Zenon DEF NoPanic
    <3> QED BY <3>2, <3>4, <3>5
  <2> QED BY <2>1, <2>2
<1> QED
  BY Invariance, <1>1, <1>2, PTL DEF Spec

(* When no thread but kbootstrap returns from its function, the kernel     *)
(* never panics.                                                           *)
COROLLARY NeverPanics ==
  ASSUME Exiting = {}
  PROVE  Spec => []~sched.panic
<1>1. NoPanic => ~sched.panic
  BY DEF NoPanic
<1> QED
  BY PanicFree, <1>1, PTL

----------------------------------------------------------------------------
(* Round robin.                                                            *)

(* No step moves a waiting thread back on the runnable list. *)
LEMMA NextKeepsOrder ==
  ASSUME IInv, Next
  PROVE  KeepsOrder(sched, sched')
<1> USE ThreadsAssumption
<1>1. /\ CpuInv({Boot}) /\ Good(sched, {Boot}) /\ CpuTypeOK /\ Lifecycle
      /\ RunningIsCurrent
  BY DEF IInv, CpuInv, CpuTypeOK, Good
<1>2. sched.state \in [Threads -> ThreadStates] /\ current \in Threads
  BY <1>1 DEF CpuTypeOK, SchedulerType
<1>3. ASSUME sched'.runnable = sched.runnable
      PROVE  KeepsOrder(sched, sched')
  BY <1>1, <1>2, <1>3, OrderKept, Zenon
<1>4. ASSUME scheduler_yield(sched), pc[Boot] # "boot"
      PROVE  KeepsOrder(sched, sched')
  <2>1. sched.runnable # <<>>
    BY <1>1, <1>4 DEF Lifecycle, Good, Consistent, InList
  <2> QED BY <1>1, <1>4, <2>1, YieldStates DEF RunningIsCurrent
<1>5. ASSUME NEW t \in Threads, ThreadStep(t)
      PROVE  KeepsOrder(sched, sched')
  <2>1. ASSUME NEW u \in Threads, thread_spawn_kthread(t, u)
        PROVE  KeepsOrder(sched, sched')
    <3>1. sched.state[u] = "created" /\ sched' = scheduler_add_thread(sched, u)
      BY <2>1 DEF thread_spawn_kthread
    <3>2. u \notin {Boot}
      BY <1>1, <3>1 DEF Lifecycle
    <3> QED BY <1>1, <3>1, <3>2, AddThread, Zenon
  <2>2. ASSUME NEW u \in Threads, thread_wake(t, u)
        PROVE  KeepsOrder(sched, sched')
    <3>1. /\ u \notin {Boot} /\ sched.state[u] \notin {"created", "dead"}
          /\ sched' = scheduler_make_runnable(sched, u)
      BY <2>2 DEF thread_wake, Workers
    <3> QED BY <1>1, <3>1, MakeRunnable, Zenon
  <2>3. CASE ThreadYield(t) \/ SleepYield(t) \/ ExitYield(t)
    <3>1. scheduler_yield(sched) /\ current = t /\ pc[t] \in {"run", "asleep", "exit"}
          /\ (pc[t] = "run" => t \in Workers)
      BY <2>3 DEF ThreadYield, SleepYield, ExitYield, At
    <3>2. pc[Boot] # "boot"
      BY <1>1, <3>1 DEF Lifecycle, Workers
    <3> QED BY <1>4, <3>1, <3>2
  <2>4. ASSUME t \in Workers, At(t, "run")
        PROVE  LET s == scheduler_make_blocked(sched, t)
               IN  /\ Good(s, {Boot}) /\ KeepsOrder(sched, s)
                   /\ s.state = [sched.state EXCEPT ![t] = "blocked"]
    <3>1. t \notin {Boot} /\ sched.state[t] \notin {"created", "dead"}
      BY <1>1, <2>4 DEF Lifecycle, Workers, At
    <3> QED BY <1>1, <3>1, MakeBlocked
  <2>5. CASE current_thread_sleep(t)
    BY <2>4, <2>5 DEF current_thread_sleep
  <2>6. CASE scheduler_block(t)
    <3> DEFINE s == scheduler_make_blocked(sched, t)
    <3>1. /\ Good(s, {Boot}) /\ KeepsOrder(sched, s)
          /\ s.state = [sched.state EXCEPT ![t] = "blocked"]
          /\ scheduler_yield(s) /\ t \in Workers /\ current = t /\ pc[t] = "run"
      BY <2>4, <2>6 DEF scheduler_block, At
    <3> HIDE DEF s
    <3>2. \A u \in Threads : s.state[u] = IF u = t THEN "blocked" ELSE sched.state[u]
      BY <1>2, <3>1
    <3>3. s.runnable # <<>>
      BY <1>1, <3>1, <3>2 DEF Lifecycle, Workers, Good, Consistent, InList
    <3>4. \A u \in Threads : s.state[u] = "running" => u = current
      BY <1>1, <3>2 DEF RunningIsCurrent
    <3>5. /\ KeepsOrder(s, sched') /\ Good(sched', {Boot})
          /\ \A u \in Threads :
               sched'.state[u] = IF u = current' THEN "running"
                                 ELSE IF u = current /\ s.state[current] = "running" THEN "runnable"
                                 ELSE s.state[u]
      <4>1. CpuTypeOK /\ Good(s, {Boot}) /\ scheduler_yield(s)
        BY <1>1, <3>1
      <4> QED BY <3>3, <3>4, <4>1, YieldStates
    <3>6. ASSUME NEW u \in Threads,
                 sched.state[u] = "runnable", sched'.state[u] = "runnable",
                 InList(sched.runnable, u)
          PROVE  Index(sched'.runnable, u) <= Index(sched.runnable, u)
      <4>1. u # t
        <5>1. s.state[t] = "blocked"
          BY <3>2
        <5>2. sched'.state[t] \in {"running", "blocked"}
          BY <3>1, <3>5, <5>1
        <5> QED BY <3>6, <5>2
      <4>2. s.state[u] = "runnable" /\ InList(s.runnable, u)
        <5>1. s.state[u] = "runnable"
          BY <3>2, <3>6, <4>1
        <5>2. u \notin {Boot}
          BY <1>1, <3>6 DEF Good, Consistent
        <5>3. Consistent(s, {Boot})
          BY <3>1 DEF Good
        <5> QED BY <5>1, <5>2, <5>3 DEF Consistent
      <4>3. /\ Index(s.runnable, u) <= Index(sched.runnable, u)
            /\ Index(sched'.runnable, u) <= Index(s.runnable, u)
        BY <3>1, <3>5, <3>6, <4>2 DEF KeepsOrder
      <4>4. ASSUME NEW r, Good(r, {Boot}), r.state[u] = "runnable"
            PROVE  Index(r.runnable, u) \in Nat
        <5>1. u \notin {Boot}
          BY <1>1, <3>6 DEF Good, Consistent
        <5>2. r.runnable \in Seq(Threads) /\ IsInjective(r.runnable) /\ InList(r.runnable, u)
          BY <4>4, <5>1 DEF Good, SchedulerType, Consistent
        <5> QED BY <5>2, IndexAfter
      <4>5. /\ Index(sched.runnable, u) \in Nat /\ Index(s.runnable, u) \in Nat
            /\ Index(sched'.runnable, u) \in Nat
        BY <1>1, <3>1, <3>5, <3>6, <4>2, <4>4, Zenon
      <4> QED BY <4>3, <4>5
    <3> QED BY <3>6 DEF KeepsOrder
  <2>7. CASE thread_exit(t) \/ DeadResumed(t)
    <3>1. sched'.runnable = sched.runnable
      BY <1>1, <2>7 DEF thread_exit, DeadResumed, SetState, CpuTypeOK, SchedulerType
    <3> QED BY <1>3, <3>1
  <2> QED
    BY <1>5, <2>1, <2>2, <2>3, <2>5, <2>6, <2>7 DEF ThreadStep
<1>6. CASE Handler
  <2>1. HandlerStep /\ \A v \in Vectors : Deferred[v] \notin {Boot}
    BY <1>6 DEF Handler
  <2>2. CASE ~HandlerYield
    BY <1>1, <2>1, <2>2, HandlerGood
  <2>3. CASE HandlerYield
    <3>1. Depth > 0 /\ scheduler_yield(sched)
      BY <2>3 DEF HandlerYield, InHandler
    <3>2. pc[Boot] # "boot"
      BY <1>1, <1>2, <3>1 DEF Lifecycle, Depth
    <3> QED BY <1>4, <3>1, <3>2
  <2> QED BY <2>2, <2>3
<1>7. CASE ticks_init \/ \E v \in Vectors : Arrival(v)
  BY <1>3, <1>7 DEF ticks_init, Arrival, Interrupt, cpuVars
<1> QED
  BY <1>5, <1>6, <1>7 DEF Next

(* scheduler.c: whoever is woken, spawned, blocked or preempted meanwhile, *)
(* nothing is put in front of a thread that waits on the runnable list.    *)
THEOREM RoundRobin == Spec => NoOvertaking
<1>1. IInv /\ [Next]_vars =>
        [\A t \in Threads :
           /\ sched.state[t] = "runnable" /\ sched'.state[t] = "runnable"
           /\ InList(sched.runnable, t)
           => Index(sched'.runnable, t) <= Index(sched.runnable, t)]_vars
  BY NextKeepsOrder DEF KeepsOrder
<1> QED
  BY Invariance, <1>1, PTL DEF Spec, NoOvertaking

----------------------------------------------------------------------------
(* Threads implements Cpu: the argument that lets the drivers be written   *)
(* and checked on Cpu.                                                     *)

(* The ready threads of a scheduler record; readyBar is Ready(sched). *)
Ready(s) == {t \in Threads \ {Boot} : s.state[t] \notin {"created", "blocked"}}

(* scheduler_next_thread changes no thread's readiness and picks a ready   *)
(* thread, or keeps the current one.                                       *)
LEMMA YieldKeepsReady ==
  ASSUME CpuTypeOK, NEW s, Good(s, {Boot}), scheduler_yield(s),
         s.state[Idle] \in {"running", "runnable"},
         \A t \in Threads : s.state[t] = "running" => t = current
  PROVE  /\ Ready(sched') = Ready(s)
         /\ current' \in Ready(s) \/ (current' = current /\ s.state[current] = "running")
<1> USE ThreadsAssumption
<1>1. s.runnable # <<>>
  BY DEF Good, Consistent, InList
<1>4. /\ current' \in Threads
      /\ (current' = current /\ s.state[current] = "running") \/ InList(s.runnable, current')
      /\ \A t \in Threads :
           sched'.state[t] = IF t = current' THEN "running"
                             ELSE IF t = current /\ s.state[current] = "running" THEN "runnable"
                             ELSE s.state[t]
  BY <1>1, YieldStates
<1>5. InList(s.runnable, current') =>
        current' # Boot /\ s.state[current'] \in {"running", "runnable", "dead"}
  BY <1>4 DEF Good, Consistent
<1>6. s.state[current'] \notin {"created", "blocked"}
  BY <1>4, <1>5
<1>7. \A t \in Threads : sched'.state[t] \in {"created", "blocked"}
                           <=> s.state[t] \in {"created", "blocked"}
  BY <1>4, <1>6
<1> QED BY <1>4, <1>5, <1>6, <1>7 DEF Ready

(* A yield is a step of Cpu, or changes nothing Cpu sees. *)
LEMMA YieldIsCpuStep ==
  ASSUME IInv, scheduler_yield(sched), sched.state[Idle] \in {"running", "runnable"}
  PROVE  [C!CpuNext]_(C!cpu)
<1>1. CpuTypeOK /\ Good(sched, {Boot})
  BY DEF IInv, CpuInv, CpuTypeOK, Good
<1>2. \A t \in Threads : sched.state[t] = "running" => t = current
  BY DEF IInv, CpuInv, RunningIsCurrent
<1>3. /\ Ready(sched') = Ready(sched)
      /\ current' \in Ready(sched) \/ current' = current
  BY <1>1, <1>2, YieldKeepsReady
<1>4. readyBar' = readyBar /\ (current' \in readyBar \/ current' = current)
  BY <1>3 DEF Ready, readyBar
<1> QED BY <1>4 DEF C!CpuNext, C!Yield, C!cpu

(* A thread becomes ready. *)
LEMMA WakeIsCpuStep ==
  ASSUME IInv, NEW u \in Threads, u # Boot, UNCHANGED current,
         sched'.state = [sched.state EXCEPT ![u] = "runnable"]
  PROVE  [C!CpuNext]_(C!cpu)
<1>1. sched.state \in [Threads -> ThreadStates]
  BY DEF IInv, CpuInv, CpuTypeOK, SchedulerType
<1>2. \A w \in Threads : sched'.state[w] = IF w = u THEN "runnable" ELSE sched.state[w]
  BY <1>1
<1>3. readyBar' = readyBar \cup {u}
  BY <1>2 DEF readyBar
<1> QED BY <1>3 DEF C!CpuNext, C!Wake

(* Steps that leave the states and the current thread alone. *)
LEMMA StutterIsCpuStep ==
  ASSUME UNCHANGED <<sched, current>>
  PROVE  [C!CpuNext]_(C!cpu)
  BY DEF readyBar, C!cpu

(* The operations of thread.c. *)
LEMMA ThreadStepIsCpuStep ==
  ASSUME IInv, NEW t \in Threads, ThreadStep(t)
  PROVE  [C!CpuNext]_(C!cpu)
<1> USE ThreadsAssumption
<1>1. Good(sched, {Boot}) /\ CpuTypeOK /\ Lifecycle /\ RunningIsCurrent
  BY DEF IInv, CpuInv, CpuTypeOK, Good
<1>2. sched.state \in [Threads -> ThreadStates]
  BY <1>1 DEF CpuTypeOK, SchedulerType
<1>3. ASSUME NEW u \in Threads, thread_spawn_kthread(t, u)
      PROVE  [C!CpuNext]_(C!cpu)
  <2>1. sched.state[u] = "created" /\ sched' = scheduler_add_thread(sched, u) /\ UNCHANGED current
    BY <1>3 DEF thread_spawn_kthread
  <2>2. u # Boot
    BY <1>1, <2>1 DEF Lifecycle
  <2>3. sched'.state = [sched.state EXCEPT ![u] = "runnable"]
    BY <1>1, <2>1, <2>2, AddThread
  <2> QED BY <2>1, <2>2, <2>3, WakeIsCpuStep
<1>4. ASSUME NEW u \in Threads, thread_wake(t, u)
      PROVE  [C!CpuNext]_(C!cpu)
  <2>1. /\ u # Boot /\ sched.state[u] \notin {"created", "dead"}
        /\ sched' = scheduler_make_runnable(sched, u) /\ UNCHANGED current
    BY <1>4 DEF thread_wake, Workers
  <2>2. sched'.state = [sched.state EXCEPT ![u] = "runnable"]
    BY <1>1, <2>1, MakeRunnable
  <2> QED BY <2>1, <2>2, WakeIsCpuStep
<1>5. CASE ThreadYield(t) \/ SleepYield(t) \/ ExitYield(t)
  <2>1. scheduler_yield(sched) /\ current = t /\ pc[t] \in {"run", "asleep", "exit"}
        /\ (pc[t] = "run" => t \in Workers)
    BY <1>5 DEF ThreadYield, SleepYield, ExitYield, At
  <2>2. pc[Boot] # "boot"
    BY <1>1, <2>1 DEF Lifecycle, Workers
  <2>3. sched.state[Idle] \in {"running", "runnable"}
    BY <1>1, <2>2 DEF Lifecycle, Spawned
  <2> QED BY <2>1, <2>3, YieldIsCpuStep
<1>6. CASE current_thread_sleep(t)
  <2>1. /\ t # Boot /\ current = t /\ pc[t] = "run"
        /\ sched' = scheduler_make_blocked(sched, t) /\ UNCHANGED current
    BY <1>6 DEF current_thread_sleep, At, Workers
  <2>2. sched.state[t] \notin {"created", "dead"}
    BY <1>1, <2>1 DEF Lifecycle, Spawned
  <2>3. sched'.state = [sched.state EXCEPT ![t] = "blocked"]
    BY <1>1, <2>1, <2>2, MakeBlocked
  <2>4. \A w \in Threads : sched'.state[w] = IF w = t THEN "blocked" ELSE sched.state[w]
    BY <1>2, <2>3
  <2>5. readyBar' = readyBar \ {t}
    BY <2>4 DEF readyBar
  <2> QED BY <2>1, <2>5 DEF C!CpuNext, C!Block
<1>7. CASE scheduler_block(t)
  <2> DEFINE s == scheduler_make_blocked(sched, t)
  <2>1. t \in Workers /\ current = t /\ pc[t] = "run" /\ scheduler_yield(s)
    BY <1>7 DEF scheduler_block, At
  <2>2. /\ t # Boot /\ t # Idle /\ sched.state[t] \notin {"created", "dead"}
        /\ sched.state[Idle] \in {"running", "runnable"}
    BY <1>1, <2>1 DEF Lifecycle, Workers, Spawned
  <2>3. Good(s, {Boot}) /\ s.state = [sched.state EXCEPT ![t] = "blocked"]
    BY <1>1, <2>2, MakeBlocked
  <2> HIDE DEF s
  <2>4. \A w \in Threads : s.state[w] = IF w = t THEN "blocked" ELSE sched.state[w]
    BY <1>2, <2>3
  <2>5. /\ s.state[Idle] \in {"running", "runnable"} /\ s.state[current] = "blocked"
        /\ \A w \in Threads : s.state[w] = "running" => w = current
    BY <1>1, <2>1, <2>2, <2>4 DEF RunningIsCurrent
  <2>6. Ready(sched') = Ready(s) /\ current' \in Ready(s)
    BY <1>1, <2>1, <2>3, <2>5, YieldKeepsReady, Zenon
  <2>7. Ready(s) = readyBar \ {t}
    BY <2>4 DEF Ready, readyBar
  <2>8. readyBar' = readyBar \ {current} /\ current' \in readyBar'
    BY <2>1, <2>6, <2>7 DEF Ready, readyBar
  <2> QED BY <2>8 DEF C!CpuNext, C!BlockAndYield
<1>8. CASE thread_exit(t)
  <2>1. /\ current = t /\ pc[t] = "run" /\ sched' = SetState(sched, t, "dead")
        /\ UNCHANGED current
    BY <1>8 DEF thread_exit, At
  <2>2. sched.state[t] \notin {"created", "blocked"}
    BY <1>1, <2>1 DEF Lifecycle, Spawned
  <2>3. \A w \in Threads : sched'.state[w] = IF w = t THEN "dead" ELSE sched.state[w]
    BY <1>1, <1>2, <2>1 DEF SetState, CpuTypeOK, SchedulerType
  <2>4. readyBar' = readyBar
    BY <2>2, <2>3 DEF readyBar
  <2> QED BY <2>1, <2>4 DEF C!cpu
<1>9. CASE DeadResumed(t)
  <2>1. sched' = [sched EXCEPT !.panic = TRUE] /\ UNCHANGED current
    BY <1>9 DEF DeadResumed
  <2>2. sched'.state = sched.state
    BY <1>1, <2>1 DEF CpuTypeOK, SchedulerType
  <2> QED BY <2>1, <2>2 DEF readyBar, C!cpu
<1> QED BY <1>3, <1>4, <1>5, <1>6, <1>7, <1>8, <1>9 DEF ThreadStep

(* Interrupt handlers. *)
LEMMA HandlerIsCpuStep ==
  ASSUME IInv, Handler
  PROVE  [C!CpuNext]_(C!cpu)
<1> USE ThreadsAssumption
<1>1. Good(sched, {Boot}) /\ CpuTypeOK /\ Lifecycle
  BY DEF IInv, CpuInv, CpuTypeOK, Good
<1>2. CASE TickLoad \/ TickStore \/ HandlerLeave \/ \E v \in Vectors : HandlerDone(v)
  <2>1. UNCHANGED <<sched, current>>
    BY <1>2 DEF TickLoad, TickStore, HandlerLeave, HandlerDone
  <2> QED BY <2>1, StutterIsCpuStep
<1>3. ASSUME NEW v \in Vectors, HandlerDefer(v)
      PROVE  [C!CpuNext]_(C!cpu)
  <2> DEFINE u == Deferred[v]
  <2>1. /\ sched.state[u] \notin {"created", "dead"} /\ UNCHANGED current
        /\ sched' = scheduler_make_runnable(sched, u)
    BY <1>3 DEF HandlerDefer
  <2>2. u \in Threads /\ u # Boot
    BY DeferredAssumption
  <2>3. sched'.state = [sched.state EXCEPT ![u] = "runnable"]
    BY <1>1, <2>1, <2>2, MakeRunnable
  <2> QED BY <2>1, <2>2, <2>3, WakeIsCpuStep
<1>4. CASE HandlerYield
  <2>1. scheduler_yield(sched) /\ Depth > 0
    BY <1>4 DEF HandlerYield, InHandler
  <2>2. pc[Boot] # "boot"
    BY <1>1, <2>1 DEF Lifecycle, Depth, CpuTypeOK
  <2>3. sched.state[Idle] \in {"running", "runnable"}
    BY <1>1, <2>2 DEF Lifecycle, Spawned
  <2> QED BY <2>1, <2>3, YieldIsCpuStep
<1> QED BY <1>2, <1>3, <1>4 DEF Handler, HandlerStep

(* Threads implements Cpu: in no interleaving of thread calls, interrupts  *)
(* and nested handlers does scheduler.c give the CPU to a thread that is   *)
(* not ready, or take readiness from a thread other than the current one.  *)
THEOREM CpuRefined == Spec => ImplementsCpu
<1>1. Init => C!CpuInit
  BY ThreadsAssumption DEF Init, C!CpuInit, readyBar
<1>2. IInv /\ [Next]_vars => [C!CpuNext]_(C!cpu)
  <2> SUFFICES ASSUME IInv, [Next]_vars PROVE [C!CpuNext]_(C!cpu)
    OBVIOUS
  <2>1. CASE UNCHANGED vars
    BY <2>1, StutterIsCpuStep DEF vars
  <2>2. CASE ticks_init
    BY <2>2, StutterIsCpuStep DEF ticks_init, cpuVars
  <2>3. CASE \E t \in Threads : ThreadStep(t)
    BY <2>3, ThreadStepIsCpuStep
  <2>4. CASE \E v \in Vectors : Arrival(v)
    BY <2>4, StutterIsCpuStep DEF Arrival, Interrupt
  <2>5. CASE Handler
    BY <2>5, HandlerIsCpuStep
  <2> QED BY <2>1, <2>2, <2>3, <2>4, <2>5 DEF Next
<1> QED BY Invariance, <1>1, <1>2, PTL DEF Spec, ImplementsCpu, C!CpuSpec

=============================================================================
