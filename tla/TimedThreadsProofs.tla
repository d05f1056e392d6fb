------------------------- MODULE TimedThreadsProofs -------------------------
(***************************************************************************)
(* Timers implements Threads: every step of the timers is a step of the    *)
(* threads and handlers of Threads, or none.                               *)
(***************************************************************************)
EXTENDS TimedThreads, TimersProofs

----------------------------------------------------------------------------
(* Timers implements Threads.                                              *)

(* The frames of a stack as Threads sees them. *)
FrameBar(e) ==
  IF e.at \in {"advance", "wake"} THEN [at |-> "timers", loaded |-> 0] ELSE e

Bar(f) == [i \in DOMAIN f |-> FrameBar(f[i])]

(* The length and the elements of a stack that Threads sees. *)
LEMMA BarSeq ==
  ASSUME NEW f \in Seq(FrameType)
  PROVE  /\ Bar(f) \in Seq(FrameType) /\ Len(Bar(f)) = Len(f)
         /\ \A i \in 1 .. Len(f) : Bar(f)[i] = FrameBar(f[i])
         /\ f = <<>> => Bar(f) = <<>>
<1> DEFINE b == Bar(f)
<1>1. [at |-> "timers", loaded |-> 0] \in FrameType
  BY WordAssumption DEF FrameType, FrameStages, Words
<1>2. b = [i \in 1 .. Len(f) |-> FrameBar(f[i])]
  BY DEF Bar
<1>3. \A i \in 1 .. Len(f) : FrameBar(f[i]) \in FrameType
  BY <1>1 DEF FrameBar
<1> HIDE DEF b
<1>4. b \in [1 .. Len(f) -> FrameType]
  BY <1>2, <1>3
<1>5. b \in Seq(FrameType) /\ Len(b) = Len(f)
  BY <1>4
<1>6. f = <<>> => b = <<>>
  BY <1>5
<1> QED BY <1>2, <1>5, <1>6 DEF b

(* A new frame. *)
LEMMA BarAppend ==
  ASSUME NEW f \in Seq(FrameType), NEW e \in FrameType, FrameBar(e) = e
  PROVE  Bar(Append(f, e)) = Append(Bar(f), e)
<1> DEFINE g == Append(f, e)
           l == Bar(g)
           r == Append(Bar(f), e)
           b == Bar(f)
<1>1. g \in Seq(FrameType) /\ Len(g) = Len(f) + 1
      /\ g[Len(f) + 1] = e /\ \A i \in 1 .. Len(f) : g[i] = f[i]
  OBVIOUS
<1> HIDE DEF g
<1>2. l \in Seq(FrameType) /\ Len(l) = Len(f) + 1
      /\ \A i \in 1 .. Len(f) + 1 : l[i] = FrameBar(g[i])
  BY <1>1, BarSeq
<1>3. b \in Seq(FrameType) /\ Len(b) = Len(f)
      /\ \A i \in 1 .. Len(f) : b[i] = FrameBar(f[i])
  BY BarSeq
<1> HIDE DEF b
<1>4. r \in Seq(FrameType) /\ Len(r) = Len(f) + 1
      /\ r[Len(f) + 1] = e /\ \A i \in 1 .. Len(f) : r[i] = b[i]
  BY <1>3 DEF b
<1> HIDE DEF l, r
<1>5. \A i \in 1 .. Len(f) + 1 : l[i] = r[i]
  BY <1>1, <1>2, <1>3, <1>4
<1>6. l = r
  BY <1>2, <1>4, <1>5, SameElements
<1> QED BY <1>6 DEF l, r, g

(* The end of the innermost handler. *)
LEMMA BarPop ==
  ASSUME NEW f \in Seq(FrameType), Len(f) > 0
  PROVE  Bar(SubSeq(f, 1, Len(f) - 1)) = SubSeq(Bar(f), 1, Len(f) - 1)
<1> DEFINE n == Len(f) - 1
           g == SubSeq(f, 1, n)
           b == Bar(f)
           l == Bar(g)
           r == SubSeq(b, 1, n)
<1>0. n \in Nat /\ n <= Len(f)
  OBVIOUS
<1>1. b \in Seq(FrameType) /\ Len(b) = Len(f)
      /\ \A i \in 1 .. Len(f) : b[i] = FrameBar(f[i])
  BY BarSeq
<1> HIDE DEF n, b
<1>2. g \in Seq(FrameType) /\ Len(g) = n /\ \A i \in 1 .. n : g[i] = f[i]
  BY <1>0
<1>3. r \in Seq(FrameType) /\ Len(r) = n /\ \A i \in 1 .. n : r[i] = b[i]
  BY <1>0, <1>1
<1> HIDE DEF g, r
<1>4. l \in Seq(FrameType) /\ Len(l) = n /\ \A i \in 1 .. n : l[i] = FrameBar(g[i])
  BY <1>2, BarSeq
<1> HIDE DEF l
<1>5. \A i \in 1 .. n : l[i] = r[i]
  BY <1>0, <1>1, <1>2, <1>3, <1>4
<1>6. l = r
  BY <1>3, <1>4, <1>5, SameElements
<1> QED BY <1>6 DEF l, r, g, b, n

(* The innermost handler moves on. *)
LEMMA BarGoto ==
  ASSUME NEW f \in Seq(FrameType), NEW k \in 1 .. Len(f), NEW e \in FrameType
  PROVE  Bar([f EXCEPT ![k] = e]) = [Bar(f) EXCEPT ![k] = FrameBar(e)]
  BY Zenon DEF Bar

(* What the refinement needs of the frames: a tick handler has nothing     *)
(* loaded when it decides about the timers.                                *)
FramesInv ==
  \A t \in Threads : \A i \in 1 .. Len(frames[t]) :
    frames[t][i].at = "timers" => frames[t][i].loaded = 0

(* The stacks before a step. *)
LEMMA FramesBefore ==
  ASSUME SInv
  PROVE  /\ current \in Threads /\ frames \in [Threads -> Seq(FrameType)]
         /\ framesBar = [t \in Threads |-> Bar(frames[t])]
         /\ T!Depth = Depth /\ Depth \in Nat
         /\ \A t \in Threads : frames[t] = <<>> => framesBar[t] = <<>>
         /\ Depth > 0 => Depth \in 1 .. Depth /\ Top \in FrameType /\ T!Top = FrameBar(Top)
<1>1. current \in Threads /\ frames \in [Threads -> Seq(FrameType)]
  BY SchedulerBefore DEF CpuTypeOK
<1>2. framesBar = [t \in Threads |-> Bar(frames[t])]
  BY <1>1 DEF framesBar, Bar, FrameBar
<1>3. frames[current] \in Seq(FrameType) /\ framesBar[current] = Bar(frames[current])
  BY <1>1, <1>2
<1>4. T!Depth = Depth /\ Depth \in Nat
  BY <1>3, BarSeq DEF T!Depth, Depth
<1>5. \A t \in Threads : frames[t] = <<>> => framesBar[t] = <<>>
  BY <1>1, <1>2, BarSeq
<1>6. Depth > 0 => Depth \in 1 .. Depth /\ Top \in FrameType /\ T!Top = FrameBar(Top)
  <2> SUFFICES ASSUME Depth > 0
               PROVE  Depth \in 1 .. Depth /\ Top \in FrameType /\ T!Top = FrameBar(Top)
    OBVIOUS
  <2>1. Depth \in 1 .. Len(frames[current])
    BY <1>3, <1>4 DEF Depth
  <2>2. Top \in FrameType /\ framesBar[current][Depth] = FrameBar(Top)
    BY <1>3, <2>1, BarSeq DEF Top
  <2> QED BY <1>4, <2>1, <2>2 DEF T!Top, Depth
<1> QED BY <1>1, <1>2, <1>4, <1>5, <1>6

(* The stage that Threads sees. *)
LEMMA BarInHandler ==
  ASSUME SInv, NEW stage, InHandler(stage)
  PROVE  T!InHandler(IF stage \in {"advance", "wake"} THEN "timers" ELSE stage)
<1>1. ~sched.panic /\ Depth > 0 /\ Top.at = stage
  BY DEF InHandler
<1>2. T!Depth > 0 /\ T!Top = FrameBar(Top)
  BY <1>1, FramesBefore
<1>3. T!Top.at = IF stage \in {"advance", "wake"} THEN "timers" ELSE stage
  BY <1>1, <1>2 DEF FrameBar
<1> QED BY <1>1, <1>2, <1>3 DEF T!InHandler

(* A change of the current stack. *)
LEMMA BarStack ==
  ASSUME SInv, NEW g, frames' = [frames EXCEPT ![current] = g]
  PROVE  framesBar' = [framesBar EXCEPT ![current] = Bar(g)]
<1>1. framesBar' = [t \in Threads |-> Bar(frames'[t])]
  <2>1. framesBar' = [t \in Threads |-> [i \in DOMAIN frames'[t] |-> FrameBar(frames'[t][i])]]
    BY DEF framesBar, FrameBar
  <2> QED BY <2>1 DEF Bar
<1>2. \A t \in Threads : frames'[t] = IF t = current THEN g ELSE frames[t]
  BY FramesBefore
<1>3. framesBar = [t \in Threads |-> Bar(frames[t])]
  BY FramesBefore
<1> QED BY <1>1, <1>2, <1>3

(* The steps on the current stack, as Threads sees them. *)
LEMMA BarPushStep ==
  ASSUME SInv, NEW v \in Vectors, Push(EntryStage(v))
  PROVE  T!Push(T!EntryStage(v))
<1> DEFINE e == [at |-> EntryStage(v), loaded |-> 0]
<1>1. e \in FrameType /\ FrameBar(e) = e
  BY WordAssumption DEF FrameType, FrameStages, Words, EntryStage, FrameBar
<1>2. T!EntryStage(v) = EntryStage(v)
  BY DEF T!EntryStage, EntryStage
<1>3. frames' = [frames EXCEPT ![current] = Append(frames[current], e)]
  BY DEF Push
<1> HIDE DEF e
<1>4. framesBar' = [framesBar EXCEPT ![current] = Bar(Append(frames[current], e))]
  BY <1>3, BarStack, Zenon
<1>5. /\ frames[current] \in Seq(FrameType) /\ framesBar[current] = Bar(frames[current])
  BY FramesBefore
<1>6. framesBar' = [framesBar EXCEPT ![current] = Append(framesBar[current], e)]
  BY <1>1, <1>4, <1>5, BarAppend, Zenon
<1> QED BY <1>2, <1>6 DEF T!Push, e

(* A handler ends. *)
LEMMA BarPopStep ==
  ASSUME SInv, Depth > 0, Pop
  PROVE  T!Pop
<1>1. frames' = [frames EXCEPT ![current] = SubSeq(frames[current], 1, Depth - 1)]
  BY DEF Pop
<1>2. framesBar' = [framesBar EXCEPT ![current] = Bar(SubSeq(frames[current], 1, Depth - 1))]
  BY <1>1, BarStack, Zenon
<1>3. /\ frames[current] \in Seq(FrameType) /\ framesBar[current] = Bar(frames[current])
      /\ T!Depth = Depth
  BY FramesBefore
<1>4. framesBar' = [framesBar EXCEPT ![current] = SubSeq(framesBar[current], 1, Depth - 1)]
  BY <1>2, <1>3, BarPop, Zenon DEF Depth
<1> QED BY <1>3, <1>4 DEF T!Pop

(* A handler moves on to another stage; within its decision about the      *)
(* timers it stays where it is.                                            *)
LEMMA BarGotoStep ==
  ASSUME SInv, FramesInv, Depth > 0, NEW st \in FrameStages, NEW w \in Words, Goto(st, w)
  PROVE  /\ st \notin {"advance", "wake"} => T!Goto(st, w)
         /\ st \in {"advance", "wake"} /\ Top.at \in {"timers", "advance", "wake"}
              => framesBar' = framesBar
<1> DEFINE e == [at |-> st, loaded |-> w]
           f == frames[current]
<1>1. e \in FrameType /\ e.at = st
  BY DEF FrameType
<1>2. frames' = [frames EXCEPT ![current] = [f EXCEPT ![Depth] = e]]
  BY DEF Goto
<1>3. /\ f \in Seq(FrameType) /\ framesBar[current] = Bar(f) /\ Depth \in 1 .. Len(f)
      /\ T!Depth = Depth /\ Top \in FrameType /\ T!Top = FrameBar(Top) /\ Top = f[Depth]
      /\ current \in Threads /\ framesBar = [t \in Threads |-> Bar(frames[t])]
  BY FramesBefore DEF Depth, Top
<1>4. framesBar' = [framesBar EXCEPT ![current] = Bar([f EXCEPT ![Depth] = e])]
  <2> HIDE DEF e, f
  <2> QED BY <1>2, BarStack, Zenon
<1>5. framesBar' = [framesBar EXCEPT ![current] = [framesBar[current] EXCEPT ![Depth] = FrameBar(e)]]
  <2> HIDE DEF e, f
  <2>1. e \in FrameType /\ f \in Seq(FrameType) /\ Depth \in 1 .. Len(f)
    BY <1>1, <1>3
  <2>2. Bar([f EXCEPT ![Depth] = e]) = [Bar(f) EXCEPT ![Depth] = FrameBar(e)]
    BY <2>1, BarGoto
  <2>3. framesBar[current] = Bar(f)
    BY <1>3
  <2> QED BY <1>4, <2>2, <2>3, Zenon
<1>6. CASE st \notin {"advance", "wake"}
  <2>1. FrameBar(e) = e
    BY <1>1, <1>6 DEF FrameBar
  <2>2. framesBar' = [framesBar EXCEPT ![current] = [framesBar[current] EXCEPT ![T!Depth] = e]]
    <3> HIDE DEF e, f
    <3> QED BY <1>3, <1>5, <2>1, Zenon
  <2> QED BY <1>6, <2>2 DEF T!Goto
<1>7. CASE st \in {"advance", "wake"} /\ Top.at \in {"timers", "advance", "wake"}
  <2> DEFINE z == [at |-> "timers", loaded |-> 0]
  <2>1. FrameBar(e) = z
    BY <1>1, <1>7 DEF FrameBar
  <2>2. FrameBar(Top) = z
    <3>1. CASE Top.at = "timers"
      <4>1. Top.loaded = 0
        BY <1>3, <3>1 DEF FramesInv
      <4> QED BY <1>3, <3>1, <4>1 DEF FrameBar, FrameType
    <3>2. CASE Top.at \in {"advance", "wake"}
      BY <3>2 DEF FrameBar
    <3> QED BY <1>7, <3>1, <3>2
  <2>3. Bar(f) \in Seq(FrameType) /\ Len(Bar(f)) = Len(f) /\ Bar(f)[Depth] = z
    <3> HIDE DEF f, z
    <3> QED BY <1>3, <2>2, BarSeq
  <2> HIDE DEF e, f, z
  <2>4. [Bar(f) EXCEPT ![Depth] = z] = Bar(f)
    BY <1>3, <2>3
  <2>5. framesBar' = [framesBar EXCEPT ![current] = framesBar[current]]
    BY <1>3, <1>5, <2>1, <2>4, Zenon
  <2>6. framesBar' = framesBar
    BY <1>3, <2>5
  <2> QED BY <1>7, <2>6
<1> QED BY <1>6, <1>7

(* The program counters as Threads sees them. *)
LabelBar(label) ==
  CASE label = "gone" -> "gone"
    [] label = "yield" -> "asleep"
    [] OTHER -> "run"

(* A thread moves on in its own code. *)
LEMMA BarGoTo ==
  ASSUME NearInv, NEW t \in Threads, NEW label, GoTo(t, label)
  PROVE  /\ pcBar' = [pcBar EXCEPT ![t] = LabelBar(label)]
         /\ pcBar[t] = LabelBar(pc[t])
         /\ LabelBar(label) = LabelBar(pc[t]) => pcBar' = pcBar
<1>1. pc \in [Threads -> PcLabels] /\ pc' = [pc EXCEPT ![t] = label]
  BY DEF NearInv, Owned, GoTo
<1>2. \A u \in Threads : pc'[u] = IF u = t THEN label ELSE pc[u]
  BY <1>1
<1>3. pcBar = [u \in Threads |-> LabelBar(pc[u])] /\ pcBar' = [u \in Threads |-> LabelBar(pc'[u])]
  BY DEF pcBar, LabelBar
<1> QED BY <1>2, <1>3

(* Threads has the operations of scheduler.c under names of its own. *)
LEMMA SameRunnable == \A s, t : T!scheduler_make_runnable(s, t) = scheduler_make_runnable(s, t)
  BY DEF scheduler_make_runnable, scheduler_add_runnable_thread, scheduler_remove_thread,
         scheduler_remove_runnable_thread, scheduler_remove_blocked_thread, SetState,
         InList, DL_DELETE, Index, IsHead,
         T!scheduler_make_runnable, T!scheduler_add_runnable_thread, T!scheduler_remove_thread,
         T!scheduler_remove_runnable_thread, T!scheduler_remove_blocked_thread, T!SetState,
         T!InList, T!DL_DELETE, T!Index, T!IsHead

(* The same for make_blocked. *)
LEMMA SameBlocked == \A s, t : T!scheduler_make_blocked(s, t) = scheduler_make_blocked(s, t)
  BY DEF scheduler_make_blocked, scheduler_add_blocked_thread, scheduler_remove_thread,
         scheduler_remove_runnable_thread, scheduler_remove_blocked_thread, SetState,
         InList, DL_DELETE, Index, IsHead,
         T!scheduler_make_blocked, T!scheduler_add_blocked_thread, T!scheduler_remove_thread,
         T!scheduler_remove_runnable_thread, T!scheduler_remove_blocked_thread, T!SetState,
         T!InList, T!DL_DELETE, T!Index, T!IsHead

(* The same for yield. *)
LEMMA SameYield == scheduler_yield(sched) => T!scheduler_yield(sched)
<1>1. \A s, c, n : T!Charge(s, c, n) = Charge(s, c, n)
  BY DEF T!Charge, Charge
<1>2. \A s, c : T!KeepsCpu(s, c) <=> KeepsCpu(s, c)
  BY DEF T!KeepsCpu, KeepsCpu
<1>3. \A s, c : T!Preempt(s, c) = Preempt(s, c)
  BY DEF T!Preempt, Preempt, T!SetState, SetState
<1>4. \A s : T!Pick(s) = Pick(s)
  BY DEF Pick, scheduler_add_runnable_thread, scheduler_remove_runnable_thread, SetState,
         InList, DL_DELETE, Index, IsHead,
         T!Pick, T!scheduler_add_runnable_thread, T!scheduler_remove_runnable_thread,
         T!SetState, T!InList, T!DL_DELETE, T!Index, T!IsHead
<1>5. \A s, c, n : T!NextSched(s, c, n) = NextSched(s, c, n)
  BY <1>1, <1>2, <1>3, <1>4 DEF T!NextSched, NextSched
<1>6. \A s, c, n : T!NextThread(s, c, n) = NextThread(s, c, n)
  BY <1>1, <1>2 DEF T!NextThread, NextThread
<1> QED BY <1>5, <1>6 DEF T!scheduler_yield, scheduler_yield

(* A step that Threads does not see. *)
LEMMA StutterStep ==
  ASSUME UNCHANGED <<sched, current, ticks, nesting, framesBar, pcBar>>
  PROVE  [T!Next]_(T!vars)
  BY DEF T!vars

(* Every step of a thread is a step of a thread in Threads, or its own     *)
(* code.                                                                   *)
LEMMA ThreadStepRefines ==
  ASSUME SInv, NearInv, NEW t \in Threads, ThreadStep(t)
  PROVE  [T!Next]_(T!vars)
<1> USE TimersAssumption
<1>0. ASSUME UNCHANGED frames PROVE framesBar' = framesBar
  BY <1>0 DEF framesBar
<1>a. ASSUME UNCHANGED pc PROVE pcBar' = pcBar
  BY <1>a DEF pcBar
<1>1. CASE SleeperStep(t)
  <2>1. UNCHANGED cpuVars
    BY <1>1, Zenon DEF SleeperStep, ScheduleWake, timer_schedule_delay, timer_cancel,
                timer_schedule_at, AssignTimerId, TestTimerId, CancelWake, ClearTimerId
  <2>2. CASE UNCHANGED pc
    BY <1>0, <1>a, <2>1, <2>2, StutterStep DEF cpuVars
  <2>3. CASE \E label \in {"assign", "block", "cancel", "run", "clear"} : GoTo(t, label)
    <3>1. pc[t] \in {"run", "assign", "woken", "cancel", "clear"} \/ UNCHANGED pc
      BY <1>1, Zenon DEF SleeperStep, ScheduleWake, timer_schedule_delay, timer_cancel,
                timer_schedule_at, AssignTimerId, TestTimerId, CancelWake, ClearTimerId, At
    <3>2. CASE pc[t] \in {"run", "assign", "woken", "cancel", "clear"}
      <4>1. PICK label \in {"assign", "block", "cancel", "run", "clear"} : GoTo(t, label)
        BY <2>3
      <4>2. LabelBar(label) = LabelBar(pc[t])
        BY <3>2 DEF LabelBar
      <4>3. pcBar' = pcBar
        BY <4>1, <4>2, BarGoTo
      <4> QED BY <1>0, <2>1, <4>3, StutterStep DEF cpuVars
    <3> QED BY <2>2, <3>1, <3>2
  <2> QED
    BY <1>1, <2>2, <2>3, Zenon
    DEF SleeperStep, ScheduleWake, timer_schedule_delay, timer_cancel,
        timer_schedule_at, AssignTimerId, TestTimerId, CancelWake, ClearTimerId, timerVars
<1>2. CASE current_thread_sleep(t)
  <2>1. /\ ~sched.panic /\ current = t /\ frames[t] = <<>> /\ pc[t] = "block"
        /\ sched' = scheduler_make_blocked(sched, t) /\ GoTo(t, "yield")
        /\ UNCHANGED <<current, ticks, nesting, frames>>
    BY <1>2 DEF current_thread_sleep, At
  <2>2. t \in T!Workers
    BY <2>1 DEF T!Workers, NearInv, Owned
  <2>3. pcBar' = [pcBar EXCEPT ![t] = "asleep"] /\ pcBar[t] = "run"
    BY <2>1, BarGoTo DEF LabelBar
  <2>4. framesBar[t] = <<>> /\ framesBar' = framesBar
    BY <1>0, <2>1, FramesBefore
  <2>5. sched' = T!scheduler_make_blocked(sched, t)
    BY <2>1, SameBlocked
  <2>6. T!current_thread_sleep(t)
    BY <2>1, <2>2, <2>3, <2>4, <2>5 DEF T!current_thread_sleep, T!At, T!GoTo
  <2> QED BY <2>6 DEF T!Next, T!ThreadStep
<1>3. CASE SleepYield(t)
  <2> DEFINE label == IF t = Timer THEN "handle" ELSE "woken"
  <2>1. /\ ~sched.panic /\ current = t /\ frames[t] = <<>> /\ pc[t] = "yield"
        /\ scheduler_yield(sched) /\ GoTo(t, label)
        /\ UNCHANGED <<ticks, nesting, frames>>
    BY <1>3 DEF SleepYield, At
  <2>2. LabelBar(label) = "run"
    BY DEF LabelBar
  <2> HIDE DEF label
  <2>3. pcBar' = [pcBar EXCEPT ![t] = "run"] /\ pcBar[t] = "asleep"
    <3>1. pcBar' = [pcBar EXCEPT ![t] = LabelBar(label)] /\ pcBar[t] = LabelBar(pc[t])
      BY <2>1, BarGoTo
    <3> QED BY <2>1, <2>2, <3>1, Zenon DEF LabelBar
  <2>4. framesBar[t] = <<>> /\ framesBar' = framesBar
    BY <1>0, <2>1, FramesBefore
  <2>5. T!SleepYield(t)
    BY <2>1, <2>3, <2>4, SameYield DEF T!SleepYield, T!At, T!GoTo
  <2> QED BY <2>5 DEF T!Next, T!ThreadStep
<1>4. CASE timers_handle_near_timers
  <2>1. /\ ~sched.panic /\ current = Timer /\ frames[Timer] = <<>> /\ pc[Timer] = "handle"
        /\ UNCHANGED <<current, ticks, nesting, frames>>
    BY <1>4 DEF timers_handle_near_timers, At
  <2>2. framesBar[Timer] = <<>> /\ framesBar' = framesBar
    BY <1>0, <2>1, FramesBefore
  <2>3. CASE ~Due
    <3>1. GoTo(Timer, "block") /\ sched' = sched
      BY <1>4, <2>3 DEF timers_handle_near_timers
    <3>2. LabelBar("block") = LabelBar(pc[Timer])
      BY <2>1 DEF LabelBar
    <3>3. pcBar' = pcBar
      BY <3>1, <3>2, BarGoTo
    <3> QED BY <2>1, <2>2, <3>1, <3>3, StutterStep
  <2>4. CASE Due /\ Head(near).wakes \notin Threads
    BY <1>4, <1>a, <2>1, <2>2, <2>4, StutterStep DEF timers_handle_near_timers
  <2>5. CASE Due /\ Head(near).wakes \in Threads
    <3> DEFINE u == Head(near).wakes
    <3>1. u \in Users
      <4>1. 1 \in 1 .. Len(near) /\ Head(near) = near[1]
        BY <2>5 DEF NearInv, Owned, ListOK, Due
      <4>2. near[1].wakes \in Sleepers \cup {Nobody}
        BY <4>1, Elements DEF NearInv
      <4> QED BY <2>5, <4>1, <4>2 DEF Sleepers
    <3>2. sched' = scheduler_make_runnable(sched, u) /\ UNCHANGED pc
      BY <1>4, <2>5 DEF timers_handle_near_timers, thread_wake_timer_callback
    <3> HIDE DEF u
    <3>3. u \in T!Workers /\ u \in Threads /\ Timer \in T!Workers
          /\ sched.state[u] \notin {"created", "dead"}
      BY <3>1 DEF Users, T!Workers, SInv
    <3>4. pcBar[Timer] = "run" /\ pcBar' = pcBar
      BY <1>a, <2>1, <3>2 DEF pcBar
    <3>5. sched' = T!scheduler_make_runnable(sched, u)
      BY <3>2, SameRunnable
    <3>6. T!thread_wake(Timer, u)
      BY <2>1, <2>2, <3>3, <3>4, <3>5 DEF T!thread_wake, T!At
    <3> QED BY <3>3, <3>6 DEF T!Next, T!ThreadStep
  <2> QED BY <2>3, <2>4, <2>5
<1> QED BY <1>1, <1>2, <1>3, <1>4 DEF ThreadStep

(* Every step of a handler is a step of a handler in Threads, or part of   *)
(* its decision to wake the timer thread.                                  *)
LEMMA HandlerRefines ==
  ASSUME SInv, FramesInv, Handler
  PROVE  [T!Next]_(T!vars)
<1> USE TimersAssumption
<1>0. UNCHANGED pcBar
  BY DEF Handler, pcBar
<1>a. Tick \in T!Vectors /\ Device \in T!Vectors
  BY DEF T!Vectors
<1>b. /\ 0 \in Words /\ ticks \in Words
      /\ "leave" \in FrameStages /\ "store" \in FrameStages /\ "timers" \in FrameStages
      /\ "advance" \in FrameStages /\ "wake" \in FrameStages /\ "yield" \in FrameStages
  BY WordAssumption, SchedulerBefore DEF Words, CpuTypeOK, FrameStages
<1>c. ASSUME T!HandlerStep PROVE [T!Next]_(T!vars)
  BY <1>0, <1>c DEF T!Next, T!Handler
<1>1. CASE TickLoad
  <2>1. InHandler("load") /\ Goto("store", ticks) /\ UNCHANGED <<sched, current, ticks, nesting>>
    BY <1>1 DEF TickLoad
  <2>2. T!InHandler("load") /\ T!Goto("store", ticks)
    <3>1. T!InHandler("load")
      BY <2>1, BarInHandler
    <3>2. T!Goto("store", ticks)
      BY <1>b, <2>1, BarGotoStep DEF InHandler
    <3> QED BY <3>1, <3>2
  <2>3. T!TickLoad
    BY <2>1, <2>2 DEF T!TickLoad
  <2> QED BY <1>c, <2>3 DEF T!HandlerStep
<1>2. CASE TickStore
  <2>1. /\ InHandler("store") /\ Goto("timers", 0) /\ ticks' = (Top.loaded + 1) % WORD
        /\ UNCHANGED <<sched, current, nesting>>
    BY <1>2 DEF TickStore
  <2>2. T!InHandler("store")
    BY <2>1, BarInHandler
  <2>3. T!Goto("timers", 0)
    BY <1>b, <2>1, BarGotoStep DEF InHandler
  <2>4. T!Top = Top
    BY <2>1, FramesBefore DEF InHandler, FrameBar
  <2>5. T!TickStore
    BY <2>1, <2>2, <2>3, <2>4 DEF T!TickStore
  <2> QED BY <1>c, <2>5 DEF T!HandlerStep
<1>3. ASSUME NEW stage \in {"timers", "wake"}, InHandler(stage), Goto("leave", 0),
             UNCHANGED <<sched, current, ticks, nesting>>
      PROVE  [T!Next]_(T!vars)
  <2>1. T!InHandler("timers")
    BY <1>3, BarInHandler
  <2>2. T!Goto("leave", 0)
    BY <1>b, <1>3, BarGotoStep DEF InHandler
  <2>3. T!HandlerDone(Tick)
    BY <1>3, <2>1, <2>2 DEF T!HandlerDone, T!Defers
  <2> QED BY <1>a, <1>c, <2>3 DEF T!HandlerStep
<1>4. CASE TickSkip
  BY <1>3, <1>4 DEF TickSkip
<1>5. CASE TickAdvance
  <2>1. /\ InHandler("timers") /\ Goto("advance", 0)
        /\ UNCHANGED <<sched, current, ticks, nesting>>
    BY <1>5 DEF TickAdvance
  <2>2. framesBar' = framesBar
    BY <1>b, <2>1, BarGotoStep DEF InHandler
  <2> QED BY <1>0, <2>1, <2>2, StutterStep
<1>6. CASE timers_advance_clock
  <2>1. /\ InHandler("advance") /\ Goto("wake", 0)
        /\ UNCHANGED <<sched, current, ticks, nesting>>
    BY <1>6 DEF timers_advance_clock
  <2>2. framesBar' = framesBar
    BY <1>b, <2>1, BarGotoStep DEF InHandler
  <2> QED BY <1>0, <2>1, <2>2, StutterStep
<1>7. CASE TickWake
  <2>1. InHandler("wake") /\ Goto("leave", 0) /\ UNCHANGED <<current, ticks, nesting>>
    BY <1>7 DEF TickWake
  <2>2. CASE sched' = sched
    BY <1>3, <2>1, <2>2
  <2>3. CASE sched' = scheduler_make_runnable(sched, Timer)
    <3>1. T!InHandler("timers")
      BY <2>1, BarInHandler
    <3>2. T!Goto("leave", 0)
      BY <1>b, <2>1, BarGotoStep DEF InHandler
    <3>3. sched.state[Timer] \notin {"created", "dead"}
      BY DEF SInv
    <3>4. sched' = T!scheduler_make_runnable(sched, Timer)
      BY <2>3, SameRunnable
    <3>5. T!HandlerDefer(Tick)
      BY <2>1, <3>1, <3>2, <3>3, <3>4 DEF T!HandlerDefer, T!Defers
    <3> QED BY <1>a, <1>c, <3>5 DEF T!HandlerStep
  <2> QED BY <1>7, <2>2, <2>3 DEF TickWake
<1>8. CASE HandlerDefer(Device)
  <2>1. /\ InHandler("device") /\ Goto("leave", 0)
        /\ sched.state[Deferred[Device]] \notin {"created", "dead"}
        /\ sched' = scheduler_make_runnable(sched, Deferred[Device])
        /\ UNCHANGED <<current, ticks, nesting>>
    BY <1>8, VectorAssumption DEF HandlerDefer, Defers
  <2>2. T!InHandler("device")
    BY <2>1, BarInHandler
  <2>3. T!Goto("leave", 0)
    BY <1>b, <2>1, BarGotoStep DEF InHandler
  <2>4. sched' = T!scheduler_make_runnable(sched, Deferred[Device])
    BY <2>1, SameRunnable
  <2>5. T!HandlerDefer(Device)
    BY <2>1, <2>2, <2>3, <2>4, VectorAssumption DEF T!HandlerDefer, T!Defers
  <2> QED BY <1>a, <1>c, <2>5 DEF T!HandlerStep
<1>9. CASE HandlerDone(Device)
  <2>1. /\ InHandler("device") /\ Goto("leave", 0)
        /\ UNCHANGED <<sched, current, ticks, nesting>>
    BY <1>9, VectorAssumption DEF HandlerDone, Defers
  <2>2. T!InHandler("device")
    BY <2>1, BarInHandler
  <2>3. T!Goto("leave", 0)
    BY <1>b, <2>1, BarGotoStep DEF InHandler
  <2>4. T!HandlerDone(Device)
    BY <2>1, <2>2, <2>3, VectorAssumption DEF T!HandlerDone, T!Defers
  <2> QED BY <1>a, <1>c, <2>4 DEF T!HandlerStep
<1>10. CASE HandlerLeave
  <2>1. /\ InHandler("leave") /\ nesting' = nesting - 1
        /\ IF nesting' = 0 THEN Goto("yield", 0) ELSE Pop
        /\ UNCHANGED <<sched, current, ticks>>
    BY <1>10 DEF HandlerLeave
  <2>2. T!InHandler("leave")
    BY <2>1, BarInHandler
  <2>3. IF nesting' = 0 THEN T!Goto("yield", 0) ELSE T!Pop
    BY <1>b, <2>1, BarGotoStep, BarPopStep DEF InHandler
  <2>4. T!HandlerLeave
    BY <2>1, <2>2, <2>3 DEF T!HandlerLeave
  <2> QED BY <1>c, <2>4 DEF T!HandlerStep
<1>11. CASE HandlerYield
  <2>1. /\ InHandler("yield") /\ scheduler_yield(sched) /\ Pop
        /\ UNCHANGED <<ticks, nesting>>
    BY <1>11 DEF HandlerYield
  <2>2. T!InHandler("yield")
    BY <2>1, BarInHandler
  <2>3. T!Pop
    BY <2>1, BarPopStep DEF InHandler
  <2>4. T!HandlerYield
    BY <2>1, <2>2, <2>3, SameYield DEF T!HandlerYield
  <2> QED BY <1>c, <2>4 DEF T!HandlerStep
<1> QED
  BY <1>1, <1>2, <1>4, <1>5, <1>6, <1>7, <1>8, <1>9, <1>10, <1>11 DEF Handler

(* The stacks after a step of the current one. *)
LEMMA StackFramesInv ==
  ASSUME SInv, FramesInv, NEW g, frames' = [frames EXCEPT ![current] = g],
         \A i \in 1 .. Len(g) : g[i].at = "timers" => g[i].loaded = 0
  PROVE  FramesInv'
<1>1. \A t \in Threads : frames'[t] = IF t = current THEN g ELSE frames[t]
  BY FramesBefore
<1> QED BY <1>1 DEF FramesInv

(* Every step keeps what the refinement needs of the frames. *)
LEMMA NextFramesInv ==
  ASSUME SInv, FramesInv, [Next]_vars
  PROVE  FramesInv'
<1> DEFINE f == frames[current]
<1>0. f \in Seq(FrameType) /\ Len(f) = Depth
      /\ \A i \in 1 .. Len(f) : f[i].at = "timers" => f[i].loaded = 0
  BY FramesBefore DEF FramesInv, Depth
<1>1. ASSUME UNCHANGED frames PROVE FramesInv'
  BY <1>1 DEF FramesInv
<1>2. ASSUME NEW st, NEW w, Depth > 0, Goto(st, w), st = "timers" => w = 0
      PROVE  FramesInv'
  <2> DEFINE e == [at |-> st, loaded |-> w]
             g == [f EXCEPT ![Depth] = e]
  <2>1. frames' = [frames EXCEPT ![current] = g]
    BY <1>2 DEF Goto
  <2>2. e.at = "timers" => e.loaded = 0
    BY <1>2
  <2> HIDE DEF e, f
  <2>3. Len(g) = Len(f) /\ \A i \in 1 .. Len(f) : g[i] = IF i = Depth THEN e ELSE f[i]
    BY <1>0
  <2>4. \A i \in 1 .. Len(g) : g[i].at = "timers" => g[i].loaded = 0
    <3> HIDE DEF g
    <3> QED BY <1>0, <2>2, <2>3
  <2> HIDE DEF g
  <2> QED BY <2>1, <2>4, StackFramesInv, Zenon
<1>3. ASSUME Depth > 0, Pop PROVE FramesInv'
  <2> DEFINE g == SubSeq(f, 1, Depth - 1)
  <2>1. frames' = [frames EXCEPT ![current] = g]
    BY <1>3 DEF Pop
  <2> HIDE DEF f
  <2>2. Len(g) = Len(f) - 1 /\ \A i \in 1 .. Len(f) - 1 : g[i] = f[i]
    BY <1>0, <1>3
  <2> HIDE DEF g
  <2>3. \A i \in 1 .. Len(g) : g[i].at = "timers" => g[i].loaded = 0
    BY <1>0, <1>3, <2>2
  <2> QED BY <2>1, <2>3, StackFramesInv, Zenon
<1>4. CASE UNCHANGED vars
  BY <1>1, <1>4 DEF vars
<1>5. ASSUME NEW t \in Threads, ThreadStep(t) PROVE FramesInv'
  <2>1. UNCHANGED frames
    BY <1>5, Zenon
    DEF ThreadStep, SleeperStep, ScheduleWake, timer_schedule_delay, timer_cancel,
        timer_schedule_at, AssignTimerId, TestTimerId, CancelWake, ClearTimerId,
        current_thread_sleep, SleepYield, timers_handle_near_timers, cpuVars
  <2> QED BY <1>1, <2>1
<1>6. ASSUME NEW v \in Vectors, Arrival(v) PROVE FramesInv'
  <2> DEFINE e == [at |-> EntryStage(v), loaded |-> 0]
             g == Append(f, e)
  <2>1. frames' = [frames EXCEPT ![current] = g]
    BY <1>6 DEF Arrival, Interrupt, Push
  <2>2. e.loaded = 0 /\ e \in FrameType
    BY WordAssumption DEF FrameType, FrameStages, Words, EntryStage
  <2> HIDE DEF e, f
  <2>3. Len(g) = Len(f) + 1 /\ g[Len(f) + 1] = e /\ \A i \in 1 .. Len(f) : g[i] = f[i]
    BY <1>0, <2>2
  <2> HIDE DEF g
  <2>4. \A i \in 1 .. Len(g) : g[i].at = "timers" => g[i].loaded = 0
    BY <1>0, <2>2, <2>3
  <2> QED BY <2>1, <2>4, StackFramesInv, Zenon
<1>7. CASE Handler
  <2>1. CASE HandlerLeave \/ HandlerYield
    BY <1>2, <1>3, <2>1 DEF HandlerLeave, HandlerYield, InHandler
  <2>2. CASE ~(HandlerLeave \/ HandlerYield)
    <3>1. Depth > 0
      BY <1>7, <2>2 DEF Handler, TickLoad, TickStore, TickSkip, TickAdvance, TickWake,
                timers_advance_clock, HandlerDefer, HandlerDone, Defers, InHandler
    <3>2. \E st, w : Goto(st, w) /\ (st = "timers" => w = 0)
      BY <1>7, <2>2 DEF Handler, TickLoad, TickStore, TickSkip, TickAdvance, TickWake,
                timers_advance_clock, HandlerDefer, HandlerDone
    <3> QED BY <1>2, <3>1, <3>2
  <2> QED BY <2>1, <2>2
<1>8. CASE SpinForEver
  BY <1>1, <1>8 DEF SpinForEver, cpuVars
<1> QED BY <1>4, <1>5, <1>6, <1>7, <1>8 DEF Next

(* Timers implements Threads: every step of the timers, of the timer       *)
(* thread, of the timed sleepers and of the handlers is a step that        *)
(* threads and handlers may take there, or none.                           *)
THEOREM TimersImplementThreads == Spec => ImplementsThreads
<1>1. Init => FramesInv
  BY DEF Init, InterruptsInit, FramesInv
<1>2. IInv /\ FramesInv /\ [Next]_vars => FramesInv'
  BY NextFramesInv DEF IInv
<1>3. IInv /\ FramesInv /\ [Next]_vars => [T!Next]_(T!vars)
  <2> SUFFICES ASSUME SInv, NearInv, FramesInv, [Next]_vars PROVE [T!Next]_(T!vars)
    BY DEF IInv
  <2>1. CASE UNCHANGED vars
    BY <2>1, StutterStep DEF vars, framesBar, pcBar
  <2>2. ASSUME NEW v \in Vectors, Arrival(v) PROVE [T!Next]_(T!vars)
    <3>1. /\ ~sched.panic /\ Depth < MaxFrames /\ Push(EntryStage(v))
          /\ nesting' = nesting + 1 /\ UNCHANGED <<sched, current, ticks, pc>>
      BY <2>2 DEF Arrival, Interrupt
    <3>2. T!Push(T!EntryStage(v)) /\ T!Depth = Depth
      BY <3>1, BarPushStep, FramesBefore
    <3>3. pcBar' = pcBar /\ pcBar[Boot] = "gone"
      BY <3>1, TimersAssumption DEF pcBar, NearInv, Owned
    <3>4. T!Arrival(v)
      BY <3>1, <3>2, <3>3 DEF T!Arrival, T!Interrupt
    <3>5. v \in T!Vectors
      BY DEF Vectors, T!Vectors
    <3> QED BY <3>4, <3>5 DEF T!Next
  <2>3. CASE SpinForEver
    BY <2>3, StutterStep DEF SpinForEver, cpuVars, framesBar, pcBar
  <2> QED BY <2>1, <2>2, <2>3, ThreadStepRefines, HandlerRefines DEF Next
<1> QED BY <1>1, <1>2, <1>3, TimersInvariance, PTL DEF Spec, ImplementsThreads

=============================================================================
