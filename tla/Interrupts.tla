----------------------------- MODULE Interrupts -----------------------------
(***************************************************************************)
(* Interrupt entry, nesting and exit (ia32/interrupts.c), the tick handler *)
(* (ia32/ticks.c), the deferring device handler (ia32/hal_x86.c) and the   *)
(* preemption that interrupts_handler performs when the outermost handler  *)
(* returns.                                                                *)
(*                                                                         *)
(* There is one CPU.  Code that runs with interrupts off is one atomic     *)
(* step; an interrupt may arrive between any two steps of the current      *)
(* thread, of a handler, or of a handler's exit, because                   *)
(* interrupts_handler re-enables interrupts before it dispatches and the   *)
(* end-of-interrupt has been sent by then.  A handler runs on the stack of *)
(* the thread it interrupted: frames[t] is the stack of interrupt frames   *)
(* of thread t, innermost last.                                            *)
(***************************************************************************)
EXTENDS Scheduler

CONSTANTS
  Tick,         \* the vector of the PIT, served by ticks_irq_handler
  Device,       \* the vector of a device whose fast handler may return IRQ_DEFER
  Deferred,     \* Deferred[v]: the thread a handler of vector v may wake
  MaxFrames     \* bound on the interrupt frames of one thread's stack

VARIABLES
  sched,        \* the scheduler record
  current,      \* _current_thread
  ticks,        \* _ticks_since_boot
  nesting,      \* _interrupt_nesting
  frames        \* interrupt frames on each thread's stack

cpuVars == <<sched, current, ticks, nesting, frames>>

Vectors == {Tick, Device}

ASSUME VectorAssumption == Tick # Device
ASSUME DeferredAssumption == Deferred \in [Vectors -> Threads]
ASSUME MaxFramesAssumption == MaxFrames \in Nat \ {0}

(* Where a frame's handler has got to.  A tick handler loads and stores    *)
(* _ticks_since_boot, then may defer to the timer thread; a device handler *)
(* may defer to its thread; both then leave, and the outermost one yields. *)
(* "advance" and "wake" are stages of the decision to defer, in Timers.    *)
FrameStages ==
  {"load", "store", "timers", "advance", "wake", "device", "leave", "yield"}

FrameType == [at : FrameStages, loaded : Words]

EntryStage(v) == IF v = Tick THEN "load" ELSE "device"

InterruptsInit ==
  /\ ticks = 0
  /\ nesting = 0
  /\ frames = [t \in Threads |-> <<>>]

----------------------------------------------------------------------------
(* The current thread's innermost frame. *)
Depth == Len(frames[current])
Top == frames[current][Depth]
InHandler(stage) == ~sched.panic /\ Depth > 0 /\ Top.at = stage

Push(stage) ==
  frames' = [frames EXCEPT ![current] = Append(@, [at |-> stage, loaded |-> 0])]
Goto(stage, val) ==
  frames' = [frames EXCEPT ![current] = [@ EXCEPT ![Depth] = [at |-> stage, loaded |-> val]]]
Pop == frames' = [frames EXCEPT ![current] = SubSeq(@, 1, Depth - 1)]

(* scheduler_yield, from interrupts_enter_cli to the stack switch. *)
scheduler_yield(s) ==
  /\ sched' = NextSched(s, current, ticks)
  /\ current' = NextThread(s, current, ticks)

----------------------------------------------------------------------------
(* Entry of interrupts_handler: the CPU has pushed a frame, the nesting    *)
(* count goes up, interrupts are enabled again.                            *)
Interrupt(v) ==
  /\ ~sched.panic
  /\ Depth < MaxFrames
  /\ Push(EntryStage(v))
  /\ nesting' = nesting + 1
  /\ UNCHANGED <<sched, current, ticks>>

(* _ticks_since_boot++ is a load and a store: the build does not optimise. *)
TickLoad ==
  /\ InHandler("load")
  /\ Goto("store", ticks)
  /\ UNCHANGED <<sched, current, ticks, nesting>>

TickStore ==
  /\ InHandler("store")
  /\ ticks' = (Top.loaded + 1) % WORD
  /\ Goto("timers", 0)
  /\ UNCHANGED <<sched, current, nesting>>

(* The tick handler wakes the timer thread when a timer is due; the HAL    *)
(* wakes the handler's thread when the fast handler returned IRQ_DEFER.    *)
(* The thread has been started by then.                                    *)
Defers(v) == InHandler(IF v = Tick THEN "timers" ELSE "device")

HandlerDefer(v) ==
  /\ Defers(v)
  /\ sched.state[Deferred[v]] \notin {"created", "dead"}
  /\ sched' = scheduler_make_runnable(sched, Deferred[v])
  /\ Goto("leave", 0)
  /\ UNCHANGED <<current, ticks, nesting>>

HandlerDone(v) ==
  /\ Defers(v)
  /\ Goto("leave", 0)
  /\ UNCHANGED <<sched, current, ticks, nesting>>

(* Variant: a nested handler yields too. *)
LeaveAlwaysYields ==
  /\ InHandler("leave")
  /\ nesting' = nesting - 1
  /\ Goto("yield", 0)
  /\ UNCHANGED <<sched, current, ticks>>

(* Exit of interrupts_handler: interrupts off, nesting down; only the      *)
(* outermost handler goes on to yield, with interrupts on.                 *)
HandlerLeave ==
  /\ InHandler("leave")
  /\ nesting' = nesting - 1
  /\ IF nesting' = 0 THEN Goto("yield", 0) ELSE Pop
  /\ UNCHANGED <<sched, current, ticks>>

HandlerYield ==
  /\ InHandler("yield")
  /\ scheduler_yield(sched)
  /\ Pop
  /\ UNCHANGED <<ticks, nesting>>

HandlerStep ==
  \/ TickLoad \/ TickStore
  \/ \E v \in Vectors : HandlerDefer(v) \/ HandlerDone(v)
  \/ HandlerLeave \/ HandlerYield

----------------------------------------------------------------------------
CpuTypeOK ==
  /\ sched \in SchedulerType
  /\ current \in Threads
  /\ ticks \in Words
  /\ nesting \in 0 .. MaxFrames
  /\ frames \in [Threads -> Seq(FrameType)]
  /\ \A t \in Threads : Len(frames[t]) <= MaxFrames

(* Only the thread that has the CPU is in state running: no switch leaves  *)
(* a running thread behind, and none resumes a second one.                 *)
RunningIsCurrent ==
  \A t \in Threads : sched.state[t] = "running" => t = current

(* interrupts_handler: _interrupt_nesting counts exactly the unfinished    *)
(* handlers on the current thread's stack, and no thread is ever switched  *)
(* away with an unfinished handler on its stack: all that a suspended      *)
(* thread holds are frames that are in their final yield.                  *)
HandlersFinishBeforeSwitch ==
  /\ nesting \in 0 .. Depth
  /\ \A i \in 1 .. Depth : frames[current][i].at = "yield" <=> i <= Depth - nesting
  /\ \A t \in Threads \ {current} :
       \A i \in 1 .. Len(frames[t]) : frames[t][i].at = "yield"

=============================================================================
