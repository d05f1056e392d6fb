------------------------------ MODULE Spinlock ------------------------------
(***************************************************************************)
(* The nestable spinlocks of kern/spinlock.c and the interrupt flag that   *)
(* they, interrupts_enter_cli and interrupts_leave_cli save, clear and     *)
(* restore.                                                                *)
(*                                                                         *)
(* Here the code that the other modules take as one atomic step is taken   *)
(* apart: interrupts arrive, nest and switch threads wherever the flag is  *)
(* set.  A thread has a stack of contexts, its own code and the interrupt  *)
(* handlers that run on its stack; each context uses the locks, nested in  *)
(* any order but released last in, first out, as all the callers do.  A    *)
(* context switches away only from scheduler_yield and                     *)
(* scheduler_wait_object_acquire, which hold no lock at that point but may *)
(* be inside any number of interrupts_enter_cli.                           *)
(***************************************************************************)
EXTENDS Integers, Sequences, FiniteSets

CONSTANTS
  Threads,      \* the tids
  Locks,        \* the struct spinlocks
  NoOwner,      \* owner = 0
  Cli,          \* stands for a bare interrupts_enter_cli in a context's stack
  MaxHeld,      \* bound on the nesting of calls in one context
  MaxContexts   \* bound on the contexts of one thread

VARIABLES
  lock,         \* lock[l]: owner and nested
  current,      \* _current_thread
  contexts,     \* contexts[t]: innermost last
  failed        \* an assert failed

vars == <<lock, current, contexts, failed>>

ASSUME SpinlockAssumption ==
  /\ NoOwner \notin Threads
  /\ Cli \notin Locks
  /\ MaxHeld \in Nat \ {0}
  /\ MaxContexts \in Nat \ {0}

(* at: "call" between calls, "cas" in the loop of spinlock_acquire, "nest" *)
(* before nested++, "free" after nested--.  if: the interrupt flag while   *)
(* the context runs.  held: the calls not yet undone, each with the flags  *)
(* it returned; the last is the one being made or undone.                  *)
ContextType ==
  [ at   : {"call", "cas", "nest", "free"},
    if   : BOOLEAN,
    held : Seq([lock : Locks \cup {Cli}, flags : BOOLEAN]) ]

(* Handlers and thread functions start with interrupts enabled. *)
NewContext == [at |-> "call", if |-> TRUE, held |-> <<>>]

Init ==
  /\ lock = [l \in Locks |-> [owner |-> NoOwner, nested |-> 0]]
  /\ current \in Threads
  /\ contexts = [t \in Threads |-> <<NewContext>>]
  /\ failed = FALSE

----------------------------------------------------------------------------
Last(s) == s[Len(s)]
Front(s) == SubSeq(s, 1, Len(s) - 1)

Context == Last(contexts[current])
Held == Context.held

At(label) == ~failed /\ Context.at = label

SetContext(c) == contexts' = [contexts EXCEPT ![current] = Append(Front(@), c)]

(* interrupts_enter_cli: the flags are saved, then interrupts are off. *)
Enter(l, label) ==
  SetContext([ at   |-> label,
               if   |-> FALSE,
               held |-> Append(Held, [lock |-> l, flags |-> Context.if]) ])

interrupts_enter_cli ==
  /\ At("call") /\ Len(Held) < MaxHeld
  /\ Enter(Cli, "call")
  /\ UNCHANGED <<lock, current, failed>>

(* Variant: sti instead of restoring the flags. *)
LeaveEnabled ==
  /\ At("call") /\ Held # <<>> /\ Last(Held).lock = Cli
  /\ SetContext([at |-> "call", if |-> TRUE, held |-> Front(Held)])
  /\ UNCHANGED <<lock, current, failed>>

interrupts_leave_cli ==
  /\ At("call") /\ Held # <<>> /\ Last(Held).lock = Cli
  /\ SetContext([at |-> "call", if |-> Last(Held).flags, held |-> Front(Held)])
  /\ UNCHANGED <<lock, current, failed>>

spinlock_acquire(l) ==
  /\ At("call") /\ Len(Held) < MaxHeld
  /\ Enter(l, "cas")
  /\ UNCHANGED <<lock, current, failed>>

(* while(__sync_val_compare_and_swap(&lock->owner, 0, me) != me): the swap *)
(* that takes the lock returns 0, so the loop goes round once more.        *)
Swap ==
  /\ At("cas")
  /\ lock[Last(Held).lock].owner = NoOwner
  /\ lock' = [lock EXCEPT ![Last(Held).lock].owner = current]
  /\ UNCHANGED <<current, contexts, failed>>

Swapped ==
  /\ At("cas")
  /\ lock[Last(Held).lock].owner = current
  /\ SetContext([Context EXCEPT !.at = "nest"])
  /\ UNCHANGED <<lock, current, failed>>

(* Variant: nested = 1. *)
NestOnce ==
  /\ At("nest")
  /\ lock' = [lock EXCEPT ![Last(Held).lock].nested = 1]
  /\ SetContext([Context EXCEPT !.at = "call"])
  /\ UNCHANGED <<current, failed>>

Nest ==
  /\ At("nest")
  /\ lock' = [lock EXCEPT ![Last(Held).lock].nested = @ + 1]
  /\ SetContext([Context EXCEPT !.at = "call"])
  /\ UNCHANGED <<current, failed>>

(* spinlock_release, up to nested--; it asserts that interrupts are off. *)
spinlock_release ==
  /\ At("call") /\ Held # <<>> /\ Last(Held).lock # Cli
  /\ failed' = Context.if
  /\ lock' = [lock EXCEPT ![Last(Held).lock].nested = @ - 1]
  /\ SetContext([Context EXCEPT !.at = "free"])
  /\ UNCHANGED current

(* __sync_lock_release when nested is 0, then interrupts_leave_cli(flags). *)
Free ==
  /\ At("free")
  /\ lock' = [lock EXCEPT ![Last(Held).lock].owner =
                IF lock[Last(Held).lock].nested = 0 THEN NoOwner ELSE @]
  /\ SetContext([at |-> "call", if |-> Last(Held).flags, held |-> Front(Held)])
  /\ UNCHANGED <<current, failed>>

(* An interrupt, wherever the flag is set, and the return from it. *)
Interrupt ==
  /\ ~failed /\ Context.if
  /\ Len(contexts[current]) < MaxContexts
  /\ contexts' = [contexts EXCEPT ![current] = Append(@, NewContext)]
  /\ UNCHANGED <<lock, current, failed>>

Return ==
  /\ At("call") /\ Held = <<>>
  /\ Len(contexts[current]) > 1
  /\ contexts' = [contexts EXCEPT ![current] = Front(@)]
  /\ UNCHANGED <<lock, current, failed>>

(* Variant: the CPU is given away with a lock held. *)
SwitchHolding(t) ==
  /\ At("call") /\ Held # <<>>
  /\ current' = t
  /\ UNCHANGED <<lock, contexts, failed>>

(* process_context_switch, always inside an interrupts_enter_cli: the next *)
(* thread continues with its own flag.                                     *)
Switch(t) ==
  /\ At("call") /\ Held # <<>>
  /\ \A i \in 1 .. Len(Held) : Held[i].lock = Cli
  /\ current' = t
  /\ UNCHANGED <<lock, contexts, failed>>

Next ==
  \/ interrupts_enter_cli \/ interrupts_leave_cli
  \/ \E l \in Locks : spinlock_acquire(l)
  \/ Swap \/ Swapped \/ Nest
  \/ spinlock_release \/ Free
  \/ Interrupt \/ Return
  \/ \E t \in Threads : Switch(t)

Spec == Init /\ [][Next]_vars

----------------------------------------------------------------------------
(* Type invariant. *)
TypeOK ==
  /\ lock \in [Locks -> [owner : Threads \cup {NoOwner}, nested : Nat]]
  /\ current \in Threads
  /\ contexts \in [Threads -> Seq(ContextType) \ {<<>>}]
  /\ failed \in BOOLEAN

(* "interrupts disabled while held": a lock that is taken belongs to the   *)
(* thread that has the CPU, and that thread cannot be interrupted.  So     *)
(* spinlock_acquire never spins for another thread, which on the only CPU, *)
(* with interrupts off, would be for ever.                                 *)
OwnerHasCpu ==
  \A l \in Locks : lock[l].owner # NoOwner => lock[l].owner = current /\ ~Context.if

(* nested counts the calls that hold the lock, over all contexts of all    *)
(* threads, so the lock is free exactly when none does.                    *)
Holds(l) ==
  { x \in Threads \X (1 .. MaxContexts) \X (1 .. MaxHeld) :
      LET t == x[1]  c == x[2]  i == x[3]
      IN  /\ c <= Len(contexts[t]) /\ i <= Len(contexts[t][c].held)
          /\ contexts[t][c].held[i].lock = l
          /\ ~(i = Len(contexts[t][c].held) /\ contexts[t][c].at \in {"cas", "nest", "free"}) }

NestedCountsHolds == \A l \in Locks : lock[l].nested = Cardinality(Holds(l))

(* A context that has undone all its calls runs with interrupts enabled,   *)
(* as it started, and the assertion of spinlock_release never fails.       *)
FlagsRestored ==
  /\ ~failed
  /\ \A t \in Threads : \A i \in 1 .. Len(contexts[t]) :
       contexts[t][i].held = <<>> <=> contexts[t][i].if

=============================================================================
