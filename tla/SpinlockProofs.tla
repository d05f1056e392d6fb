--------------------------- MODULE SpinlockProofs ---------------------------
(***************************************************************************)
(* Proofs about Spinlock, for every set of threads and of locks and every  *)
(* depth of nesting of locks and of interrupts.                            *)
(*                                                                         *)
(* Where a context is inside a call, or holds a lock, no interrupt and no  *)
(* switch can come in between; so at most one context of all, the one that *)
(* runs, holds locks, and each lock's owner and count can be read off it.  *)
(***************************************************************************)
EXTENDS Spinlock, FiniteSetTheorems, TLAPS

----------------------------------------------------------------------------
(* Sequences. *)

(* Only the empty sequence has no elements. *)
LEMMA NoElements ==
  ASSUME NEW E, NEW q \in Seq(E)
  PROVE  q = <<>> <=> Len(q) = 0
OBVIOUS

(* The elements from the m-th to the n-th. *)
LEMMA Slice ==
  ASSUME NEW E, NEW q, NEW m \in Int, NEW n \in Int, \A i \in m .. n : q[i] \in E
  PROVE  /\ SubSeq(q, m, n) \in Seq(E)
         /\ Len(SubSeq(q, m, n)) = IF m <= n THEN n - m + 1 ELSE 0
         /\ \A i \in 1 .. n - m + 1 : SubSeq(q, m, n)[i] = q[m + i - 1]
OBVIOUS

(* The flags of a context and of the calls it has to undo. *)
Sound(c) ==
  /\ c.if <=> c.held = <<>>
  /\ \A j \in 1 .. Len(c.held) : c.held[j].flags <=> j = 1
  /\ c.at # "call" => c.held # <<>> /\ c.held[Len(c.held)].lock # Cli
  /\ Len(c.held) <= MaxHeld

(* A context that does not run has no lock. *)
Parked(c) ==
  /\ c.at = "call"
  /\ \A j \in 1 .. Len(c.held) : c.held[j].lock = Cli

(* The calls that hold lock l in context c. *)
Counted(c, l) ==
  {j \in 1 .. Len(c.held) : c.held[j].lock = l /\ (j = Len(c.held) => c.at = "call")}

(* What the lock record k of l is when thread t runs in context c. *)
Fits(k, l, c, t) ==
  /\ k.nested = Cardinality(Counted(c, l))
  /\ k.owner = NoOwner =>
       /\ Counted(c, l) = {}
       /\ ~(c.at \in {"nest", "free"} /\ c.held[Len(c.held)].lock = l)
  /\ k.owner # NoOwner =>
       k.owner = t /\ \E j \in 1 .. Len(c.held) : c.held[j].lock = l

(* The inductive invariant. *)
IInv ==
  /\ TypeOK
  /\ failed = FALSE
  /\ \A t \in Threads :
       /\ Len(contexts[t]) <= MaxContexts
       /\ \A i \in 1 .. Len(contexts[t]) :
            /\ Sound(contexts[t][i])
            /\ t # current \/ i # Len(contexts[t]) => Parked(contexts[t][i])
  /\ \A l \in Locks : Fits(lock[l], l, Context, current)


----------------------------------------------------------------------------
(* Sequences. *)

(* The front of a non-empty sequence. *)
LEMMA FrontFacts ==
  ASSUME NEW S, NEW s \in Seq(S), s # <<>>
  PROVE  /\ Len(s) \in Nat \ {0}
         /\ Last(s) = s[Len(s)] /\ s[Len(s)] \in S
         /\ Front(s) \in Seq(S) /\ Len(Front(s)) = Len(s) - 1
         /\ \A i \in 1 .. Len(s) - 1 : Front(s)[i] = s[i]
<1>1. Len(s) \in Nat /\ Len(s) # 0
  OBVIOUS
<1>2. Last(s) = s[Len(s)] /\ s[Len(s)] \in S
  BY <1>1 DEF Last
<1>3. \A i \in 1 .. Len(s) - 1 : s[i] \in S
  BY <1>1
<1>4. Front(s) \in Seq(S) /\ Len(Front(s)) = Len(s) - 1
  <2> DEFINE n == Len(s) - 1
             f == SubSeq(s, 1, n)
  <2>1. n \in Nat /\ n \in Int /\ 1 \in Int /\ \A i \in 1 .. n : s[i] \in S
    BY <1>1, <1>3
  <2> HIDE DEF n
  <2>2. f \in Seq(S) /\ Len(f) = IF 1 <= n THEN n - 1 + 1 ELSE 0
    BY <2>1, Slice
  <2> HIDE DEF f
  <2>3. Len(f) = n
    BY <2>1, <2>2
  <2>4. Front(s) = f
    BY DEF Front, f, n
  <2> QED  BY <2>2, <2>3, <2>4 DEF n
<1>5. \A i \in 1 .. Len(s) - 1 : Front(s)[i] = s[i]
  BY <1>1 DEF Front
<1> QED  BY <1>1, <1>2, <1>4, <1>5

(* Replacing the last element of a sequence. *)
LEMMA ReplaceLast ==
  ASSUME NEW S, NEW s \in Seq(S), s # <<>>, NEW c \in S
  PROVE  /\ Append(Front(s), c) \in Seq(S) \ {<<>>}
         /\ Len(Append(Front(s), c)) = Len(s)
         /\ Append(Front(s), c)[Len(s)] = c
         /\ \A i \in 1 .. Len(s) - 1 : Append(Front(s), c)[i] = s[i]
<1>1. Front(s) \in Seq(S) /\ Len(Front(s)) = Len(s) - 1 /\ Len(s) \in Nat \ {0}
  BY FrontFacts
<1>2. \A i \in 1 .. Len(s) - 1 : Front(s)[i] = s[i]
  BY FrontFacts
<1> HIDE DEF Front
<1> QED  BY <1>1, <1>2

----------------------------------------------------------------------------
(* Contexts. *)

(* What the running context is made of. *)
LEMMA Running ==
  ASSUME IInv
  PROVE  /\ contexts[current] \in Seq(ContextType) /\ contexts[current] # <<>>
         /\ current \in Threads
         /\ Len(contexts[current]) \in Nat \ {0}
         /\ Context = contexts[current][Len(contexts[current])]
         /\ Context \in ContextType
         /\ Context.held \in Seq([lock : Locks \cup {Cli}, flags : BOOLEAN])
         /\ Context.if \in BOOLEAN
         /\ Sound(Context)
<1>1. contexts[current] \in Seq(ContextType) /\ contexts[current] # <<>> /\ current \in Threads
  BY DEF IInv, TypeOK
<1>2. /\ Len(contexts[current]) \in Nat \ {0}
      /\ Context = contexts[current][Len(contexts[current])]
      /\ Context \in ContextType
  BY <1>1, FrontFacts DEF Context
<1>3. Sound(Context)
  BY <1>1, <1>2 DEF IInv
<1>4. /\ Context.held \in Seq([lock : Locks \cup {Cli}, flags : BOOLEAN])
      /\ Context.if \in BOOLEAN
  BY <1>2 DEF ContextType
<1> QED  BY <1>1, <1>2, <1>3, <1>4

(* The calls counted are finitely many. *)
LEMMA CountedFinite ==
  ASSUME NEW c \in ContextType, NEW l
  PROVE  IsFiniteSet(Counted(c, l)) /\ Cardinality(Counted(c, l)) \in Nat
<1>1. Len(c.held) \in Nat
  BY DEF ContextType
<1>2. IsFiniteSet(1 .. Len(c.held))
  BY <1>1, FS_Interval
<1>3. Counted(c, l) \in SUBSET (1 .. Len(c.held))
  BY DEF Counted
<1> QED  BY <1>2, <1>3, FS_Subset, FS_CardinalityType

(* A step that changes only the running context and the locks. *)
LEMMA ContextStep ==
  ASSUME IInv, NEW c \in ContextType, Sound(c), SetContext(c),
         current' = current, failed' = FALSE,
         lock' \in [Locks -> [owner : Threads \cup {NoOwner}, nested : Nat]],
         \A l \in Locks : Fits(lock'[l], l, c, current)
  PROVE  IInv'
<1> DEFINE old == contexts[current]
           new == Append(Front(old), c)
<1>1. old \in Seq(ContextType) /\ old # <<>> /\ current \in Threads /\ Len(old) \in Nat \ {0}
  BY Running
<1>2. /\ new \in Seq(ContextType) \ {<<>>} /\ Len(new) = Len(old) /\ new[Len(old)] = c
      /\ \A i \in 1 .. Len(old) - 1 : new[i] = old[i]
  BY <1>1, ReplaceLast
<1>3. contexts' = [contexts EXCEPT ![current] = new]
  BY DEF SetContext
<1> HIDE DEF new
<1>4. contexts \in [Threads -> Seq(ContextType) \ {<<>>}]
  BY DEF IInv, TypeOK
<1>5. contexts'[current] = new /\ \A t \in Threads \ {current} : contexts'[t] = contexts[t]
  BY <1>1, <1>3, <1>4
<1>6. contexts' \in [Threads -> Seq(ContextType) \ {<<>>}]
  BY <1>2, <1>3, <1>4, Zenon
<1>7. TypeOK'
  BY <1>1, <1>6, Zenon DEF TypeOK
<1>8. ASSUME NEW t \in Threads
      PROVE  /\ Len(contexts'[t]) <= MaxContexts
             /\ \A i \in 1 .. Len(contexts'[t]) :
                  /\ Sound(contexts'[t][i])
                  /\ t # current' \/ i # Len(contexts'[t]) => Parked(contexts'[t][i])
  <2>1. CASE t = current
    <3>1. /\ Len(old) <= MaxContexts
          /\ \A i \in 1 .. Len(old) : Sound(old[i]) /\ (i # Len(old) => Parked(old[i]))
      BY <1>1 DEF IInv
    <3>2. contexts'[t] = new
      BY <1>5, <2>1
    <3> HIDE DEF old
    <3> QED  BY <1>1, <1>2, <2>1, <3>1, <3>2
  <2>2. CASE t # current
    BY <1>5, <2>2 DEF IInv
  <2> QED  BY <2>1, <2>2
<1>9. Context' = c
  <2>1. Context' = contexts'[current][Len(contexts'[current])]
    BY DEF Context, Last
  <2> QED  BY <1>2, <1>5, <2>1
<1>10. \A l \in Locks : Fits(lock[l], l, Context, current)'
  BY <1>9 DEF Fits
<1> QED  BY <1>7, <1>8, <1>10 DEF IInv

----------------------------------------------------------------------------
(* The calls. *)

(* interrupts_enter_cli, alone or at the head of spinlock_acquire: the     *)
(* call being made is not counted yet.                                     *)
LEMMA EnterGood ==
  ASSUME IInv, NEW l \in Locks \cup {Cli}, NEW label \in {"call", "cas"},
         label = "cas" <=> l # Cli,
         At("call"), Len(Held) < MaxHeld, Enter(l, label),
         UNCHANGED <<lock, current, failed>>
  PROVE  IInv'
<1> DEFINE h == Context.held
           e == [lock |-> l, flags |-> Context.if]
           c == [at |-> label, if |-> FALSE, held |-> Append(h, e)]
<1>1. /\ h \in Seq([lock : Locks \cup {Cli}, flags : BOOLEAN]) /\ Context.if \in BOOLEAN
      /\ Sound(Context) /\ Context \in ContextType
  BY Running
<1>2. e \in [lock : Locks \cup {Cli}, flags : BOOLEAN]
  BY <1>1
<1>3. SetContext(c) /\ Context.at = "call" /\ Len(h) < MaxHeld /\ Len(h) \in Nat
  BY <1>1 DEF Enter, At, Held
<1>4. /\ Len(Append(h, e)) = Len(h) + 1 /\ Append(h, e)[Len(h) + 1] = e
      /\ \A j \in 1 .. Len(h) : Append(h, e)[j] = h[j]
      /\ Append(h, e) \in Seq([lock : Locks \cup {Cli}, flags : BOOLEAN])
      /\ Append(h, e) # <<>>
  BY <1>1, <1>2
<1>5. c \in ContextType
  BY <1>4 DEF ContextType
<1>6. h = <<>> <=> Len(h) = 0
  BY <1>1
<1> HIDE DEF h
<1>7. Sound(c)
  <2>1. ~c.if /\ c.held # <<>> /\ Len(c.held) <= MaxHeld
    BY <1>3, <1>4, SpinlockAssumption
  <2>2. c.held[Len(c.held)].lock = l /\ (c.at # "call" => l # Cli)
    BY <1>3, <1>4
  <2>3. ASSUME NEW j \in 1 .. Len(c.held)
        PROVE  c.held[j].flags <=> j = 1
    <3>1. CASE j = Len(h) + 1
      BY <1>1, <1>3, <1>4, <1>6, <3>1 DEF Sound, h
    <3>2. CASE j \in 1 .. Len(h)
      BY <1>1, <1>4, <3>2 DEF Sound, h
    <3> QED  BY <1>3, <1>4, <3>1, <3>2
  <2> HIDE DEF c
  <2> QED  BY <2>1, <2>2, <2>3 DEF Sound
<1>8. ASSUME NEW k \in Locks
      PROVE  Fits(lock'[k], k, c, current)
  <2>1. Fits(lock[k], k, Context, current) /\ lock' = lock
    BY DEF IInv
  <2>2. Counted(c, k) = Counted(Context, k)
    <3>1. Counted(c, k) = {j \in 1 .. Len(h) + 1 :
                             Append(h, e)[j].lock = k /\ (j = Len(h) + 1 => label = "call")}
      BY <1>4 DEF Counted
    <3>2. Counted(Context, k) = {j \in 1 .. Len(h) : h[j].lock = k}
      BY <1>3 DEF Counted, h
    <3>3. label = "call" => e.lock # k
      BY SpinlockAssumption
    <3>4. Append(h, e)[Len(h) + 1].lock = k => label # "call"
      BY <1>4, <3>3
    <3>5. \A j \in 1 .. Len(h) + 1 : j \in 1 .. Len(h) \/ j = Len(h) + 1
      BY <1>3
    <3>6. \A j \in 1 .. Len(h) : j # Len(h) + 1 /\ j \in 1 .. Len(h) + 1
      BY <1>3
    <3>7. \A j \in 1 .. Len(h) : Append(h, e)[j] = h[j]
      BY <1>4
    <3> HIDE DEF e
    <3> QED  BY <3>1, <3>2, <3>4, <3>5, <3>6, <3>7, Zenon
  <2>3. c.at \notin {"nest", "free"}
    OBVIOUS
  <2>4. (\E j \in 1 .. Len(h) : h[j].lock = k) => \E j \in 1 .. Len(c.held) : c.held[j].lock = k
    BY <1>3, <1>4
  <2> HIDE DEF c
  <2> QED  BY <2>1, <2>2, <2>3, <2>4 DEF Fits, h
<1>9. failed' = FALSE /\ lock' \in [Locks -> [owner : Threads \cup {NoOwner}, nested : Nat]]
  BY DEF IInv, TypeOK
<1> HIDE DEF c
<1> QED  BY <1>3, <1>5, <1>7, <1>8, <1>9, ContextStep, Zenon

(* interrupts_leave_cli, alone or at the end of spinlock_release: the      *)
(* context without the call that is undone.                                *)
LEMMA LeaveSound ==
  ASSUME IInv, Held # <<>>,
         NEW c, c = [at |-> "call", if |-> Last(Held).flags, held |-> Front(Held)]
  PROVE  /\ c \in ContextType /\ Sound(c)
         /\ Len(Context.held) \in Nat \ {0} /\ Len(c.held) = Len(Context.held) - 1
         /\ \A j \in 1 .. Len(Context.held) - 1 : c.held[j] = Context.held[j]
<1> DEFINE h == Context.held
           S == [lock : Locks \cup {Cli}, flags : BOOLEAN]
<1>1. h \in Seq(S) /\ h # <<>> /\ Sound(Context) /\ Held = h
  BY Running DEF Held
<1>2. /\ Len(h) \in Nat \ {0} /\ Last(h) = h[Len(h)] /\ h[Len(h)] \in S
      /\ Front(h) \in Seq(S) /\ Len(Front(h)) = Len(h) - 1
      /\ \A i \in 1 .. Len(h) - 1 : Front(h)[i] = h[i]
  <2> HIDE DEF h, S
  <2> QED  BY <1>1, FrontFacts
<1>3. c = [at |-> "call", if |-> h[Len(h)].flags, held |-> Front(h)]
  BY <1>1, <1>2
<1>4. c \in ContextType
  BY <1>2, <1>3 DEF ContextType
<1>5. Front(h) = <<>> <=> Len(h) = 1
  <2> HIDE DEF h, S
  <2>1. Front(h) = <<>> <=> Len(Front(h)) = 0
    BY <1>2, NoElements
  <2> QED  BY <1>2, <2>1
<1>6. h[Len(h)].flags <=> Len(h) = 1
  <2>1. \A j \in 1 .. Len(h) : h[j].flags <=> j = 1
    BY <1>1 DEF Sound
  <2>2. Len(h) \in 1 .. Len(h)
    BY <1>2
  <2> HIDE DEF h
  <2> QED  BY <2>1, <2>2, Zenon
<1>7. \A j \in 1 .. Len(h) - 1 : Front(h)[j].flags <=> j = 1
  BY <1>1, <1>2 DEF Sound
<1>8. Len(h) <= MaxHeld
  BY <1>1 DEF Sound
<1> HIDE DEF h
<1>9. Sound(c)
  BY <1>2, <1>3, <1>5, <1>6, <1>7, <1>8, SpinlockAssumption DEF Sound
<1> QED  BY <1>2, <1>3, <1>4, <1>9 DEF h

(* interrupts_leave_cli keeps the invariant. *)
LEMMA LeaveGood ==
  ASSUME IInv, interrupts_leave_cli
  PROVE  IInv'
<1> DEFINE c == [at |-> "call", if |-> Last(Held).flags, held |-> Front(Held)]
           h == Context.held
           g == Front(Held)
<1>1. SetContext(c) /\ Held # <<>> /\ Context.at = "call" /\ Last(Held).lock = Cli
  BY DEF interrupts_leave_cli, At
<1>2. /\ c \in ContextType /\ Sound(c) /\ Len(h) \in Nat \ {0} /\ Len(g) = Len(h) - 1
      /\ \A j \in 1 .. Len(h) - 1 : g[j] = h[j]
  <2>1. c.held = g
    OBVIOUS
  <2> HIDE DEF c, g, h
  <2> QED  BY <1>1, <2>1, LeaveSound DEF c, h
<1>3. h[Len(h)].lock = Cli
  BY <1>1 DEF Last, Held
<1>4. ASSUME NEW k \in Locks
      PROVE  Fits(lock'[k], k, c, current)
  <2>1. Fits(lock[k], k, Context, current) /\ lock' = lock /\ k # Cli
    BY SpinlockAssumption DEF IInv, interrupts_leave_cli
  <2>2. Counted(c, k) = {j \in 1 .. Len(g) : g[j].lock = k}
    BY DEF Counted
  <2>3. Counted(Context, k) = {j \in 1 .. Len(h) : h[j].lock = k}
    BY <1>1 DEF Counted
  <2>4. Counted(c, k) = Counted(Context, k)
    <3> HIDE DEF g, h, c
    <3>1. \A j \in 1 .. Len(h) : j \in 1 .. Len(g) \/ j = Len(h)
      BY <1>2
    <3>2. \A j \in 1 .. Len(g) : j \in 1 .. Len(h) /\ g[j] = h[j]
      BY <1>2
    <3> QED  BY <1>3, <2>1, <2>2, <2>3, <3>1, <3>2
  <2>5. (\E j \in 1 .. Len(h) : h[j].lock = k) => \E j \in 1 .. Len(g) : g[j].lock = k
    BY <2>2, <2>3, <2>4
  <2>6. c.at = "call" /\ c.held = g
    OBVIOUS
  <2> HIDE DEF c, g
  <2> QED  BY <2>1, <2>4, <2>5, <2>6 DEF Fits
<1>5. /\ failed' = FALSE /\ current' = current
      /\ lock' \in [Locks -> [owner : Threads \cup {NoOwner}, nested : Nat]]
  BY DEF IInv, TypeOK, interrupts_leave_cli
<1> HIDE DEF c
<1> QED  BY <1>1, <1>2, <1>4, <1>5, ContextStep, Zenon

(* The compare-and-swap that takes the lock: no context changes. *)
LEMMA SwapGood ==
  ASSUME IInv, Swap
  PROVE  IInv'
<1> DEFINE h == Context.held
           m == h[Len(h)].lock
<1>1. /\ h # <<>> /\ m # Cli /\ h \in Seq([lock : Locks \cup {Cli}, flags : BOOLEAN])
      /\ Context.at = "cas" /\ current \in Threads
  BY Running DEF Swap, At, Sound
<1>2. Len(h) \in Nat \ {0} /\ m \in Locks
  <2> HIDE DEF h
  <2>1. /\ Len(h) \in Nat \ {0}
        /\ h[Len(h)] \in [lock : Locks \cup {Cli}, flags : BOOLEAN]
    BY <1>1, FrontFacts, Zenon
  <2> QED  BY <1>1, <2>1
<1>3. lock \in [Locks -> [owner : Threads \cup {NoOwner}, nested : Nat]]
  BY DEF IInv, TypeOK
<1>4. lock' = [lock EXCEPT ![m].owner = current] /\ lock[m].owner = NoOwner
  BY DEF Swap, Last, Held
<1> HIDE DEF m
<1>5. lock' \in [Locks -> [owner : Threads \cup {NoOwner}, nested : Nat]]
  BY <1>1, <1>3, <1>4, Zenon
<1>6. UNCHANGED <<current, contexts, failed>> /\ Context' = Context
  BY DEF Swap, Context, Last
<1>7. ASSUME NEW k \in Locks
      PROVE  Fits(lock'[k], k, Context, current)
  <2>1. Fits(lock[k], k, Context, current)
    BY DEF IInv
  <2>2. CASE k # m
    BY <1>3, <1>4, <2>1, <2>2
  <2>3. CASE k = m
    <3>1. lock'[k].owner = current /\ lock'[k].nested = lock[k].nested
      BY <1>2, <1>3, <1>4, <2>3
    <3>2. Len(h) \in 1 .. Len(h) /\ h[Len(h)].lock = k
      BY <1>2, <2>3 DEF m
    <3>3. current # NoOwner
      BY <1>1, SpinlockAssumption
    <3> QED  BY <2>1, <3>1, <3>2, <3>3 DEF Fits
  <2> QED  BY <2>2, <2>3
<1>8. TypeOK'
  BY <1>5, <1>6 DEF IInv, TypeOK
<1>9. \A l \in Locks : Fits(lock[l], l, Context, current)'
  BY <1>6, <1>7 DEF Fits
<1> QED  BY <1>6, <1>8, <1>9 DEF IInv

(* A change of where the running context is, with its calls unchanged. *)
LEMMA MoveSound ==
  ASSUME IInv, Held # <<>>, Last(Held).lock # Cli,
         NEW at \in {"call", "nest", "free"}, NEW c, c = [Context EXCEPT !.at = at]
  PROVE  /\ c \in ContextType /\ Sound(c)
         /\ c.at = at /\ c.held = Context.held
         /\ Len(Context.held) \in Nat \ {0}
         /\ Context.held[Len(Context.held)].lock \in Locks
<1>1. /\ Context \in ContextType /\ Sound(Context)
      /\ Context.held \in Seq([lock : Locks \cup {Cli}, flags : BOOLEAN])
  BY Running
<1>2. c \in ContextType /\ c.at = at /\ c.held = Context.held /\ c.if = Context.if
  BY <1>1 DEF ContextType
<1>3. Context.held # <<>> /\ Context.held[Len(Context.held)].lock # Cli
  BY DEF Held, Last
<1>4. Len(Context.held) \in Nat \ {0}
  BY <1>1, <1>3
<1>5. Context.held[Len(Context.held)].lock \in Locks
  <2> DEFINE h == Context.held
  <2>1. h[Len(h)] \in [lock : Locks \cup {Cli}, flags : BOOLEAN]
    <3> HIDE DEF h
    <3> QED  BY <1>1, <1>3, FrontFacts, Zenon DEF h
  <2> QED  BY <1>3, <2>1
<1>6. Sound(c)
  BY <1>1, <1>2, <1>3 DEF Sound
<1> QED  BY <1>2, <1>4, <1>5, <1>6

(* The loop of spinlock_acquire ends; nothing is counted yet. *)
LEMMA SwappedGood ==
  ASSUME IInv, Swapped
  PROVE  IInv'
<1> DEFINE c == [Context EXCEPT !.at = "nest"]
           h == Context.held
           m == h[Len(h)].lock
<1>1. SetContext(c) /\ Context.at = "cas" /\ lock' = lock /\ lock[m].owner = current
  BY DEF Swapped, At, Held, Last
<1>2. Held # <<>> /\ Last(Held).lock # Cli /\ Last(Held).lock = m
  BY <1>1, Running DEF Sound, Held, Last
<1>3. /\ c \in ContextType /\ Sound(c) /\ c.at = "nest" /\ c.held = h
      /\ Len(h) \in Nat \ {0} /\ m \in Locks
  BY <1>2, MoveSound
<1>4. ASSUME NEW k \in Locks
      PROVE  Fits(lock'[k], k, c, current)
  <2>1. Fits(lock[k], k, Context, current)
    BY DEF IInv
  <2> HIDE DEF c, h
  <2>2. Counted(c, k) = Counted(Context, k)
    BY <1>1, <1>3 DEF Counted, h
  <2>3. lock[k].owner = NoOwner => k # m
    BY <1>1, Running, SpinlockAssumption
  <2> QED  BY <1>1, <1>3, <2>1, <2>2, <2>3 DEF Fits, h
<1>5. /\ failed' = FALSE /\ current' = current
      /\ lock' \in [Locks -> [owner : Threads \cup {NoOwner}, nested : Nat]]
  BY DEF IInv, TypeOK, Swapped
<1> HIDE DEF c
<1> QED  BY <1>1, <1>3, <1>4, <1>5, ContextStep, Zenon

(* nested++ counts the call that has been made. *)
LEMMA NestGood ==
  ASSUME IInv, Nest
  PROVE  IInv'
<1> DEFINE c == [Context EXCEPT !.at = "call"]
           h == Context.held
           m == h[Len(h)].lock
<1>1. SetContext(c) /\ Context.at = "nest" /\ lock' = [lock EXCEPT ![m].nested = @ + 1]
  BY DEF Nest, At, Held, Last
<1>2. Held # <<>> /\ Last(Held).lock # Cli
  BY <1>1, Running DEF Sound, Held, Last
<1>3. /\ c \in ContextType /\ Sound(c) /\ c.at = "call" /\ c.held = h
      /\ Len(h) \in Nat \ {0} /\ m \in Locks
  BY <1>2, MoveSound
<1>4. /\ lock \in [Locks -> [owner : Threads \cup {NoOwner}, nested : Nat]]
      /\ Context \in ContextType
  BY Running, Zenon DEF IInv, TypeOK
<1> HIDE DEF c, h, m
<1>5. lock' \in [Locks -> [owner : Threads \cup {NoOwner}, nested : Nat]]
  BY <1>1, <1>3, <1>4
<1>6. ASSUME NEW k \in Locks
      PROVE  Fits(lock'[k], k, c, current)
  <2>1. Fits(lock[k], k, Context, current)
    BY DEF IInv
  <2>2. Counted(c, k) = {j \in 1 .. Len(h) : h[j].lock = k}
    BY <1>3 DEF Counted
  <2>3. Counted(Context, k) = {j \in 1 .. Len(h) : h[j].lock = k /\ j # Len(h)}
    BY <1>1 DEF Counted, h
  <2>4. CASE k # m
    <3>1. Counted(c, k) = Counted(Context, k)
      BY <2>2, <2>3, <2>4 DEF m
    <3>2. lock'[k] = lock[k]
      BY <1>1, <1>4, <2>4
    <3> QED  BY <1>3, <2>1, <3>1, <3>2 DEF Fits, h
  <2>5. CASE k = m
    <3>1. Counted(c, k) = Counted(Context, k) \cup {Len(h)} /\ Len(h) \notin Counted(Context, k)
      <4>1. Len(h) \in 1 .. Len(h)
        BY <1>3
      <4> QED  BY <2>2, <2>3, <2>5, <4>1 DEF m
    <3>2. Cardinality(Counted(c, k)) = Cardinality(Counted(Context, k)) + 1
      BY <1>4, <3>1, CountedFinite, FS_AddElement, Zenon
    <3>3. lock'[k].nested = lock[k].nested + 1 /\ lock'[k].owner = lock[k].owner
      BY <1>1, <1>4, <2>5
    <3>4. lock[k].owner # NoOwner
      BY <1>1, <2>1, <2>5 DEF Fits, m, h
    <3> QED  BY <1>3, <2>1, <3>2, <3>3, <3>4 DEF Fits, h
  <2> QED  BY <2>4, <2>5
<1>7. failed' = FALSE /\ current' = current
  BY DEF IInv, TypeOK, Nest
<1> QED  BY <1>1, <1>3, <1>5, <1>6, <1>7, ContextStep, Zenon

(* spinlock_release up to nested--: interrupts are off, so its assertion   *)
(* holds, and the call was counted, so nested is not 0.                    *)
LEMMA ReleaseGood ==
  ASSUME IInv, spinlock_release
  PROVE  IInv'
<1> DEFINE c == [Context EXCEPT !.at = "free"]
           h == Context.held
           m == h[Len(h)].lock
<1>1. SetContext(c) /\ Context.at = "call" /\ lock' = [lock EXCEPT ![m].nested = @ - 1]
  BY DEF spinlock_release, At, Held, Last
<1>2. Held # <<>> /\ Last(Held).lock # Cli
  BY DEF spinlock_release
<1>3. /\ c \in ContextType /\ Sound(c) /\ c.at = "free" /\ c.held = h
      /\ Len(h) \in Nat \ {0} /\ m \in Locks
  BY <1>2, MoveSound
<1>4. /\ lock \in [Locks -> [owner : Threads \cup {NoOwner}, nested : Nat]]
      /\ Context \in ContextType /\ Sound(Context) /\ Context.if \in BOOLEAN
  BY Running, Zenon DEF IInv, TypeOK
<1>5. failed' = FALSE /\ current' = current
  BY <1>2, <1>4 DEF spinlock_release, Sound, Held
<1> HIDE DEF c, h, m
<1>6. Len(h) \in Counted(Context, m)
  <2>1. Len(h) \in 1 .. Len(h)
    BY <1>3
  <2> QED  BY <1>1, <2>1 DEF Counted, h, m
<1>7. lock[m].nested = Cardinality(Counted(Context, m)) /\ lock[m].nested # 0
  <2>1. lock[m].nested = Cardinality(Counted(Context, m))
    BY <1>3 DEF IInv, Fits
  <2>2. Cardinality(Counted(Context, m)) # 0
    BY <1>4, <1>6, CountedFinite, FS_EmptySet
  <2> QED  BY <2>1, <2>2
<1>8. lock' \in [Locks -> [owner : Threads \cup {NoOwner}, nested : Nat]]
  <2>1. lock[m].nested - 1 \in Nat
    BY <1>3, <1>4, <1>7
  <2> QED  BY <1>1, <1>3, <1>4, <2>1
<1>9. ASSUME NEW k \in Locks
      PROVE  Fits(lock'[k], k, c, current)
  <2>1. Fits(lock[k], k, Context, current)
    BY DEF IInv
  <2>2. Counted(c, k) = {j \in 1 .. Len(h) : h[j].lock = k /\ j # Len(h)}
    BY <1>3 DEF Counted
  <2>3. Counted(Context, k) = {j \in 1 .. Len(h) : h[j].lock = k}
    BY <1>1 DEF Counted, h
  <2>4. CASE k # m
    <3>1. Counted(c, k) = Counted(Context, k)
      BY <2>2, <2>3, <2>4 DEF m
    <3>2. lock'[k] = lock[k]
      BY <1>1, <1>4, <2>4
    <3>3. c.held[Len(c.held)].lock # k
      BY <1>3, <2>4 DEF m
    <3> QED  BY <1>3, <2>1, <3>1, <3>2, <3>3 DEF Fits, h
  <2>5. CASE k = m
    <3>1. Counted(c, k) = Counted(Context, k) \ {Len(h)}
      BY <2>2, <2>3
    <3>2. Cardinality(Counted(c, k)) = Cardinality(Counted(Context, k)) - 1
      BY <1>4, <1>6, <2>5, <3>1, CountedFinite, FS_RemoveElement, Zenon
    <3>3. lock'[k].nested = lock[k].nested - 1 /\ lock'[k].owner = lock[k].owner
      BY <1>1, <1>4, <2>5
    <3>4. lock[k].owner # NoOwner
      BY <1>6, <2>1, <2>5 DEF Fits
    <3> QED  BY <1>3, <2>1, <3>2, <3>3, <3>4 DEF Fits, h
  <2> QED  BY <2>4, <2>5
<1> QED  BY <1>1, <1>3, <1>5, <1>8, <1>9, ContextStep, Zenon

(* The end of spinlock_release: while calls are counted the lock stays     *)
(* with its owner, and one of them is a call the context has left.         *)
LEMMA FreeGood ==
  ASSUME IInv, Free
  PROVE  IInv'
<1> DEFINE c == [at |-> "call", if |-> Last(Held).flags, held |-> Front(Held)]
           h == Context.held
           g == Front(Held)
           m == h[Len(h)].lock
<1>1. /\ SetContext(c) /\ Context.at = "free"
      /\ lock' = [lock EXCEPT ![m].owner = IF lock[m].nested = 0 THEN NoOwner ELSE @]
  BY DEF Free, At, Held, Last
<1>2. Held # <<>> /\ Last(Held).lock # Cli /\ h # <<>> /\ m # Cli
  BY <1>1, Running DEF Sound, Held, Last
<1>3. /\ c \in ContextType /\ Sound(c) /\ Len(h) \in Nat \ {0} /\ Len(g) = Len(h) - 1
      /\ \A j \in 1 .. Len(h) - 1 : g[j] = h[j]
  <2>1. c.held = g
    OBVIOUS
  <2> HIDE DEF c, g, h
  <2> QED  BY <1>2, <2>1, LeaveSound DEF c, h
<1>4. /\ lock \in [Locks -> [owner : Threads \cup {NoOwner}, nested : Nat]]
      /\ Context \in ContextType /\ m \in Locks
  <2>1. h[Len(h)] \in [lock : Locks \cup {Cli}, flags : BOOLEAN]
    <3> HIDE DEF h
    <3> QED  BY <1>2, Running, FrontFacts, Zenon DEF h
  <2> QED  BY <1>2, <2>1, Running, Zenon DEF IInv, TypeOK
<1>5. c.at = "call" /\ c.held = g
  OBVIOUS
<1> HIDE DEF c, g, h, m
<1>6. lock' \in [Locks -> [owner : Threads \cup {NoOwner}, nested : Nat]]
  BY <1>1, <1>4
<1>7. ASSUME NEW k \in Locks
      PROVE  Fits(lock'[k], k, c, current)
  <2>1. Fits(lock[k], k, Context, current)
    BY DEF IInv
  <2>2. Counted(c, k) = {j \in 1 .. Len(g) : g[j].lock = k}
    BY <1>5 DEF Counted
  <2>3. Counted(Context, k) = {j \in 1 .. Len(h) : h[j].lock = k /\ j # Len(h)}
    BY <1>1 DEF Counted, h
  <2>4. Counted(c, k) = Counted(Context, k)
    <3>1. \A j \in 1 .. Len(h) : j \in 1 .. Len(g) \/ j = Len(h)
      BY <1>3
    <3>2. \A j \in 1 .. Len(g) : j \in 1 .. Len(h) /\ j # Len(h) /\ g[j] = h[j]
      BY <1>3
    <3> QED  BY <2>2, <2>3, <3>1, <3>2
  <2>5. Counted(c, k) # {} => \E j \in 1 .. Len(c.held) : c.held[j].lock = k
    BY <1>5, <2>2
  <2>6. CASE k # m
    <3>1. lock'[k] = lock[k]
      BY <1>1, <1>4, <2>6
    <3>2. (\E j \in 1 .. Len(h) : h[j].lock = k) => Counted(Context, k) # {}
      BY <2>3, <2>6 DEF m
    <3> QED  BY <1>5, <2>1, <2>4, <2>5, <3>1, <3>2 DEF Fits, h
  <2>7. CASE k = m
    <3>1. /\ lock'[k].nested = lock[k].nested
          /\ lock'[k].owner = IF lock[k].nested = 0 THEN NoOwner ELSE lock[k].owner
      BY <1>1, <1>4, <2>7
    <3>2. lock[k].nested = 0 <=> Counted(Context, k) = {}
      BY <1>4, <2>1, CountedFinite, FS_EmptySet DEF Fits
    <3> QED  BY <1>5, <2>1, <2>4, <2>5, <3>1, <3>2 DEF Fits
  <2> QED  BY <2>6, <2>7
<1>8. failed' = FALSE /\ current' = current
  BY DEF IInv, TypeOK, Free
<1> QED  BY <1>1, <1>3, <1>6, <1>7, <1>8, ContextStep, Zenon

----------------------------------------------------------------------------
(* The steps that make another context run. *)

(* Without a lock among its calls the running context has none, and every  *)
(* lock is as it fits any context that has none either.                    *)
LEMMA NoLockHeld ==
  ASSUME IInv, Context.at = "call",
         \A j \in 1 .. Len(Context.held) : Context.held[j].lock = Cli,
         NEW l \in Locks, NEW c, Parked(c), NEW t
  PROVE  Fits(lock[l], l, c, t)
<1>1. l # Cli
  BY SpinlockAssumption
<1>2. Fits(lock[l], l, Context, current)
  BY DEF IInv
<1>3. Counted(Context, l) = {} /\ ~ \E j \in 1 .. Len(Context.held) : Context.held[j].lock = l
  BY <1>1 DEF Counted
<1>4. Counted(c, l) = {}
  BY <1>1 DEF Counted, Parked
<1>5. lock[l].owner = NoOwner
  BY <1>2, <1>3 DEF Fits
<1> QED  BY <1>2, <1>3, <1>4, <1>5 DEF Fits, Parked

(* A new context is sound and has no lock. *)
LEMMA NewContextGood ==
  NewContext \in ContextType /\ Sound(NewContext) /\ Parked(NewContext)
<1>1. NewContext.held = <<>> /\ NewContext.at = "call" /\ NewContext.if = TRUE
  BY DEF NewContext
<1>2. 1 .. Len(NewContext.held) = {} /\ Len(NewContext.held) = 0
  BY <1>1
<1>3. Sound(NewContext) /\ Parked(NewContext)
  BY <1>1, <1>2, SpinlockAssumption DEF Sound, Parked
<1>4. NewContext \in ContextType
  BY DEF NewContext, ContextType
<1> QED  BY <1>3, <1>4

(* Initially no context has made a call. *)
LEMMA InitGood ==
  ASSUME Init
  PROVE  IInv
<1>1. TypeOK /\ failed = FALSE
  <2>1. <<NewContext>> \in Seq(ContextType) \ {<<>>}
    BY NewContextGood
  <2> HIDE DEF NewContext
  <2> QED  BY <2>1, Zenon DEF Init, TypeOK
<1>2. \A t \in Threads : Len(contexts[t]) = 1 /\ contexts[t][1] = NewContext
  BY DEF Init
<1>3. Context = NewContext
  BY <1>2 DEF Context, Last, Init
<1>4. ASSUME NEW l \in Locks
      PROVE  Fits(lock[l], l, NewContext, current)
  <2>1. Counted(NewContext, l) = {}
    BY NewContextGood, SpinlockAssumption DEF Counted, Parked
  <2>2. lock[l].owner = NoOwner /\ lock[l].nested = 0
    BY DEF Init
  <2>3. NewContext.at = "call"
    BY DEF NewContext
  <2> QED  BY <2>1, <2>2, <2>3, FS_EmptySet DEF Fits
<1>5. ASSUME NEW t \in Threads
      PROVE  /\ Len(contexts[t]) <= MaxContexts
             /\ \A i \in 1 .. Len(contexts[t]) : i = 1 /\ contexts[t][i] = NewContext
  <2>1. Len(contexts[t]) = 1 /\ contexts[t][1] = NewContext
    BY <1>2
  <2>2. 1 .. 1 = {1} /\ 1 <= MaxContexts
    BY SpinlockAssumption
  <2> QED  BY <2>1, <2>2
<1>6. \A t \in Threads : \A i \in 1 .. Len(contexts[t]) :
        Sound(contexts[t][i]) /\ Parked(contexts[t][i])
  <2> HIDE DEF NewContext
  <2> QED  BY <1>5, NewContextGood
<1>7. \A l \in Locks : Fits(lock[l], l, Context, current)
  BY <1>3, <1>4
<1> QED  BY <1>1, <1>5, <1>6, <1>7 DEF IInv

(* An interrupt arrives only in a context that has nothing to undo. *)
LEMMA InterruptGood ==
  ASSUME IInv, Interrupt
  PROVE  IInv'
<1> DEFINE old == contexts[current]
           new == Append(old, NewContext)
<1>1. /\ old \in Seq(ContextType) /\ old # <<>> /\ current \in Threads
      /\ Len(old) \in Nat \ {0} /\ Context = old[Len(old)] /\ Sound(Context)
  BY Running
<1>2. Len(old) < MaxContexts /\ contexts' = [contexts EXCEPT ![current] = new] /\ Context.if
  BY DEF Interrupt
<1>3. UNCHANGED <<lock, current, failed>>
  BY DEF Interrupt
<1>4. Context.held = <<>> /\ Context.at = "call"
  BY <1>1, <1>2 DEF Sound
<1>5. Parked(Context)
  BY <1>4 DEF Parked
<1>6. /\ new \in Seq(ContextType) \ {<<>>} /\ Len(new) = Len(old) + 1
      /\ new[Len(old) + 1] = NewContext /\ \A i \in 1 .. Len(old) : new[i] = old[i]
  BY <1>1, NewContextGood
<1> HIDE DEF new
<1>7. contexts \in [Threads -> Seq(ContextType) \ {<<>>}]
  BY DEF IInv, TypeOK
<1>8. contexts'[current] = new /\ \A t \in Threads \ {current} : contexts'[t] = contexts[t]
  BY <1>1, <1>2, <1>7
<1>9. TypeOK'
  BY <1>2, <1>3, <1>6, <1>7 DEF IInv, TypeOK
<1>10. ASSUME NEW t \in Threads
       PROVE  /\ Len(contexts'[t]) <= MaxContexts
              /\ \A i \in 1 .. Len(contexts'[t]) :
                   /\ Sound(contexts'[t][i])
                   /\ t # current' \/ i # Len(contexts'[t]) => Parked(contexts'[t][i])
  <2>1. CASE t = current
    <3>1. \A i \in 1 .. Len(old) : Sound(old[i]) /\ (i # Len(old) => Parked(old[i]))
      BY <1>1 DEF IInv
    <3>2. contexts'[t] = new /\ Parked(old[Len(old)])
      BY <1>1, <1>5, <1>8, <2>1
    <3>3. Len(new) <= MaxContexts
      BY <1>1, <1>2, <1>6, SpinlockAssumption
    <3>4. \A i \in 1 .. Len(new) : i \in 1 .. Len(old) \/ i = Len(new)
      BY <1>1, <1>6
    <3> HIDE DEF old
    <3> QED  BY <1>6, <2>1, <3>1, <3>2, <3>3, <3>4, NewContextGood
  <2>2. CASE t # current
    BY <1>3, <1>8, <2>2 DEF IInv
  <2> QED  BY <2>1, <2>2
<1>11. Context' = NewContext
  <2>1. Context' = contexts'[current][Len(contexts'[current])]
    BY <1>3 DEF Context, Last
  <2> QED  BY <1>6, <1>8, <2>1
<1>12. \A l \in Locks : Fits(lock[l], l, NewContext, current)
  BY <1>4, <1>5, NoLockHeld, NewContextGood DEF Parked
<1>13. \A l \in Locks : Fits(lock[l], l, Context, current)'
  BY <1>3, <1>11, <1>12 DEF Fits
<1> QED  BY <1>3, <1>9, <1>10, <1>13 DEF IInv

(* A handler returns with nothing to undo. *)
LEMMA ReturnGood ==
  ASSUME IInv, Return
  PROVE  IInv'
<1> DEFINE old == contexts[current]
           new == Front(old)
<1>1. /\ old \in Seq(ContextType) /\ old # <<>> /\ current \in Threads
      /\ Len(old) \in Nat \ {0} /\ Context = old[Len(old)]
  BY Running
<1>2. /\ Len(old) > 1 /\ contexts' = [contexts EXCEPT ![current] = new]
      /\ Context.at = "call" /\ Context.held = <<>>
  BY DEF Return, At, Held
<1>3. UNCHANGED <<lock, current, failed>>
  BY DEF Return
<1>4. /\ new \in Seq(ContextType) \ {<<>>} /\ Len(new) = Len(old) - 1
      /\ \A i \in 1 .. Len(old) - 1 : new[i] = old[i]
  <2> HIDE DEF old
  <2>1. /\ new \in Seq(ContextType) /\ Len(new) = Len(old) - 1
        /\ \A i \in 1 .. Len(old) - 1 : new[i] = old[i]
    BY <1>1, FrontFacts
  <2>2. Len(old) - 1 # 0
    BY <1>1, <1>2
  <2> HIDE DEF new
  <2>3. new # <<>>
    BY <2>1, <2>2
  <2> QED  BY <2>1, <2>3
<1> HIDE DEF new
<1>5. contexts \in [Threads -> Seq(ContextType) \ {<<>>}]
  BY DEF IInv, TypeOK
<1>6. contexts'[current] = new /\ \A t \in Threads \ {current} : contexts'[t] = contexts[t]
  BY <1>1, <1>2, <1>5
<1>7. TypeOK'
  BY <1>2, <1>3, <1>4, <1>5 DEF IInv, TypeOK
<1>8. /\ Len(old) <= MaxContexts
      /\ \A i \in 1 .. Len(old) : Sound(old[i]) /\ (i # Len(old) => Parked(old[i]))
  BY <1>1 DEF IInv
<1>9. ASSUME NEW t \in Threads
      PROVE  /\ Len(contexts'[t]) <= MaxContexts
             /\ \A i \in 1 .. Len(contexts'[t]) :
                  /\ Sound(contexts'[t][i])
                  /\ t # current' \/ i # Len(contexts'[t]) => Parked(contexts'[t][i])
  <2>1. CASE t = current
    <3>1. Len(new) <= MaxContexts
      BY <1>1, <1>4, <1>8, SpinlockAssumption
    <3>2. \A i \in 1 .. Len(new) : i \in 1 .. Len(old) /\ i # Len(old) /\ new[i] = old[i]
      BY <1>1, <1>4
    <3> HIDE DEF old
    <3> QED  BY <1>6, <1>8, <2>1, <3>1, <3>2
  <2>2. CASE t # current
    BY <1>3, <1>6, <2>2 DEF IInv
  <2> QED  BY <2>1, <2>2
<1>10. Parked(Context')
  <2>1. Context' = new[Len(new)]
    BY <1>3, <1>6 DEF Context, Last
  <2>2. Len(new) \in 1 .. Len(old) /\ Len(new) # Len(old) /\ new[Len(new)] = old[Len(new)]
    BY <1>1, <1>2, <1>4
  <2> HIDE DEF old
  <2> QED  BY <1>8, <2>1, <2>2
<1>11. \A j \in 1 .. Len(Context.held) : Context.held[j].lock = Cli
  BY <1>2
<1>12. \A l \in Locks : Fits(lock[l], l, Context', current)
  BY <1>2, <1>10, <1>11, NoLockHeld
<1>13. \A l \in Locks : Fits(lock[l], l, Context, current)'
  BY <1>3, <1>12 DEF Fits
<1> QED  BY <1>3, <1>7, <1>9, <1>13 DEF IInv

(* A context that gives the CPU away has no lock. *)
LEMMA SwitchGood ==
  ASSUME IInv, NEW t \in Threads, Switch(t)
  PROVE  IInv'
<1>1. /\ Context.at = "call" /\ current' = t
      /\ \A j \in 1 .. Len(Context.held) : Context.held[j].lock = Cli
  BY DEF Switch, At, Held
<1>2. UNCHANGED <<lock, contexts, failed>>
  BY DEF Switch
<1>3. Parked(Context)
  BY <1>1 DEF Parked
<1>4. Context = contexts[current][Len(contexts[current])]
  BY DEF Context, Last
<1>5. \A u \in Threads : \A i \in 1 .. Len(contexts[u]) : Parked(contexts[u][i])
  <2> SUFFICES ASSUME NEW u \in Threads, NEW i \in 1 .. Len(contexts[u])
               PROVE  Parked(contexts[u][i])
    OBVIOUS
  <2>1. CASE u = current /\ i = Len(contexts[u])
    BY <1>3, <1>4, <2>1
  <2>2. CASE u # current \/ i # Len(contexts[u])
    BY <2>2 DEF IInv
  <2> QED  BY <2>1, <2>2
<1>6. Context' = contexts[t][Len(contexts[t])]
  BY <1>1, <1>2 DEF Context, Last
<1>7. Len(contexts[t]) \in 1 .. Len(contexts[t])
  <2>1. contexts[t] \in Seq(ContextType) /\ contexts[t] # <<>>
    BY DEF IInv, TypeOK
  <2>2. Len(contexts[t]) \in Nat \ {0}
    BY <2>1, FrontFacts
  <2> QED  BY <2>2
<1>8. Parked(Context')
  BY <1>5, <1>6, <1>7
<1>9. \A l \in Locks : Fits(lock[l], l, Context', t)
  BY <1>1, <1>8, NoLockHeld
<1>10. \A l \in Locks : Fits(lock[l], l, Context, current)'
  BY <1>1, <1>2, <1>9 DEF Fits
<1>11. TypeOK' /\ failed' = FALSE
  BY <1>1, <1>2 DEF IInv, TypeOK
<1>12. \A u \in Threads :
         /\ Len(contexts'[u]) <= MaxContexts
         /\ \A i \in 1 .. Len(contexts'[u]) : Sound(contexts'[u][i]) /\ Parked(contexts'[u][i])
  BY <1>2, <1>5 DEF IInv
<1> QED  BY <1>10, <1>11, <1>12 DEF IInv

----------------------------------------------------------------------------
(* Every step. *)
LEMMA NextGood ==
  ASSUME IInv, [Next]_vars
  PROVE  IInv'
<1>1. CASE interrupts_enter_cli
  <2>1. Cli \in Locks \cup {Cli} /\ Enter(Cli, "call") /\ Len(Context.held) < MaxHeld
    BY <1>1 DEF interrupts_enter_cli, Held
  <2> QED  BY <1>1, <2>1, EnterGood DEF interrupts_enter_cli
<1>2. CASE interrupts_leave_cli
  BY <1>2, LeaveGood
<1>3. CASE \E l \in Locks : spinlock_acquire(l)
  <2>1. PICK l \in Locks : spinlock_acquire(l)
    BY <1>3
  <2> QED  BY <2>1, EnterGood, SpinlockAssumption DEF spinlock_acquire
<1>4. CASE Swap
  BY <1>4, SwapGood
<1>5. CASE Swapped
  BY <1>5, SwappedGood
<1>6. CASE Nest
  BY <1>6, NestGood
<1>7. CASE spinlock_release
  BY <1>7, ReleaseGood
<1>8. CASE Free
  BY <1>8, FreeGood
<1>9. CASE Interrupt
  BY <1>9, InterruptGood
<1>10. CASE Return
  BY <1>10, ReturnGood
<1>11. CASE \E t \in Threads : Switch(t)
  BY <1>11, SwitchGood
<1>12. CASE UNCHANGED vars
  <2>1. Context' = Context
    BY <1>12 DEF vars, Context
  <2> QED  BY <1>12, <2>1 DEF IInv, TypeOK, Fits, vars
<1> QED  BY <1>1, <1>2, <1>3, <1>4, <1>5, <1>6, <1>7, <1>8, <1>9, <1>10, <1>11, <1>12 DEF Next

----------------------------------------------------------------------------
(* What the invariant says of the properties. *)

(* The invariant gives the flags of every context. *)
LEMMA InvFlags ==
  ASSUME IInv
  PROVE  FlagsRestored
BY DEF IInv, Sound, FlagsRestored

(* The owner of a lock is in one of its calls, so the flag is clear. *)
LEMMA InvOwner ==
  ASSUME IInv
  PROVE  OwnerHasCpu
<1> SUFFICES ASSUME NEW l \in Locks, lock[l].owner # NoOwner
             PROVE  lock[l].owner = current /\ ~Context.if
  BY DEF OwnerHasCpu
<1>1. lock[l].owner = current /\ \E j \in 1 .. Len(Context.held) : Context.held[j].lock = l
  BY DEF IInv, Fits
<1>2. Context.held # <<>>
  BY <1>1
<1> QED  BY <1>1, <1>2, Running DEF Sound

(* All calls that hold a lock are calls of the running context. *)
LEMMA HoldsAreCounted ==
  ASSUME IInv, NEW l \in Locks
  PROVE  Cardinality(Holds(l)) = Cardinality(Counted(Context, l))
<1> DEFINE n == Len(contexts[current])
           Place(j) == <<current, n, j>>
           S == Counted(Context, l)
           f == [j \in S |-> Place(j)]
<1>1. /\ current \in Threads /\ n \in Nat \ {0} /\ n <= MaxContexts
      /\ Context = contexts[current][n] /\ Context \in ContextType /\ Sound(Context)
      /\ Len(Context.held) \in Nat /\ Len(Context.held) <= MaxHeld /\ l # Cli
  <2>1. Context.held \in Seq([lock : Locks \cup {Cli}, flags : BOOLEAN])
    BY Running
  <2>2. Len(Context.held) \in Nat
    BY <2>1
  <2>3. n <= MaxContexts
    BY Running, Zenon DEF IInv
  <2>4. Sound(Context) /\ Len(Context.held) <= MaxHeld
    BY Running DEF Sound
  <2> QED  BY <2>2, <2>3, <2>4, Running, SpinlockAssumption
<1>2. ASSUME NEW j \in S
      PROVE  Place(j) \in Holds(l)
  <2>1. /\ j \in 1 .. Len(Context.held) /\ Context.held[j].lock = l
        /\ ~(j = Len(Context.held) /\ Context.at \in {"cas", "nest", "free"})
    BY DEF Counted
  <2>2. n \in 1 .. MaxContexts /\ j \in 1 .. MaxHeld
    BY <1>1, <2>1, SpinlockAssumption
  <2>3. n <= Len(contexts[current]) /\ j <= Len(Context.held)
    BY <1>1, <2>1
  <2> HIDE DEF n
  <2> QED  BY <1>1, <2>1, <2>2, <2>3 DEF Holds
<1>3. ASSUME NEW x \in Holds(l)
      PROVE  \E j \in S : x = Place(j)
  <2>1. PICK t \in Threads, c \in 1 .. MaxContexts, i \in 1 .. MaxHeld : x = <<t, c, i>>
    BY DEF Holds
  <2>2. /\ c <= Len(contexts[t]) /\ i <= Len(contexts[t][c].held)
        /\ contexts[t][c].held[i].lock = l
        /\ ~(i = Len(contexts[t][c].held) /\ contexts[t][c].at \in {"cas", "nest", "free"})
    BY <2>1 DEF Holds
  <2>3. contexts[t] \in Seq(ContextType) /\ Len(contexts[t]) \in Nat
    BY DEF IInv, TypeOK
  <2>4. c \in 1 .. Len(contexts[t]) /\ contexts[t][c] \in ContextType
    BY <2>2, <2>3
  <2>5. Len(contexts[t][c].held) \in Nat
    BY <2>4 DEF ContextType
  <2>6. i \in 1 .. Len(contexts[t][c].held)
    BY <2>2, <2>5
  <2>7. ~Parked(contexts[t][c])
    BY <1>1, <2>2, <2>6 DEF Parked
  <2>8. t = current /\ c = n
    BY <2>4, <2>7 DEF IInv
  <2>9. contexts[t][c] = Context /\ Context.at \in {"call", "cas", "nest", "free"}
    BY <1>1, <2>8 DEF ContextType
  <2>10. i \in S
    BY <2>2, <2>6, <2>9 DEF Counted
  <2> QED  BY <2>1, <2>8, <2>10
<1>4. f \in Injection(S, Holds(l))
  <2>1. f \in [S -> Holds(l)]
    BY <1>2
  <2>2. \A i, j \in S : f[i] = f[j] => i = j
    OBVIOUS
  <2> HIDE DEF f, S
  <2> QED  BY <2>1, <2>2 DEF Injection, IsInjective
<1>5. f \in Surjection(S, Holds(l))
  <2>1. f \in [S -> Holds(l)]
    BY <1>2
  <2>2. \A x \in Holds(l) : \E j \in S : f[j] = x
    BY <1>3
  <2> HIDE DEF f, S
  <2> QED  BY <2>1, <2>2 DEF Surjection
<1>6. ExistsBijection(S, Holds(l))
  <2> HIDE DEF f, S
  <2> QED  BY <1>4, <1>5 DEF ExistsBijection, Bijection
<1>7. IsFiniteSet(S)
  BY <1>1, CountedFinite
<1> QED  BY <1>6, <1>7, FS_Bijection

(* So a lock's count is that of its calls. *)
LEMMA InvNested ==
  ASSUME IInv
  PROVE  NestedCountsHolds
BY HoldsAreCounted, Zenon DEF IInv, Fits, NestedCountsHolds

----------------------------------------------------------------------------
(* The inductive invariant holds in every behaviour. *)
THEOREM SpinlockInvariance == Spec => []IInv
<1>1. Init => IInv
  BY InitGood
<1>2. IInv /\ [Next]_vars => IInv'
  BY NextGood
<1> QED  BY <1>1, <1>2, PTL DEF Spec

(* Type correctness of the locks and of the stacks of contexts. *)
THEOREM SpinlockTypes == Spec => []TypeOK
<1>1. IInv => TypeOK
  BY DEF IInv
<1> QED  BY <1>1, SpinlockInvariance, PTL

(* A taken spinlock belongs to the thread that has the CPU, which cannot   *)
(* be interrupted: spinlock_acquire never spins for another thread.        *)
THEOREM OwnerAlwaysHasCpu == Spec => []OwnerHasCpu
<1>1. IInv => OwnerHasCpu
  BY InvOwner
<1> QED  BY <1>1, SpinlockInvariance, PTL

(* nested counts the calls that hold the lock, in all contexts of all      *)
(* threads, however spinlock_acquire is nested and interrupted.            *)
THEOREM NestedAlwaysCounts == Spec => []NestedCountsHolds
<1>1. IInv => NestedCountsHolds
  BY InvNested
<1> QED  BY <1>1, SpinlockInvariance, PTL

(* A context that has undone its calls has interrupts enabled again, one   *)
(* that has not has them disabled, and spinlock_release never asserts.     *)
THEOREM FlagsAlwaysRestored == Spec => []FlagsRestored
<1>1. IInv => FlagsRestored
  BY InvFlags
<1> QED  BY <1>1, SpinlockInvariance, PTL

=============================================================================
