---------------------------- MODULE TimersProofs ----------------------------
(***************************************************************************)
(* Proofs about Timers, for every set of threads, delays, ids, period of   *)
(* the clock and interrupt depth.                                          *)
(***************************************************************************)
EXTENDS Timers, InterruptsProofs, TLAPS

----------------------------------------------------------------------------
(* Sequences. *)

(* Sequences with the same elements are equal. *)
LEMMA SameElements ==
  ASSUME NEW E, NEW q \in Seq(E), NEW r \in Seq(E), Len(q) = Len(r),
         \A i \in 1 .. Len(q) : q[i] = r[i]
  PROVE  q = r
OBVIOUS

(* The elements from the m-th to the n-th. *)
LEMMA Slice ==
  ASSUME NEW E, NEW q, NEW m \in Int, NEW n \in Int, \A i \in m .. n : q[i] \in E
  PROVE  /\ SubSeq(q, m, n) \in Seq(E)
         /\ Len(SubSeq(q, m, n)) = IF m <= n THEN n - m + 1 ELSE 0
         /\ \A i \in 1 .. n - m + 1 : SubSeq(q, m, n)[i] = q[m + i - 1]
OBVIOUS

(* One sequence followed by another. *)
LEMMA Joined ==
  ASSUME NEW E, NEW q \in Seq(E), NEW r \in Seq(E)
  PROVE  /\ q \o r \in Seq(E) /\ Len(q \o r) = Len(q) + Len(r)
         /\ \A i \in 1 .. Len(q) + Len(r) :
              (q \o r)[i] = IF i <= Len(q) THEN q[i] ELSE r[i - Len(q)]
OBVIOUS

----------------------------------------------------------------------------
(* The list of near timers.                                                *)

TimerType ==
  [id : Ids, delay : Nat \cup {Overdue}, wakes : Sleepers \cup {Nobody}]

Sorted(l) == \A i, j \in 1 .. Len(l) : i <= j => l[i].delay <= l[j].delay

(* A list of timers, each with an id of its own, the next one to end first. *)
ListOK(l) ==
  /\ l \in Seq(TimerType)
  /\ \A i, j \in 1 .. Len(l) : l[i].id = l[j].id => i = j
  /\ Sorted(l)

(* The fields of a timer. *)
LEMMA TimerFields ==
  ASSUME NEW x \in TimerType
  PROVE  /\ x.id \in Ids /\ x.id \in Nat /\ x.id > 0
         /\ x.delay \in Int /\ x.delay >= -1
         /\ x.wakes \in Sleepers \cup {Nobody}
<1>1. x.id \in Ids /\ x.delay \in Nat \cup {Overdue} /\ x.wakes \in Sleepers \cup {Nobody}
  BY DEF TimerType
<1>2. x.id \in Nat /\ x.id > 0
  <2>1. x.id \in Nat \ {0}
    BY <1>1, TimersAssumption, Zenon
  <2> QED BY <2>1
<1>3. x.delay \in Int /\ x.delay >= -1
  BY <1>1 DEF Overdue
<1> QED BY <1>1, <1>2, <1>3

(* The elements of the end of a list. *)
LEMMA RestOf ==
  ASSUME NEW S, NEW l \in Seq(S), NEW k \in 0 .. Len(l)
  PROVE  LET c == SubSeq(l, k + 1, Len(l))
         IN  /\ c \in Seq(S) /\ Len(c) = Len(l) - k
             /\ \A i \in 1 .. Len(l) - k : c[i] = l[k + i]
<1> DEFINE m == k + 1
           n == Len(l)
           c == SubSeq(l, m, n)
<1>1. m \in Int /\ n \in Int /\ m \in Nat /\ m >= 1
  OBVIOUS
<1>2. \A i \in m .. n : l[i] \in S
  BY <1>1
<1>3. n - m + 1 = n - k /\ (~(m <= n) => n - k = 0)
  OBVIOUS
<1>4. \A i \in Int : m + i - 1 = k + i
  OBVIOUS
<1> HIDE DEF m, n
<1>5. /\ c \in Seq(S)
      /\ Len(c) = IF m <= n THEN n - m + 1 ELSE 0
      /\ \A i \in 1 .. n - m + 1 : c[i] = l[m + i - 1]
  BY <1>1, <1>2, Slice
<1> HIDE DEF c
<1>6. /\ c \in Seq(S) /\ Len(c) = n - k
      /\ \A i \in 1 .. n - k : c[i] = l[k + i]
  <2>1. Len(c) = n - k
    BY <1>1, <1>3, <1>5
  <2>2. ASSUME NEW i \in 1 .. n - k PROVE c[i] = l[k + i]
    <3>1. i \in 1 .. n - m + 1 /\ i \in Int
      BY <1>3
    <3>2. c[i] = l[m + i - 1]
      BY <1>5, <3>1
    <3> QED BY <1>4, <3>1, <3>2
  <2> QED BY <1>5, <2>1, <2>2
<1> QED BY <1>6 DEF c, m, n

(* timer_schedule_delay_with_id: the list with the new timer in its place. *)
LEMMA InsertOK ==
  ASSUME NEW l, ListOK(l), NEW e \in TimerType,
         \A i \in 1 .. Len(l) : l[i].id # e.id,
         NEW k \in 0 .. Len(l), Behind(l, k, e)
  PROVE  LET r == Inserted(l, k, e)
         IN  /\ ListOK(r)
             /\ \A i \in 1 .. Len(r) : r[i] = e \/ \E j \in 1 .. Len(l) : r[i] = l[j]
<1> DEFINE r == Inserted(l, k, e)
<1>1. l \in Seq(TimerType) /\ Len(l) \in Nat /\ DOMAIN l = 1 .. Len(l)
  BY DEF ListOK
<1>2. k \in 0 .. Len(l)
  OBVIOUS
<1>3. r = SubSeq(l, 1, k) \o <<e>> \o SubSeq(l, k + 1, Len(l))
  BY DEF Inserted
<1>a. ASSUME NEW i \in 1 .. Len(l) PROVE i <= k <=> l[i].delay < e.delay
  <2>1. CASE i <= k
    BY <2>1 DEF Behind
  <2>2. CASE i > k
    <3>1. k + 1 \in 1 .. Len(l) /\ k < Len(l) /\ k + 1 <= i
      BY <1>1, <2>2
    <3>2. l[k + 1].delay >= e.delay /\ l[k + 1].delay <= l[i].delay
      BY <3>1 DEF Behind, ListOK, Sorted
    <3>3. l[k + 1].delay \in Int /\ l[i].delay \in Int /\ e.delay \in Int
      BY <1>1, <3>1, TimerFields
    <3> QED BY <2>2, <3>2, <3>3
  <2> QED BY <1>1, <2>1, <2>2
<1> HIDE DEF r
<1>4. /\ r \in Seq(TimerType) /\ Len(r) = Len(l) + 1
      /\ \A i \in 1 .. Len(r) : r[i] = IF i <= k THEN l[i]
                                       ELSE IF i = k + 1 THEN e ELSE l[i - 1]
  <2> DEFINE a == SubSeq(l, 1, k)
             b == a \o <<e>>
             c == SubSeq(l, k + 1, Len(l))
  <2>1. /\ a \in Seq(TimerType) /\ Len(a) = k
        /\ \A i \in 1 .. k : a[i] = l[i]
    BY <1>1, <1>2
  <2>2. /\ c \in Seq(TimerType) /\ Len(c) = Len(l) - k
        /\ \A i \in 1 .. Len(l) - k : c[i] = l[k + i]
    BY <1>1, <1>2, RestOf, Zenon
  <2> HIDE DEF a, c
  <2>3. /\ b \in Seq(TimerType) /\ Len(b) = k + 1 /\ b[k + 1] = e
        /\ \A i \in 1 .. k : b[i] = l[i]
    BY <1>2, <2>1
  <2> HIDE DEF b
  <2>4. r = b \o c
    BY <1>3 DEF a, b, c
  <2>5. /\ r \in Seq(TimerType) /\ Len(r) = Len(l) + 1
        /\ \A i \in 1 .. k + 1 : r[i] = b[i]
        /\ \A i \in k + 2 .. Len(r) : r[i] = c[i - (k + 1)]
    <3>1. /\ r \in Seq(TimerType) /\ Len(r) = Len(b) + Len(c)
          /\ \A i \in 1 .. Len(b) + Len(c) : r[i] = IF i <= Len(b) THEN b[i] ELSE c[i - Len(b)]
      BY <2>2, <2>3, <2>4, Joined, Zenon
    <3>2. Len(b) = k + 1 /\ Len(c) = Len(l) - k /\ Len(r) = Len(l) + 1
      BY <1>1, <1>2, <2>2, <2>3, <3>1
    <3>3. \A i \in 1 .. Len(l) + 1 : r[i] = IF i <= k + 1 THEN b[i] ELSE c[i - (k + 1)]
      BY <3>1, <3>2
    <3> QED BY <1>1, <1>2, <3>1, <3>2, <3>3
  <2>6. ASSUME NEW i \in k + 2 .. Len(r) PROVE r[i] = l[i - 1]
    <3>1. i - (k + 1) \in 1 .. Len(l) - k /\ k + (i - (k + 1)) = i - 1
      BY <1>1, <1>2, <2>5
    <3> QED BY <2>2, <2>5, <3>1
  <2> QED BY <1>1, <1>2, <2>3, <2>5, <2>6
<1>5. \A i \in 1 .. Len(l) : l[i].delay \in Int
  BY <1>1, TimerFields
<1>6. e.delay \in Int
  BY TimerFields
<1>7. ASSUME NEW i \in 1 .. Len(r), NEW j \in 1 .. Len(r), r[i].id = r[j].id
      PROVE  i = j
  <2> DEFINE at(n) == IF n <= k THEN n ELSE n - 1
  <2>1. ASSUME NEW n \in 1 .. Len(r), n # k + 1
        PROVE  at(n) \in 1 .. Len(l) /\ r[n] = l[at(n)]
    BY <1>1, <1>2, <1>4, <2>1
  <2>2. r[k + 1] = e /\ k + 1 \in 1 .. Len(r)
    BY <1>1, <1>2, <1>4
  <2>3. CASE i = k + 1 \/ j = k + 1
    <3> HIDE DEF at
    <3> QED BY <1>7, <2>1, <2>2, <2>3, Zenon
  <2>4. CASE i # k + 1 /\ j # k + 1
    <3>1. at(i) = at(j)
      <4> HIDE DEF at
      <4> QED BY <1>7, <2>1, <2>4 DEF ListOK
    <3> QED BY <1>2, <2>4, <3>1
  <2> QED BY <2>3, <2>4
<1>8. ASSUME NEW i \in 1 .. Len(r), NEW j \in 1 .. Len(r), i <= j
      PROVE  r[i].delay <= r[j].delay
  <2>1. \A m, n \in 1 .. Len(l) : m <= n => l[m].delay <= l[n].delay
    BY DEF ListOK, Sorted
  <2>2. CASE j <= k
    BY <1>1, <1>2, <1>4, <1>8, <2>1, <2>2
  <2>3. CASE i > k + 1
    <3>1. i - 1 \in 1 .. Len(l) /\ j - 1 \in 1 .. Len(l) /\ i - 1 <= j - 1
      BY <1>1, <1>2, <1>4, <1>8, <2>3
    <3>2. r[i] = l[i - 1] /\ r[j] = l[j - 1]
      BY <1>2, <1>4, <1>8, <2>3
    <3> QED BY <2>1, <3>1, <3>2
  <2>4. CASE i <= k /\ j = k + 1
    BY <1>1, <1>2, <1>4, <1>5, <1>6, <1>a, <2>4
  <2>5. CASE i = k + 1 /\ j > k + 1
    <3>1. j - 1 \in 1 .. Len(l) /\ ~(j - 1 <= k) /\ r[j] = l[j - 1] /\ r[i] = e
      BY <1>1, <1>2, <1>4, <2>5
    <3> QED BY <1>5, <1>6, <1>a, <3>1
  <2>6. CASE i = k + 1 /\ j = k + 1
    BY <1>2, <1>4, <1>6, <2>6
  <2>7. CASE i <= k /\ j > k + 1
    <3>1. /\ i \in 1 .. Len(l) /\ r[i] = l[i]
          /\ j - 1 \in 1 .. Len(l) /\ i <= j - 1 /\ r[j] = l[j - 1]
      BY <1>1, <1>2, <1>4, <2>7
    <3> QED BY <2>1, <3>1
  <2> QED BY <1>2, <1>4, <1>8, <2>2, <2>3, <2>4, <2>5, <2>6, <2>7
<1>9. \A i \in 1 .. Len(r) : r[i] = e \/ \E j \in 1 .. Len(l) : r[i] = l[j]
  <2> SUFFICES ASSUME NEW i \in 1 .. Len(r), i # k + 1
               PROVE  \E j \in 1 .. Len(l) : r[i] = l[j]
    <3>1. k + 1 \in 1 .. Len(r) => r[k + 1] = e
      BY <1>2, <1>4
    <3> QED BY <3>1
  <2>1. CASE i <= k
    BY <1>1, <1>2, <1>4, <2>1
  <2>2. CASE i > k + 1
    <3>1. i - 1 \in 1 .. Len(l) /\ r[i] = l[i - 1]
      BY <1>1, <1>2, <1>4, <2>2
    <3> QED BY <3>1
  <2> QED BY <1>2, <2>1, <2>2
<1> QED BY <1>4, <1>7, <1>8, <1>9 DEF ListOK, Sorted, r

(* timer_cancel_with_lock of a timer that is on the list: it alone goes.   *)
LEMMA CancelOK ==
  ASSUME NEW l, ListOK(l), NEW k \in 1 .. Len(l)
  PROVE  LET r == Cancelled(l, l[k].id)
         IN  /\ ListOK(r)
             /\ \A i \in 1 .. Len(r) : /\ r[i].id # l[k].id
                                       /\ \E j \in 1 .. Len(l) : r[i] = l[j]
<1> DEFINE r == Cancelled(l, l[k].id)
<1>1. l \in Seq(TimerType) /\ Len(l) \in Nat /\ DOMAIN l = 1 .. Len(l)
  BY DEF ListOK
<1>2. {i \in DOMAIN l : l[i].id = l[k].id} = {k}
  BY <1>1 DEF ListOK
<1>3. Min({k}) = k
  BY DEF Min
<1>4. r = DL_DELETE(l, l[k]) /\ Index(l, l[k]) = k
  <2>1. r = DL_DELETE(l, l[k])
    BY <1>2, <1>3 DEF Cancelled
  <2>2. Index(l, l[k]) = k
    BY <1>1 DEF Index, ListOK
  <2> QED BY <2>1, <2>2
<1>5. /\ r \in Seq(TimerType) /\ Len(r) = Len(l) - 1
      /\ \A i \in 1 .. Len(r) : r[i] = IF i < k THEN l[i] ELSE l[i + 1]
  <2>1. r = [i \in 1 .. Len(l) - 1 |-> IF i < k THEN l[i] ELSE l[i + 1]]
    BY <1>4 DEF DL_DELETE
  <2> HIDE DEF r
  <2>2. Len(l) - 1 \in Nat
    BY <1>1
  <2>3. r \in [1 .. Len(l) - 1 -> TimerType]
    BY <1>1, <2>1
  <2>4. r \in Seq(TimerType) /\ Len(r) = Len(l) - 1
    BY <2>2, <2>3
  <2>5. \A i \in 1 .. Len(l) - 1 : r[i] = IF i < k THEN l[i] ELSE l[i + 1]
    BY <2>1
  <2> QED BY <2>4, <2>5
<1> HIDE DEF r
<1>6. ASSUME NEW i \in 1 .. Len(r), NEW j \in 1 .. Len(r), r[i].id = r[j].id
      PROVE  i = j
  BY <1>1, <1>5, <1>6 DEF ListOK
<1>7. ASSUME NEW i \in 1 .. Len(r), NEW j \in 1 .. Len(r), i <= j
      PROVE  r[i].delay <= r[j].delay
  BY <1>1, <1>5, <1>7 DEF ListOK, Sorted
<1>8. \A i \in 1 .. Len(r) : /\ r[i].id # l[k].id
                             /\ \E j \in 1 .. Len(l) : r[i] = l[j]
  BY <1>1, <1>5 DEF ListOK
<1> QED BY <1>5, <1>6, <1>7, <1>8 DEF ListOK, Sorted, r

(* timers_advance_clock: every timer comes one quantum nearer. *)
LEMMA AdvanceOK ==
  ASSUME NEW l, ListOK(l)
  PROVE  LET r == [i \in DOMAIN l |->
                     [l[i] EXCEPT !.delay = IF @ = Overdue THEN @ ELSE @ - 1]]
         IN  /\ ListOK(r) /\ Len(r) = Len(l)
             /\ \A i \in 1 .. Len(l) : r[i].id = l[i].id /\ r[i].wakes = l[i].wakes
<1> DEFINE r == [i \in DOMAIN l |->
                   [l[i] EXCEPT !.delay = IF @ = Overdue THEN @ ELSE @ - 1]]
<1>1. l \in Seq(TimerType) /\ Len(l) \in Nat /\ DOMAIN l = 1 .. Len(l)
  BY DEF ListOK
<1>2. ASSUME NEW i \in 1 .. Len(l)
      PROVE  /\ r[i] \in TimerType
             /\ r[i].id = l[i].id /\ r[i].wakes = l[i].wakes
             /\ r[i].delay = IF l[i].delay = -1 THEN -1 ELSE l[i].delay - 1
  <2>1. l[i] \in TimerType /\ r[i] = [l[i] EXCEPT !.delay = IF @ = -1 THEN @ ELSE @ - 1]
    BY <1>1 DEF Overdue
  <2>2. l[i].delay \in Int /\ l[i].delay >= -1
    BY <2>1, TimerFields
  <2>3. (IF l[i].delay = -1 THEN -1 ELSE l[i].delay - 1) \in Nat \cup {-1}
    BY <2>2
  <2> HIDE DEF r
  <2> QED BY <2>1, <2>3 DEF TimerType, Overdue
<1>3. r \in Seq(TimerType) /\ Len(r) = Len(l)
  <2>1. r = [i \in 1 .. Len(l) |-> r[i]]
    BY <1>1
  <2> HIDE DEF r
  <2>2. r \in [1 .. Len(l) -> TimerType]
    BY <1>2, <2>1
  <2> QED BY <1>1, <2>2
<1> HIDE DEF r
<1>4. \A i, j \in 1 .. Len(r) : r[i].id = r[j].id => i = j
  BY <1>2, <1>3 DEF ListOK
<1>5. ASSUME NEW i \in 1 .. Len(r), NEW j \in 1 .. Len(r), i <= j
      PROVE  r[i].delay <= r[j].delay
  <2>1. /\ l[i].delay <= l[j].delay
        /\ l[i].delay \in Int /\ l[i].delay >= -1 /\ l[j].delay \in Int /\ l[j].delay >= -1
    BY <1>1, <1>3, <1>5, TimerFields DEF ListOK, Sorted
  <2> QED BY <1>2, <1>3, <2>1
<1> QED BY <1>2, <1>3, <1>4, <1>5, Zenon DEF ListOK, Sorted, r

----------------------------------------------------------------------------
(* The timers and the timed sleeps they belong to.                         *)

PcLabels ==
  {"run", "gone", "handle", "assign", "woken", "cancel", "clear", "block", "yield"}

Sleeping == {"assign", "block", "yield", "woken", "cancel"}

(* Timer x wakes a thread that is in a timed sleep, which knows its id: p, *)
(* tm and rg stand for pc, timed and reg.                                  *)
Belongs(x, p, tm, rg) ==
  /\ x.wakes # Nobody => p[x.wakes] \in Sleeping
  /\ \A t \in Threads : x.id \in {tm[t], rg[t]} <=> x.wakes = t

(* The id is in a register while the sleep has not stored it, and in       *)
(* timed_sleep_timer_id from then on, until the callback or the sleep      *)
(* itself clears it.                                                       *)
Owned(l, p, tm, rg) ==
  /\ ListOK(l)
  /\ tm \in [Threads -> Ids \cup {0, -1}]
  /\ rg \in [Threads -> Ids \cup {0, -1}]
  /\ p \in [Threads -> PcLabels]
  /\ p[Boot] = "gone" /\ p[Idle] = "run"
  /\ \A t \in Threads : rg[t] # 0 => p[t] = "assign"
  /\ \A t \in Threads : p[t] \in {"run", "assign"} => tm[t] = 0
  /\ \A i \in 1 .. Len(l) : Belongs(l[i], p, tm, rg)

NearInv == Owned(near, pc, timed, reg)

(* The elements of an owned list are timers of sleepers or of nobody. *)
LEMMA Elements ==
  ASSUME NEW l, NEW p, NEW tm, NEW rg, Owned(l, p, tm, rg), NEW i \in 1 .. Len(l)
  PROVE  /\ l[i] \in TimerType
         /\ l[i].id \in Ids /\ l[i].id # 0 /\ l[i].id # -1
         /\ l[i].wakes \in Sleepers \cup {Nobody}
         /\ Belongs(l[i], p, tm, rg)
<1>1. l[i] \in TimerType /\ Belongs(l[i], p, tm, rg)
  BY DEF Owned, ListOK
<1>2. l[i].id \in Ids /\ l[i].id \in Nat /\ l[i].id > 0 /\ l[i].wakes \in Sleepers \cup {Nobody}
  BY <1>1, TimerFields
<1>3. l[i].id # 0 /\ l[i].id # -1
  BY <1>2
<1> QED BY <1>1, <1>2, <1>3

(* timer_schedule_delay for a timed sleep. *)
LEMMA ScheduleOwned ==
  ASSUME NEW l, NEW p, NEW tm, NEW rg, Owned(l, p, tm, rg),
         NEW t \in Sleepers, p[t] = "run",
         NEW e \in TimerType, e.wakes = t, NEW k \in 0 .. Len(l), Behind(l, k, e),
         \A i \in 1 .. Len(l) : l[i].id # e.id,
         \A u \in Threads : tm[u] # e.id /\ rg[u] # e.id
  PROVE  Owned(Inserted(l, k, e), [p EXCEPT ![t] = "assign"],
               tm, [rg EXCEPT ![t] = e.id])
<1> USE TimersAssumption
<1> DEFINE r == Inserted(l, k, e)
           q == [p EXCEPT ![t] = "assign"]
           sg == [rg EXCEPT ![t] = e.id]
<1>1. /\ t \in Threads /\ t # Boot /\ t # Idle /\ t # Nobody
      /\ p \in [Threads -> PcLabels] /\ rg \in [Threads -> Ids \cup {0, -1}]
      /\ e.id \in Ids
  BY TimerFields DEF Owned, Sleepers, Users
<1>2. ListOK(r) /\ \A i \in 1 .. Len(r) : r[i] = e \/ \E j \in 1 .. Len(l) : r[i] = l[j]
  BY InsertOK DEF Owned
<1>3. /\ \A u \in Threads : q[u] = IF u = t THEN "assign" ELSE p[u]
      /\ \A u \in Threads : sg[u] = IF u = t THEN e.id ELSE rg[u]
      /\ q \in [Threads -> PcLabels] /\ sg \in [Threads -> Ids \cup {0, -1}]
  BY <1>1 DEF PcLabels
<1> HIDE DEF r, q, sg
<1>4. Belongs(e, q, tm, sg)
  BY <1>1, <1>3 DEF Belongs, Sleeping
<1>5. ASSUME NEW j \in 1 .. Len(l) PROVE Belongs(l[j], q, tm, sg)
  <2>1. l[j].wakes \in Threads \cup {Nobody} /\ Belongs(l[j], p, tm, rg) /\ l[j].id # e.id
        /\ l[j].id # 0
    BY Elements DEF Sleepers, Users
  <2>2. l[j].wakes # t
    BY <1>1, <2>1 DEF Belongs, Sleeping
  <2>3. rg[t] = 0
    BY <1>1 DEF Owned
  <2> QED BY <1>1, <1>3, <2>1, <2>2, <2>3 DEF Belongs
<1>6. \A i \in 1 .. Len(r) : Belongs(r[i], q, tm, sg)
  BY <1>2, <1>4, <1>5
<1>7. Owned(r, q, tm, sg)
  BY <1>1, <1>2, <1>3, <1>6 DEF Owned
<1> QED BY <1>7 DEF r, q, sg

(* timer_schedule_delay without a callback. *)
LEMMA OtherOwned ==
  ASSUME NEW l, NEW p, NEW tm, NEW rg, Owned(l, p, tm, rg),
         NEW e \in TimerType, e.wakes = Nobody, NEW k \in 0 .. Len(l), Behind(l, k, e),
         \A i \in 1 .. Len(l) : l[i].id # e.id,
         \A u \in Threads : tm[u] # e.id /\ rg[u] # e.id
  PROVE  Owned(Inserted(l, k, e), p, tm, rg)
<1> DEFINE r == Inserted(l, k, e)
<1>1. ListOK(r) /\ \A i \in 1 .. Len(r) : r[i] = e \/ \E j \in 1 .. Len(l) : r[i] = l[j]
  BY InsertOK DEF Owned
<1> HIDE DEF r
<1>2. Belongs(e, p, tm, rg)
  BY TimersAssumption DEF Belongs
<1>3. \A i \in 1 .. Len(r) : Belongs(r[i], p, tm, rg)
  BY <1>1, <1>2 DEF Owned
<1>4. Owned(r, p, tm, rg)
  BY <1>1, <1>3 DEF Owned
<1> QED BY <1>4 DEF r

(* A timer leaves the list, and nothing else changes. *)
LEMMA CancelOwned ==
  ASSUME NEW l, NEW p, NEW tm, NEW rg, Owned(l, p, tm, rg), NEW k \in 1 .. Len(l)
  PROVE  LET r == Cancelled(l, l[k].id)
         IN  /\ Owned(r, p, tm, rg)
             /\ \A i \in 1 .. Len(r) : r[i].id # l[k].id
<1> DEFINE r == Cancelled(l, l[k].id)
<1>1. ListOK(r) /\ \A i \in 1 .. Len(r) : /\ r[i].id # l[k].id
                                          /\ \E j \in 1 .. Len(l) : r[i] = l[j]
  BY CancelOK DEF Owned
<1> HIDE DEF r
<1>2. \A i \in 1 .. Len(r) : Belongs(r[i], p, tm, rg)
  BY <1>1 DEF Owned
<1>3. Owned(r, p, tm, rg)
  BY <1>1, <1>2 DEF Owned
<1> QED BY <1>1, <1>3 DEF r

(* A thread that is in no timed sleep, or stays in one, goes on. *)
LEMMA MoveOwned ==
  ASSUME NEW l, NEW p, NEW tm, NEW rg, Owned(l, p, tm, rg),
         NEW t \in Threads, t \notin {Boot, Idle}, p[t] # "assign",
         NEW label \in PcLabels \ {"assign"},
         label = "run" => tm[t] = 0,
         label \in Sleeping \/ \A i \in 1 .. Len(l) : l[i].wakes # t
  PROVE  Owned(l, [p EXCEPT ![t] = label], tm, rg)
<1> DEFINE q == [p EXCEPT ![t] = label]
<1>1. /\ \A u \in Threads : q[u] = IF u = t THEN label ELSE p[u]
      /\ q \in [Threads -> PcLabels]
  BY DEF Owned
<1>2. Boot \in Threads /\ Idle \in Threads
  BY TimersAssumption
<1> HIDE DEF q
<1>3. ASSUME NEW i \in 1 .. Len(l) PROVE Belongs(l[i], q, tm, rg)
  <2>1. l[i].wakes \in Threads \cup {Nobody} /\ Belongs(l[i], p, tm, rg)
    BY Elements DEF Sleepers, Users
  <2> QED BY <1>1, <2>1 DEF Belongs
<1>4. Owned(l, q, tm, rg)
  BY <1>1, <1>2, <1>3 DEF Owned
<1> QED BY <1>4 DEF q

(* A thread whose sleep has no id left has no timer. *)
LEMMA NoTimer ==
  ASSUME NEW l, NEW p, NEW tm, NEW rg, Owned(l, p, tm, rg),
         NEW t \in Threads, p[t] # "assign",
         \A i \in 1 .. Len(l) : l[i].id # tm[t]
  PROVE  \A i \in 1 .. Len(l) : l[i].wakes # t
<1> SUFFICES ASSUME NEW i \in 1 .. Len(l), l[i].wakes = t PROVE FALSE
  OBVIOUS
<1>1. l[i].id \in {tm[t], rg[t]} /\ l[i].id # 0
  BY Elements DEF Belongs
<1>2. rg[t] = 0
  BY DEF Owned
<1> QED BY <1>1, <1>2

(* A failed allocation. *)
LEMMA FailOwned ==
  ASSUME NEW l, NEW p, NEW tm, NEW rg, Owned(l, p, tm, rg),
         NEW t \in Sleepers, p[t] = "run"
  PROVE  Owned(l, [p EXCEPT ![t] = "assign"], tm, [rg EXCEPT ![t] = -1])
<1> USE TimersAssumption
<1> DEFINE q == [p EXCEPT ![t] = "assign"]
           sg == [rg EXCEPT ![t] = -1]
<1>1. /\ t \in Threads /\ t # Boot /\ t # Idle
      /\ p \in [Threads -> PcLabels] /\ rg \in [Threads -> Ids \cup {0, -1}]
  BY DEF Owned, Sleepers, Users
<1>2. /\ \A u \in Threads : q[u] = IF u = t THEN "assign" ELSE p[u]
      /\ \A u \in Threads : sg[u] = IF u = t THEN -1 ELSE rg[u]
      /\ q \in [Threads -> PcLabels] /\ sg \in [Threads -> Ids \cup {0, -1}]
  BY <1>1 DEF PcLabels
<1> HIDE DEF q, sg
<1>3. ASSUME NEW i \in 1 .. Len(l) PROVE Belongs(l[i], q, tm, sg)
  <2>1. l[i].wakes \in Threads \cup {Nobody} /\ Belongs(l[i], p, tm, rg)
        /\ l[i].id # 0 /\ l[i].id # -1
    BY Elements DEF Sleepers, Users
  <2>2. l[i].wakes # t
    BY <1>1, <2>1 DEF Belongs, Sleeping
  <2> QED BY <1>1, <1>2, <2>1, <2>2 DEF Belongs
<1>4. Owned(l, q, tm, sg)
  BY <1>1, <1>2, <1>3 DEF Owned
<1> QED BY <1>4 DEF q, sg

(* t->timed_sleep_timer_id = the id that timer_schedule_delay returned. *)
LEMMA AssignOwned ==
  ASSUME NEW l, NEW p, NEW tm, NEW rg, Owned(l, p, tm, rg),
         NEW t \in Threads, p[t] = "assign"
  PROVE  Owned(l, [p EXCEPT ![t] = "block"], [tm EXCEPT ![t] = rg[t]], [rg EXCEPT ![t] = 0])
<1> USE TimersAssumption
<1> DEFINE q == [p EXCEPT ![t] = "block"]
           um == [tm EXCEPT ![t] = rg[t]]
           sg == [rg EXCEPT ![t] = 0]
<1>1. /\ t # Boot /\ t # Idle /\ p \in [Threads -> PcLabels]
      /\ tm \in [Threads -> Ids \cup {0, -1}] /\ rg \in [Threads -> Ids \cup {0, -1}]
  BY DEF Owned
<1>2. /\ \A u \in Threads : q[u] = IF u = t THEN "block" ELSE p[u]
      /\ \A u \in Threads : um[u] = IF u = t THEN rg[t] ELSE tm[u]
      /\ \A u \in Threads : sg[u] = IF u = t THEN 0 ELSE rg[u]
      /\ q \in [Threads -> PcLabels]
      /\ um \in [Threads -> Ids \cup {0, -1}] /\ sg \in [Threads -> Ids \cup {0, -1}]
  BY <1>1 DEF PcLabels
<1> HIDE DEF q, um, sg
<1>3. ASSUME NEW i \in 1 .. Len(l) PROVE Belongs(l[i], q, um, sg)
  <2>1. l[i].wakes \in Threads \cup {Nobody} /\ Belongs(l[i], p, tm, rg) /\ l[i].id # 0
    BY Elements DEF Sleepers, Users
  <2>2. tm[t] = 0
    BY DEF Owned
  <2> QED BY <1>1, <1>2, <2>1, <2>2 DEF Belongs, Sleeping
<1>4. Owned(l, q, um, sg)
  BY <1>1, <1>2, <1>3 DEF Owned
<1> QED BY <1>4 DEF q, um, sg

(* t->timed_sleep_timer_id = 0 once no timer has that id. *)
LEMMA ClearOwned ==
  ASSUME NEW l, NEW p, NEW tm, NEW rg, Owned(l, p, tm, rg), NEW t \in Threads,
         \A i \in 1 .. Len(l) : l[i].id # tm[t]
  PROVE  Owned(l, p, [tm EXCEPT ![t] = 0], rg)
<1> DEFINE um == [tm EXCEPT ![t] = 0]
<1>1. /\ \A u \in Threads : um[u] = IF u = t THEN 0 ELSE tm[u]
      /\ um \in [Threads -> Ids \cup {0, -1}]
  BY DEF Owned
<1> HIDE DEF um
<1>2. ASSUME NEW i \in 1 .. Len(l) PROVE Belongs(l[i], p, um, rg)
  <2>1. Belongs(l[i], p, tm, rg) /\ l[i].id # 0
    BY Elements
  <2> QED BY <1>1, <2>1 DEF Belongs
<1>3. Owned(l, p, um, rg)
  BY <1>1, <1>2 DEF Owned
<1> QED BY <1>3 DEF um

(* timer_next_id: an id that no timer has and no thread remembers. *)
LEMMA FreshId ==
  ASSUME NearInv, HasId, NEW d \in Delays, NEW w \in Sleepers \cup {Nobody}
  PROVE  LET e == [id |-> timer_next_id, delay |-> d, wakes |-> w]
         IN  /\ e \in TimerType /\ e.id = timer_next_id /\ e.wakes = w
             /\ \A i \in 1 .. Len(near) : near[i].id # e.id
             /\ \A u \in Threads : timed[u] # e.id /\ reg[u] # e.id
<1>1. timer_next_id \in Ids /\ timer_next_id \notin Remembered
  BY DEF HasId, timer_next_id
<1>2. d \in Nat
  BY TimersAssumption
<1>3. DOMAIN near = 1 .. Len(near)
  BY DEF NearInv, Owned, ListOK
<1> QED BY <1>1, <1>2, <1>3 DEF TimerType, Remembered

(* The callback of the timer at the head, which is then cancelled. *)
LEMMA CallbackOwned ==
  ASSUME NearInv, near # <<>>, Head(near).wakes \in Threads,
         timed' = [timed EXCEPT ![Head(near).wakes] = 0],
         near' = Cancelled(near, Head(near).id), UNCHANGED <<pc, reg>>
  PROVE  NearInv'
<1> DEFINE w == near[1].wakes
<1>1. 1 \in 1 .. Len(near) /\ Head(near) = near[1]
  BY DEF NearInv, Owned, ListOK
<1>2. Owned(near', pc, timed, reg) /\ \A i \in 1 .. Len(near') : near'[i].id # near[1].id
  BY <1>1, CancelOwned DEF NearInv
<1>3. near[1].id \in {timed[w], reg[w]} /\ w \in Threads
  BY <1>1, Elements DEF NearInv, Belongs
<1>4. reg[w] # 0 => timed[w] = 0
  BY <1>3 DEF NearInv, Owned
<1>5. \A i \in 1 .. Len(near') : near'[i].id # timed[w]
  <2> SUFFICES ASSUME NEW i \in 1 .. Len(near'), near'[i].id = timed[w] PROVE FALSE
    OBVIOUS
  <2>1. near'[i].id # 0 /\ near'[i].id # near[1].id
    BY <1>2, Elements
  <2>2. near[1].id # 0
    BY <1>1, Elements DEF NearInv
  <2> QED BY <1>3, <1>4, <2>1, <2>2
<1>6. Owned(near', pc, [timed EXCEPT ![w] = 0], reg)
  BY <1>2, <1>3, <1>5, ClearOwned, Zenon
<1> QED BY <1>1, <1>6, Zenon DEF NearInv

(* Every step of current_thread_sleep_usecs and of the API keeps the       *)
(* timers with their sleeps.                                               *)
LEMMA SleeperStepOwned ==
  ASSUME NearInv, NEW t \in Threads, SleeperStep(t)
  PROVE  NearInv'
<1>0. t \in Sleepers => t \in Threads /\ t \notin {Boot, Idle}
  BY DEF Sleepers, Users
<1>1. ASSUME NEW usecs \in Delays, ScheduleWake(t, usecs) PROVE NearInv'
  <2>1. /\ t \in Sleepers /\ pc[t] = "run" /\ pc' = [pc EXCEPT ![t] = "assign"] /\ timed' = timed
    BY <1>1 DEF ScheduleWake, At, GoTo
  <2>2. CASE /\ HasId
             /\ timer_schedule_delay_with_id(
                  [id |-> timer_next_id, delay |-> usecs, wakes |-> t])
             /\ reg' = [reg EXCEPT ![t] = timer_next_id]
    <3> DEFINE e == [id |-> timer_next_id, delay |-> usecs, wakes |-> t]
    <3>1. /\ e \in TimerType /\ e.wakes = t /\ e.id = timer_next_id
          /\ \A i \in 1 .. Len(near) : near[i].id # e.id
          /\ \A u \in Threads : timed[u] # e.id /\ reg[u] # e.id
      BY <2>1, <2>2, FreshId
    <3>2. PICK k \in 0 .. Len(near) : Behind(near, k, e) /\ near' = Inserted(near, k, e)
      BY <2>2 DEF timer_schedule_delay_with_id
    <3> HIDE DEF e
    <3>3. Owned(Inserted(near, k, e), [pc EXCEPT ![t] = "assign"],
                timed, [reg EXCEPT ![t] = e.id])
      BY <2>1, <3>1, <3>2, ScheduleOwned, Zenon DEF NearInv
    <3> QED BY <2>1, <2>2, <3>1, <3>2, <3>3 DEF NearInv
  <2>3. CASE reg' = [reg EXCEPT ![t] = -1] /\ UNCHANGED near
    <3>1. Owned(near, [pc EXCEPT ![t] = "assign"], timed, [reg EXCEPT ![t] = -1])
      BY <2>1, FailOwned, Zenon DEF NearInv
    <3> QED BY <2>1, <2>3, <3>1 DEF NearInv
  <2> QED BY <1>1, <2>2, <2>3 DEF ScheduleWake
<1>2. ASSUME NEW usecs \in Delays, timer_schedule_delay(t, usecs) PROVE NearInv'
  <2> DEFINE e == [id |-> timer_next_id, delay |-> usecs, wakes |-> Nobody]
  <2>1. HasId /\ timer_schedule_delay_with_id(e) /\ UNCHANGED <<timed, reg, pc>>
    BY <1>2 DEF timer_schedule_delay
  <2>4. PICK k \in 0 .. Len(near) : Behind(near, k, e) /\ near' = Inserted(near, k, e)
    BY <2>1 DEF timer_schedule_delay_with_id
  <2>2. /\ e \in TimerType /\ e.wakes = Nobody
        /\ \A i \in 1 .. Len(near) : near[i].id # e.id
        /\ \A u \in Threads : timed[u] # e.id /\ reg[u] # e.id
    BY <2>1, FreshId
  <2> HIDE DEF e
  <2>3. Owned(Inserted(near, k, e), pc, timed, reg)
    BY <2>2, <2>4, OtherOwned DEF NearInv
  <2> QED BY <2>1, <2>3, <2>4 DEF NearInv
<1>3. CASE timer_cancel(t)
  <2>1. DOMAIN near = 1 .. Len(near)
    BY DEF NearInv, Owned, ListOK
  <2>2. PICK k \in 1 .. Len(near) : near' = Cancelled(near, near[k].id)
    BY <1>3, <2>1 DEF timer_cancel
  <2>3. Owned(near', pc, timed, reg)
    BY <2>2, CancelOwned DEF NearInv
  <2> QED BY <1>3, <2>3 DEF NearInv, timer_cancel
<1>4. CASE timer_schedule_at(t)
  BY <1>4 DEF timer_schedule_at, NearInv
<1>5. CASE AssignTimerId(t)
  <2>1. Owned(near, [pc EXCEPT ![t] = "block"], [timed EXCEPT ![t] = reg[t]], [reg EXCEPT ![t] = 0])
    BY <1>5, AssignOwned, Zenon DEF AssignTimerId, At, NearInv
  <2> QED BY <1>5, <2>1 DEF AssignTimerId, GoTo, NearInv
<1>6. CASE TestTimerId(t)
  <2> DEFINE label == IF timed[t] # 0 THEN "cancel" ELSE "run"
  <2>1. pc[t] = "woken" /\ pc' = [pc EXCEPT ![t] = label] /\ UNCHANGED timerVars
    BY <1>6 DEF TestTimerId, At, GoTo
  <2>2. t \notin {Boot, Idle}
    BY <2>1 DEF NearInv, Owned
  <2>3. timed[t] = 0 => \A i \in 1 .. Len(near) : near[i].id # timed[t]
    BY Elements DEF NearInv
  <2>4. label = "run" => \A i \in 1 .. Len(near) : near[i].wakes # t
    BY <2>1, <2>3, NoTimer DEF NearInv
  <2>5. label \in PcLabels \ {"assign"} /\ (label = "run" => timed[t] = 0)
        /\ (label # "run" => label \in Sleeping)
    BY DEF PcLabels, Sleeping
  <2> HIDE DEF label
  <2>6. Owned(near, [pc EXCEPT ![t] = label], timed, reg)
    BY <2>1, <2>2, <2>4, <2>5, MoveOwned, Zenon DEF NearInv
  <2> QED BY <2>1, <2>6 DEF NearInv, timerVars
<1>7. CASE CancelWake(t)
  <2>1. /\ pc[t] = "cancel" /\ near' = Cancelled(near, timed[t])
        /\ pc' = [pc EXCEPT ![t] = "clear"] /\ UNCHANGED <<timed, reg>>
    BY <1>7 DEF CancelWake, At, GoTo
  <2>2. t \notin {Boot, Idle} /\ DOMAIN near = 1 .. Len(near)
    BY <2>1 DEF NearInv, Owned, ListOK
  <2>3. Owned(near', pc, timed, reg) /\ \A i \in 1 .. Len(near') : near'[i].id # timed[t]
    <3>1. CASE \E k \in 1 .. Len(near) : near[k].id = timed[t]
      BY <2>1, <3>1, CancelOwned DEF NearInv
    <3>2. CASE ~\E k \in 1 .. Len(near) : near[k].id = timed[t]
      BY <2>1, <2>2, <3>2 DEF NearInv, Cancelled
    <3> QED BY <3>1, <3>2
  <2>4. \A i \in 1 .. Len(near') : near'[i].wakes # t
    BY <2>1, <2>3, NoTimer
  <2>5. "clear" \in PcLabels \ {"assign"}
    BY DEF PcLabels
  <2>6. Owned(near', [pc EXCEPT ![t] = "clear"], timed, reg)
    BY <2>1, <2>2, <2>3, <2>4, <2>5, MoveOwned, Zenon
  <2> QED BY <2>1, <2>6 DEF NearInv
<1>8. CASE ClearTimerId(t)
  <2> DEFINE um == [timed EXCEPT ![t] = 0]
  <2>1. /\ pc[t] = "clear" /\ timed' = um
        /\ pc' = [pc EXCEPT ![t] = "run"] /\ UNCHANGED <<near, reg>>
    BY <1>8 DEF ClearTimerId, At, GoTo
  <2>2. t \notin {Boot, Idle} /\ timed \in [Threads -> Ids \cup {0, -1}]
    BY <2>1 DEF NearInv, Owned
  <2>3. \A i \in 1 .. Len(near) : near[i].id # timed[t] /\ near[i].wakes # t
    BY <2>1, Elements, TimersAssumption DEF NearInv, Belongs, Sleeping
  <2>4. Owned(near, pc, um, reg) /\ um[t] = 0
    BY <2>2, <2>3, ClearOwned, Zenon DEF NearInv
  <2>5. "run" \in PcLabels \ {"assign"}
    BY DEF PcLabels
  <2> HIDE DEF um
  <2>6. Owned(near, [pc EXCEPT ![t] = "run"], um, reg)
    BY <2>1, <2>2, <2>3, <2>4, <2>5, MoveOwned, Zenon
  <2> QED BY <2>1, <2>6 DEF NearInv
<1> QED
  BY <1>1, <1>2, <1>3, <1>4, <1>5, <1>6, <1>7, <1>8 DEF SleeperStep

(* Every step keeps the timers with their sleeps. *)
LEMMA NextNearInv ==
  ASSUME NearInv, [Next]_vars
  PROVE  NearInv'
<1> USE TimersAssumption
<1>1. ASSUME UNCHANGED <<near, timed, reg, pc>> PROVE NearInv'
  BY <1>1 DEF NearInv
<1>2. ASSUME NEW t \in Threads, NEW label \in {"yield", "handle", "woken"},
             UNCHANGED <<near, timed, reg>>,
             pc' = [pc EXCEPT ![t] = label], pc[t] \in {"block", "yield"},
             label = "handle" => t = Timer
      PROVE  NearInv'
  <2>1. t \notin {Boot, Idle}
    BY <1>2 DEF NearInv, Owned
  <2>2. \A i \in 1 .. Len(near) : near[i].wakes # Timer
    BY Elements DEF NearInv, Sleepers
  <2>3. label \in PcLabels \ {"assign"} /\ (label # "handle" => label \in Sleeping)
        /\ label # "run" /\ pc[t] # "assign"
    BY <1>2 DEF PcLabels, Sleeping
  <2>4. Owned(near, [pc EXCEPT ![t] = label], timed, reg)
    BY <1>2, <2>1, <2>2, <2>3, MoveOwned, Zenon DEF NearInv
  <2> QED BY <1>2, <2>4 DEF NearInv
<1>3. CASE UNCHANGED vars
  BY <1>1, <1>3 DEF vars
<1>4. ASSUME NEW t \in Threads, current_thread_sleep(t) PROVE NearInv'
  BY <1>2, <1>4, Zenon DEF current_thread_sleep, At, GoTo, timerVars
<1>5. ASSUME NEW t \in Threads, SleepYield(t) PROVE NearInv'
  BY <1>2, <1>5, Zenon DEF SleepYield, At, GoTo, timerVars
<1>6. CASE timers_handle_near_timers
  <2>1. pc[Timer] = "handle" /\ reg' = reg
    BY <1>6 DEF timers_handle_near_timers, At
  <2>2. CASE Due /\ Head(near).wakes \in Threads
    BY <1>6, <2>2, CallbackOwned
    DEF timers_handle_near_timers, thread_wake_timer_callback, Due
  <2>3. CASE Due /\ Head(near).wakes \notin Threads
    <3>1. 1 \in 1 .. Len(near) /\ Head(near) = near[1]
      BY <2>3 DEF NearInv, Owned, ListOK, Due
    <3>2. near' = Cancelled(near, near[1].id) /\ UNCHANGED <<timed, reg, pc>>
      BY <1>6, <2>3, <3>1 DEF timers_handle_near_timers
    <3>3. Owned(near', pc, timed, reg)
      BY <3>1, <3>2, CancelOwned DEF NearInv
    <3> QED BY <3>2, <3>3 DEF NearInv
  <2>4. CASE ~Due
    <3>1. pc' = [pc EXCEPT ![Timer] = "block"] /\ UNCHANGED <<near, timed, reg>>
      BY <1>6, <2>4 DEF timers_handle_near_timers, GoTo
    <3>2. \A i \in 1 .. Len(near) : near[i].wakes # Timer
      BY Elements DEF NearInv, Sleepers
    <3>3. Owned(near, [pc EXCEPT ![Timer] = "block"], timed, reg)
      BY <2>1, <3>2, MoveOwned DEF NearInv, PcLabels
    <3> QED BY <3>1, <3>3 DEF NearInv
  <2> QED BY <2>2, <2>3, <2>4
<1>7. CASE \E v \in Vectors : Arrival(v)
  BY <1>1, <1>7 DEF Arrival, timerVars
<1>8. CASE Handler
  <2>1. CASE timers_advance_clock /\ UNCHANGED pc
    <3>1. ListOK(near') /\ Len(near') = Len(near)
          /\ \A i \in 1 .. Len(near) : near'[i].id = near[i].id /\ near'[i].wakes = near[i].wakes
      BY <2>1, AdvanceOK DEF timers_advance_clock, NearInv, Owned
    <3>2. \A i \in 1 .. Len(near') : Belongs(near'[i], pc, timed, reg)
      BY <3>1 DEF NearInv, Owned, Belongs
    <3>3. Owned(near', pc, timed, reg)
      BY <3>1, <3>2 DEF NearInv, Owned
    <3> QED BY <2>1, <3>3 DEF NearInv, timers_advance_clock
  <2>2. CASE UNCHANGED timerVars /\ UNCHANGED pc
    BY <1>1, <2>2 DEF timerVars
  <2> QED BY <1>8, <2>1, <2>2 DEF Handler
<1>9. CASE SpinForEver
  BY <1>1, <1>9 DEF SpinForEver
<1> QED
  BY <1>3, <1>4, <1>5, <1>6, <1>7, <1>8, <1>9, SleeperStepOwned DEF Next, ThreadStep

(* The scheduler while the timers run: no assertion fails, every thread    *)
(* but the bootstrap thread has been started and lives, and the idle       *)
(* thread is never blocked.                                                *)
SInv ==
  /\ CpuInv({Boot})
  /\ ~sched.panic
  /\ sched.state[Boot] = "dead" /\ current # Boot
  /\ \A t \in Threads \ {Boot} : sched.state[t] \notin {"created", "dead"}
  /\ sched.state[Idle] # "blocked"

(* The threads are started and no timer is set. *)
LEMMA InitScheduler ==
  ASSUME Init
  PROVE  SInv
<1> USE TimersAssumption
<1> DEFINE n == Cardinality(Users)
<1>1. n \in Nat
  OBVIOUS
<1> HIDE DEF n
<1>2. PICK order \in Bijection(1 .. n, Users) :
        sched = [ runnable |-> Append(order, Idle),
                  blocked  |-> <<>>,
                  state    |-> [t \in Threads |-> CASE t = Boot -> "dead"
                                                    [] t = Idle -> "running"
                                                    [] OTHER -> "runnable"],
                  slice    |-> [t \in Threads |-> TIME_SLICE],
                  last     |-> 0,
                  panic    |-> FALSE ]
  BY Zenon DEF Init, n
<1>3. /\ order \in [1 .. n -> Users] /\ IsInjective(order)
      /\ \A t \in Users : \E i \in 1 .. n : order[i] = t
  BY <1>2 DEF Bijection, Injection, Surjection
<1>4. order \in Seq(Threads) /\ Len(order) = n
  BY <1>1, <1>3 DEF Users
<1>5. \A t \in Threads : InList(order, t) <=> t \notin {Boot, Idle}
  BY <1>3, <1>4 DEF InList, Users
<1>6. /\ Append(order, Idle) \in Seq(Threads) /\ IsInjective(Append(order, Idle))
      /\ \A t \in Threads : InList(Append(order, Idle), t) <=> t # Boot
  BY <1>3, <1>4, <1>5, AppendRange
<1>7. \A t \in Threads : sched.state[t] = IF t = Boot THEN "dead"
                                         ELSE IF t = Idle THEN "running" ELSE "runnable"
  BY <1>2
<1>8. sched \in SchedulerType
  <2>1. 0 \in Words /\ TIME_SLICE \in Words
    BY WordAssumption, TimeSliceAssumption DEF Words
  <2>2. <<>> \in Seq(Threads)
    OBVIOUS
  <2>3. [t \in Threads |-> CASE t = Boot -> "dead"
                             [] t = Idle -> "running"
                             [] OTHER -> "runnable"] \in [Threads -> ThreadStates]
    BY States
  <2> QED BY <1>2, <1>6, <2>1, <2>2, <2>3 DEF SchedulerType
<1>9. sched.runnable = Append(order, Idle) /\ sched.blocked = <<>> /\ sched.panic = FALSE
  BY <1>2
<1>10. Consistent(sched, {Boot})
  BY <1>6, <1>7, <1>9 DEF Consistent, IsInjective, InList
<1>11. /\ current = Idle /\ nesting = 0 /\ ticks = 0
       /\ frames = [t \in Threads |-> <<>>]
  BY DEF Init, InterruptsInit
<1>12. CpuTypeOK
  BY <1>8, <1>11, MaxFramesAssumption, WordAssumption DEF CpuTypeOK, Words
<1>13. RunningIsCurrent /\ HandlersFinishBeforeSwitch
  BY <1>7, <1>11 DEF RunningIsCurrent, HandlersFinishBeforeSwitch, Depth
<1> QED
  BY <1>7, <1>9, <1>10, <1>11, <1>12, <1>13 DEF SInv, CpuInv

(* A step that leaves the scheduler and the interrupts alone. *)
LEMMA QuietGood ==
  ASSUME SInv, UNCHANGED cpuVars
  PROVE  SInv'
<1>1. CpuInv({Boot})'
  BY DEF SInv, cpuVars, CpuInv, CpuTypeOK, Consistent, InList, RunningIsCurrent,
         HandlersFinishBeforeSwitch, Depth
<1> QED BY <1>1 DEF SInv, cpuVars

(* The scheduler before a step. *)
LEMMA SchedulerBefore ==
  ASSUME SInv
  PROVE  /\ CpuInv({Boot}) /\ Good(sched, {Boot}) /\ CpuTypeOK
         /\ current \in Threads
         /\ sched.state \in [Threads -> ThreadStates]
         /\ sched.runnable # <<>>
         /\ \A t \in Threads : sched.state[t] = "running" => t = current
<1> USE TimersAssumption
<1>1. /\ CpuInv({Boot}) /\ Good(sched, {Boot}) /\ CpuTypeOK /\ current \in Threads
      /\ sched.state \in [Threads -> ThreadStates]
      /\ \A t \in Threads : sched.state[t] = "running" => t = current
  BY Zenon DEF SInv, CpuInv, CpuTypeOK, Good, SchedulerType, RunningIsCurrent
<1>2. sched.state[Idle] \in {"running", "runnable"}
  BY <1>1 DEF SInv, ThreadStates
<1>3. InList(sched.runnable, Idle)
  BY <1>1, <1>2 DEF Good, Consistent
<1> QED BY <1>1, <1>3 DEF InList

(* A wake-up of a thread other than the bootstrap thread and the idle      *)
(* thread.                                                                 *)
LEMMA WakeGood ==
  ASSUME SInv, NEW u \in Users, sched' = scheduler_make_runnable(sched, u),
         UNCHANGED current
  PROVE  /\ Good(sched', {Boot}) /\ sched'.panic = sched.panic
         /\ \A w \in Threads : sched'.state[w] = IF w = u THEN "runnable" ELSE sched.state[w]
         /\ RunningIsCurrent'
<1>1. u \in Threads /\ u \notin {Boot} /\ sched.state[u] \notin {"created", "dead"}
  BY DEF Users, SInv
<1>2. /\ Good(sched', {Boot}) /\ sched'.panic = sched.panic
      /\ sched'.state = [sched.state EXCEPT ![u] = "runnable"]
  BY <1>1, SchedulerBefore, MakeRunnable
<1>3. \A w \in Threads : sched'.state[w] = IF w = u THEN "runnable" ELSE sched.state[w]
  BY <1>2, SchedulerBefore
<1>4. RunningIsCurrent'
  BY <1>3, SchedulerBefore DEF RunningIsCurrent
<1> QED BY <1>2, <1>3, <1>4

(* The steps of the threads. *)
LEMMA ThreadStepGood ==
  ASSUME SInv, NearInv, NEW t \in Threads, ThreadStep(t)
  PROVE  SInv'
<1> USE TimersAssumption
<1>1. CASE SleeperStep(t)
  <2>1. UNCHANGED cpuVars
    BY <1>1, Zenon DEF SleeperStep, ScheduleWake, timer_schedule_delay, timer_cancel,
                timer_schedule_at, AssignTimerId, TestTimerId, CancelWake, ClearTimerId
  <2> QED BY <2>1, QuietGood
<1>2. CASE current_thread_sleep(t)
  <2>1. /\ current = t /\ frames[t] = <<>> /\ pc[t] = "block"
        /\ sched' = scheduler_make_blocked(sched, t)
        /\ UNCHANGED <<current, ticks, nesting, frames>>
    BY <1>2 DEF current_thread_sleep, At
  <2>2. t # Boot /\ t # Idle
    BY <2>1 DEF NearInv, Owned
  <2>3. t \notin {Boot} /\ sched.state[t] \notin {"created", "dead"}
    BY <2>2 DEF SInv
  <2>4. /\ Good(sched', {Boot}) /\ sched'.panic = sched.panic
        /\ sched'.state = [sched.state EXCEPT ![t] = "blocked"]
    <3>1. Good(sched, {Boot})
      BY SchedulerBefore
    <3> DEFINE r == scheduler_make_blocked(sched, t)
    <3>2. /\ Good(r, {Boot}) /\ r.panic = sched.panic
          /\ r.state = [sched.state EXCEPT ![t] = "blocked"]
      BY <2>3, <3>1, MakeBlocked
    <3> HIDE DEF r
    <3> QED BY <2>1, <3>2 DEF r
  <2>5. \A w \in Threads : sched'.state[w] = IF w = t THEN "blocked" ELSE sched.state[w]
    BY <2>4, SchedulerBefore
  <2>6. RunningIsCurrent' /\ current' \in Threads
    BY <2>1, <2>5, SchedulerBefore DEF RunningIsCurrent
  <2>7. CpuInv({Boot})'
    BY <2>1, <2>4, <2>6, ThreadGood DEF SInv
  <2> QED BY <2>1, <2>2, <2>4, <2>5, <2>7 DEF SInv
<1>3. CASE SleepYield(t)
  <2>1. /\ current = t /\ frames[t] = <<>> /\ scheduler_yield(sched)
        /\ UNCHANGED <<ticks, nesting, frames>>
    BY <1>3 DEF SleepYield, At
  <2>2. /\ Good(sched', {Boot}) /\ sched'.panic = sched.panic /\ current' \in Threads
        /\ (current' = current /\ sched.state[current] = "running")
             \/ InList(sched.runnable, current')
        /\ \A w \in Threads :
             sched'.state[w] = IF w = current' THEN "running"
                               ELSE IF w = current /\ sched.state[current] = "running" THEN "runnable"
                               ELSE sched.state[w]
        /\ RunningIsCurrent'
    <3>1. /\ CpuTypeOK /\ Good(sched, {Boot}) /\ sched.runnable # <<>>
          /\ \A w \in Threads : sched.state[w] = "running" => w = current
      BY SchedulerBefore
    <3> QED BY <2>1, <3>1, YieldStates
  <2>3. CpuInv({Boot})'
    BY <2>1, <2>2, ThreadGood, Zenon DEF SInv
  <2>4. current' # Boot
    BY <2>2, SchedulerBefore, Zenon DEF SInv, Good, Consistent
  <2> QED BY <2>2, <2>3, <2>4 DEF SInv
<1>4. CASE timers_handle_near_timers
  <2>1. /\ frames[current] = <<>> /\ UNCHANGED <<current, ticks, nesting, frames>>
    BY <1>4 DEF timers_handle_near_timers, At
  <2>2. CASE sched' = sched
    BY <2>1, <2>2, QuietGood DEF cpuVars
  <2>3. CASE Due /\ Head(near).wakes \in Threads
    <3> DEFINE u == Head(near).wakes
    <3>1. u \in Users
      <4>1. 1 \in 1 .. Len(near) /\ Head(near) = near[1]
        BY <2>3 DEF NearInv, Owned, ListOK, Due
      <4>2. near[1].wakes \in Sleepers \cup {Nobody}
        BY <4>1, Elements DEF NearInv
      <4> QED BY <2>3, <4>1, <4>2 DEF Sleepers
    <3>2. sched' = scheduler_make_runnable(sched, u)
      BY <1>4, <2>3 DEF timers_handle_near_timers, thread_wake_timer_callback
    <3> HIDE DEF u
    <3>3. /\ Good(sched', {Boot}) /\ sched'.panic = sched.panic
          /\ \A w \in Threads : sched'.state[w] = IF w = u THEN "runnable" ELSE sched.state[w]
          /\ RunningIsCurrent'
      BY <2>1, <3>1, <3>2, WakeGood, Zenon
    <3>4. CpuInv({Boot})'
      BY <2>1, <3>3, SchedulerBefore, ThreadGood, Zenon
    <3>5. u # Boot
      BY <3>1 DEF Users
    <3> QED BY <2>1, <3>3, <3>4, <3>5, Zenon DEF SInv
  <2> QED BY <1>4, <2>2, <2>3 DEF timers_handle_near_timers
<1> QED BY <1>1, <1>2, <1>3, <1>4 DEF ThreadStep

(* A step of a handler from one of its stages to the next. *)
LEMMA StageGood ==
  ASSUME SInv, NEW stage, InHandler(stage), stage # "yield",
         NEW st \in FrameStages \ {"yield"}, Goto(st, 0),
         UNCHANGED <<current, ticks, nesting>>,
         \/ sched' = sched
         \/ sched' = scheduler_make_runnable(sched, Timer)
  PROVE  SInv'
<1> USE TimersAssumption
<1>1. Timer \in Users
  BY DEF Users
<1>2. /\ Good(sched', {Boot}) /\ sched'.panic = sched.panic /\ RunningIsCurrent'
      /\ \A w \in Threads : sched'.state[w] \in {sched.state[w], "runnable"}
      /\ sched'.state[Boot] = sched.state[Boot]
  <2>1. CASE sched' = sched
    BY <2>1, SchedulerBefore, Zenon DEF RunningIsCurrent
  <2>2. CASE sched' = scheduler_make_runnable(sched, Timer)
    BY <1>1, <2>2, WakeGood, Zenon
  <2> QED BY <2>1, <2>2, Zenon
<1>3. Depth > 0 /\ Top.at # "yield"
  BY DEF InHandler
<1>4. 0 \in Words /\ ticks' \in Words
  BY WordAssumption, SchedulerBefore DEF Words, CpuTypeOK
<1>5. CpuInv({Boot})'
  BY <1>2, <1>3, <1>4, SchedulerBefore, GotoGood, Zenon
<1> QED BY <1>2, <1>5, Zenon DEF SInv

(* The steps of the handlers. *)
LEMMA HandlerStepGood ==
  ASSUME SInv, Handler
  PROVE  SInv'
<1> USE TimersAssumption
<1> DEFINE Stages == FrameStages \ {"yield"}
<1>0. "leave" \in Stages /\ "advance" \in Stages /\ "wake" \in Stages
  BY DEF FrameStages
<1>1. CASE TickLoad \/ TickStore \/ HandlerDefer(Device) \/ HandlerDone(Device) \/ HandlerLeave
  <2>1. HandlerStep
    BY <1>1 DEF HandlerStep, Vectors
  <2>2. ~HandlerYield
    BY <1>1, VectorAssumption, Zenon DEF TickLoad, TickStore, HandlerDefer, HandlerDone, Defers,
                HandlerLeave, HandlerYield, InHandler
  <2>3. \A v \in Vectors : Deferred[v] \notin {Boot}
    BY DEF Vectors
  <2>4. CpuInv({Boot})' /\ current' = current /\ sched'.panic = sched.panic /\ WakesOnly
    BY <2>1, <2>2, <2>3, SchedulerBefore, HandlerGood, Zenon
  <2> QED BY <2>3, <2>4, Zenon DEF SInv, WakesOnly
<1>2. CASE TickSkip
  BY <1>0, <1>2, StageGood DEF TickSkip
<1>3. CASE TickAdvance
  BY <1>0, <1>3, StageGood DEF TickAdvance
<1>4. CASE timers_advance_clock
  BY <1>0, <1>4, StageGood DEF timers_advance_clock
<1>5. CASE TickWake
  BY <1>0, <1>5, StageGood DEF TickWake
<1>6. CASE HandlerYield
  <2>1. /\ CpuInv({Boot})' /\ sched'.panic = sched.panic
        /\ (current' = current /\ sched.state[current] = "running")
             \/ InList(sched.runnable, current')
        /\ \A w \in Threads :
             sched'.state[w] = IF w = current' THEN "running"
                               ELSE IF w = current /\ sched.state[current] = "running" THEN "runnable"
                               ELSE sched.state[w]
    BY <1>6, SchedulerBefore, HandlerYieldGood, Zenon
  <2>2. current' \in Threads
    BY <2>1, Zenon DEF CpuInv, CpuTypeOK
  <2>3. current' # Boot
    BY <2>1, <2>2, SchedulerBefore, Zenon DEF SInv, Good, Consistent
  <2> QED BY <2>1, <2>2, <2>3, Zenon DEF SInv
<1> QED BY <1>1, <1>2, <1>3, <1>4, <1>5, <1>6 DEF Handler

(* Every step keeps the scheduler's part of the invariant. *)
LEMMA NextSInv ==
  ASSUME SInv, NearInv, [Next]_vars
  PROVE  SInv'
<1>1. CASE UNCHANGED vars
  BY <1>1, QuietGood DEF vars, cpuVars
<1>2. ASSUME NEW v \in Vectors, Arrival(v) PROVE SInv'
  <2>1. Interrupt(v)
    BY <1>2 DEF Arrival
  <2>2. CpuInv({Boot})' /\ UNCHANGED <<sched, current>>
    BY <2>1, SchedulerBefore, InterruptGood, Zenon
  <2> QED BY <2>2 DEF SInv
<1>3. CASE SpinForEver
  BY <1>3, QuietGood DEF SpinForEver
<1> QED BY <1>1, <1>2, <1>3, ThreadStepGood, HandlerStepGood DEF Next

----------------------------------------------------------------------------
(* The lock that timer_schedule_at leaves held.                            *)

(* The thread that was left holding the lock has no handler on its stack:  *)
(* interrupts are off for it.  A far timer exists only behind such a lock. *)
LockInv ==
  /\ lock \in Threads \cup {Free, Hung}
  /\ lock \in Threads => frames[lock] = <<>>
  /\ far # {} => lock # Free

(* A handler runs on a stack that is not the lock owner's. *)
LEMMA HandlerIsNotOwner ==
  ASSUME SInv, LockInv, NEW stage, InHandler(stage)
  PROVE  lock # current
  BY SchedulerBefore DEF LockInv, InHandler, Depth

(* Every step keeps the lock invariant. *)
LEMMA NextLockInv ==
  ASSUME SInv, LockInv, [Next]_vars
  PROVE  LockInv'
<1> USE TimersAssumption
<1>0. DOMAIN frames = Threads /\ current \in Threads
  BY SchedulerBefore, Zenon DEF CpuTypeOK
<1>1. ASSUME UNCHANGED <<frames, far, lock>> PROVE LockInv'
  BY <1>1 DEF LockInv
<1>2. CASE UNCHANGED vars
  BY <1>1, <1>2 DEF vars
<1>3. ASSUME NEW t \in Threads, ThreadStep(t) PROVE LockInv'
  <2>1. CASE timer_schedule_at(t)
    BY <1>3, <2>1, Zenon DEF timer_schedule_at, At, LockInv, cpuVars
  <2>2. CASE ~timer_schedule_at(t)
    <3>1. UNCHANGED <<frames, far, lock>>
      BY <1>3, <2>2, Zenon
      DEF ThreadStep, SleeperStep, ScheduleWake, timer_schedule_delay, timer_cancel,
          AssignTimerId, TestTimerId, CancelWake, ClearTimerId, current_thread_sleep,
          SleepYield, timers_handle_near_timers, cpuVars, timerVars
    <3> QED BY <1>1, <3>1
  <2> QED BY <2>1, <2>2
<1>4. ASSUME NEW v \in Vectors, Arrival(v) PROVE LockInv'
  BY <1>0, <1>4, Zenon DEF Arrival, Interrupt, Push, timerVars, LockInv
<1>5. CASE Handler
  <2>1. UNCHANGED <<far, lock>>
    BY <1>5 DEF Handler, timerVars, timers_advance_clock
  <2>2. \E stage : InHandler(stage)
    BY <1>5 DEF Handler, TickLoad, TickStore, TickSkip, TickAdvance, TickWake,
                timers_advance_clock, HandlerDefer, HandlerDone, Defers,
                HandlerLeave, HandlerYield
  <2>3. \E f : frames' = [frames EXCEPT ![current] = f]
    BY <1>5 DEF Handler, TickLoad, TickStore, TickSkip, TickAdvance, TickWake,
                timers_advance_clock, HandlerDefer, HandlerDone,
                HandlerLeave, HandlerYield, Goto, Pop
  <2>4. lock # current
    BY <2>2, HandlerIsNotOwner
  <2> QED BY <1>0, <2>1, <2>3, <2>4 DEF LockInv
<1>6. CASE SpinForEver
  BY <1>6 DEF SpinForEver, cpuVars, LockInv
<1> QED BY <1>2, <1>3, <1>4, <1>5, <1>6 DEF Next

----------------------------------------------------------------------------
(* The invariants hold in every behaviour.                                 *)

IInv == NearInv /\ SInv /\ LockInv

(* The inductive invariant holds in every reachable state. *)
THEOREM TimersInvariance == Spec => []IInv
<1>1. Init => IInv
  <2> SUFFICES ASSUME Init PROVE NearInv /\ LockInv
    BY InitScheduler DEF IInv
  <2> USE TimersAssumption
  <2>1. ListOK(near)
    BY DEF Init, ListOK, Sorted
  <2>2. NearInv
    BY <2>1 DEF Init, NearInv, Owned, PcLabels
  <2> QED BY <2>2 DEF Init, LockInv
<1>2. IInv /\ [Next]_vars => IInv'
  BY NextNearInv, NextSInv, NextLockInv DEF IInv
<1> QED BY <1>1, <1>2, PTL DEF Spec

(* timers.c: however a timed sleep ends, a pending timer belongs to the    *)
(* sleep its thread is in, and the sleep cancels that timer and no other.  *)
THEOREM TimersAlwaysBelong == Spec => []TimersBelongToSleeps
<1>1. NearInv => TimersBelongToSleeps
  <2> SUFFICES ASSUME NearInv, NEW i \in DOMAIN near
               PROVE  /\ near[i].wakes # Nobody =>
                           /\ pc[near[i].wakes] \in Sleeping
                           /\ \A j \in DOMAIN near : near[i].wakes = near[j].wakes => i = j
                      /\ \A t \in Threads : near[i].id \in {timed[t], reg[t]} <=> near[i].wakes = t
    BY DEF TimersBelongToSleeps, Sleeping
  <2>1. DOMAIN near = 1 .. Len(near)
    BY DEF NearInv, Owned, ListOK
  <2>2. Belongs(near[i], pc, timed, reg)
    BY <2>1 DEF NearInv, Owned
  <2>3. ASSUME NEW j \in DOMAIN near, near[i].wakes # Nobody, near[i].wakes = near[j].wakes
        PROVE  i = j
    <3> DEFINE w == near[i].wakes
    <3>1. /\ w \in Threads /\ near[i].id # 0 /\ near[j].id # 0
          /\ near[i].id \in {timed[w], reg[w]} /\ near[j].id \in {timed[w], reg[w]}
      <4>1. /\ near[i].id # 0 /\ near[i].wakes \in Sleepers \cup {Nobody}
            /\ near[j].id # 0 /\ Belongs(near[j], pc, timed, reg)
        BY <2>1, Elements, Zenon DEF NearInv
      <4>2. w \in Threads
        BY <2>3, <4>1 DEF Sleepers, Users
      <4> QED BY <2>2, <2>3, <4>1, <4>2, Zenon DEF Belongs
    <3>2. timed[w] = 0 \/ reg[w] = 0
      BY <3>1 DEF NearInv, Owned
    <3>3. near[i].id = near[j].id
      BY <3>1, <3>2
    <3> QED BY <2>1, <3>3 DEF NearInv, Owned, ListOK
  <2> QED BY <2>2, <2>3 DEF Belongs
<1> QED BY <1>1, TimersInvariance, PTL DEF IInv

(* timer_schedule_at: no far timer is ever converted, because the tick     *)
(* handler takes the lock only while no far timer exists.                  *)
THEOREM FarTimersStayStranded == Spec => []FarTimersAreStranded
<1>1. SInv /\ LockInv => FarTimersAreStranded
  BY HandlerIsNotOwner DEF LockInv, FarTimersAreStranded, CanLock
<1> QED BY <1>1, TimersInvariance, PTL DEF IInv

(* The timer thread and the tick handler look at the head of the list      *)
(* only: no other timer is due before it.                                  *)
HeadIsNext == \A i \in DOMAIN near : Head(near).delay <= near[i].delay

(* timers_handle_near_timers and timers_next_delay miss no timer. *)
THEOREM HeadAlwaysNext == Spec => []HeadIsNext
<1>1. NearInv => HeadIsNext
  <2> SUFFICES ASSUME NearInv, NEW i \in DOMAIN near PROVE Head(near).delay <= near[i].delay
    BY DEF HeadIsNext
  <2>1. 1 \in 1 .. Len(near) /\ i \in 1 .. Len(near) /\ 1 <= i /\ Head(near) = near[1]
    BY DEF NearInv, Owned, ListOK
  <2> QED BY <2>1 DEF NearInv, Owned, ListOK, Sorted
<1> QED BY <1>1, TimersInvariance, PTL DEF IInv

=============================================================================
