-------------------------- MODULE InterruptsProofs --------------------------
(***************************************************************************)
(* What the lists of utlist.h, the functions of scheduler.c and the steps  *)
(* of interrupts_handler keep, for every set of threads, time slice, word  *)
(* size and interrupt depth: the lemmas that the proofs about threads,     *)
(* mutexes and timers share.                                               *)
(***************************************************************************)
EXTENDS Interrupts, TLAPS

(* Unlinking a listed thread leaves a list of threads. *)
LEMMA DeleteType ==
  ASSUME NEW l \in Seq(Threads), NEW t, InList(l, t)
  PROVE  DL_DELETE(l, t) \in Seq(Threads)
<1> DEFINE k == Index(l, t)
<1>1. k \in 1 .. Len(l) /\ l[k] = t
  BY DEF InList, Index
<1>2. Len(l) - 1 \in Nat
  BY <1>1
<1>3. DL_DELETE(l, t) \in [1 .. Len(l) - 1 -> Threads]
  BY <1>1 DEF DL_DELETE
<1> QED
  BY <1>2, <1>3

(* Unlinking t from a list that holds it once removes t and nothing else. *)
LEMMA DeleteRange ==
  ASSUME NEW l \in Seq(Threads), NEW t, InList(l, t), IsInjective(l)
  PROVE  /\ IsInjective(DL_DELETE(l, t))
         /\ \A u \in Threads : InList(DL_DELETE(l, t), u) <=> InList(l, u) /\ u # t
<1> DEFINE k == Index(l, t)
           d == DL_DELETE(l, t)
<1>1. k \in 1 .. Len(l) /\ l[k] = t
  BY DEF InList, Index
<1>2. /\ DOMAIN d = 1 .. Len(l) - 1
      /\ \A i \in 1 .. Len(l) - 1 : d[i] = IF i < k THEN l[i] ELSE l[i + 1]
  BY DEF DL_DELETE
<1>3. \A i, j \in 1 .. Len(l) : l[i] = l[j] => i = j
  BY DEF IsInjective
<1> HIDE DEF d, k
<1>4. IsInjective(d)
  BY <1>1, <1>2, <1>3 DEF IsInjective
<1>5. ASSUME NEW u \in Threads, InList(d, u)
      PROVE  InList(l, u) /\ u # t
  <2>1. PICK i \in 1 .. Len(l) - 1 : d[i] = u
    BY <1>2, <1>5 DEF InList
  <2>2. CASE i < k
    BY <1>1, <1>2, <1>3, <2>1, <2>2 DEF InList
  <2>3. CASE ~(i < k)
    BY <1>1, <1>2, <1>3, <2>1, <2>3 DEF InList
  <2> QED BY <2>2, <2>3
<1>6. ASSUME NEW u \in Threads, InList(l, u), u # t
      PROVE  InList(d, u)
  <2>1. PICK i \in 1 .. Len(l) : l[i] = u
    BY <1>6 DEF InList
  <2>2. CASE i < k
    <3>1. i \in 1 .. Len(l) - 1 /\ d[i] = u
      BY <1>1, <1>2, <2>1, <2>2
    <3> QED BY <3>1, <1>2 DEF InList
  <2>3. CASE i > k
    <3>1. i - 1 \in 1 .. Len(l) - 1 /\ d[i - 1] = u
      BY <1>1, <1>2, <2>1, <2>3
    <3> QED BY <3>1, <1>2 DEF InList
  <2>4. i # k
    BY <1>1, <1>6, <2>1
  <2> QED BY <1>1, <2>2, <2>3, <2>4
<1> QED
  BY <1>4, <1>5, <1>6 DEF d

(* Appending a thread that is not on the list. *)
LEMMA AppendRange ==
  ASSUME NEW l \in Seq(Threads), NEW t \in Threads
  PROVE  /\ Append(l, t) \in Seq(Threads)
         /\ \A u \in Threads : InList(Append(l, t), u) <=> InList(l, u) \/ u = t
         /\ IsInjective(l) /\ ~InList(l, t) => IsInjective(Append(l, t))
  BY SMTT(30) DEF InList, IsInjective

(* The head of a non-empty list is on it. *)
LEMMA HeadInList ==
  ASSUME NEW l \in Seq(Threads), l # <<>>
  PROVE  Head(l) \in Threads /\ InList(l, Head(l))
  BY DEF InList

(* A thread that is not on the list is not its head. *)
LEMMA IsHeadInList ==
  ASSUME NEW l \in Seq(Threads), NEW t, IsHead(l, t)
  PROVE  InList(l, t)
  BY DEF InList, IsHead

(* The place of a thread on a list that holds it once. *)
LEMMA IndexIs ==
  ASSUME NEW l \in Seq(Threads), IsInjective(l), NEW i \in 1 .. Len(l)
  PROVE  Index(l, l[i]) = i
  BY DEF IsInjective, Index

(* Appending a thread moves no other thread, and unlinking one moves the   *)
(* others forward or not at all.                                           *)
LEMMA IndexAfter ==
  ASSUME NEW l \in Seq(Threads), IsInjective(l),
         NEW t \in Threads, InList(l, t), NEW u \in Threads
  PROVE  /\ Index(l, t) \in Nat
         /\ ~InList(l, u) => Index(Append(l, u), t) = Index(l, t)
         /\ InList(l, u) /\ u # t => Index(DL_DELETE(l, u), t) <= Index(l, t)
<1>1. PICK i \in 1 .. Len(l) : l[i] = t
  BY DEF InList
<1>2. Index(l, t) = i
  BY <1>1, IndexIs
<1>3. ASSUME ~InList(l, u)
      PROVE  Index(Append(l, u), t) = i
  <2>1. Append(l, u) \in Seq(Threads) /\ IsInjective(Append(l, u))
    BY <1>3, AppendRange
  <2>2. i \in 1 .. Len(Append(l, u)) /\ Append(l, u)[i] = t
    BY <1>1
  <2> QED BY <2>1, <2>2, IndexIs, Zenon
<1>4. ASSUME InList(l, u), u # t
      PROVE  Index(DL_DELETE(l, u), t) <= i
  <2> DEFINE k == Index(l, u)
             d == DL_DELETE(l, u)
  <2>1. k \in 1 .. Len(l) /\ l[k] = u
    BY <1>4 DEF InList, Index
  <2>2. /\ d \in Seq(Threads) /\ IsInjective(d)
        /\ Len(d) = Len(l) - 1
        /\ \A j \in 1 .. Len(l) - 1 : d[j] = IF j < k THEN l[j] ELSE l[j + 1]
    BY <1>4, <2>1, DeleteType, DeleteRange DEF DL_DELETE
  <2> HIDE DEF d, k
  <2>3. CASE i < k
    <3>1. i \in 1 .. Len(d) /\ d[i] = t
      BY <1>1, <2>1, <2>2, <2>3
    <3> QED BY <2>2, <3>1, IndexIs DEF d
  <2>4. CASE i > k
    <3>1. i - 1 \in 1 .. Len(d) /\ d[i - 1] = t
      BY <1>1, <2>1, <2>2, <2>4
    <3>2. Index(d, t) = i - 1
      BY <2>2, <3>1, IndexIs
    <3> QED BY <3>2 DEF d
  <2>5. i # k
    BY <1>1, <1>4, <2>1
  <2> QED BY <2>1, <2>3, <2>4, <2>5
<1> QED
  BY <1>2, <1>3, <1>4

----------------------------------------------------------------------------
(* The scheduler's functions keep the lists consistent and do not panic.   *)

(* A scheduler record of the right type whose lists match the states. *)
Good(s, out) == s \in SchedulerType /\ Consistent(s, out)

(* No thread that waits in s and still waits in r has been moved back. *)
KeepsOrder(s, r) ==
  \A t \in Threads :
    /\ s.state[t] = "runnable" /\ r.state[t] = "runnable"
    /\ InList(s.runnable, t)
    => Index(r.runnable, t) <= Index(s.runnable, t)

(* The three ways in which scheduler.c changes the runnable list: a thread *)
(* that was not on it goes to the back; one that is on it, and does not    *)
(* wait throughout, is unlinked; such a one is moved to the back.          *)
LEMMA OrderKept ==
  ASSUME NEW out, NEW s, Good(s, out), NEW r, NEW t \in Threads,
         \/ r.runnable = s.runnable
         \/ ~InList(s.runnable, t) /\ r.runnable = Append(s.runnable, t)
         \/ /\ InList(s.runnable, t)
            /\ s.state[t] # "runnable" \/ r.state[t] # "runnable"
            /\ \/ r.runnable = DL_DELETE(s.runnable, t)
               \/ r.runnable = Append(DL_DELETE(s.runnable, t), t)
  PROVE  KeepsOrder(s, r)
<1> SUFFICES ASSUME NEW u \in Threads,
                    s.state[u] = "runnable", r.state[u] = "runnable",
                    InList(s.runnable, u)
             PROVE  Index(r.runnable, u) <= Index(s.runnable, u)
  BY DEF KeepsOrder
<1> DEFINE l == s.runnable
           d == DL_DELETE(l, t)
<1>1. l \in Seq(Threads) /\ IsInjective(l)
  BY DEF Good, SchedulerType, Consistent
<1>2. Index(l, u) \in Nat
  BY <1>1, IndexAfter
<1>3. CASE r.runnable = l
  BY <1>2, <1>3
<1>4. CASE ~InList(l, t) /\ r.runnable = Append(l, t)
  BY <1>1, <1>2, <1>4, IndexAfter
<1>5. CASE /\ InList(l, t)
           /\ s.state[t] # "runnable" \/ r.state[t] # "runnable"
           /\ r.runnable = d \/ r.runnable = Append(d, t)
  <2>1. t # u
    BY <1>5
  <2>2. Index(d, u) <= Index(l, u)
    BY <1>1, <1>5, <2>1, IndexAfter
  <2>3. d \in Seq(Threads) /\ IsInjective(d) /\ InList(d, u) /\ ~InList(d, t)
    BY <1>1, <1>5, <2>1, DeleteType, DeleteRange
  <2> HIDE DEF d
  <2>4. Index(Append(d, t), u) = Index(d, u)
    BY <2>3, IndexAfter
  <2> QED BY <1>5, <2>2, <2>4, Zenon
<1> QED
  BY <1>3, <1>4, <1>5

(* What the updates of one thread's state and slice keep. *)
LEMMA FieldTypes ==
  ASSUME NEW s \in SchedulerType, NEW t \in Threads
  PROVE  /\ \A st \in ThreadStates : [s.state EXCEPT ![t] = st] \in [Threads -> ThreadStates]
         /\ \A w \in Words : [s.slice EXCEPT ![t] = w] \in [Threads -> Words]
         /\ TIME_SLICE \in Words
  BY TimeSliceAssumption, WordAssumption DEF SchedulerType, Words

(* Every thread is in one of the five states. *)
LEMMA States ==
  /\ "created" \in ThreadStates /\ "running" \in ThreadStates /\ "runnable" \in ThreadStates
  /\ "blocked" \in ThreadStates /\ "dead" \in ThreadStates
  BY DEF ThreadStates

(* scheduler_add_thread of a thread that was never started. *)
LEMMA AddThread ==
  ASSUME NEW out, NEW s, Good(s, out), NEW t \in Threads, t \notin out, s.state[t] = "created"
  PROVE  LET r == scheduler_add_thread(s, t)
         IN  /\ Good(r, out)
             /\ r.panic = s.panic
             /\ r.state = [s.state EXCEPT ![t] = "runnable"]
             /\ KeepsOrder(s, r)
<1> DEFINE r == scheduler_add_thread(s, t)
<1>1. ~InList(s.runnable, t) /\ ~InList(s.blocked, t)
  BY DEF Good, Consistent
<1>2. ~IsHead(s.runnable, t)
  BY <1>1, IsHeadInList DEF Good, SchedulerType
<1>3. r = scheduler_add_runnable_thread(SetState(s, t, "runnable"), t)
  BY DEF scheduler_add_thread
<1>4. /\ r = [s EXCEPT !.state = [s.state EXCEPT ![t] = "runnable"],
                       !.slice = [s.slice EXCEPT ![t] = TIME_SLICE],
                       !.runnable = Append(s.runnable, t)]
  BY <1>2, <1>3, Zenon DEF scheduler_add_runnable_thread, SetState, Good, SchedulerType
<1>5. /\ r.state = [s.state EXCEPT ![t] = "runnable"]
      /\ r.runnable = Append(s.runnable, t)
      /\ r.blocked = s.blocked /\ r.panic = s.panic
  BY <1>4 DEF Good, SchedulerType
<1>6. r \in SchedulerType
  <2>1. Append(s.runnable, t) \in Seq(Threads)
    BY AppendRange DEF Good, SchedulerType
  <2>2. /\ [s.state EXCEPT ![t] = "runnable"] \in [Threads -> ThreadStates]
        /\ [s.slice EXCEPT ![t] = TIME_SLICE] \in [Threads -> Words]
    BY FieldTypes, States DEF Good
  <2> QED BY <1>4, <2>1, <2>2, Zenon DEF Good, SchedulerType
<1> HIDE DEF r
<1>7. Consistent(r, out)
  <2>1. /\ IsInjective(r.runnable) /\ IsInjective(r.blocked)
        /\ \A u \in Threads : InList(r.runnable, u) <=> InList(s.runnable, u) \/ u = t
    BY <1>1, <1>5, AppendRange DEF Good, SchedulerType, Consistent
  <2>2. \A u \in Threads : r.state[u] = IF u = t THEN "runnable" ELSE s.state[u]
    BY <1>5 DEF Good, SchedulerType
  <2> QED BY <1>1, <1>5, <2>1, <2>2 DEF Good, Consistent
<1>8. KeepsOrder(s, r)
  BY <1>1, <1>5, OrderKept
<1> QED
  BY <1>5, <1>6, <1>7, <1>8 DEF Good, r

(* scheduler_make_runnable of a started, living thread. *)
LEMMA MakeRunnable ==
  ASSUME NEW out, NEW s, Good(s, out), NEW t \in Threads, t \notin out,
         s.state[t] \notin {"created", "dead"}
  PROVE  LET r == scheduler_make_runnable(s, t)
         IN  /\ Good(r, out)
             /\ r.panic = s.panic
             /\ r.state = [s.state EXCEPT ![t] = "runnable"]
             /\ KeepsOrder(s, r)
<1> DEFINE r == scheduler_make_runnable(s, t)
<1>0. s.state[t] \in {"running", "runnable", "blocked"}
  BY DEF Good, SchedulerType, ThreadStates
<1>1. CASE s.state[t] = "runnable"
  <2>1. r = s
    BY <1>1 DEF scheduler_make_runnable
  <2>2. KeepsOrder(s, r)
    BY <2>1, OrderKept
  <2> QED BY <1>1, <2>1, <2>2 DEF Good, SchedulerType
<1>2. CASE s.state[t] = "running"
  <2> DEFINE d == DL_DELETE(s.runnable, t)
  <2>1. InList(s.runnable, t) /\ ~InList(s.blocked, t)
    BY <1>2 DEF Good, Consistent
  <2>2. /\ d \in Seq(Threads) /\ IsInjective(d)
        /\ \A u \in Threads : InList(d, u) <=> InList(s.runnable, u) /\ u # t
    BY <2>1, DeleteType, DeleteRange DEF Good, SchedulerType, Consistent
  <2>3. ~IsHead(d, t)
    BY <2>2, IsHeadInList
  <2> HIDE DEF d
  <2>4. SetState(scheduler_remove_thread(s, t), t, "runnable")
          = [s EXCEPT !.runnable = d, !.state = [s.state EXCEPT ![t] = "runnable"]]
    BY <1>2, <2>1 DEF scheduler_remove_thread, scheduler_remove_runnable_thread,
                      SetState, d, Good, SchedulerType
  <2>5. r = [s EXCEPT !.runnable = Append(d, t),
                      !.state = [s.state EXCEPT ![t] = "runnable"],
                      !.slice = [s.slice EXCEPT ![t] = TIME_SLICE]]
    BY <1>2, <2>3, <2>4, Zenon DEF scheduler_make_runnable, scheduler_add_runnable_thread,
                            Good, SchedulerType
  <2>6. /\ r.state = [s.state EXCEPT ![t] = "runnable"]
        /\ r.runnable = Append(d, t)
        /\ r.blocked = s.blocked /\ r.panic = s.panic
    BY <2>5 DEF Good, SchedulerType
  <2>7. r \in SchedulerType
    <3>1. Append(d, t) \in Seq(Threads)
      BY <2>2, AppendRange DEF Good, SchedulerType
    <3>2. /\ [s.state EXCEPT ![t] = "runnable"] \in [Threads -> ThreadStates]
          /\ [s.slice EXCEPT ![t] = TIME_SLICE] \in [Threads -> Words]
      BY FieldTypes, States DEF Good
    <3> QED BY <2>2, <2>5, <3>1, <3>2, Zenon DEF Good, SchedulerType
  <2> HIDE DEF r
  <2>8. Consistent(r, out)
    <3>1. /\ IsInjective(r.runnable) /\ IsInjective(r.blocked)
          /\ \A u \in Threads : InList(r.runnable, u) <=> InList(s.runnable, u)
      BY <2>1, <2>2, <2>6, AppendRange DEF Good, Consistent
    <3>2. \A u \in Threads : r.state[u] = IF u = t THEN "runnable" ELSE s.state[u]
      BY <2>6 DEF Good, SchedulerType
    <3> QED BY <1>2, <2>1, <2>6, <3>1, <3>2 DEF Good, Consistent
  <2>9. KeepsOrder(s, r)
    BY <1>2, <2>1, <2>6, OrderKept DEF d
  <2> QED BY <2>6, <2>7, <2>8, <2>9 DEF Good, r
<1>3. CASE s.state[t] = "blocked"
  <2> DEFINE d == DL_DELETE(s.blocked, t)
  <2>1. InList(s.blocked, t) /\ ~InList(s.runnable, t)
    BY <1>3 DEF Good, Consistent
  <2>2. /\ d \in Seq(Threads) /\ IsInjective(d)
        /\ \A u \in Threads : InList(d, u) <=> InList(s.blocked, u) /\ u # t
    BY <2>1, DeleteType, DeleteRange DEF Good, SchedulerType, Consistent
  <2>3. ~IsHead(s.runnable, t)
    BY <2>1, IsHeadInList DEF Good, SchedulerType
  <2> HIDE DEF d
  <2>4. SetState(scheduler_remove_thread(s, t), t, "runnable")
          = [s EXCEPT !.blocked = d, !.state = [s.state EXCEPT ![t] = "runnable"]]
    BY <1>3, <2>1 DEF scheduler_remove_thread, scheduler_remove_blocked_thread,
                      SetState, d, Good, SchedulerType
  <2>5. r = [s EXCEPT !.blocked = d,
                      !.runnable = Append(s.runnable, t),
                      !.state = [s.state EXCEPT ![t] = "runnable"],
                      !.slice = [s.slice EXCEPT ![t] = TIME_SLICE]]
    BY <1>3, <2>3, <2>4, Zenon DEF scheduler_make_runnable, scheduler_add_runnable_thread,
                            Good, SchedulerType
  <2>6. /\ r.state = [s.state EXCEPT ![t] = "runnable"]
        /\ r.runnable = Append(s.runnable, t)
        /\ r.blocked = d /\ r.panic = s.panic
    BY <2>5 DEF Good, SchedulerType
  <2>7. r \in SchedulerType
    <3>1. Append(s.runnable, t) \in Seq(Threads)
      BY <2>2, AppendRange DEF Good, SchedulerType
    <3>2. /\ [s.state EXCEPT ![t] = "runnable"] \in [Threads -> ThreadStates]
          /\ [s.slice EXCEPT ![t] = TIME_SLICE] \in [Threads -> Words]
      BY FieldTypes, States DEF Good
    <3> QED BY <2>2, <2>5, <3>1, <3>2, Zenon DEF Good, SchedulerType
  <2> HIDE DEF r
  <2>8. Consistent(r, out)
    <3>1. /\ IsInjective(r.runnable) /\ IsInjective(r.blocked)
          /\ \A u \in Threads : /\ InList(r.runnable, u) <=> InList(s.runnable, u) \/ u = t
                                /\ InList(r.blocked, u) <=> InList(s.blocked, u) /\ u # t
      BY <2>1, <2>2, <2>6, AppendRange DEF Good, SchedulerType, Consistent
    <3>2. \A u \in Threads : r.state[u] = IF u = t THEN "runnable" ELSE s.state[u]
      BY <2>6 DEF Good, SchedulerType
    <3> QED BY <1>3, <2>1, <3>1, <3>2 DEF Good, Consistent
  <2>9. KeepsOrder(s, r)
    BY <2>1, <2>6, OrderKept
  <2> QED BY <2>6, <2>7, <2>8, <2>9 DEF Good, r
<1> QED
  BY <1>0, <1>1, <1>2, <1>3

(* scheduler_make_blocked of a started, living thread. *)
LEMMA MakeBlocked ==
  ASSUME NEW out, NEW s, Good(s, out), NEW t \in Threads, t \notin out,
         s.state[t] \notin {"created", "dead"}
  PROVE  LET r == scheduler_make_blocked(s, t)
         IN  /\ Good(r, out)
             /\ r.panic = s.panic
             /\ r.state = [s.state EXCEPT ![t] = "blocked"]
             /\ KeepsOrder(s, r)
<1> DEFINE r == scheduler_make_blocked(s, t)
<1>0. s.state[t] \in {"running", "runnable", "blocked"}
  BY DEF Good, SchedulerType, ThreadStates
<1>1. CASE s.state[t] = "blocked"
  <2>1. r = s
    BY <1>1 DEF scheduler_make_blocked
  <2>2. KeepsOrder(s, r)
    BY <2>1, OrderKept
  <2> QED BY <1>1, <2>1, <2>2 DEF Good, SchedulerType
<1>2. CASE s.state[t] \in {"running", "runnable"}
  <2> DEFINE d == DL_DELETE(s.runnable, t)
  <2>1. InList(s.runnable, t) /\ ~InList(s.blocked, t)
    BY <1>2 DEF Good, Consistent
  <2>2. /\ d \in Seq(Threads) /\ IsInjective(d)
        /\ \A u \in Threads : InList(d, u) <=> InList(s.runnable, u) /\ u # t
    BY <2>1, DeleteType, DeleteRange DEF Good, SchedulerType, Consistent
  <2>3. ~IsHead(s.blocked, t)
    BY <2>1, IsHeadInList DEF Good, SchedulerType
  <2> HIDE DEF d
  <2>4. SetState(scheduler_remove_thread(s, t), t, "blocked")
          = [s EXCEPT !.runnable = d, !.state = [s.state EXCEPT ![t] = "blocked"]]
    BY <1>2, <2>1 DEF scheduler_remove_thread, scheduler_remove_runnable_thread,
                      SetState, d, Good, SchedulerType
  <2>5. r = [s EXCEPT !.runnable = d,
                      !.blocked = Append(s.blocked, t),
                      !.state = [s.state EXCEPT ![t] = "blocked"]]
    BY <1>2, <2>3, <2>4, Zenon DEF scheduler_make_blocked, scheduler_add_blocked_thread,
                            Good, SchedulerType
  <2>6. /\ r.state = [s.state EXCEPT ![t] = "blocked"]
        /\ r.blocked = Append(s.blocked, t)
        /\ r.runnable = d /\ r.panic = s.panic
    BY <2>5 DEF Good, SchedulerType
  <2>7. r \in SchedulerType
    <3>1. Append(s.blocked, t) \in Seq(Threads)
      BY <2>2, AppendRange DEF Good, SchedulerType
    <3>2. /\ [s.state EXCEPT ![t] = "blocked"] \in [Threads -> ThreadStates]
          /\ [s.slice EXCEPT ![t] = TIME_SLICE] \in [Threads -> Words]
      BY FieldTypes, States DEF Good
    <3> QED BY <2>2, <2>5, <3>1, <3>2, Zenon DEF Good, SchedulerType
  <2> HIDE DEF r
  <2>8. Consistent(r, out)
    <3>1. /\ IsInjective(r.runnable) /\ IsInjective(r.blocked)
          /\ \A u \in Threads : /\ InList(r.runnable, u) <=> InList(s.runnable, u) /\ u # t
                                /\ InList(r.blocked, u) <=> InList(s.blocked, u) \/ u = t
      BY <2>1, <2>2, <2>6, AppendRange DEF Good, SchedulerType, Consistent
    <3>2. \A u \in Threads : r.state[u] = IF u = t THEN "blocked" ELSE s.state[u]
      BY <2>6 DEF Good, SchedulerType
    <3> QED BY <1>2, <2>1, <3>1, <3>2 DEF Good, Consistent
  <2>9. KeepsOrder(s, r)
    <3>1. r.state[t] = "blocked"
      BY <2>6 DEF Good, SchedulerType
    <3> QED BY <2>1, <2>6, <3>1, OrderKept DEF d
  <2> QED BY <2>6, <2>7, <2>8, <2>9 DEF Good, r
<1> QED
  BY <1>0, <1>1, <1>2

(* Charging the elapsed ticks touches only the slice. *)
LEMMA ChargeGood ==
  ASSUME NEW out, NEW s, Good(s, out), NEW cur \in Threads, NEW now \in Words
  PROVE  LET c == Charge(s, cur, now)
         IN  /\ Good(c, out)
             /\ c.runnable = s.runnable /\ c.state = s.state /\ c.panic = s.panic
<1> DEFINE c == Charge(s, cur, now)
           w == (s.slice[cur] - (now - s.last)) % WORD
<1>1. w \in Words
  <2>1. s.slice[cur] \in Int /\ now \in Int /\ s.last \in Int
    BY DEF Good, SchedulerType, Words
  <2> QED BY <2>1, WordAssumption DEF Words
<1> HIDE DEF w
<1>2. c = [s EXCEPT !.last = now, !.slice = [s.slice EXCEPT ![cur] = w]]
  BY DEF Charge, w
<1>3. [s.slice EXCEPT ![cur] = w] \in [Threads -> Words]
  BY <1>1 DEF Good, SchedulerType
<1>4. c \in SchedulerType
  BY <1>2, <1>3, Zenon DEF Good, SchedulerType
<1>5. /\ c.runnable = s.runnable /\ c.blocked = s.blocked
      /\ c.state = s.state /\ c.panic = s.panic
  BY <1>2 DEF Good, SchedulerType
<1> HIDE DEF c
<1>6. Consistent(c, out)
  BY <1>5 DEF Good, Consistent
<1> QED
  BY <1>4, <1>5, <1>6 DEF Good, c

(* Taking the CPU from the current thread leaves the lists alone. *)
LEMMA PreemptGood ==
  ASSUME NEW out, NEW s, Good(s, out), NEW cur \in Threads
  PROVE  LET q == Preempt(s, cur)
         IN  /\ Good(q, out)
             /\ q.runnable = s.runnable /\ q.panic = s.panic
             /\ q.state = [s.state EXCEPT ![cur] =
                             IF s.state[cur] = "running" THEN "runnable" ELSE s.state[cur]]
<1> DEFINE q == Preempt(s, cur)
<1>1. CASE s.state[cur] # "running"
  BY <1>1 DEF Preempt, Good, SchedulerType
<1>2. CASE s.state[cur] = "running"
  <2>1. q = [s EXCEPT !.state = [s.state EXCEPT ![cur] = "runnable"]]
    BY <1>2 DEF Preempt, SetState, Good, SchedulerType
  <2>2. [s.state EXCEPT ![cur] = "runnable"] \in [Threads -> ThreadStates]
    BY FieldTypes, States DEF Good
  <2>3. q \in SchedulerType
    BY <2>1, <2>2 DEF Good, SchedulerType
  <2>4. /\ q.runnable = s.runnable /\ q.blocked = s.blocked /\ q.panic = s.panic
        /\ q.state = [s.state EXCEPT ![cur] = "runnable"]
    BY <2>1 DEF Good, SchedulerType
  <2> HIDE DEF q
  <2>5. \A u \in Threads : q.state[u] = IF u = cur THEN "runnable" ELSE s.state[u]
    BY <2>4 DEF Good, SchedulerType
  <2>6. Consistent(q, out)
    BY <1>2, <2>4, <2>5 DEF Good, Consistent
  <2> QED BY <1>2, <2>3, <2>4, <2>6 DEF Good, q
<1> QED
  BY <1>1, <1>2

(* Rotating a non-empty runnable list. *)
LEMMA PickGood ==
  ASSUME NEW out, NEW s, Good(s, out), s.runnable # <<>>
  PROVE  LET r == Pick(s)
             t == Head(s.runnable)
         IN  /\ Good(r, out)
             /\ r.panic = s.panic
             /\ r.state = [s.state EXCEPT ![t] = "running"]
             /\ r.runnable = Append(DL_DELETE(s.runnable, t), t)
<1> DEFINE r == Pick(s)
           t == Head(s.runnable)
           d == DL_DELETE(s.runnable, t)
<1>1. t \in Threads /\ InList(s.runnable, t)
  BY HeadInList DEF Good, SchedulerType
<1> HIDE DEF t
<1>2. /\ d \in Seq(Threads) /\ IsInjective(d)
      /\ \A u \in Threads : InList(d, u) <=> InList(s.runnable, u) /\ u # t
  BY <1>1, DeleteType, DeleteRange DEF Good, SchedulerType, Consistent
<1>3. ~IsHead(d, t)
  BY <1>1, <1>2, IsHeadInList
<1> HIDE DEF d
<1>4. scheduler_remove_runnable_thread(s, t) = [s EXCEPT !.runnable = d]
  BY <1>1 DEF scheduler_remove_runnable_thread, d, Good, SchedulerType
<1>5. scheduler_add_runnable_thread([s EXCEPT !.runnable = d], t)
        = [s EXCEPT !.runnable = Append(d, t), !.slice = [s.slice EXCEPT ![t] = TIME_SLICE]]
  BY <1>3, Zenon DEF scheduler_add_runnable_thread, Good, SchedulerType
<1>6. r = SetState(scheduler_add_runnable_thread(
                     scheduler_remove_runnable_thread(s, t), t), t, "running")
  BY DEF Pick, t
<1>7. r = [s EXCEPT !.runnable = Append(d, t),
                    !.slice = [s.slice EXCEPT ![t] = TIME_SLICE],
                    !.state = [s.state EXCEPT ![t] = "running"]]
  BY <1>4, <1>5, <1>6, Zenon DEF SetState, Good, SchedulerType
<1>8. /\ [s.state EXCEPT ![t] = "running"] \in [Threads -> ThreadStates]
      /\ [s.slice EXCEPT ![t] = TIME_SLICE] \in [Threads -> Words]
  BY <1>1, FieldTypes, States DEF Good
<1>9. Append(d, t) \in Seq(Threads)
  BY <1>1, <1>2, AppendRange
<1>10. r \in SchedulerType
  BY <1>7, <1>8, <1>9, Zenon DEF Good, SchedulerType
<1>11. /\ r.state = [s.state EXCEPT ![t] = "running"]
       /\ r.runnable = Append(d, t)
       /\ r.blocked = s.blocked /\ r.panic = s.panic
  BY <1>7 DEF Good, SchedulerType
<1> HIDE DEF r
<1>12. Consistent(r, out)
  <2>1. /\ IsInjective(r.runnable) /\ IsInjective(r.blocked)
        /\ \A u \in Threads : InList(r.runnable, u) <=> InList(s.runnable, u)
    BY <1>1, <1>2, <1>11, AppendRange DEF Good, Consistent
  <2>2. \A u \in Threads : r.state[u] = IF u = t THEN "running" ELSE s.state[u]
    BY <1>1, <1>11 DEF Good, SchedulerType
  <2> QED BY <1>1, <1>11, <2>1, <2>2 DEF Good, Consistent
<1> QED
  BY <1>10, <1>11, <1>12 DEF Good, r, t, d

(* scheduler_next_thread with something to run: the thread it returns is   *)
(* the only running one, and no other state changes but the current        *)
(* thread's, from running to runnable.                                     *)
LEMMA NextThreadGood ==
  ASSUME NEW out, NEW s, Good(s, out), NEW cur \in Threads, NEW now \in Words,
         s.runnable # <<>>,
         \A t \in Threads : s.state[t] = "running" => t = cur
  PROVE  LET r == NextSched(s, cur, now)
             n == NextThread(s, cur, now)
         IN  /\ Good(r, out)
             /\ r.panic = s.panic
             /\ n \in Threads
             /\ (n = cur /\ s.state[cur] = "running") \/ InList(s.runnable, n)
             /\ \A t \in Threads :
                  r.state[t] = IF t = n THEN "running"
                               ELSE IF t = cur /\ s.state[cur] = "running" THEN "runnable"
                               ELSE s.state[t]
             /\ KeepsOrder(s, r)
<1> DEFINE r == NextSched(s, cur, now)
           n == NextThread(s, cur, now)
           c == Charge(s, cur, now)
           q == Preempt(c, cur)
<1>1. /\ Good(c, out)
      /\ c.runnable = s.runnable /\ c.state = s.state /\ c.panic = s.panic
  BY ChargeGood
<1> HIDE DEF c
<1>2. CASE KeepsCpu(c, cur)
  <2>1. r = c /\ n = cur
    BY <1>2 DEF NextSched, NextThread, c
  <2>2. s.state[cur] = "running"
    BY <1>1, <1>2 DEF KeepsCpu
  <2>3. KeepsOrder(s, r)
    BY <1>1, <2>1, OrderKept, Zenon
  <2> QED BY <1>1, <2>1, <2>2, <2>3
<1>3. CASE ~KeepsCpu(c, cur)
  <2>1. r = Pick(q) /\ n = Head(s.runnable)
    BY <1>3 DEF NextSched, NextThread, c
  <2>2. n \in Threads /\ InList(s.runnable, n)
    BY <2>1, HeadInList DEF Good, SchedulerType
  <2>3. /\ Good(q, out)
        /\ q.runnable = s.runnable /\ q.panic = s.panic
        /\ q.state = [s.state EXCEPT ![cur] =
                        IF s.state[cur] = "running" THEN "runnable" ELSE s.state[cur]]
    BY <1>1, PreemptGood
  <2> HIDE DEF q
  <2>4. /\ Good(r, out)
        /\ r.panic = s.panic
        /\ r.state = [q.state EXCEPT ![n] = "running"]
        /\ r.runnable = Append(DL_DELETE(s.runnable, n), n)
    <3>1. /\ Good(Pick(q), out)
          /\ Pick(q).panic = q.panic
          /\ Pick(q).state = [q.state EXCEPT ![Head(q.runnable)] = "running"]
          /\ Pick(q).runnable = Append(DL_DELETE(q.runnable, Head(q.runnable)), Head(q.runnable))
      BY SMTT(30), <2>3, PickGood
    <3> HIDE DEF r, n
    <3> QED BY <2>1, <2>3, <3>1
  <2> HIDE DEF r, n
  <2>5. \A t \in Threads :
          r.state[t] = IF t = n THEN "running"
                       ELSE IF t = cur /\ s.state[cur] = "running" THEN "runnable"
                       ELSE s.state[t]
    BY <2>2, <2>3, <2>4 DEF Good, SchedulerType
  <2>6. KeepsOrder(s, r)
    <3>1. r.state[n] # "runnable"
      BY <2>2, <2>5
    <3> QED BY <2>2, <2>4, <3>1, OrderKept, Zenon
  <2> QED BY <2>2, <2>4, <2>5, <2>6 DEF r, n
<1> QED
  BY <1>2, <1>3

(* scheduler_yield with something to run, from a scheduler record s that   *)
(* the caller may have changed first.                                      *)
LEMMA YieldStates ==
  ASSUME NEW out, CpuTypeOK, NEW s, Good(s, out), scheduler_yield(s),
         s.runnable # <<>>,
         \A t \in Threads : s.state[t] = "running" => t = current
  PROVE  /\ Good(sched', out)
         /\ sched'.panic = s.panic
         /\ current' \in Threads
         /\ (current' = current /\ s.state[current] = "running") \/ InList(s.runnable, current')
         /\ \A t \in Threads :
              sched'.state[t] = IF t = current' THEN "running"
                                ELSE IF t = current /\ s.state[current] = "running" THEN "runnable"
                                ELSE s.state[t]
         /\ RunningIsCurrent'
         /\ KeepsOrder(s, sched')
<1>1. current \in Threads /\ ticks \in Words
  BY DEF CpuTypeOK
<1>2. sched' = NextSched(s, current, ticks) /\ current' = NextThread(s, current, ticks)
  BY DEF scheduler_yield
<1>3. /\ Good(sched', out)
      /\ sched'.panic = s.panic
      /\ current' \in Threads
      /\ (current' = current /\ s.state[current] = "running") \/ InList(s.runnable, current')
      /\ \A t \in Threads :
           sched'.state[t] = IF t = current' THEN "running"
                             ELSE IF t = current /\ s.state[current] = "running" THEN "runnable"
                             ELSE s.state[t]
      /\ KeepsOrder(s, sched')
  BY <1>1, <1>2, NextThreadGood
<1> QED
  BY <1>3 DEF RunningIsCurrent

(* A thread's own steps leave the interrupt frames alone; if it gives up   *)
(* the CPU it has none.                                                    *)
LEMMA ThreadKeepsFrames ==
  ASSUME CpuTypeOK, HandlersFinishBeforeSwitch,
         frames[current] = <<>>, current' \in Threads,
         UNCHANGED <<nesting, frames>>
  PROVE  HandlersFinishBeforeSwitch'
<1>1. nesting = 0
  BY DEF HandlersFinishBeforeSwitch, Depth
<1>2. \A t \in Threads : frames[t] \in Seq(FrameType)
  BY DEF CpuTypeOK
<1>3. \A t \in Threads : \A i \in 1 .. Len(frames[t]) : frames[t][i].at = "yield"
  BY DEF HandlersFinishBeforeSwitch
<1>4. Depth' = Len(frames[current']) /\ Depth' \in Nat
  BY <1>2 DEF Depth
<1> QED
  BY <1>1, <1>3, <1>4 DEF HandlersFinishBeforeSwitch, Depth

----------------------------------------------------------------------------
(* The interrupt frames.                                                   *)

(* Replacing the innermost frame of the current thread by one that is not  *)
(* yet in its yield keeps the frames in order.                             *)
LEMMA GotoKeepsFrames ==
  ASSUME CpuTypeOK, HandlersFinishBeforeSwitch,
         NEW st \in FrameStages, NEW w \in Words, st # "yield",
         Depth > 0, Top.at # "yield",
         Goto(st, w), UNCHANGED <<current, nesting>>
  PROVE  /\ HandlersFinishBeforeSwitch'
         /\ frames' \in [Threads -> Seq(FrameType)]
         /\ \A t \in Threads : Len(frames'[t]) = Len(frames[t])
<1> DEFINE f == frames[current]
           g == [f EXCEPT ![Depth] = [at |-> st, loaded |-> w]]
<1>1. f \in Seq(FrameType) /\ Depth = Len(f) /\ current \in Threads
      /\ frames \in [Threads -> Seq(FrameType)]
  BY DEF CpuTypeOK, Depth
<1>2. [at |-> st, loaded |-> w] \in FrameType
  BY DEF FrameType
<1>3. g \in Seq(FrameType) /\ Len(g) = Len(f)
      /\ \A i \in 1 .. Len(f) : g[i] = IF i = Len(f) THEN [at |-> st, loaded |-> w] ELSE f[i]
  BY <1>1, <1>2
<1>4. frames' = [frames EXCEPT ![current] = g]
  BY DEF Goto
<1> HIDE DEF g
<1>5. /\ frames' \in [Threads -> Seq(FrameType)] /\ frames'[current] = g
      /\ \A t \in Threads \ {current} : frames'[t] = frames[t]
      /\ Depth' = Len(f)
  BY <1>1, <1>3, <1>4 DEF Depth
<1>6. nesting \in 1 .. Len(f)
  BY <1>1 DEF HandlersFinishBeforeSwitch, Top
<1>7. HandlersFinishBeforeSwitch'
  <2>1. nesting' \in 0 .. Depth'
    BY <1>1, <1>5, <1>6
  <2>2. \A i \in 1 .. Depth' : frames'[current'][i].at = "yield" <=> i <= Depth' - nesting'
    BY <1>1, <1>3, <1>5, <1>6 DEF HandlersFinishBeforeSwitch
  <2>3. \A t \in Threads \ {current'} :
          \A i \in 1 .. Len(frames'[t]) : frames'[t][i].at = "yield"
    BY SMTT(30), <1>5 DEF HandlersFinishBeforeSwitch
  <2> QED BY <2>1, <2>2, <2>3 DEF HandlersFinishBeforeSwitch
<1> QED
  BY <1>1, <1>3, <1>5, <1>7, Zenon

(* Entering a handler. *)
LEMMA InterruptKeepsFrames ==
  ASSUME CpuTypeOK, HandlersFinishBeforeSwitch, NEW v \in Vectors,
         Interrupt(v)
  PROVE  HandlersFinishBeforeSwitch' /\ CpuTypeOK'
<1> DEFINE f == frames[current]
           e == [at |-> EntryStage(v), loaded |-> 0]
           g == Append(f, e)
<1>1. f \in Seq(FrameType) /\ Depth = Len(f) /\ current \in Threads
      /\ frames \in [Threads -> Seq(FrameType)]
  BY DEF CpuTypeOK, Depth
<1>2. e \in FrameType /\ e.at # "yield"
  BY WordAssumption DEF FrameType, FrameStages, EntryStage, Words
<1> HIDE DEF e
<1>3. g \in Seq(FrameType) /\ Len(g) = Len(f) + 1
      /\ \A i \in 1 .. Len(f) + 1 : g[i] = IF i = Len(f) + 1 THEN e ELSE f[i]
  BY <1>1, <1>2
<1>4. /\ frames' = [frames EXCEPT ![current] = g] /\ nesting' = nesting + 1
      /\ Len(f) < MaxFrames
      /\ UNCHANGED <<sched, current, ticks>>
  BY DEF Interrupt, Push, Depth, e
<1> HIDE DEF g
<1>5. /\ frames' \in [Threads -> Seq(FrameType)] /\ frames'[current] = g
      /\ \A t \in Threads \ {current} : frames'[t] = frames[t]
      /\ Depth' = Len(f) + 1
  BY <1>1, <1>3, <1>4 DEF Depth
<1>6. nesting \in 0 .. Len(f)
  BY <1>1 DEF HandlersFinishBeforeSwitch
<1>7. HandlersFinishBeforeSwitch'
  <2>1. nesting' \in 0 .. Depth'
    BY <1>1, <1>4, <1>5, <1>6
  <2>2. \A i \in 1 .. Depth' : frames'[current'][i].at = "yield" <=> i <= Depth' - nesting'
    <3>1. \A i \in 1 .. Len(f) : f[i].at = "yield" <=> i <= Len(f) - nesting
      BY <1>1 DEF HandlersFinishBeforeSwitch
    <3>2. \A i \in 1 .. Len(f) + 1 : g[i].at = "yield" <=> i <= Len(f) - nesting
      BY <1>1, <1>2, <1>3, <1>6, <3>1
    <3> QED BY <1>1, <1>4, <1>5, <1>6, <3>2
  <2>3. \A t \in Threads \ {current'} :
          \A i \in 1 .. Len(frames'[t]) : frames'[t][i].at = "yield"
    BY <1>4, <1>5 DEF HandlersFinishBeforeSwitch
  <2> QED BY <2>1, <2>2, <2>3 DEF HandlersFinishBeforeSwitch
<1>8. \A t \in Threads : Len(frames'[t]) <= MaxFrames
  BY <1>1, <1>3, <1>4, <1>5, MaxFramesAssumption DEF CpuTypeOK
<1>9. nesting' \in 0 .. MaxFrames
  BY <1>1, <1>4, <1>6, MaxFramesAssumption
<1> QED
  BY <1>4, <1>5, <1>7, <1>8, <1>9 DEF CpuTypeOK

(* Dropping the innermost frame of the current thread. *)
LEMMA PopFrames ==
  ASSUME CpuTypeOK, Depth > 0, Pop
  PROVE  /\ frames' \in [Threads -> Seq(FrameType)]
         /\ Len(frames'[current]) = Depth - 1
         /\ \A i \in 1 .. Depth - 1 : frames'[current][i] = frames[current][i]
         /\ \A t \in Threads \ {current} : frames'[t] = frames[t]
         /\ \A t \in Threads : Len(frames'[t]) <= MaxFrames
<1> DEFINE f == frames[current]
           g == SubSeq(f, 1, Len(f) - 1)
<1>1. f \in Seq(FrameType) /\ Depth = Len(f) /\ current \in Threads
      /\ frames \in [Threads -> Seq(FrameType)]
  BY DEF CpuTypeOK, Depth
<1>2. g \in Seq(FrameType) /\ Len(g) = Len(f) - 1
      /\ \A i \in 1 .. Len(f) - 1 : g[i] = f[i]
  BY <1>1
<1>3. frames' = [frames EXCEPT ![current] = g]
  BY <1>1 DEF Pop
<1> HIDE DEF g
<1>4. /\ frames' \in [Threads -> Seq(FrameType)] /\ frames'[current] = g
      /\ \A t \in Threads \ {current} : frames'[t] = frames[t]
  BY <1>1, <1>2, <1>3
<1>5. \A t \in Threads : Len(frames'[t]) <= MaxFrames
  <2>1. Len(f) <= MaxFrames /\ Len(f) \in Nat /\ MaxFrames \in Nat
    BY <1>1, MaxFramesAssumption DEF CpuTypeOK
  <2>2. Len(frames'[current]) <= MaxFrames
    BY <1>2, <1>4, <2>1
  <2> QED BY <1>4, <2>2, Zenon DEF CpuTypeOK
<1> QED
  BY <1>1, <1>2, <1>4, <1>5

(* Leaving a handler: the outermost one goes on to its yield. *)
LEMMA LeaveKeepsFrames ==
  ASSUME CpuTypeOK, HandlersFinishBeforeSwitch, HandlerLeave
  PROVE  HandlersFinishBeforeSwitch' /\ CpuTypeOK'
<1> DEFINE f == frames[current]
<1>1. f \in Seq(FrameType) /\ Depth = Len(f) /\ Depth \in Nat /\ current \in Threads
      /\ frames \in [Threads -> Seq(FrameType)]
  BY DEF CpuTypeOK, Depth
<1>2. /\ Depth > 0 /\ Top.at = "leave" /\ nesting' = nesting - 1
      /\ UNCHANGED <<sched, current, ticks>>
  BY DEF HandlerLeave, InHandler
<1>3. nesting \in 1 .. Depth
  <2>1. nesting \in 0 .. Depth /\ (frames[current][Depth].at = "yield" <=> Depth <= Depth - nesting)
    BY <1>1, <1>2 DEF HandlersFinishBeforeSwitch
  <2>2. frames[current][Depth].at # "yield"
    BY <1>2 DEF Top
  <2> QED BY <1>1, <2>1, <2>2
<1>4. Depth <= MaxFrames /\ nesting' \in 0 .. MaxFrames
  BY <1>1, <1>2, <1>3, MaxFramesAssumption DEF CpuTypeOK
<1>5. CASE nesting' = 0
  <2> DEFINE e == [at |-> "yield", loaded |-> 0]
             g == [f EXCEPT ![Depth] = e]
  <2>1. e \in FrameType /\ e.at = "yield"
    BY WordAssumption DEF FrameType, FrameStages, Words
  <2> HIDE DEF e
  <2>2. g \in Seq(FrameType) /\ Len(g) = Len(f)
        /\ \A i \in 1 .. Len(f) : g[i] = IF i = Len(f) THEN e ELSE f[i]
    BY <1>1, <1>2, <2>1
  <2>3. frames' = [frames EXCEPT ![current] = g]
    BY <1>5, Zenon DEF HandlerLeave, Goto, e
  <2> HIDE DEF g
  <2>4. /\ frames' \in [Threads -> Seq(FrameType)] /\ frames'[current] = g
        /\ \A t \in Threads \ {current} : frames'[t] = frames[t]
        /\ Depth' = Len(f)
    BY <1>1, <1>2, <2>2, <2>3 DEF Depth
  <2>5. nesting = 1
    BY <1>2, <1>3, <1>5
  <2>6. \A i \in 1 .. Depth' : frames'[current'][i].at = "yield"
    <3>1. \A i \in 1 .. Len(f) : i <= Len(f) - 1 => f[i].at = "yield"
      BY <1>1, <2>5 DEF HandlersFinishBeforeSwitch
    <3>2. \A i \in 1 .. Len(f) : g[i].at = "yield"
      BY <1>1, <2>1, <2>2, <3>1
    <3> QED BY <1>2, <2>4, <3>2
  <2>7. \A t \in Threads \ {current'} :
          \A i \in 1 .. Len(frames'[t]) : frames'[t][i].at = "yield"
    BY <1>2, <2>4 DEF HandlersFinishBeforeSwitch
  <2>8. HandlersFinishBeforeSwitch'
    BY <1>1, <1>5, <2>4, <2>6, <2>7 DEF HandlersFinishBeforeSwitch
  <2>9. \A t \in Threads : Len(frames'[t]) <= MaxFrames
    BY <1>1, <2>2, <2>4 DEF CpuTypeOK
  <2> QED BY <1>2, <1>4, <2>4, <2>8, <2>9 DEF CpuTypeOK
<1>6. CASE nesting' # 0
  <2>1. Pop
    BY <1>6 DEF HandlerLeave
  <2>2. /\ frames' \in [Threads -> Seq(FrameType)]
        /\ Len(frames'[current]) = Depth - 1
        /\ \A i \in 1 .. Depth - 1 : frames'[current][i] = frames[current][i]
        /\ \A t \in Threads \ {current} : frames'[t] = frames[t]
        /\ \A t \in Threads : Len(frames'[t]) <= MaxFrames
    BY <1>2, <2>1, PopFrames
  <2>3. Depth' = Depth - 1
    BY <1>2, <2>2 DEF Depth
  <2>4. nesting' \in 0 .. Depth'
    BY <1>1, <1>2, <1>3, <2>3
  <2>5. \A i \in 1 .. Depth' : frames'[current'][i].at = "yield" <=> i <= Depth' - nesting'
    BY <1>1, <1>2, <1>3, <2>2, <2>3 DEF HandlersFinishBeforeSwitch
  <2>6. \A t \in Threads \ {current'} :
          \A i \in 1 .. Len(frames'[t]) : frames'[t][i].at = "yield"
    BY <1>2, <2>2 DEF HandlersFinishBeforeSwitch
  <2>7. HandlersFinishBeforeSwitch'
    BY <2>4, <2>5, <2>6 DEF HandlersFinishBeforeSwitch
  <2> QED BY <1>2, <1>4, <2>2, <2>7 DEF CpuTypeOK
<1> QED
  BY <1>5, <1>6

(* The yield of the outermost handler, which may switch threads. *)
LEMMA YieldKeepsFrames ==
  ASSUME CpuTypeOK, HandlersFinishBeforeSwitch, HandlerYield,
         sched' \in SchedulerType, current' \in Threads
  PROVE  HandlersFinishBeforeSwitch' /\ CpuTypeOK'
<1>1. frames[current] \in Seq(FrameType) /\ Depth = Len(frames[current])
      /\ Depth \in Nat /\ current \in Threads
  BY DEF CpuTypeOK, Depth
<1>2. Depth > 0 /\ Top.at = "yield" /\ Pop /\ UNCHANGED <<ticks, nesting>>
  BY DEF HandlerYield, InHandler
<1>3. nesting = 0
  BY <1>1, <1>2 DEF HandlersFinishBeforeSwitch, Top
<1>4. /\ frames' \in [Threads -> Seq(FrameType)]
      /\ Len(frames'[current]) = Depth - 1
      /\ \A i \in 1 .. Depth - 1 : frames'[current][i] = frames[current][i]
      /\ \A t \in Threads \ {current} : frames'[t] = frames[t]
      /\ \A t \in Threads : Len(frames'[t]) <= MaxFrames
  BY <1>2, PopFrames
<1>5. \A i \in 1 .. Depth : frames[current][i].at = "yield"
  BY <1>1, <1>3 DEF HandlersFinishBeforeSwitch
<1>6. \A t \in Threads : \A i \in 1 .. Len(frames'[t]) : frames'[t][i].at = "yield"
  <2> TAKE t \in Threads
  <2>1. CASE t = current
    BY SMTT(30), <1>1, <1>4, <1>5, <2>1
  <2>2. CASE t # current
    BY <1>4, <2>2 DEF HandlersFinishBeforeSwitch
  <2> QED BY <2>1, <2>2
<1>7. Depth' = Len(frames'[current']) /\ Depth' \in Nat
  BY <1>4 DEF Depth
<1>8. HandlersFinishBeforeSwitch'
  BY <1>2, <1>3, <1>6, <1>7 DEF HandlersFinishBeforeSwitch
<1> QED
  BY <1>2, <1>3, <1>4, <1>8 DEF CpuTypeOK

----------------------------------------------------------------------------
(* Handlers as a whole.                                                    *)

(* The part of every module's inductive invariant that handlers can        *)
(* disturb.                                                                *)
CpuInv(out) ==
  /\ CpuTypeOK
  /\ Consistent(sched, out)
  /\ RunningIsCurrent
  /\ HandlersFinishBeforeSwitch

(* A thread's own step, outside any handler, keeps it when the scheduler   *)
(* record it leaves is consistent.                                         *)
LEMMA ThreadGood ==
  ASSUME NEW out, CpuInv(out), frames[current] = <<>>,
         UNCHANGED <<ticks, nesting, frames>>,
         Good(sched', out), current' \in Threads, RunningIsCurrent'
  PROVE  CpuInv(out)'
<1>1. HandlersFinishBeforeSwitch'
  BY ThreadKeepsFrames DEF CpuInv
<1>2. CpuTypeOK'
  BY DEF CpuInv, CpuTypeOK, Good
<1> QED
  BY <1>1, <1>2 DEF CpuInv, Good

(* A step of a handler that only moves on to its next stage keeps it when  *)
(* the scheduler record it leaves is consistent.                           *)
LEMMA GotoGood ==
  ASSUME NEW out, CpuInv(out),
         NEW st \in FrameStages \ {"yield"}, NEW w \in Words,
         Depth > 0, Top.at # "yield", Goto(st, w),
         UNCHANGED <<current, nesting>>, ticks' \in Words,
         Good(sched', out), RunningIsCurrent'
  PROVE  CpuInv(out)'
<1>1. CpuTypeOK /\ HandlersFinishBeforeSwitch
  BY DEF CpuInv
<1>2. /\ HandlersFinishBeforeSwitch'
      /\ frames' \in [Threads -> Seq(FrameType)]
      /\ \A t \in Threads : Len(frames'[t]) = Len(frames[t])
  BY <1>1, GotoKeepsFrames
<1>3. CpuTypeOK'
  BY SMTT(30), <1>1, <1>2 DEF CpuTypeOK, Good
<1> QED BY <1>2, <1>3 DEF CpuInv, Good

(* What the states may do while a handler runs: the thread that it defers  *)
(* to, already started, may become runnable.                               *)
WakesOnly ==
  \A t \in Threads : \/ sched'.state[t] = sched.state[t]
                     \/ /\ sched'.state[t] = "runnable"
                        /\ \E v \in Vectors : t = Deferred[v]
                        /\ sched.state[t] \notin {"created", "dead"}

(* Every step of a handler but its yield leaves the CPU where it is, wakes *)
(* at most the thread it defers to, and does not panic.                    *)
LEMMA HandlerGood ==
  ASSUME NEW out, CpuInv(out), \A v \in Vectors : Deferred[v] \notin out,
         HandlerStep, ~HandlerYield
  PROVE  /\ CpuInv(out)' /\ current' = current /\ sched'.panic = sched.panic
         /\ WakesOnly /\ KeepsOrder(sched, sched')
<1>1. Good(sched, out) /\ CpuTypeOK /\ RunningIsCurrent /\ HandlersFinishBeforeSwitch
  BY DEF CpuInv, CpuTypeOK, Good
<1>2. /\ current \in Threads /\ ticks \in Words /\ 0 \in Words
      /\ sched.state \in [Threads -> ThreadStates]
  BY <1>1, WordAssumption DEF CpuTypeOK, SchedulerType, Words
<1>4. ASSUME NEW st \in FrameStages \ {"yield"}, NEW w \in Words,
             Depth > 0, Top.at # "yield", Goto(st, w),
             UNCHANGED <<current, nesting>>, ticks' \in Words,
             Good(sched', out), RunningIsCurrent'
      PROVE  CpuInv(out)'
  BY <1>4, GotoGood
<1> DEFINE Stages == FrameStages \ {"yield"}
<1>a. "store" \in Stages /\ "timers" \in Stages /\ "leave" \in Stages
  BY DEF FrameStages
<1>b. ASSUME UNCHANGED <<sched, current>>
      PROVE  Good(sched', out) /\ RunningIsCurrent' /\ WakesOnly
           /\ KeepsOrder(sched, sched')
  <2>1. KeepsOrder(sched, sched')
    BY <1>1, <1>2, <1>b, OrderKept
  <2> QED BY SMTT(30), <1>1, <1>b, <2>1 DEF RunningIsCurrent, WakesOnly
<1>5. CASE TickLoad
  <2>1. /\ Depth > 0 /\ Top.at # "yield" /\ Goto("store", ticks)
        /\ UNCHANGED <<sched, current, nesting>> /\ ticks' \in Words
    BY <1>2, <1>5 DEF TickLoad, InHandler
  <2>2. Good(sched', out) /\ RunningIsCurrent' /\ WakesOnly
           /\ KeepsOrder(sched, sched')
    BY SMTT(30), <1>b, <2>1
  <2> QED BY <1>2, <1>4, <1>a, <2>1, <2>2
<1>6. CASE TickStore
  <2>1. /\ Depth > 0 /\ Top.at = "store" /\ Goto("timers", 0)
        /\ ticks' = (Top.loaded + 1) % WORD
        /\ UNCHANGED <<sched, current, nesting>>
    BY <1>6 DEF TickStore, InHandler
  <2>2. Top \in FrameType
    BY <1>1, <2>1 DEF CpuTypeOK, Top, Depth
  <2>3. Top.loaded \in Nat
    BY <2>2 DEF FrameType, Words
  <2>4. ticks' \in Words
    BY <2>1, <2>3, WordAssumption DEF Words
  <2>5. Good(sched', out) /\ RunningIsCurrent' /\ WakesOnly
           /\ KeepsOrder(sched, sched')
    BY <1>b, <2>1
  <2>6. Top.at # "yield"
    BY <2>1
  <2> QED BY <1>2, <1>4, <1>a, <2>1, <2>4, <2>5, <2>6
<1>7. ASSUME NEW v \in Vectors, HandlerDefer(v)
      PROVE  /\ CpuInv(out)' /\ current' = current /\ sched'.panic = sched.panic
             /\ WakesOnly /\ KeepsOrder(sched, sched')
  <2> DEFINE u == Deferred[v]
  <2>1. /\ Depth > 0 /\ Top.at # "yield" /\ Goto("leave", 0)
        /\ sched.state[u] \notin {"created", "dead"}
        /\ sched' = scheduler_make_runnable(sched, u)
        /\ UNCHANGED <<current, ticks, nesting>>
    BY <1>7 DEF HandlerDefer, Defers, InHandler
  <2>2. u \in Threads /\ u \notin out
    BY DeferredAssumption
  <2>3. Good(sched', out) /\ sched'.panic = sched.panic
        /\ sched'.state = [sched.state EXCEPT ![u] = "runnable"]
        /\ KeepsOrder(sched, sched')
    <3> HIDE DEF u
    <3> QED BY <1>1, <2>1, <2>2, MakeRunnable
  <2>4. \A w \in Threads : sched'.state[w] = IF w = u THEN "runnable" ELSE sched.state[w]
    BY <1>2, <2>3
  <2>5. RunningIsCurrent'
    BY <1>1, <2>1, <2>4 DEF RunningIsCurrent
  <2>6. WakesOnly
    BY <2>1, <2>2, <2>4 DEF WakesOnly
  <2> QED BY <1>2, <1>4, <1>a, <2>1, <2>3, <2>5, <2>6
<1>8. ASSUME NEW v \in Vectors, HandlerDone(v)
      PROVE  /\ CpuInv(out)' /\ current' = current /\ sched'.panic = sched.panic
             /\ WakesOnly /\ KeepsOrder(sched, sched')
  <2>1. /\ Depth > 0 /\ Top.at # "yield" /\ Goto("leave", 0)
        /\ UNCHANGED <<sched, current, ticks, nesting>>
    BY <1>8 DEF HandlerDone, Defers, InHandler
  <2>2. Good(sched', out) /\ RunningIsCurrent' /\ WakesOnly
           /\ KeepsOrder(sched, sched')
    BY <1>b, <2>1
  <2> QED BY <1>2, <1>4, <1>a, <2>1, <2>2
<1>9. CASE HandlerLeave
  <2>1. HandlersFinishBeforeSwitch' /\ CpuTypeOK'
    BY <1>1, <1>9, LeaveKeepsFrames
  <2>2. UNCHANGED <<sched, current>>
    BY <1>9 DEF HandlerLeave
  <2>3. Good(sched', out) /\ RunningIsCurrent' /\ WakesOnly
           /\ KeepsOrder(sched, sched')
    BY <1>b, <2>2
  <2> QED BY <2>1, <2>2, <2>3 DEF CpuInv, Good
<1> QED
  BY <1>5, <1>6, <1>7, <1>8, <1>9 DEF HandlerStep, TickLoad, TickStore

(* The yield of the outermost handler. *)
LEMMA HandlerYieldGood ==
  ASSUME NEW out, CpuInv(out), sched.runnable # <<>>, HandlerYield
  PROVE  /\ CpuInv(out)' /\ sched'.panic = sched.panic
         /\ (current' = current /\ sched.state[current] = "running")
              \/ InList(sched.runnable, current')
         /\ \A t \in Threads :
              sched'.state[t] = IF t = current' THEN "running"
                                ELSE IF t = current /\ sched.state[current] = "running" THEN "runnable"
                                ELSE sched.state[t]
         /\ KeepsOrder(sched, sched')
<1>1. Good(sched, out) /\ CpuTypeOK /\ HandlersFinishBeforeSwitch
      /\ \A t \in Threads : sched.state[t] = "running" => t = current
  BY DEF CpuInv, CpuTypeOK, Good, RunningIsCurrent
<1>2. scheduler_yield(sched)
  BY DEF HandlerYield
<1>3. /\ Good(sched', out) /\ sched'.panic = sched.panic /\ current' \in Threads
      /\ (current' = current /\ sched.state[current] = "running")
           \/ InList(sched.runnable, current')
      /\ \A t \in Threads :
           sched'.state[t] = IF t = current' THEN "running"
                             ELSE IF t = current /\ sched.state[current] = "running" THEN "runnable"
                             ELSE sched.state[t]
      /\ RunningIsCurrent' /\ KeepsOrder(sched, sched')
  BY <1>1, <1>2, YieldStates
<1>4. HandlersFinishBeforeSwitch' /\ CpuTypeOK'
  BY <1>1, <1>3, YieldKeepsFrames DEF Good
<1> QED
  BY <1>3, <1>4 DEF CpuInv, Good

(* The entry of a handler. *)
LEMMA InterruptGood ==
  ASSUME NEW out, CpuInv(out), NEW v \in Vectors, Interrupt(v)
  PROVE  CpuInv(out)' /\ UNCHANGED <<sched, current>>
<1>1. HandlersFinishBeforeSwitch' /\ CpuTypeOK'
  BY InterruptKeepsFrames DEF CpuInv
<1>2. UNCHANGED <<sched, current>>
  BY DEF Interrupt
<1> QED
  BY <1>1, <1>2 DEF CpuInv, RunningIsCurrent, Consistent, InList

=============================================================================
