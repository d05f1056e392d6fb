---------------------------- MODULE MutexProofs ----------------------------
(***************************************************************************)
(* Proofs about Mutex, for every number of threads and mutexes and every   *)
(* depth of nesting.                                                       *)
(*                                                                         *)
(* The first part rests on the words of the mutex alone: whatever the      *)
(* scheduler does between two steps, owner is changed by a                 *)
(* compare-and-swap that finds it free, or by the owner; so it needs       *)
(* nothing about which thread runs.  The second part adds the scheduler:   *)
(* which threads sleep, and that none of its assertions fails.             *)
(***************************************************************************)
EXTENDS Mutex, InterruptsProofs, TLAPS

PcType == [at : Labels, mutex : Mutexes]

(* The steps of the calls in which the caller already has the mutex, and   *)
(* those in which it is on the waiting list.                               *)
Owning == {"unobserve", "nest", "wake"}
Queued == {"wait", "unobserve"}

(* The inductive invariant. *)
Typed ==
  /\ mutex \in [Mutexes -> MutexType]
  /\ held \in [Threads -> [Mutexes -> Nat]]
  /\ pc \in [Threads -> PcType]

Free == \A m \in Mutexes : mutex[m].owner = NoOwner => mutex[m].nested = 0

Owners ==
  \A t \in Threads :
    /\ pc[t].at \in Owning => mutex[pc[t].mutex].owner = t
    /\ pc[t].at = "wake" => held[t][pc[t].mutex] = 0

Queues ==
  \A m \in Mutexes :
    /\ IsInjective(mutex[m].waiting)
    /\ \A t \in Threads :
         InList(mutex[m].waiting, t) <=> pc[t].at \in Queued /\ pc[t].mutex = m

IInv == Typed /\ MutualExclusion /\ NestedCountsHolders /\ Free /\ Owners /\ Queues

----------------------------------------------------------------------------
(* What fits together: r in mutex m, n holds of thread t and t at q, with  *)
(* the other threads as they are.                                          *)
Fit(t, m, r, n, q) ==
  /\ n > 0 => r.owner = t
  /\ \A u \in Threads \ {t} : held[u][m] > 0 => r.owner = u
  /\ r.owner = t => r.nested = n
  /\ \A u \in Threads \ {t} : r.owner = u => r.nested = held[u][m]
  /\ r.owner = NoOwner => r.nested = 0
  /\ \A u \in Threads \ {t} : pc[u].at \in Owning /\ pc[u].mutex = m => r.owner = u
  /\ q.at \in Owning => r.owner = t
  /\ q.at = "wake" => n = 0
  /\ q.at = "out" \/ q.mutex = m
  /\ pc[t].at = "out" \/ pc[t].mutex = m
  /\ IsInjective(r.waiting)
  /\ \A u \in Threads \ {t} : InList(r.waiting, u) <=> InList(mutex[m].waiting, u)
  /\ InList(r.waiting, t) <=> q.at \in Queued

(* A step of thread t on mutex m that leaves what fits. *)
LEMMA StepGood ==
  ASSUME IInv, NEW t \in Threads, NEW m \in Mutexes,
         NEW r \in MutexType, NEW n \in Nat, NEW q \in PcType,
         mutex' = [mutex EXCEPT ![m] = r],
         held' = [held EXCEPT ![t][m] = n],
         pc' = [pc EXCEPT ![t] = q],
         Fit(t, m, r, n, q)
  PROVE  IInv'
<1>1. /\ mutex'[m] = r /\ \A k \in Mutexes \ {m} : mutex'[k] = mutex[k]
      /\ pc'[t] = q /\ \A u \in Threads \ {t} : pc'[u] = pc[u]
      /\ held'[t][m] = n /\ \A k \in Mutexes \ {m} : held'[t][k] = held[t][k]
      /\ \A u \in Threads \ {t} : held'[u] = held[u]
  BY DEF IInv, Typed
<1>2. Typed'
  BY DEF IInv, Typed
<1>3. MutualExclusion'
  BY <1>1 DEF IInv, Fit, MutualExclusion
<1>4. NestedCountsHolders'
  BY <1>1 DEF IInv, Fit, NestedCountsHolders
<1>5. Free'
  BY <1>1 DEF IInv, Fit, Free
<1>6. Owners'
  <2> SUFFICES ASSUME NEW u \in Threads
               PROVE  /\ pc'[u].at \in Owning => mutex'[pc'[u].mutex].owner = u
                      /\ pc'[u].at = "wake" => held'[u][pc'[u].mutex] = 0
    BY DEF Owners
  <2>1. CASE u = t
    BY <1>1, <2>1 DEF Fit, Owning
  <2>2. CASE u # t
    <3>1. pc'[u] = pc[u] /\ held'[u] = held[u] /\ pc[u].mutex \in Mutexes
      BY <1>1, <2>2 DEF IInv, Typed, PcType
    <3>2. /\ pc[u].at \in Owning => mutex[pc[u].mutex].owner = u
          /\ pc[u].at = "wake" => held[u][pc[u].mutex] = 0
      BY DEF IInv, Owners
    <3> QED  BY <1>1, <2>2, <3>1, <3>2 DEF Fit
  <2> QED  BY <2>1, <2>2
<1>7. Queues'
  <2> SUFFICES ASSUME NEW k \in Mutexes
               PROVE  /\ IsInjective(mutex'[k].waiting)
                      /\ \A u \in Threads :
                           InList(mutex'[k].waiting, u) <=>
                             pc'[u].at \in Queued /\ pc'[u].mutex = k
    BY DEF Queues
  <2>1. /\ IsInjective(mutex[k].waiting)
        /\ \A u \in Threads :
             InList(mutex[k].waiting, u) <=> pc[u].at \in Queued /\ pc[u].mutex = k
    BY DEF IInv, Queues
  <2>2. CASE k = m
    BY <1>1, <2>1, <2>2 DEF Fit, Queued
  <2>3. CASE k # m
    BY <1>1, <2>1, <2>3 DEF Fit, Queued
  <2> QED  BY <2>2, <2>3
<1> QED  BY <1>2, <1>3, <1>4, <1>5, <1>6, <1>7 DEF IInv

(* The updates of a mutex. *)
LEMMA Fields ==
  ASSUME NEW k \in MutexType
  PROVE  /\ \A o \in Threads \cup {NoOwner} :
              /\ [k EXCEPT !.owner = o] \in MutexType
              /\ [k EXCEPT !.owner = o].owner = o
              /\ [k EXCEPT !.owner = o].nested = k.nested
              /\ [k EXCEPT !.owner = o].waiting = k.waiting
         /\ \A n \in Nat :
              /\ [k EXCEPT !.nested = n] \in MutexType
              /\ [k EXCEPT !.nested = n].owner = k.owner
              /\ [k EXCEPT !.nested = n].nested = n
              /\ [k EXCEPT !.nested = n].waiting = k.waiting
         /\ \A w \in Seq(Threads) :
              /\ [k EXCEPT !.waiting = w] \in MutexType
              /\ [k EXCEPT !.waiting = w].owner = k.owner
              /\ [k EXCEPT !.waiting = w].nested = k.nested
              /\ [k EXCEPT !.waiting = w].waiting = w
         /\ k.owner \in Threads \cup {NoOwner} /\ k.nested \in Nat /\ k.waiting \in Seq(Threads)
BY DEF MutexType

(* What every step finds. *)
LEMMA Before ==
  ASSUME IInv, NEW t \in Threads, NEW m \in Mutexes
  PROVE  /\ mutex[m] \in MutexType
         /\ mutex[m].owner \in Threads \cup {NoOwner} /\ mutex[m].nested \in Nat
         /\ mutex[m].waiting \in Seq(Threads) /\ IsInjective(mutex[m].waiting)
         /\ held[t][m] \in Nat
         /\ mutex[m].owner = NoOwner => mutex[m].nested = 0
         /\ \A u \in Threads : held[u][m] > 0 => mutex[m].owner = u
         /\ \A u \in Threads : mutex[m].owner = u => mutex[m].nested = held[u][m]
         /\ \A u \in Threads : pc[u].at \in Owning /\ pc[u].mutex = m => mutex[m].owner = u
         /\ \A u \in Threads :
              InList(mutex[m].waiting, u) <=> pc[u].at \in Queued /\ pc[u].mutex = m
         /\ held = [held EXCEPT ![t][m] = held[t][m]]
         /\ pc = [pc EXCEPT ![t] = pc[t]] /\ pc[t] \in PcType
<1>1. /\ mutex[m] \in MutexType
      /\ mutex[m].owner \in Threads \cup {NoOwner} /\ mutex[m].nested \in Nat
      /\ mutex[m].waiting \in Seq(Threads) /\ held[t][m] \in Nat /\ pc[t] \in PcType
  BY DEF IInv, Typed, MutexType
<1>2. /\ held = [held EXCEPT ![t][m] = held[t][m]]
      /\ pc = [pc EXCEPT ![t] = pc[t]]
  BY DEF IInv, Typed
<1>3. \A u \in Threads : pc[u].at \in Owning /\ pc[u].mutex = m => mutex[m].owner = u
  BY DEF IInv, Owners
<1>4. /\ IsInjective(mutex[m].waiting)
      /\ \A u \in Threads :
           InList(mutex[m].waiting, u) <=> pc[u].at \in Queued /\ pc[u].mutex = m
  BY DEF IInv, Queues
<1> QED  BY <1>1, <1>2, <1>3, <1>4 DEF IInv, MutualExclusion, NestedCountsHolders, Free

(* Where a step starts. *)
LEMMA AtFacts ==
  ASSUME IInv, NEW t \in Threads, NEW m \in Mutexes, NEW label, At(t, label, m)
  PROVE  pc[t].at = label /\ pc[t].mutex = m
BY DEF At

(* The mutex after a compare-and-swap, whether it was free or not. *)
Swapped(t, m, r) ==
  /\ r \in MutexType /\ r.owner # NoOwner
  /\ mutex[m].owner = t => r.owner = t
  /\ r.waiting = mutex[m].waiting
  /\ held[t][m] > 0 => r.owner = t
  /\ \A u \in Threads \ {t} : held[u][m] > 0 => r.owner = u
  /\ r.owner = t => r.nested = held[t][m]
  /\ \A u \in Threads \ {t} : r.owner = u => r.nested = held[u][m]
  /\ \A u \in Threads \ {t} : pc[u].at \in Owning /\ pc[u].mutex = m => r.owner = u

(* That is what the compare-and-swap leaves. *)
LEMMA SwapFits ==
  ASSUME IInv, NEW t \in Threads, NEW m \in Mutexes
  PROVE  Swapped(t, m, [mutex[m] EXCEPT !.owner = CompareAndSwap(m, t)])
<1> DEFINE o == CompareAndSwap(m, t)
           r == [mutex[m] EXCEPT !.owner = o]
<1>1. /\ o \in Threads \cup {NoOwner} /\ o # NoOwner
      /\ o = IF mutex[m].owner = NoOwner THEN t ELSE mutex[m].owner
  BY Before, MutexAssumption DEF CompareAndSwap
<1> HIDE DEF o
<1>2. /\ r \in MutexType /\ r.owner = o
      /\ r.nested = mutex[m].nested /\ r.waiting = mutex[m].waiting
  BY <1>1, Before, Fields
<1>3. \A u \in Threads : held[u][m] \in Nat
  BY DEF IInv, Typed
<1> HIDE DEF r
<1>4. Swapped(t, m, r)
  BY <1>1, <1>2, <1>3, Before, MutexAssumption DEF Swapped
<1> QED  BY <1>4 DEF r, o

(* mutex_acquire, up to its compare-and-swap. *)
LEMMA AcquireGood ==
  ASSUME IInv, NEW t \in Threads, NEW m \in Mutexes, mutex_acquire(t, m)
  PROVE  IInv'
<1> DEFINE r == [mutex[m] EXCEPT !.owner = CompareAndSwap(m, t)]
           n == held[t][m]
           q == [at |-> IF mutex[m].owner = t THEN "nest" ELSE "observe", mutex |-> m]
<1>1. mutex' = [mutex EXCEPT ![m] = r] /\ held' = held /\ pc' = [pc EXCEPT ![t] = q]
  BY DEF mutex_acquire, SetOwner, GoTo
<1>2. pc[t].at = "out"
  BY DEF mutex_acquire, AtCall
<1>3. /\ q \in PcType /\ q.mutex = m /\ q.at \in {"nest", "observe"}
      /\ q.at = "nest" => mutex[m].owner = t
  BY DEF PcType, Labels
<1>4. held' = [held EXCEPT ![t][m] = n] /\ n \in Nat
  BY <1>1, Before
<1>6. Swapped(t, m, r)
  BY SwapFits
<1> HIDE DEF r, q
<1>7. Fit(t, m, r, n, q)
  BY <1>2, <1>3, <1>6, Before DEF Fit, Swapped, Owning, Queued
<1> HIDE DEF n
<1> QED  BY <1>1, <1>3, <1>4, <1>6, <1>7, StepGood, Zenon DEF Swapped

(* mutex_add_observer: the caller is not on any list yet. *)
LEMMA ObserveGood ==
  ASSUME IInv, NEW t \in Threads, NEW m \in Mutexes, mutex_add_observer(t, m)
  PROVE  IInv'
<1> DEFINE w == Append(mutex[m].waiting, t)
           r == [mutex[m] EXCEPT !.waiting = w]
           n == held[t][m]
           q == [at |-> "wait", mutex |-> m]
<1>1. /\ mutex' = [mutex EXCEPT ![m] = r]
      /\ held' = held /\ pc' = [pc EXCEPT ![t] = q]
  BY DEF mutex_add_observer, GoTo
<1>2. pc[t].at = "observe" /\ pc[t].mutex = m
  BY AtFacts DEF mutex_add_observer
<1>3. ~InList(mutex[m].waiting, t)
  BY <1>2, Before DEF Queued
<1>4. /\ w \in Seq(Threads) /\ IsInjective(w)
      /\ \A u \in Threads : InList(w, u) <=> InList(mutex[m].waiting, u) \/ u = t
  BY <1>3, Before, AppendRange
<1> HIDE DEF w
<1>5. /\ r \in MutexType /\ r.owner = mutex[m].owner
      /\ r.nested = mutex[m].nested /\ r.waiting = w
  BY <1>4, Before, Fields
<1>6. q \in PcType /\ q.mutex = m /\ q.at = "wait"
  BY DEF PcType, Labels
<1>7. held' = [held EXCEPT ![t][m] = n] /\ n \in Nat
  BY <1>1, Before
<1> HIDE DEF r, q
<1>8. Fit(t, m, r, n, q)
  BY <1>2, <1>4, <1>5, <1>6, Before DEF Fit, Owning, Queued
<1> HIDE DEF n
<1> QED  BY <1>1, <1>5, <1>6, <1>7, <1>8, StepGood, Zenon

(* scheduler_wait_object_acquire: the caller has the mutex, or waits on. *)
LEMMA WaitGood ==
  ASSUME IInv, NEW t \in Threads, NEW m \in Mutexes, scheduler_wait_object_acquire(t, m)
  PROVE  IInv'
<1> DEFINE r == [mutex[m] EXCEPT !.owner = CompareAndSwap(m, t)]
           n == held[t][m]
           q == [at |-> IF mutex[m].owner = t THEN "unobserve" ELSE "wait", mutex |-> m]
<1>1. pc[t].at = "wait" /\ pc[t].mutex = m /\ pc[t] = [at |-> "wait", mutex |-> m]
  BY DEF scheduler_wait_object_acquire, At
<1>2. mutex' = [mutex EXCEPT ![m] = r] /\ held' = held
  BY DEF scheduler_wait_object_acquire, SetOwner
<1>3. pc' = [pc EXCEPT ![t] = q]
  <2>1. CASE mutex[m].owner = t
    BY <2>1 DEF scheduler_wait_object_acquire, GoTo
  <2>2. CASE mutex[m].owner # t
    BY <1>1, <2>2, Before DEF scheduler_wait_object_acquire
  <2> QED  BY <2>1, <2>2
<1>4. /\ q \in PcType /\ q.mutex = m /\ q.at \in {"unobserve", "wait"}
      /\ q.at = "unobserve" => mutex[m].owner = t
  BY DEF PcType, Labels
<1>5. held' = [held EXCEPT ![t][m] = n] /\ n \in Nat
  BY <1>2, Before
<1>6. Swapped(t, m, r)
  BY SwapFits
<1> HIDE DEF r, q
<1>7. Fit(t, m, r, n, q)
  BY <1>1, <1>4, <1>6, Before DEF Fit, Swapped, Owning, Queued
<1> HIDE DEF n
<1> QED  BY <1>2, <1>3, <1>4, <1>5, <1>6, <1>7, StepGood, Zenon DEF Swapped

(* mutex_remove_observer: the caller is on the list. *)
LEMMA UnobserveGood ==
  ASSUME IInv, NEW t \in Threads, NEW m \in Mutexes, mutex_remove_observer(t, m)
  PROVE  IInv'
<1> DEFINE w == DL_DELETE(mutex[m].waiting, t)
           r == [mutex[m] EXCEPT !.waiting = w]
           n == held[t][m]
           q == [at |-> "nest", mutex |-> m]
<1>1. /\ mutex' = [mutex EXCEPT ![m] = r]
      /\ held' = held /\ pc' = [pc EXCEPT ![t] = q]
  BY DEF mutex_remove_observer, GoTo
<1>2. pc[t].at = "unobserve" /\ pc[t].mutex = m
  BY AtFacts DEF mutex_remove_observer
<1>3. InList(mutex[m].waiting, t) /\ mutex[m].owner = t
  BY <1>2, Before DEF Queued, Owning
<1>4. /\ w \in Seq(Threads) /\ IsInjective(w)
      /\ \A u \in Threads : InList(w, u) <=> InList(mutex[m].waiting, u) /\ u # t
  BY <1>3, Before, DeleteType, DeleteRange
<1> HIDE DEF w
<1>5. /\ r \in MutexType /\ r.owner = mutex[m].owner
      /\ r.nested = mutex[m].nested /\ r.waiting = w
  BY <1>4, Before, Fields
<1>6. q \in PcType /\ q.mutex = m /\ q.at = "nest"
  BY DEF PcType, Labels
<1>7. held' = [held EXCEPT ![t][m] = n] /\ n \in Nat
  BY <1>1, Before
<1> HIDE DEF r, q
<1>8. Fit(t, m, r, n, q)
  BY <1>2, <1>3, <1>4, <1>5, <1>6, Before DEF Fit, Owning, Queued
<1> HIDE DEF n
<1> QED  BY <1>1, <1>5, <1>6, <1>7, <1>8, StepGood, Zenon

(* nested++ by the owner, at the end of mutex_acquire or in mutex_trylock; *)
(* nested-- by the owner.                                                  *)
LEMMA CountGood ==
  ASSUME IInv, NEW t \in Threads, NEW m \in Mutexes, NEW n \in Nat, NEW q \in PcType,
         mutex[m].owner = t, pc[t].at \in {"out", "nest"},
         pc[t].at = "out" \/ pc[t].mutex = m,
         q.at = "out" \/ (q = [at |-> "wake", mutex |-> m] /\ n = 0),
         mutex' = [mutex EXCEPT ![m].nested = n],
         held' = [held EXCEPT ![t][m] = n],
         pc' = [pc EXCEPT ![t] = q]
  PROVE  IInv'
<1> DEFINE r == [mutex[m] EXCEPT !.nested = n]
<1>1. mutex' = [mutex EXCEPT ![m] = r]
  BY DEF IInv, Typed
<1>2. /\ r \in MutexType /\ r.owner = t
      /\ r.nested = n /\ r.waiting = mutex[m].waiting
  BY Before, Fields
<1> HIDE DEF r
<1>3. t # NoOwner
  BY MutexAssumption
<1>4. \A u \in Threads \ {t} : ~(held[u][m] > 0)
  BY Before
<1>5. q.at \in {"out", "wake"} /\ (q.at = "out" \/ q.mutex = m) /\ (q.at = "wake" => n = 0)
  OBVIOUS
<1>6. Fit(t, m, r, n, q)
  BY <1>2, <1>3, <1>4, <1>5, Before DEF Fit, Owning, Queued
<1> QED  BY <1>1, <1>2, <1>6, StepGood, Zenon

(* The end of mutex_acquire. *)
LEMMA ReturnGood ==
  ASSUME IInv, NEW t \in Threads, NEW m \in Mutexes, AcquireReturns(t, m)
  PROVE  IInv'
<1> DEFINE n == held[t][m] + 1
           q == [at |-> "out", mutex |-> m]
<1>1. pc[t].at = "nest" /\ pc[t].mutex = m
  BY AtFacts DEF AcquireReturns
<1>2. mutex[m].owner = t /\ mutex[m].nested = held[t][m] /\ held[t][m] \in Nat
  BY <1>1, Before DEF Owning
<1>3. /\ mutex' = [mutex EXCEPT ![m].nested = n] /\ held' = [held EXCEPT ![t][m] = n]
      /\ pc' = [pc EXCEPT ![t] = q]
  BY <1>2 DEF AcquireReturns, GoTo
<1>4. n \in Nat /\ q \in PcType /\ q.at = "out"
  BY <1>2 DEF PcType, Labels
<1> HIDE DEF n, q
<1> QED  BY <1>1, <1>2, <1>3, <1>4, CountGood, Zenon

(* mutex_trylock, by the owner or by another thread. *)
LEMMA TrylockGood ==
  ASSUME IInv, NEW t \in Threads, NEW m \in Mutexes, mutex_trylock(t, m)
  PROVE  IInv'
<1>1. pc[t].at = "out" /\ pc' = [pc EXCEPT ![t] = pc[t]] /\ pc[t] \in PcType
  BY Before DEF mutex_trylock, AtCall
<1>2. CASE mutex[m].owner = t
  <2> DEFINE n == held[t][m] + 1
  <2>1. mutex[m].nested = held[t][m] /\ held[t][m] \in Nat
    BY <1>2, Before
  <2>2. mutex' = [mutex EXCEPT ![m].nested = n] /\ held' = [held EXCEPT ![t][m] = n]
    BY <1>2, <2>1 DEF mutex_trylock
  <2>3. n \in Nat
    BY <2>1
  <2> HIDE DEF n
  <2> QED  BY <1>1, <1>2, <2>2, <2>3, CountGood, Zenon
<1>3. CASE mutex[m].owner # t
  <2> DEFINE r == [mutex[m] EXCEPT !.owner = CompareAndSwap(m, t)]
             n == held[t][m]
  <2>1. mutex' = [mutex EXCEPT ![m] = r] /\ held' = [held EXCEPT ![t][m] = n] /\ n \in Nat
    BY <1>3, Before DEF mutex_trylock, SetOwner
  <2>2. Swapped(t, m, r)
    BY SwapFits
  <2> HIDE DEF r
  <2>3. Fit(t, m, r, n, pc[t])
    BY <1>1, <2>2, Before DEF Fit, Swapped, Owning, Queued
  <2> HIDE DEF n
  <2> QED  BY <1>1, <2>1, <2>2, <2>3, StepGood, Zenon DEF Swapped
<1> QED  BY <1>2, <1>3

(* mutex_release, up to the wake-up. *)
LEMMA ReleaseGood ==
  ASSUME IInv, NEW t \in Threads, NEW m \in Mutexes, mutex_release(t, m)
  PROVE  IInv'
<1> DEFINE n == held[t][m] - 1
           q == IF n = 0 THEN [at |-> "wake", mutex |-> m] ELSE pc[t]
<1>1. pc[t].at = "out" /\ held[t][m] > 0
  BY DEF mutex_release, AtCall
<1>2. /\ mutex[m].owner = t /\ mutex[m].nested = held[t][m] /\ held[t][m] \in Nat
      /\ pc[t] \in PcType /\ pc = [pc EXCEPT ![t] = pc[t]] /\ n \in Nat
  BY <1>1, Before
<1>3. mutex' = [mutex EXCEPT ![m].nested = n] /\ held' = [held EXCEPT ![t][m] = n]
  BY <1>2 DEF mutex_release
<1>4. mutex'[m].nested = n
  BY <1>3 DEF IInv, Typed, MutexType
<1>5. pc' = [pc EXCEPT ![t] = q]
  BY <1>2, <1>4 DEF mutex_release, GoTo
<1>6. q \in PcType /\ (q.at = "out" \/ (q = [at |-> "wake", mutex |-> m] /\ n = 0))
  <2>1. [at |-> "wake", mutex |-> m] \in PcType
    BY DEF PcType, Labels
  <2> QED  BY <1>1, <1>2, <2>1
<1> HIDE DEF n, q
<1> QED  BY <1>1, <1>2, <1>3, <1>5, <1>6, CountGood, Zenon

(* mutex_release_and_wake_next_thread: nobody holds the mutex any more. *)
LEMMA WakeGood ==
  ASSUME IInv, NEW t \in Threads, NEW m \in Mutexes, mutex_release_and_wake_next_thread(t, m)
  PROVE  IInv'
<1> DEFINE o == IF mutex[m].waiting # <<>> THEN Head(mutex[m].waiting) ELSE NoOwner
           r == [mutex[m] EXCEPT !.owner = o]
           n == held[t][m]
           q == [at |-> "out", mutex |-> m]
<1>1. pc[t].at = "wake" /\ pc[t].mutex = m
  BY AtFacts DEF mutex_release_and_wake_next_thread
<1>2. /\ mutex' = [mutex EXCEPT ![m] = r]
      /\ held' = held /\ pc' = [pc EXCEPT ![t] = q]
  BY DEF mutex_release_and_wake_next_thread, SetOwner, GoTo
<1>3. o \in Threads \cup {NoOwner}
  BY Before, HeadInList
<1> HIDE DEF o
<1>4. /\ r \in MutexType /\ r.owner = o
      /\ r.nested = mutex[m].nested /\ r.waiting = mutex[m].waiting
  <2>1. mutex[m] \in MutexType
    BY Before
  <2> QED  BY <1>3, <2>1, Fields
<1>5. mutex[m].owner = t /\ held[t][m] = 0 /\ mutex[m].nested = 0
  BY <1>1, Before DEF Owning, IInv, Owners
<1>6. \A u \in Threads : held[u][m] = 0
  <2>1. \A u \in Threads : held[u][m] \in Nat
    BY DEF IInv, Typed
  <2> QED  BY <1>5, <2>1, Before
<1>7. \A u \in Threads \ {t} : ~(pc[u].at \in Owning /\ pc[u].mutex = m)
  BY <1>5, Before
<1>8. q \in PcType /\ q.mutex = m /\ q.at = "out"
  BY DEF PcType, Labels
<1>9. held' = [held EXCEPT ![t][m] = n] /\ n \in Nat
  BY <1>2, Before
<1> HIDE DEF r, q
<1>10. Fit(t, m, r, n, q)
  BY <1>1, <1>4, <1>5, <1>6, <1>7, <1>8, Before DEF Fit, Owning, Queued
<1> HIDE DEF n
<1> QED  BY <1>2, <1>4, <1>8, <1>9, <1>10, StepGood, Zenon

----------------------------------------------------------------------------
(* The inductive invariant holds. *)

(* Initially no mutex has an owner. *)
LEMMA InitGood ==
  ASSUME Init
  PROVE  IInv
<1> DEFINE k == CHOOSE m \in Mutexes : TRUE
<1>1. k \in Mutexes
  BY MutexAssumption
<1> HIDE DEF k
<1>2. /\ mutex = [m \in Mutexes |-> mutex_init]
      /\ held = [t \in Threads |-> [m \in Mutexes |-> 0]]
      /\ pc = [t \in Threads |-> [at |-> "out", mutex |-> k]]
  BY DEF Init, k
<1>3. mutex_init \in MutexType /\ mutex_init.owner = NoOwner
      /\ mutex_init.nested = 0 /\ mutex_init.waiting = <<>>
  BY DEF mutex_init, MutexType
<1>4. Typed
  BY <1>1, <1>2, <1>3 DEF Typed, PcType, Labels
<1>5. MutualExclusion /\ Free
  BY <1>2, <1>3 DEF MutualExclusion, Free
<1>6. NestedCountsHolders
  BY <1>2, <1>3 DEF NestedCountsHolders
<1>7. Owners
  BY <1>2 DEF Owners, Owning
<1>8. Queues
  <2>1. IsInjective(<<>>) /\ \A t : ~InList(<<>>, t)
    BY DEF IsInjective, InList
  <2> QED  BY <1>2, <1>3, <2>1 DEF Queues, Queued
<1> QED  BY <1>4, <1>5, <1>6, <1>7, <1>8 DEF IInv

(* Every step keeps the invariant. *)
LEMMA NextGood ==
  ASSUME IInv, [Next]_vars
  PROVE  IInv'
<1>1. ASSUME NEW t \in Threads, ThreadStep(t)
      PROVE  IInv'
  <2>1. PICK m \in Mutexes :
          \/ mutex_acquire(t, m) \/ mutex_add_observer(t, m)
          \/ scheduler_wait_object_acquire(t, m)
          \/ mutex_remove_observer(t, m) \/ AcquireReturns(t, m)
          \/ mutex_trylock(t, m)
          \/ mutex_release(t, m) \/ mutex_release_and_wake_next_thread(t, m)
    BY <1>1 DEF ThreadStep
  <2> QED  BY <2>1, AcquireGood, ObserveGood, WaitGood, UnobserveGood, ReturnGood,
              TrylockGood, ReleaseGood, WakeGood
<1>2. CASE UNCHANGED mutexVars
  BY <1>2 DEF mutexVars, IInv, Typed, MutualExclusion, NestedCountsHolders, Free, Owners, Queues
<1>3. Arrival \/ Handler \/ UNCHANGED vars => UNCHANGED mutexVars
  BY DEF Arrival, Handler, vars, mutexVars
<1> QED  BY <1>1, <1>2, <1>3 DEF Next

(* The inductive invariant holds in every behaviour. *)
THEOREM MutexInvariance == Spec => []IInv
<1>1. Init => IInv
  BY InitGood
<1>2. IInv /\ [Next]_vars => IInv'
  BY NextGood
<1> QED  BY <1>1, <1>2, PTL DEF Spec

(* At most one thread is inside a mutex, however acquire, trylock, the     *)
(* hand-off of a release and preemption interleave.                        *)
THEOREM AlwaysExclusive == Spec => []MutualExclusion
<1>1. IInv => MutualExclusion
  BY DEF IInv
<1> QED  BY <1>1, MutexInvariance, PTL

(* m->nested, which is counted without a lock, is the number of locks its  *)
(* owner holds.                                                            *)
THEOREM AlwaysCounted == Spec => []NestedCountsHolders
<1>1. IInv => NestedCountsHolders
  BY DEF IInv
<1> QED  BY <1>1, MutexInvariance, PTL

(* A thread in mutex_acquire's wait is on the waiting list of its mutex,   *)
(* once, and nobody else is: a release finds every waiter.                 *)
THEOREM SleepersAlwaysQueued == Spec => []SleepersAreQueued
<1>1. IInv => SleepersAreQueued
  <2> SUFFICES ASSUME IInv, NEW m \in Mutexes, NEW t \in Threads
               PROVE  (pc[t].at \in Queued /\ pc[t].mutex = m)
                        <=> pc[t] \in [at : {"wait", "unobserve"}, mutex : {m}]
    BY DEF IInv, Queues, SleepersAreQueued
  <2>1. pc[t] \in PcType
    BY DEF IInv, Typed
  <2> QED  BY <2>1 DEF PcType, Queued
<1> QED  BY <1>1, MutexInvariance, PTL

(* A mutex that has an owner passes to another thread only in              *)
(* mutex_release_and_wake_next_thread, and then to the head of the list.   *)
THEOREM AlwaysHandedOffInOrder == Spec => HandOffInOrder
<1> DEFINE InOrder ==
      \A m \in Mutexes :
        /\ mutex[m].owner # NoOwner
        /\ mutex'[m].owner \notin {mutex[m].owner, NoOwner}
        => IsHead(mutex[m].waiting, mutex'[m].owner)
<1>1. IInv /\ [Next]_vars => [InOrder]_vars
  <2> SUFFICES ASSUME IInv, Next, NEW m \in Mutexes, mutex[m].owner # NoOwner,
                      mutex'[m].owner \notin {mutex[m].owner, NoOwner}
               PROVE  IsHead(mutex[m].waiting, mutex'[m].owner)
    OBVIOUS
  <2>1. mutex \in [Mutexes -> MutexType]
    BY DEF IInv, Typed
  <2>2. PICK t \in Threads, k \in Mutexes :
          \/ mutex_acquire(t, k) \/ mutex_add_observer(t, k)
          \/ scheduler_wait_object_acquire(t, k)
          \/ mutex_remove_observer(t, k) \/ AcquireReturns(t, k)
          \/ mutex_trylock(t, k)
          \/ mutex_release(t, k) \/ mutex_release_and_wake_next_thread(t, k)
    BY DEF Next, ThreadStep, Arrival, Handler, mutexVars
  <2>3. ASSUME NEW o, SetOwner(k, o)
        PROVE  k = m /\ mutex'[m].owner = o
    BY <2>1, <2>3 DEF SetOwner, MutexType
  <2>4. ~SetOwner(k, CompareAndSwap(k, t))
    BY <2>3 DEF CompareAndSwap
  <2>5. CASE mutex_release_and_wake_next_thread(t, k)
    <3>1. mutex[k].waiting # <<>> /\ SetOwner(k, Head(mutex[k].waiting))
      BY <2>3, <2>5 DEF mutex_release_and_wake_next_thread
    <3> QED  BY <2>3, <3>1 DEF IsHead
  <2>6. CASE mutex_add_observer(t, k) \/ mutex_remove_observer(t, k) \/ AcquireReturns(t, k)
             \/ mutex_release(t, k) \/ mutex_trylock(t, k)
    <3>1. \/ \E w : mutex' = [mutex EXCEPT ![k].waiting = w]
          \/ \E n : mutex' = [mutex EXCEPT ![k].nested = n]
      BY <2>4, <2>6 DEF mutex_add_observer, mutex_remove_observer, AcquireReturns,
                        mutex_release, mutex_trylock
    <3>2. ASSUME NEW w, mutex' = [mutex EXCEPT ![k].waiting = w]
          PROVE  mutex'[m].owner = mutex[m].owner
      BY <2>1, <3>2 DEF MutexType
    <3>3. ASSUME NEW n, mutex' = [mutex EXCEPT ![k].nested = n]
          PROVE  mutex'[m].owner = mutex[m].owner
      BY <2>1, <3>3 DEF MutexType
    <3> QED  BY <3>1, <3>2, <3>3
  <2> QED  BY <2>2, <2>4, <2>5, <2>6 DEF mutex_acquire, scheduler_wait_object_acquire
<1> QED  BY <1>1, MutexInvariance, PTL DEF Spec, HandOffInOrder

----------------------------------------------------------------------------
(* The scheduler under the mutex. *)

(* Every thread has been started and none exits; the thread that has the   *)
(* CPU is running; the idle thread never blocks and calls nothing.         *)
SInv ==
  /\ CpuInv({})
  /\ NoPanic
  /\ \A t \in Threads : sched.state[t] \notin {"created", "dead"}
  /\ sched.state[current] = "running"
  /\ sched.state[Idle] # "blocked"
  /\ pc[Idle].at = "out"
  /\ FreeMutexHasNoSleeper

(* The threads are started and no mutex is in use. *)
LEMMA InitScheduler ==
  ASSUME Init
  PROVE  SInv
<1> USE MutexAssumption
<1> DEFINE n == Cardinality(Lockers)
<1>1. n \in Nat
  OBVIOUS
<1> HIDE DEF n
<1>2. PICK order \in Bijection(1 .. n, Lockers) :
        sched = [ runnable |-> Append(order, Idle),
                  blocked  |-> <<>>,
                  state    |-> [t \in Threads |->
                                  IF t = Idle THEN "running" ELSE "runnable"],
                  slice    |-> [t \in Threads |-> TIME_SLICE],
                  last     |-> 0,
                  panic    |-> FALSE ]
  BY Zenon DEF Init, n
<1>3. /\ order \in [1 .. n -> Lockers] /\ IsInjective(order)
      /\ \A t \in Lockers : \E i \in 1 .. n : order[i] = t
  BY <1>2 DEF Bijection, Injection, Surjection
<1>4. order \in Seq(Threads) /\ Len(order) = n
  BY <1>1, <1>3 DEF Lockers
<1>5. \A t \in Threads : InList(order, t) <=> t # Idle
  BY <1>3, <1>4 DEF InList, Lockers
<1>6. /\ Append(order, Idle) \in Seq(Threads) /\ IsInjective(Append(order, Idle))
      /\ \A t \in Threads : InList(Append(order, Idle), t)
  BY <1>3, <1>4, <1>5, AppendRange
<1>7. sched \in SchedulerType
  <2>1. 0 \in Words /\ TIME_SLICE \in Words
    BY WordAssumption, TimeSliceAssumption DEF Words
  <2>2. <<>> \in Seq(Threads)
    OBVIOUS
  <2> QED BY <1>2, <1>6, <2>1, <2>2, States DEF SchedulerType
<1>8. /\ sched.runnable = Append(order, Idle) /\ sched.blocked = <<>>
      /\ sched.state = [t \in Threads |-> IF t = Idle THEN "running" ELSE "runnable"]
      /\ sched.panic = FALSE
  BY <1>2
<1>9. Consistent(sched, {})
  BY <1>6, <1>8 DEF Consistent, IsInjective, InList
<1>10. /\ current = Idle /\ nesting = 0 /\ ticks = 0
       /\ frames = [t \in Threads |-> <<>>]
  BY DEF Init, InterruptsInit
<1>11. CpuTypeOK
  BY <1>7, <1>10, MaxFramesAssumption, WordAssumption DEF CpuTypeOK, Words
<1>12. RunningIsCurrent /\ HandlersFinishBeforeSwitch
  BY <1>8, <1>10 DEF RunningIsCurrent, HandlersFinishBeforeSwitch, Depth
<1>13. /\ NoPanic /\ sched.state[current] = "running" /\ sched.state[Idle] # "blocked"
       /\ \A t \in Threads : sched.state[t] \notin {"created", "dead", "blocked"}
  BY <1>8, <1>10 DEF NoPanic
<1>14. pc[Idle].at = "out"
  BY DEF Init
<1> QED
  BY <1>9, <1>11, <1>12, <1>13, <1>14 DEF SInv, CpuInv, FreeMutexHasNoSleeper

(* A step of a thread that leaves the scheduler alone, frees no mutex, and *)
(* queues nobody but itself.                                               *)
LEMMA QuietGood ==
  ASSUME IInv, SInv, UNCHANGED threadVars, pc'[Idle] = pc[Idle],
         \A m \in Mutexes : mutex'[m].owner = NoOwner =>
           /\ mutex[m].owner = NoOwner
           /\ \A t \in Threads :
                InList(mutex'[m].waiting, t) => InList(mutex[m].waiting, t) \/ t = current
  PROVE  SInv'
<1>1. CpuInv({})'
  BY DEF SInv, threadVars, CpuInv, CpuTypeOK, Consistent, InList, RunningIsCurrent,
         HandlersFinishBeforeSwitch, Depth
<1>2. FreeMutexHasNoSleeper'
  BY DEF SInv, threadVars, FreeMutexHasNoSleeper
<1> QED
  BY <1>1, <1>2 DEF SInv, threadVars, NoPanic

(* mutex_acquire, mutex_trylock, mutex_release and the steps of            *)
(* mutex_acquire that do not block.                                        *)
LEMMA QuietStepsGood ==
  ASSUME IInv, SInv, NEW t \in Threads, NEW m \in Mutexes,
         \/ mutex_acquire(t, m) \/ mutex_add_observer(t, m)
         \/ mutex_remove_observer(t, m) \/ AcquireReturns(t, m)
         \/ mutex_trylock(t, m) \/ mutex_release(t, m)
         \/ scheduler_wait_object_acquire(t, m) /\ mutex[m].owner = t
  PROVE  SInv'
<1> USE MutexAssumption
<1>1. /\ mutex \in [Mutexes -> MutexType] /\ pc \in [Threads -> PcType]
      /\ mutex[m].waiting \in Seq(Threads) /\ IsInjective(mutex[m].waiting)
      /\ current = t /\ t # Idle
  BY Before DEF IInv, Typed, SInv, mutex_acquire, mutex_add_observer, mutex_remove_observer,
                AcquireReturns, mutex_trylock, mutex_release, scheduler_wait_object_acquire,
                At, AtCall, Lockers
<1>2. pc'[Idle] = pc[Idle]
  BY <1>1 DEF mutex_acquire, mutex_add_observer, mutex_remove_observer, AcquireReturns,
              mutex_trylock, mutex_release, scheduler_wait_object_acquire, GoTo
<1>3. UNCHANGED threadVars
  <2>1. CASE mutex_add_observer(t, m)
    <3>1. pc[t].at = "observe"
      BY <2>1 DEF mutex_add_observer, At
    <3>2. ~LinkedAhead(t)
      <4> SUFFICES ASSUME NEW k \in Mutexes, NEW i \in 1 .. Len(mutex[k].waiting) - 1,
                          mutex[k].waiting[i] = t
                   PROVE  FALSE
        BY DEF LinkedAhead
      <4>1. mutex[k].waiting \in Seq(Threads) /\ ~InList(mutex[k].waiting, t)
        BY <3>1, Before DEF Queued
      <4> QED BY <4>1 DEF InList
    <3>3. sched' = [sched EXCEPT !.panic = FALSE] /\ UNCHANGED <<current, ticks, nesting, frames>>
      <4>1. LinkedAhead(t) = FALSE
        BY <3>2, Zenon DEF LinkedAhead
      <4> QED BY <2>1, <4>1, Zenon DEF mutex_add_observer
    <3>4. sched \in SchedulerType /\ sched.panic = FALSE
      BY DEF SInv, NoPanic, CpuInv, CpuTypeOK, SchedulerType
    <3> QED BY <3>3, <3>4 DEF threadVars, SchedulerType
  <2> QED
    BY <2>1 DEF mutex_acquire, mutex_remove_observer, AcquireReturns, mutex_trylock,
                mutex_release, scheduler_wait_object_acquire
<1>4. ASSUME NEW k \in Mutexes, mutex'[k].owner = NoOwner
      PROVE  /\ mutex[k].owner = NoOwner
             /\ \A u \in Threads :
                  InList(mutex'[k].waiting, u) => InList(mutex[k].waiting, u) \/ u = current
  <2>1. CASE SetOwner(m, CompareAndSwap(m, t))
    <3>1. CompareAndSwap(m, t) # NoOwner
      BY DEF CompareAndSwap
    <3> QED BY <1>1, <1>4, <2>1, <3>1 DEF SetOwner, MutexType
  <2>2. CASE \E n : mutex' = [mutex EXCEPT ![m].nested = n]
    BY <1>1, <1>4, <2>2 DEF MutexType
  <2>3. CASE mutex' = [mutex EXCEPT ![m].waiting = Append(mutex[m].waiting, t)]
    <3>1. k # m => mutex'[k] = mutex[k]
      BY <1>1, <2>3
    <3>2. k = m => mutex'[k].waiting = Append(mutex[m].waiting, t) /\ mutex'[k].owner = mutex[m].owner
      BY <1>1, <2>3 DEF MutexType
    <3>3. \A u \in Threads : InList(Append(mutex[m].waiting, t), u)
                              <=> InList(mutex[m].waiting, u) \/ u = t
      BY <1>1, AppendRange
    <3>4. CASE k = m
      BY <1>1, <1>4, <3>2, <3>3, <3>4, Zenon
    <3>5. CASE k # m
      BY <1>4, <3>1, <3>5
    <3> QED BY <3>4, <3>5
  <2>4. CASE mutex_remove_observer(t, m)
    <3>1. mutex' = [mutex EXCEPT ![m].waiting = DL_DELETE(mutex[m].waiting, t)]
      BY <2>4 DEF mutex_remove_observer
    <3>2. k # m => mutex'[k] = mutex[k]
      BY <1>1, <3>1
    <3>3. k = m => mutex'[k].waiting = DL_DELETE(mutex[m].waiting, t)
                   /\ mutex'[k].owner = mutex[m].owner
      BY <1>1, <3>1 DEF MutexType
    <3>4. InList(mutex[m].waiting, t)
      BY <2>4, Before DEF mutex_remove_observer, At, Queued
    <3> QED BY <1>1, <1>4, <3>2, <3>3, <3>4, DeleteRange
  <2> QED
    BY <2>1, <2>2, <2>3, <2>4
    DEF mutex_acquire, mutex_add_observer, AcquireReturns, mutex_trylock, mutex_release,
        scheduler_wait_object_acquire
<1> QED
  BY <1>2, <1>3, <1>4, QuietGood

(* scheduler_wait_object_acquire of a mutex that the caller does not have: *)
(* the mutex has an owner when the caller falls asleep.                    *)
LEMMA BlockGood ==
  ASSUME IInv, SInv, NEW t \in Threads, NEW m \in Mutexes,
         scheduler_wait_object_acquire(t, m), mutex[m].owner # t
  PROVE  SInv'
<1> USE MutexAssumption
<1> DEFINE s == scheduler_make_blocked(sched, t)
<1>1. /\ current = t /\ frames[t] = <<>> /\ pc[t].at = "wait" /\ pc[t].mutex = m
      /\ SetOwner(m, CompareAndSwap(m, t)) /\ scheduler_yield(s)
      /\ UNCHANGED <<pc, ticks, nesting, frames>>
  BY DEF scheduler_wait_object_acquire, At
<1>2. /\ Good(sched, {}) /\ CpuTypeOK /\ t # Idle
      /\ sched.state \in [Threads -> ThreadStates]
      /\ mutex \in [Mutexes -> MutexType]
  BY <1>1 DEF SInv, CpuInv, CpuTypeOK, Good, SchedulerType, IInv, Typed
<1>3. Good(s, {}) /\ s.panic = sched.panic
      /\ s.state = [sched.state EXCEPT ![t] = "blocked"]
  <2>1. sched.state[t] \notin {"created", "dead"} /\ t \notin {}
    BY DEF SInv
  <2> QED BY <1>2, <2>1, MakeBlocked
<1> HIDE DEF s
<1>4. \A u \in Threads : s.state[u] = IF u = t THEN "blocked" ELSE sched.state[u]
  BY <1>2, <1>3
<1>5. s.runnable # <<>>
  <2>1. s.state[Idle] \in {"running", "runnable"}
    BY <1>2, <1>4 DEF SInv, ThreadStates
  <2>2. InList(s.runnable, Idle)
    BY <1>3, <2>1 DEF Good, Consistent
  <2> QED BY <2>2 DEF InList
<1>6. \A u \in Threads : s.state[u] = "running" => u = current
  BY <1>1, <1>4 DEF SInv, CpuInv, RunningIsCurrent
<1>7. /\ Good(sched', {}) /\ sched'.panic = s.panic /\ current' \in Threads
      /\ \A u \in Threads :
           sched'.state[u] = IF u = current' THEN "running"
                             ELSE IF u = current /\ s.state[current] = "running" THEN "runnable"
                             ELSE s.state[u]
      /\ RunningIsCurrent'
  BY <1>1, <1>2, <1>3, <1>5, <1>6, YieldStates
<1>8. CpuInv({})'
  BY <1>1, <1>7, ThreadGood, Zenon DEF SInv
<1>9. \A u \in Threads : sched'.state[u] = "blocked" => u = t \/ sched.state[u] = "blocked"
  BY <1>4, <1>7
<1>10. FreeMutexHasNoSleeper'
  <2> SUFFICES ASSUME NEW k \in Mutexes, mutex'[k].owner = NoOwner, NEW u \in Threads,
                      InList(mutex'[k].waiting, u), sched'.state[u] = "blocked"
               PROVE  FALSE
    BY DEF FreeMutexHasNoSleeper
  <2>1. k # m /\ mutex'[k] = mutex[k]
    <3>1. CompareAndSwap(m, t) # NoOwner
      BY DEF CompareAndSwap
    <3>2. mutex'[m].owner = CompareAndSwap(m, t)
      BY <1>1, <1>2 DEF SetOwner, MutexType
    <3>3. k # m
      BY <3>1, <3>2
    <3> QED BY <1>1, <1>2, <3>3 DEF SetOwner
  <2>2. u # t
    BY <1>1, <2>1, Before DEF Queued
  <2> QED BY <1>9, <2>1, <2>2 DEF SInv, FreeMutexHasNoSleeper
<1>11. \A u \in Threads : sched'.state[u] \notin {"created", "dead"}
  BY <1>4, <1>7 DEF SInv
<1>12. sched'.state[current'] = "running" /\ sched'.state[Idle] # "blocked" /\ NoPanic'
  BY <1>2, <1>3, <1>7, <1>9 DEF SInv, NoPanic
<1> QED
  BY <1>1, <1>8, <1>10, <1>11, <1>12 DEF SInv

(* mutex_release_and_wake_next_thread: a mutex is set free only when       *)
(* nobody waits for it.                                                    *)
LEMMA HandOffGood ==
  ASSUME IInv, SInv, NEW t \in Threads, NEW m \in Mutexes,
         mutex_release_and_wake_next_thread(t, m)
  PROVE  SInv'
<1> USE MutexAssumption
<1>1. /\ current = t /\ frames[t] = <<>> /\ pc[t].at = "wake" /\ pc[t].mutex = m
      /\ pc' = [pc EXCEPT ![t] = [at |-> "out", mutex |-> m]]
      /\ UNCHANGED <<current, ticks, nesting, frames>>
  BY DEF mutex_release_and_wake_next_thread, At, GoTo
<1>2. /\ Good(sched, {}) /\ CpuTypeOK /\ t # Idle
      /\ sched.state \in [Threads -> ThreadStates]
      /\ mutex \in [Mutexes -> MutexType] /\ pc \in [Threads -> PcType]
      /\ mutex[m].waiting \in Seq(Threads)
  BY <1>1, Before, Zenon DEF SInv, CpuInv, CpuTypeOK, Good, SchedulerType, IInv, Typed
<1>3. pc'[Idle].at = "out"
  BY <1>1, <1>2, Zenon DEF SInv
<1>4. CASE mutex[m].waiting = <<>>
  <2>1. UNCHANGED threadVars /\ SetOwner(m, NoOwner)
    BY <1>1, <1>4 DEF mutex_release_and_wake_next_thread, threadVars
  <2>2. CpuInv({})'
    BY <2>1 DEF SInv, threadVars, CpuInv, CpuTypeOK, Consistent, InList, RunningIsCurrent,
                HandlersFinishBeforeSwitch, Depth
  <2>3. FreeMutexHasNoSleeper'
    <3> SUFFICES ASSUME NEW k \in Mutexes, mutex'[k].owner = NoOwner, NEW u \in Threads,
                        InList(mutex'[k].waiting, u)
                 PROVE  sched.state[u] # "blocked"
      BY <2>1 DEF FreeMutexHasNoSleeper, threadVars
    <3>1. mutex'[m].waiting = <<>> /\ (k # m => mutex'[k] = mutex[k])
      BY <1>2, <1>4, <2>1 DEF SetOwner, MutexType
    <3>2. k # m
      BY <3>1 DEF InList
    <3> QED BY <3>1, <3>2 DEF SInv, FreeMutexHasNoSleeper
  <2> QED BY <1>3, <2>1, <2>2, <2>3 DEF SInv, threadVars, NoPanic
<1>5. CASE mutex[m].waiting # <<>>
  <2> DEFINE u == Head(mutex[m].waiting)
  <2>1. u \in Threads /\ InList(mutex[m].waiting, u)
    BY <1>2, <1>5, HeadInList
  <2>2. SetOwner(m, u) /\ sched' = scheduler_make_runnable(sched, u)
    BY <1>5 DEF mutex_release_and_wake_next_thread
  <2> HIDE DEF u
  <2>3. u # t
    BY <1>1, <2>1, Before DEF Queued
  <2>4. Good(sched', {}) /\ sched'.panic = sched.panic
        /\ sched'.state = [sched.state EXCEPT ![u] = "runnable"]
    <3>1. sched.state[u] \notin {"created", "dead"} /\ u \notin {}
      BY <2>1 DEF SInv
    <3> QED BY <1>2, <2>1, <2>2, <3>1, MakeRunnable
  <2>5. \A w \in Threads : sched'.state[w] = IF w = u THEN "runnable" ELSE sched.state[w]
    BY <1>2, <2>4
  <2>6. RunningIsCurrent'
    BY <1>1, <2>5 DEF SInv, CpuInv, RunningIsCurrent
  <2>7. CpuInv({})'
    BY <1>1, <1>2, <2>4, <2>6, ThreadGood DEF SInv
  <2>8. FreeMutexHasNoSleeper'
    <3> SUFFICES ASSUME NEW k \in Mutexes, mutex'[k].owner = NoOwner, NEW w \in Threads,
                        InList(mutex'[k].waiting, w)
                 PROVE  sched'.state[w] # "blocked"
      BY DEF FreeMutexHasNoSleeper
    <3>1. mutex'[m].owner = u /\ (k # m => mutex'[k] = mutex[k])
      BY <1>2, <2>2 DEF SetOwner, MutexType
    <3>2. k # m
      BY <2>1, <3>1
    <3> QED BY <2>5, <3>1, <3>2 DEF SInv, FreeMutexHasNoSleeper
  <2>9. /\ \A w \in Threads : sched'.state[w] \notin {"created", "dead"}
        /\ sched'.state[current'] = "running" /\ sched'.state[Idle] # "blocked" /\ NoPanic'
    BY <1>1, <1>2, <2>3, <2>4, <2>5 DEF SInv, NoPanic
  <2> QED BY <1>3, <2>7, <2>8, <2>9 DEF SInv
<1> QED
  BY <1>4, <1>5

(* Interrupts: no switch blocks or starts a thread. *)
LEMMA InterruptsGood ==
  ASSUME IInv, SInv, Arrival \/ Handler
  PROVE  SInv'
<1> USE MutexAssumption
<1>1. UNCHANGED <<mutex, pc>> /\ CpuInv({})
  BY DEF Arrival, Handler, mutexVars, SInv
<1>2. ASSUME UNCHANGED <<sched, current>>, CpuInv({})'
      PROVE  SInv'
  BY <1>1, <1>2 DEF SInv, NoPanic, FreeMutexHasNoSleeper
<1>3. CASE Arrival
  BY <1>1, <1>2, <1>3, InterruptGood DEF Arrival, Vectors
<1>4. CASE Handler /\ ~HandlerYield
  <2>1. HandlerStep /\ UNCHANGED <<sched, current>>
    BY <1>4 DEF Handler, HandlerStep, Vectors, TickLoad, TickStore, HandlerDone, HandlerLeave
  <2>2. \A v \in Vectors : Deferred[v] \notin {}
    OBVIOUS
  <2> QED BY <1>1, <1>2, <1>4, <2>1, <2>2, HandlerGood
<1>5. CASE HandlerYield
  <2>1. sched.runnable # <<>>
    <3>1. sched.state[Idle] \in {"running", "runnable"}
      BY Zenon DEF SInv, CpuInv, CpuTypeOK, SchedulerType, ThreadStates
    <3>2. InList(sched.runnable, Idle)
      BY <3>1 DEF SInv, CpuInv, Consistent
    <3> QED BY <3>2 DEF InList
  <2>2. /\ CpuInv({})' /\ sched'.panic = sched.panic
        /\ \A t \in Threads :
             sched'.state[t] = IF t = current' THEN "running"
                               ELSE IF t = current /\ sched.state[current] = "running" THEN "runnable"
                               ELSE sched.state[t]
    BY <1>1, <1>5, <2>1, HandlerYieldGood
  <2>3. current' \in Threads
    BY <2>2 DEF CpuInv, CpuTypeOK
  <2>4. FreeMutexHasNoSleeper'
    BY <1>1, <2>2 DEF SInv, FreeMutexHasNoSleeper
  <2>5. /\ \A t \in Threads : sched'.state[t] \notin {"created", "dead"}
        /\ sched'.state[current'] = "running" /\ sched'.state[Idle] # "blocked" /\ NoPanic'
    BY <2>2, <2>3 DEF SInv, NoPanic
  <2> QED BY <1>1, <2>2, <2>4, <2>5 DEF SInv
<1> QED
  BY <1>3, <1>4, <1>5

(* The scheduler's part of the invariant holds in every behaviour. *)
THEOREM SchedulerInvariance == Spec => []SInv
<1>1. Init => SInv
  BY InitScheduler
<1>2. IInv /\ SInv /\ [Next]_vars => SInv'
  <2> SUFFICES ASSUME IInv, SInv, [Next]_vars PROVE SInv'
    OBVIOUS
  <2>1. CASE UNCHANGED vars
    <3>1. UNCHANGED threadVars /\ UNCHANGED <<mutex, pc>>
      BY <2>1 DEF vars, threadVars
    <3> QED BY <3>1, QuietGood
  <2>2. ASSUME NEW t \in Threads, ThreadStep(t)
        PROVE  SInv'
    <3>1. PICK m \in Mutexes :
            \/ mutex_acquire(t, m) \/ mutex_add_observer(t, m)
            \/ scheduler_wait_object_acquire(t, m)
            \/ mutex_remove_observer(t, m) \/ AcquireReturns(t, m)
            \/ mutex_trylock(t, m)
            \/ mutex_release(t, m) \/ mutex_release_and_wake_next_thread(t, m)
      BY <2>2 DEF ThreadStep
    <3> QED BY <3>1, QuietStepsGood, BlockGood, HandOffGood
  <2>3. CASE Arrival \/ Handler
    BY <2>3, InterruptsGood
  <2> QED BY <2>1, <2>2, <2>3 DEF Next
<1> QED  BY <1>1, <1>2, MutexInvariance, PTL DEF Spec

(* mutex.c, scheduler.c: no assertion fails and the scheduler always finds *)
(* a thread to run, however the threads lock, sleep and are preempted.     *)
THEOREM MutexNeverPanics == Spec => []NoPanic
<1>1. SInv => NoPanic
  BY DEF SInv
<1> QED  BY <1>1, SchedulerInvariance, PTL

(* mutex_release_and_wake_next_thread: a mutex that is free has no         *)
(* sleeping waiter, so no waiter is left behind by a release.              *)
THEOREM FreeMutexNeverHasSleeper == Spec => []FreeMutexHasNoSleeper
<1>1. SInv => FreeMutexHasNoSleeper
  BY DEF SInv
<1> QED  BY <1>1, SchedulerInvariance, PTL

=============================================================================
