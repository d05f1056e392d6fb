--------------------------- MODULE ConsoleProofs ---------------------------
(***************************************************************************)
(* Proofs about Console, for every set of keys, every length of the text   *)
(* and whatever the data port holds at the start.                          *)
(*                                                                         *)
(* 1. The two sleepers, the reader in tty_wait_chars_available and the     *)
(*    keyboard thread.  Both block first and give the CPU away in a later  *)
(*    step, so that a wake-up may come in between.  The invariant says in  *)
(*    which steps a sleeper may be off the ready set, and that it does not *)
(*    run beyond the switch before it has been woken.                      *)
(* 2. The pipeline of a key: what the keyboard has sent and the driver has *)
(*    not decoded, so that the model's user and the driver agree about the *)
(*    modifiers and about the characters on their way.                     *)
(* 3. The line, which the two threads share without a lock: they take      *)
(*    turns, handed over by the block of the reader and the notification   *)
(*    of a newline, and the positions stay in order.                       *)
(* 4. The text: what has been typed and edited is in the line after the    *)
(*    characters on their way, and later in the reader's buffer.           *)
(*                                                                         *)
(* From 3 on the keyboard is used only while a reader waits; with          *)
(* type-ahead the two threads race at the line.                            *)
(***************************************************************************)
EXTENDS Console, TLAPS

----------------------------------------------------------------------------
(* Sequences. *)

(* An element of a sequence. *)
LEMMA Element ==
  ASSUME NEW E, NEW q \in Seq(E), NEW i \in 1 .. Len(q)
  PROVE  q[i] \in E
OBVIOUS

(* The length of a sequence, and the function that it is. *)
LEMMA LengthOf ==
  ASSUME NEW E, NEW q \in Seq(E)
  PROVE  Len(q) \in Nat /\ q \in [1 .. Len(q) -> E] /\ DOMAIN q = 1 .. Len(q)
OBVIOUS

(* A sequence over a set is one over any larger set. *)
LEMMA WiderSeq ==
  ASSUME NEW D, NEW E, D \subseteq E, NEW q \in Seq(D)
  PROVE  q \in Seq(E)
OBVIOUS

(* Only the empty sequence has no elements. *)
LEMMA NoElements ==
  ASSUME NEW E, NEW q \in Seq(E)
  PROVE  q = <<>> <=> Len(q) = 0
OBVIOUS

(* Sequences with the same elements are equal. *)
LEMMA SameElements ==
  ASSUME NEW E, NEW q \in Seq(E), NEW r \in Seq(E), Len(q) = Len(r),
         \A i \in 1 .. Len(q) : q[i] = r[i]
  PROVE  q = r
OBVIOUS

(* A sequence with one more element at its end. *)
LEMMA Appended ==
  ASSUME NEW E, NEW q \in Seq(E), NEW e \in E
  PROVE  /\ Append(q, e) \in Seq(E) /\ Append(q, e) # <<>>
         /\ Len(Append(q, e)) = Len(q) + 1 /\ Append(q, e)[Len(q) + 1] = e
         /\ \A i \in 1 .. Len(q) : Append(q, e)[i] = q[i]
OBVIOUS

(* The elements from the m-th to the n-th. *)
LEMMA Slice ==
  ASSUME NEW E, NEW q, NEW m \in Int, NEW n \in Int, \A i \in m .. n : q[i] \in E
  PROVE  /\ SubSeq(q, m, n) \in Seq(E)
         /\ Len(SubSeq(q, m, n)) = IF m <= n THEN n - m + 1 ELSE 0
         /\ \A i \in 1 .. n - m + 1 : SubSeq(q, m, n)[i] = q[m + i - 1]
OBVIOUS

(* A sequence that begins another. *)
LEMMA Prefix ==
  ASSUME NEW E, NEW q \in Seq(E), NEW r \in Seq(E), Len(q) <= Len(r),
         \A i \in 1 .. Len(q) : r[i] = q[i]
  PROVE  q = SubSeq(r, 1, Len(q))
OBVIOUS

(* The steps in which the reader is on the list of observers. *)
Observing == {"block", "yield", "again", "forget"}

(* A sleeper has blocked and not yet switched, or has switched and not yet *)
(* come back.                                                              *)
Asleep(t, next) == pc[t] = "yield" \/ (pc[t] = next /\ current # t)

AppInv ==
  /\ App \in observers <=> pc[App] \in Observing
  /\ App \notin ready => Asleep(App, "again")

KbdInv ==
  /\ pc[Kbd] = "flush" => out = <<>> /\ unmasked = FALSE /\ port \in Leftover
  /\ Kbd \notin ready => Asleep(Kbd, "mask")
  /\ pc[Kbd] = "yield" /\ Kbd \in ready => out # <<>>
  /\ pc[Kbd] \in {"mask", "read"} /\ Kbd \in ready => out # <<>> \/ port \in Leftover

PcIsFunction == pc \in [Threads -> Labels]

(* The threads are different and all there are. *)
LEMMA Who ==
  /\ App \in Threads /\ Kbd \in Threads /\ App # Kbd
BY ConsoleAssumption

----------------------------------------------------------------------------
(* What the steps of others do to a sleeper. *)

(* The CPU stays where it is or goes to a ready thread. *)
Dispatched == current' = current \/ (current' \in ready /\ ready' = ready)

(* A step that leaves the reader and the list alone. *)
LEMMA AppUndisturbed ==
  ASSUME AppInv, Dispatched, pc'[App] = pc[App], observers' = observers,
         App \in ready => App \in ready'
  PROVE  AppInv'
BY DEF AppInv, Asleep, Dispatched

(* A step that leaves the keyboard thread and the device alone. *)
LEMMA KbdUndisturbed ==
  ASSUME KbdInv, Dispatched, pc'[Kbd] = pc[Kbd], UNCHANGED <<out, port, unmasked>>,
         Kbd \in ready <=> Kbd \in ready'
  PROVE  KbdInv'
BY DEF KbdInv, Asleep, Dispatched

(* A step of one thread does not move the other. *)
LEMMA PcOfOther ==
  ASSUME PcIsFunction, NEW t \in Threads, NEW u \in Threads, t # u,
         NEW label \in Labels, GoTo(t, label)
  PROVE  PcIsFunction' /\ pc'[t] = label /\ pc'[u] = pc[u]
BY DEF PcIsFunction, GoTo

----------------------------------------------------------------------------
(* The keyboard thread. *)
LEMMA KbdStepGood ==
  ASSUME PcIsFunction, AppInv, KbdStep
  PROVE  PcIsFunction' /\ AppInv'
<1>1. ASSUME UNCHANGED cpu, UNCHANGED observers, pc' = pc \/ \E l \in Labels : GoTo(Kbd, l)
      PROVE  PcIsFunction' /\ AppInv'
  <2>1. PcIsFunction' /\ pc'[App] = pc[App]
    BY <1>1, PcOfOther, Who DEF PcIsFunction
  <2> QED  BY <1>1, <2>1, AppUndisturbed DEF Dispatched, cpu
<1>2. CASE ps2_flush_output_buffer
  <2>1. "mask" \in Labels
    BY DEF Labels
  <2> QED  BY <1>1, <1>2, <2>1 DEF ps2_flush_output_buffer, ttyVars
<1>3. CASE hal_mask_irq \/ ReadScancode \/ ps2_can_read_data
  BY <1>1, <1>3, Zenon DEF hal_mask_irq, ReadScancode, ps2_can_read_data, ttyVars, Labels
<1>4. CASE ps2_kbd_handle_scancode
  BY <1>1, <1>4 DEF ps2_kbd_handle_scancode, ttyVars, Labels
<1>5. CASE EraseTest \/ EraseChar \/ CountChar
  BY <1>1, <1>5 DEF EraseTest, EraseChar, CountChar, ttyUnchanged, ttyVars, Labels
<1>6. CASE StoreChar
  BY <1>1, <1>6 DEF StoreChar, ttyUnchanged, ttyVars, Labels
<1>7. CASE CompactMove \/ CompactLength \/ CompactWritePos \/ CompactReadPos
  BY <1>1, <1>7 DEF CompactMove, CompactLength, CompactWritePos, CompactReadPos, ttyUnchanged, Labels
<1>8. CASE KbdBlock
  <2>1. GoTo(Kbd, "yield") /\ "yield" \in Labels /\ Block /\ current = Kbd /\ observers' = observers
    BY <1>8 DEF KbdBlock, At, Labels, ttyVars
  <2>2. PcIsFunction' /\ pc'[App] = pc[App]
    BY <2>1, PcOfOther, Who
  <2> QED  BY <2>1, <2>2, AppUndisturbed, Who DEF Block, Dispatched
<1>9. CASE KbdYield
  <2>1. GoTo(Kbd, "mask") /\ "mask" \in Labels /\ Yield /\ observers' = observers
    BY <1>9 DEF KbdYield, Labels, ttyVars
  <2>2. PcIsFunction' /\ pc'[App] = pc[App]
    BY <2>1, PcOfOther, Who
  <2> QED  BY <2>1, <2>2, AppUndisturbed DEF Yield, Dispatched
<1>10. CASE tty_notify_chars_available
  <2>1. /\ GoTo(Kbd, "more") /\ "more" \in Labels /\ observers' = observers
        /\ current' = current /\ (App \in ready => App \in ready')
    BY <1>10 DEF tty_notify_chars_available, Labels, ttyVars, Wake, cpu
  <2>2. PcIsFunction' /\ pc'[App] = pc[App]
    BY <2>1, PcOfOther, Who
  <2> QED  BY <2>1, <2>2, AppUndisturbed DEF Dispatched
<1> QED  BY <1>2, <1>3, <1>4, <1>5, <1>6, <1>7, <1>8, <1>9, <1>10 DEF KbdStep

(* Its own sleep: what it does before it blocks leaves it ready, and when  *)
(* it comes back there is a byte.                                          *)
LEMMA KbdStepKbd ==
  ASSUME PcIsFunction, KbdInv, KbdStep
  PROVE  KbdInv'
<1>1. current = Kbd
  BY Zenon DEF KbdStep, At, ps2_flush_output_buffer, hal_mask_irq, ReadScancode,
         ps2_kbd_handle_scancode, ps2_can_read_data, KbdBlock, KbdYield, EraseTest, EraseChar,
         StoreChar, CountChar, CompactMove, CompactLength, CompactWritePos, CompactReadPos,
         tty_notify_chars_available
<1>2. ASSUME NEW l \in Labels, GoTo(Kbd, l)
      PROVE  pc'[Kbd] = l
  BY <1>2, PcOfOther, Who
<1>3. ASSUME NEW l \in Labels \ {"flush", "yield", "mask", "read"}, GoTo(Kbd, l),
             UNCHANGED cpu, pc[Kbd] # "yield"
      PROVE  KbdInv'
  <2>1. pc'[Kbd] = l
    BY <1>2, <1>3
  <2>2. Kbd \in ready'
    BY <1>1, <1>3 DEF KbdInv, Asleep, cpu
  <2> QED  BY <1>3, <2>1, <2>2 DEF KbdInv, Asleep
<1>4. CASE ps2_flush_output_buffer
  <2>1. pc[Kbd] = "flush" /\ out = <<>>
    BY <1>4 DEF ps2_flush_output_buffer, At, KbdInv
  <2>2. pc'[Kbd] = "mask" /\ UNCHANGED <<ready, port, out>>
    BY <1>2, <1>4, <2>1 DEF ps2_flush_output_buffer, cpu, Labels
  <2> QED  BY <1>1, <2>1, <2>2 DEF KbdInv, Asleep
<1>5. CASE hal_mask_irq
  <2>1. pc[Kbd] = "mask" /\ pc'[Kbd] = "read" /\ UNCHANGED <<ready, port, out>>
    BY <1>2, <1>5 DEF hal_mask_irq, At, cpu, Labels
  <2> QED  BY <1>1, <2>1 DEF KbdInv, Asleep
<1>6. CASE ReadScancode
  <2>1. /\ pc[Kbd] = "read" /\ UNCHANGED cpu
        /\ \E l \in {"key", "more"} : GoTo(Kbd, l)
    BY <1>6 DEF ReadScancode, At
  <2> QED  BY <1>3, <2>1 DEF Labels
<1>7. CASE ps2_kbd_handle_scancode
  <2>1. /\ pc[Kbd] = "key" /\ UNCHANGED cpu
        /\ \E l \in {"more", "erase", "store"} : GoTo(Kbd, l)
    BY <1>7 DEF ps2_kbd_handle_scancode, At
  <2> QED  BY <1>3, <2>1 DEF Labels
<1>8. CASE ps2_can_read_data
  <2>1. pc[Kbd] = "more" /\ UNCHANGED <<ready, current, port, out>>
    BY <1>8 DEF ps2_can_read_data, At, cpu, deviceVars
  <2>2. CASE out # <<>>
    <3>1. pc'[Kbd] = "read"
      BY <1>2, <1>8, <2>2 DEF ps2_can_read_data, Labels
    <3> QED  BY <1>1, <2>1, <2>2, <3>1 DEF KbdInv, Asleep
  <2>3. CASE out = <<>>
    <3>1. "block" \in Labels \ {"flush", "yield", "mask", "read"} /\ GoTo(Kbd, "block")
          /\ UNCHANGED cpu
      BY <1>8, <2>3 DEF ps2_can_read_data, Labels
    <3> QED  BY <1>3, <2>1, <3>1
  <2> QED  BY <2>2, <2>3
<1>9. CASE KbdBlock
  <2>1. pc'[Kbd] = "yield" /\ Kbd \notin ready'
    BY <1>1, <1>2, <1>9 DEF KbdBlock, Block, Labels
  <2> QED  BY <2>1 DEF KbdInv, Asleep
<1>10. CASE KbdYield
  <2>1. /\ pc[Kbd] = "yield" /\ pc'[Kbd] = "mask"
        /\ current' \in ready /\ UNCHANGED <<ready, out, port>>
    BY <1>2, <1>10 DEF KbdYield, At, Yield, Labels
  <2> QED  BY <2>1 DEF KbdInv, Asleep
<1>11. CASE EraseTest \/ EraseChar \/ CountChar
  <2>1. /\ pc[Kbd] \in {"erase", "shrink", "grow"} /\ UNCHANGED cpu
        /\ \E l \in {"shrink", "more", "move"} : GoTo(Kbd, l)
    BY <1>11 DEF EraseTest, EraseChar, CountChar, At, ttyUnchanged
  <2> QED  BY <1>3, <2>1 DEF Labels
<1>12. CASE StoreChar
  <2>1. /\ pc[Kbd] = "store" /\ UNCHANGED cpu
        /\ \E l \in {"grow", "more"} : GoTo(Kbd, l)
    BY <1>12 DEF StoreChar, At, ttyUnchanged
  <2> QED  BY <1>3, <2>1 DEF Labels
<1>13. CASE CompactMove \/ CompactLength \/ CompactWritePos \/ CompactReadPos
  <2>1. /\ pc[Kbd] \in {"move", "shorten", "rewind", "reset"} /\ UNCHANGED cpu
        /\ \E l \in {"shorten", "rewind", "reset", "notify"} : GoTo(Kbd, l)
    BY <1>13 DEF CompactMove, CompactLength, CompactWritePos, CompactReadPos, At, ttyUnchanged
  <2> QED  BY <1>3, <2>1 DEF Labels
<1>14. CASE tty_notify_chars_available
  <2>1. pc[Kbd] = "notify" /\ pc'[Kbd] = "more" /\ (Kbd \in ready => Kbd \in ready')
    BY <1>2, <1>14 DEF tty_notify_chars_available, At, Wake, cpu, Labels
  <2> QED  BY <2>1 DEF KbdInv, Asleep
<1> QED  BY <1>4, <1>5, <1>6, <1>7, <1>8, <1>9, <1>10, <1>11, <1>12, <1>13, <1>14 DEF KbdStep

----------------------------------------------------------------------------
(* The reader. *)
LEMMA AppStepGood ==
  ASSUME PcIsFunction, AppInv, AppStep
  PROVE  PcIsFunction' /\ AppInv'
<1>1. current = App
  BY DEF AppStep, At, WaitTest, tty_observer_new, WaitBlock, WaitYield, WaitAgain,
         tty_observer_delete, GetTest, GetChar, LoadReadPos, StoreReadPos, GetsReturns
<1>2. ASSUME NEW l \in Labels, GoTo(App, l)
      PROVE  PcIsFunction' /\ pc'[App] = l
  BY <1>2, PcOfOther, Who
<1>3. ASSUME NEW l \in Labels, GoTo(App, l), UNCHANGED <<cpu, observers>>,
             pc[App] # "yield", pc[App] \in Observing <=> l \in Observing
      PROVE  PcIsFunction' /\ AppInv'
  <2>1. PcIsFunction' /\ pc'[App] = l
    BY <1>2, <1>3
  <2>2. App \in ready'
    BY <1>1, <1>3 DEF AppInv, Asleep, cpu
  <2> QED  BY <1>3, <2>1, <2>2 DEF AppInv, Asleep
<1>4. CASE WaitTest \/ GetTest \/ GetChar \/ LoadReadPos
  <2>1. /\ pc[App] \in {"wait", "check", "get", "load"} /\ UNCHANGED <<cpu, observers>>
        /\ \E l \in {"check", "observe", "get", "wait", "load", "inc"} : GoTo(App, l)
    BY <1>4 DEF WaitTest, GetTest, GetChar, LoadReadPos, At, ttyVars
  <2> QED  BY <1>3, <2>1 DEF Labels, Observing
<1>5. CASE StoreReadPos \/ GetsReturns
  <2>1. /\ pc[App] \in {"inc", "return"} /\ UNCHANGED <<cpu, observers>>
        /\ \E l \in {"return", "wait"} : GoTo(App, l)
    BY <1>5 DEF StoreReadPos, GetsReturns, At, ttyVars
  <2> QED  BY <1>3, <2>1 DEF Labels, Observing
<1>6. CASE WaitAgain
  <2>1. /\ pc[App] = "again" /\ UNCHANGED <<cpu, observers>>
        /\ \E l \in {"forget", "block"} : GoTo(App, l)
    BY <1>6 DEF WaitAgain, At, ttyVars
  <2> QED  BY <1>3, <2>1 DEF Labels, Observing
<1>7. CASE tty_observer_new
  <2>1. /\ pc[App] = "observe" /\ PcIsFunction' /\ pc'[App] = "block"
        /\ observers' = observers \cup {App} /\ UNCHANGED <<current, ready>>
    BY <1>2, <1>7 DEF tty_observer_new, At, Labels, cpu
  <2> QED  BY <2>1 DEF AppInv, Asleep, Observing
<1>8. CASE WaitBlock
  <2>1. /\ pc[App] = "block" /\ PcIsFunction' /\ pc'[App] = "yield" /\ observers' = observers
    BY <1>2, <1>8 DEF WaitBlock, At, Labels, ttyVars
  <2> QED  BY <2>1 DEF AppInv, Asleep, Observing
<1>9. CASE WaitYield
  <2>1. /\ pc[App] = "yield" /\ PcIsFunction' /\ pc'[App] = "again" /\ observers' = observers
        /\ current' \in ready /\ ready' = ready
    BY <1>2, <1>9 DEF WaitYield, At, Labels, ttyVars, Yield
  <2> QED  BY <2>1 DEF AppInv, Asleep, Observing
<1>10. CASE tty_observer_delete
  <2>1. /\ pc[App] = "forget" /\ PcIsFunction' /\ pc'[App] = "check"
        /\ observers' = observers \ {App} /\ UNCHANGED <<current, ready>>
    BY <1>2, <1>10 DEF tty_observer_delete, At, Labels, cpu
  <2> QED  BY <2>1 DEF AppInv, Asleep, Observing
<1> QED  BY <1>4, <1>5, <1>6, <1>7, <1>8, <1>9, <1>10 DEF AppStep

(* The reader does not disturb the keyboard thread. *)
LEMMA AppStepKbd ==
  ASSUME PcIsFunction, KbdInv, AppStep
  PROVE  KbdInv'
<1>1. UNCHANGED <<out, port, unmasked>>
  BY DEF AppStep, WaitTest, tty_observer_new, WaitBlock, WaitYield, WaitAgain,
         tty_observer_delete, GetTest, GetChar, LoadReadPos, StoreReadPos, GetsReturns,
         appUnchanged, deviceVars
<1>2. \E l \in Labels : GoTo(App, l)
  BY DEF AppStep, WaitTest, tty_observer_new, WaitBlock, WaitYield, WaitAgain,
         tty_observer_delete, GetTest, GetChar, LoadReadPos, StoreReadPos, GetsReturns, Labels
<1>3. Dispatched /\ (Kbd \in ready <=> Kbd \in ready')
  BY Who DEF AppStep, WaitTest, tty_observer_new, WaitBlock, WaitYield, WaitAgain,
             tty_observer_delete, GetTest, GetChar, LoadReadPos, StoreReadPos, GetsReturns,
             Dispatched, Yield, Block, At, cpu
<1>4. pc'[Kbd] = pc[Kbd]
  BY <1>2, PcOfOther, Who
<1> QED  BY <1>1, <1>3, <1>4, KbdUndisturbed

----------------------------------------------------------------------------
(* The keyboard and the end of an interrupt. *)
LEMMA ByteGood ==
  ASSUME AppInv, PcIsFunction, NEW b \in Bytes, ByteArrives(b)
  PROVE  PcIsFunction' /\ AppInv'
<1>1. /\ pc' = pc /\ observers' = observers /\ current' = current
      /\ App \in ready => App \in ready'
  BY DEF ByteArrives, Wake, cpu, ttyVars
<1> QED  BY <1>1, AppUndisturbed DEF Dispatched, PcIsFunction

(* A byte wakes the keyboard thread; during the flush none can arrive. *)
LEMMA ByteKbd ==
  ASSUME ~TypeAhead, KbdInv, NEW b \in Bytes, ByteArrives(b)
  PROVE  KbdInv'
<1>1. /\ pc' = pc /\ current' = current /\ out' = <<b>> /\ unmasked
      /\ ready' = ready \cup {Kbd}
  BY DEF ByteArrives, Wake, cpu
<1>2. out' # <<>>
  BY <1>1
<1> QED  BY <1>1, <1>2 DEF KbdInv, Asleep

(* A preemption gives the CPU to a ready thread, and changes nothing else. *)
LEMMA PreemptGood ==
  ASSUME PcIsFunction, AppInv, NEW t \in Threads, Preempt(t)
  PROVE  PcIsFunction' /\ AppInv'
<1>1. pc' = pc /\ observers' = observers /\ current' \in ready /\ ready' = ready
  BY DEF Preempt, Yield, consoleVars, ttyVars
<1> QED  BY <1>1, AppUndisturbed DEF Dispatched, PcIsFunction

(* So it does not disturb the keyboard thread either. *)
LEMMA PreemptKbd ==
  ASSUME KbdInv, NEW t \in Threads, Preempt(t)
  PROVE  KbdInv'
<1>1. /\ pc' = pc /\ UNCHANGED <<out, port, unmasked>>
      /\ current' \in ready /\ ready' = ready
  BY DEF Preempt, Yield, consoleVars, deviceVars
<1> QED  BY <1>1, KbdUndisturbed DEF Dispatched

----------------------------------------------------------------------------
(* The initial state of the reader. *)
LEMMA InitApp ==
  ASSUME Init
  PROVE  PcIsFunction /\ AppInv
<1>1. PcIsFunction /\ pc[App] = "wait"
  BY ConsoleAssumption DEF Init, PcIsFunction, Labels
<1> QED  BY <1>1, Who DEF Init, AppInv, Observing

(* The initial state of the keyboard thread. *)
LEMMA InitKbd ==
  ASSUME Init
  PROVE  KbdInv
<1>1. pc[Kbd] = "flush"
  BY ConsoleAssumption DEF Init
<1> QED  BY <1>1, Who DEF Init, KbdInv

(* Stuttering steps. *)
LEMMA StutterApp ==
  ASSUME PcIsFunction, AppInv, UNCHANGED vars
  PROVE  PcIsFunction' /\ AppInv'
BY DEF vars, PcIsFunction, AppInv, Asleep

(* Stuttering steps. *)
LEMMA StutterKbd ==
  ASSUME KbdInv, UNCHANGED vars
  PROVE  KbdInv'
BY DEF vars, KbdInv, Asleep

(* The reader's part of the invariant holds in every behaviour. *)
LEMMA AppAlways == Spec => [](PcIsFunction /\ AppInv)
<1>1. Init => PcIsFunction /\ AppInv
  BY InitApp
<1>2. (PcIsFunction /\ AppInv) /\ [Next]_vars => (PcIsFunction /\ AppInv)'
  BY KbdStepGood, AppStepGood, ByteGood, PreemptGood, StutterApp DEF Next
<1> QED  BY <1>1, <1>2, PTL DEF Spec

(* A reader that is off the ready set is on the list of observers, and one *)
(* that is on the list is inside its wait: tty_wait_chars_available takes  *)
(* no lock, and still the next newline finds the thread it has to wake.    *)
THEOREM SleeperAlwaysObserves == Spec => []SleeperObserves
<1>1. PcIsFunction /\ AppInv => SleeperObserves
  BY DEF AppInv, Asleep, Observing, SleeperObserves
<1> QED  BY <1>1, AppAlways, PTL

(* So does the keyboard thread's. *)
LEMMA KbdAlways ==
  ASSUME ~TypeAhead
  PROVE  Spec => []KbdInv
<1>1. Init => KbdInv
  BY InitKbd
<1>2. KbdInv /\ (PcIsFunction /\ AppInv) /\ [Next]_vars => KbdInv'
  BY KbdStepKbd, AppStepKbd, ByteKbd, PreemptKbd, StutterKbd DEF Next
<1> QED  BY <1>1, <1>2, AppAlways, PTL DEF Spec

(* What the invariant says of the data port. *)
LEMMA NothingStale == KbdInv => NoStaleRead
BY DEF KbdInv, Asleep, NoStaleRead

(* Unless keys are pressed before its thread is ready for them, the        *)
(* keyboard thread takes no byte from the data port twice: what it reads   *)
(* there without a byte in the buffer is what ps2_init has left.           *)
THEOREM NeverReadsTwice ==
  ASSUME ~TypeAhead
  PROVE  Spec => []NoStaleRead
BY KbdAlways, NothingStale, PTL

----------------------------------------------------------------------------
(* From the keyboard to the line.  A key on its way is in the controller's *)
(* buffer (behind the prefix bytes before it), in the scancode the thread  *)
(* decodes, or a character the thread puts into the line.  So there are at *)
(* most two characters between what the user has typed and the line:       *)
(* FirstChar and then SecondChar.                                          *)

(* What ps2_init leaves in the data port is the answer to a command, and   *)
(* neither a key nor a prefix.                                             *)
LeftoverIsMute == Leftover \cap (Bytes \cup Modifiers \cup Chars) = {}

PrefixCodes == {<<>>, <<"e0">>, <<"f0">>, <<"e0", "f0">>}

Release(w) == "f0" \in Range(w)
Extends(w) == "e0" \in Range(w)

DownIn(m, key) == \E e0 \in BOOLEAN : <<key, e0>> \in m

(* The character a key stands for behind the prefix w, and the modifiers   *)
(* after it, for a user who holds m.                                       *)
CharOf(m, w, key) ==
  IF Release(w) \/ DownIn(m, "ctrl") \/ DownIn(m, "alt") THEN NoChar
  ELSE scancodes_set_2(key, DownIn(m, "shift"))

ModsAfter(m, w, key) ==
  IF ~Release(w) /\ key \in Modifiers THEN m \cup {<<key, Extends(w)>>}
                                      ELSE m \ {<<key, Extends(w)>>}

(* The modifiers and the prefix once the scancode is decoded. *)
Decoding == pc[Kbd] = "key"
ModsDecoded == IF Decoding THEN ModsAfter(mods, Front(scancode), Last(scancode)) ELSE mods
PrefixLeft == IF Decoding THEN <<>> ELSE scancode

KeyWaits == out # <<>> /\ out[1] \in Keys

Code(w, key) == w \in PrefixCodes /\ (Extends(w) => key \in Extended)

(* The user's side and the thread's differ by the keys on their way. *)
SentInv ==
  /\ IF Decoding
       THEN \E w \in PrefixCodes, key \in Keys \cup Leftover :
              scancode = Append(w, key) /\ Code(w, key)
       ELSE scancode \in PrefixCodes
  /\ out # <<>> => IF out[1] \in Keys THEN Code(PrefixLeft, out[1])
                                      ELSE Append(PrefixLeft, out[1]) \in PrefixCodes
  /\ wire = IF out = <<>> THEN PrefixLeft ELSE IF KeyWaits THEN <<>> ELSE Append(PrefixLeft, out[1])
  /\ held = IF KeyWaits THEN ModsAfter(ModsDecoded, PrefixLeft, out[1]) ELSE ModsDecoded
  /\ port \in Leftover => scancode = IF Decoding THEN <<port>> ELSE <<>>

FirstChar ==
  IF Decoding THEN CharOf(mods, Front(scancode), Last(scancode))
  ELSE IF pc[Kbd] \in {"store", "grow", "erase", "shrink"} THEN char ELSE NoChar

SecondChar == IF KeyWaits THEN CharOf(ModsDecoded, PrefixLeft, out[1]) ELSE NoChar

(* The last element of a sequence and those before it. *)
LEMMA AppendParts ==
  ASSUME NEW S, NEW s \in Seq(S), NEW x \in S
  PROVE  /\ Append(s, x) \in Seq(S) /\ Append(s, x) # <<>>
         /\ Front(Append(s, x)) = s /\ Last(Append(s, x)) = x
         /\ Range(Append(s, x)) = Range(s) \cup {x}
<1> DEFINE a == Append(s, x)
<1>1. /\ a \in Seq(S) /\ a # <<>> /\ Len(a) = Len(s) + 1 /\ Len(s) \in Nat
      /\ \A i \in 1 .. Len(s) : a[i] = s[i] /\ s[i] \in S
      /\ a[Len(s) + 1] = x
  BY Appended, Element, LengthOf
<1> HIDE DEF a
<1>2. Front(a) = s
  <2>1. /\ Front(a) \in Seq(S) /\ Len(Front(a)) = Len(s)
        /\ \A i \in 1 .. Len(s) : Front(a)[i] = a[i]
    <3>1. \A i \in 1 .. Len(s) : a[i] \in S
      BY <1>1
    <3>2. Front(a) = SubSeq(a, 1, Len(s))
      BY <1>1 DEF Front
    <3> QED BY <1>1, <3>1, <3>2, Slice
  <2> QED BY <1>1, <2>1, SameElements
<1>3. Range(a) = Range(s) \cup {x}
  <2>1. DOMAIN a = 1 .. Len(s) + 1 /\ DOMAIN s = 1 .. Len(s)
    BY <1>1, LengthOf
  <2>2. ASSUME NEW e \in Range(a) PROVE e \in Range(s) \cup {x}
    <3>1. PICK i \in 1 .. Len(s) + 1 : e = a[i]
      BY <2>1, <2>2 DEF Range
    <3>2. i = Len(s) + 1 \/ i \in 1 .. Len(s)
      BY <1>1
    <3> QED BY <1>1, <2>1, <3>1, <3>2 DEF Range
  <2>3. ASSUME NEW i \in 1 .. Len(s) PROVE s[i] \in Range(a)
    <3>1. i \in DOMAIN a /\ s[i] = a[i]
      BY <1>1, <2>1
    <3> QED BY <3>1 DEF Range
  <2>4. x \in Range(a)
    <3>1. Len(s) + 1 \in DOMAIN a
      BY <1>1, <2>1
    <3> QED BY <1>1, <3>1 DEF Range
  <2>5. \A e \in Range(s) : e \in Range(a)
    BY <2>1, <2>3 DEF Range
  <2> QED BY <2>2, <2>4, <2>5
<1> QED BY <1>1, <1>2, <1>3 DEF Last, a

(* A prefix and the key behind it make up a complete scancode. *)
LEMMA CodeComplete ==
  ASSUME NEW w \in PrefixCodes, NEW key, key \notin {"e0", "f0"}
  PROVE  /\ Append(w, key) # <<>> /\ Front(Append(w, key)) = w /\ Last(Append(w, key)) = key
         /\ ps2_kbd_scancode_complete(Append(w, key))
         /\ Append(w, key)[1] = "e0" <=> Extends(w)
         /\ "f0" \in Range(Append(w, key)) <=> Release(w)
<1> DEFINE s == Append(w, key)
           S == {"e0", "f0", key}
<1>1. w \in Seq(S) /\ key \in S
  <2>1. <<>> \in Seq(S) /\ <<"e0">> \in Seq(S) /\ <<"f0">> \in Seq(S)
    OBVIOUS
  <2>2. <<"e0", "f0">> \in Seq(S)
    OBVIOUS
  <2> QED BY <2>1, <2>2, Zenon DEF PrefixCodes
<1>2. /\ s # <<>> /\ Front(s) = w /\ Last(s) = key /\ Range(s) = Range(w) \cup {key}
      /\ Len(s) = Len(w) + 1 /\ \A i \in 1 .. Len(w) : s[i] = w[i]
      /\ s[Len(w) + 1] = key
  BY <1>1, AppendParts, Appended
<1> HIDE DEF s, S
<1>3. "f0" \in Range(s) <=> Release(w)
  BY <1>2 DEF Release
<1>4. ps2_kbd_scancode_complete(s) /\ (s[1] = "e0" <=> Extends(w))
  <2>1. CASE w = <<>>
    BY <1>2, <2>1 DEF ps2_kbd_scancode_complete, Extends, Range
  <2>2. ASSUME NEW p \in {"e0", "f0"}, w = <<p>>
        PROVE  ps2_kbd_scancode_complete(s) /\ (s[1] = "e0" <=> Extends(w))
    <3>1. Len(s) = 2 /\ s[1] = p /\ s[2] = key
      BY <1>2, <2>2
    <3>2. s # <<"e0", "f0">>
      BY <3>1
    <3>3. Range(w) = {p}
      BY <2>2 DEF Range
    <3> QED BY <3>1, <3>2, <3>3 DEF ps2_kbd_scancode_complete, Extends
  <2>3. CASE w = <<"e0", "f0">>
    <3>1. Len(s) = 3 /\ s[1] = "e0"
      BY <1>2, <2>3
    <3>2. s # <<"e0", "f0">>
      BY <3>1
    <3>3. w[1] \in Range(w) /\ w[1] = "e0"
      BY <2>3 DEF Range
    <3> QED BY <3>1, <3>2, <3>3 DEF ps2_kbd_scancode_complete, Extends
  <2> QED BY <2>1, <2>2, <2>3 DEF PrefixCodes
<1> QED BY <1>2, <1>3, <1>4 DEF s

(* The prefix bytes alone do not. *)
LEMMA PrefixIncomplete ==
  ASSUME NEW w \in PrefixCodes, NEW b \in {"e0", "f0"}, Append(w, b) \in PrefixCodes
  PROVE  ~ps2_kbd_scancode_complete(Append(w, b))
<1> DEFINE s == Append(w, b)
<1>1. s # <<>>
  BY Appended DEF PrefixCodes
<1>2. s = <<"e0">> \/ s = <<"f0">> \/ s = <<"e0", "f0">>
  BY <1>1 DEF PrefixCodes
<1> HIDE DEF s
<1>3. CASE s = <<"e0">> \/ s = <<"f0">>
  <2>1. Len(s) = 1 /\ s[1] \in {"e0", "f0"}
    BY <1>3
  <2> QED BY <2>1 DEF ps2_kbd_scancode_complete, s
<1>4. CASE s = <<"e0", "f0">>
  <2>1. Len(s) # 1
    BY <1>4
  <2> QED BY <1>4, <2>1 DEF ps2_kbd_scancode_complete, s
<1> QED BY <1>2, <1>3, <1>4

(* No prefix, no release. *)
LEMMA NoPrefix == <<>> \in PrefixCodes /\ ~Release(<<>>) /\ ~Extends(<<>>)
BY DEF PrefixCodes, Release, Extends, Range

(* A text after a character, if there is one. *)
Typed(text, c) == IF c = NoChar THEN text ELSE Edit(text, c)

(* A byte arrives: it is the second character, and what the user sees.     *)
LEMMA ByteSent ==
  ASSUME ~TypeAhead, TypeOK, SentInv, NEW b \in Bytes, ByteArrives(b)
  PROVE  /\ SentInv' /\ SecondChar = NoChar /\ FirstChar' = FirstChar
         /\ SecondChar' # NoChar => prompt /\ MayType(SecondChar')
         /\ typed' = Typed(typed, SecondChar')
         /\ prompt' = (prompt /\ SecondChar' # Newline)
<1> DEFINE w == PrefixLeft
           m == ModsDecoded
           c == CharOf(m, w, b)
<1>1. /\ out = <<>> /\ out' = <<b>> /\ out'[1] = b /\ out' # <<>>
      /\ UNCHANGED <<port, scancode, mods, char, pc>>
  BY DEF ByteArrives, kbdVars
<1>2. /\ ~KeyWaits /\ SecondChar = NoChar /\ wire = w /\ held = m
      /\ UNCHANGED <<Decoding, PrefixLeft, ModsDecoded, FirstChar>>
  BY <1>1 DEF SentInv, KeyWaits, SecondChar, Decoding, PrefixLeft, ModsDecoded, FirstChar
<1>3. w \in PrefixCodes
  BY NoPrefix DEF SentInv, PrefixLeft
<1>a. /\ KeyWaits' <=> b \in Keys
      /\ SecondChar' = IF b \in Keys THEN c ELSE NoChar
  BY <1>1, <1>2 DEF KeyWaits, SecondChar
<1>b. ASSUME IF b \in Keys THEN Code(w, b) ELSE Append(w, b) \in PrefixCodes,
             wire' = IF b \in Keys THEN <<>> ELSE Append(w, b),
             held' = IF b \in Keys THEN ModsAfter(m, w, b) ELSE m
      PROVE  SentInv'
  <2> HIDE DEF m, w
  <2>1. w' = w /\ m' = m
    BY <1>2 DEF m, w
  <2>2. /\ IF Decoding'
             THEN \E x \in PrefixCodes, key \in Keys \cup Leftover :
                    scancode' = Append(x, key) /\ Code(x, key)
             ELSE scancode' \in PrefixCodes
        /\ port' \in Leftover => scancode' = IF Decoding' THEN <<port'>> ELSE <<>>
    BY <1>1, <1>2 DEF SentInv
  <2> QED BY <1>1, <1>a, <1>b, <2>1, <2>2 DEF SentInv, m, w
<1>4. CASE b \in Keys
  <2>1. KeyByte(b)
    BY <1>4 DEF ByteArrives
  <2> DEFINE d == scancodes_set_2(b, DownIn(m, "shift"))
             types == ~Release(w) /\ ~DownIn(m, "ctrl") /\ ~DownIn(m, "alt") /\ d # NoChar
  <2>2. /\ Extends(w) => b \in Extended
        /\ types => MayType(d)
        /\ wire' = <<>>
        /\ held' = ModsAfter(m, w, b)
        /\ typed' = IF types THEN Edit(typed, d) ELSE typed
        /\ prompt' = (prompt /\ ~(types /\ d = Newline))
    <3> HIDE DEF m, w
    <3>1. /\ Physical(b)[2] => b \in Extended
          /\ wire' = <<>>
          /\ held' = IF Pressed /\ b \in Modifiers THEN held \cup {Physical(b)}
                                                   ELSE held \ {Physical(b)}
      BY <2>1 DEF KeyByte
    <3>2. Physical(b) = <<b, Extends(w)>> /\ (Pressed <=> ~Release(w))
      BY <1>2 DEF Physical, Pressed, Extends, Release
    <3>3. Down("shift") = DownIn(m, "shift") /\ Down("ctrl") = DownIn(m, "ctrl") /\ Down("alt") = DownIn(m, "alt")
      BY <1>2 DEF Down, DownIn
    <3>4. /\ types => MayType(d)
          /\ typed' = IF types THEN Edit(typed, d) ELSE typed
          /\ prompt' = (prompt /\ ~(types /\ d = Newline))
      BY <2>1, <3>2, <3>3 DEF KeyByte
    <3> QED BY <1>2, <3>1, <3>2, <3>4 DEF ModsAfter
  <2>3. c = IF types THEN d ELSE NoChar
    BY DEF CharOf
  <2>4. MayType(d) => prompt
    BY DEF MayType
  <2>5. SentInv'
    BY <1>3, <1>4, <1>b, <2>2 DEF Code
  <2>6. Newline # NoChar /\ (types => d # NoChar)
    BY DEF Newline, NoChar
  <2> HIDE DEF c, d, types, m, w
  <2> QED BY <1>2, <1>4, <1>a, <2>2, <2>3, <2>4, <2>5, <2>6 DEF Typed
<1>5. CASE b \notin Keys
  <2>1. PrefixByte(b) /\ b \in {"e0", "f0"}
    BY <1>5 DEF ByteArrives, Bytes
  <2>2. wire' = Append(w, b) /\ UNCHANGED <<held, typed, prompt>>
    BY <1>2, <2>1 DEF PrefixByte
  <2>3. Append(w, b) \in PrefixCodes
    <3> HIDE DEF w
    <3>1. (w = <<>> /\ b \in {"e0", "f0"}) \/ (w = <<"e0">> /\ b = "f0")
      BY <1>2, <2>1 DEF PrefixByte
    <3>2. CASE w = <<>> /\ b \in {"e0", "f0"}
      <4>1. Append(w, b) = <<b>>
        BY <3>2
      <4> QED BY <3>2, <4>1 DEF PrefixCodes
    <3>3. CASE w = <<"e0">> /\ b = "f0"
      <4>1. Append(<<"e0">>, "f0") = <<"e0", "f0">>
        <5> DEFINE S == {"e0", "f0"}
                   x == Append(<<"e0">>, "f0")
                   y == <<"e0", "f0">>
        <5>1. x \in Seq(S) /\ Len(x) = 2 /\ x[1] = "e0" /\ x[2] = "f0"
          OBVIOUS
        <5>2. y \in Seq(S) /\ Len(y) = 2 /\ y[1] = "e0" /\ y[2] = "f0"
          OBVIOUS
        <5> HIDE DEF S, x, y
        <5>3. Len(x) = Len(y) /\ \A i \in 1 .. Len(x) : x[i] = y[i]
          BY <5>1, <5>2
        <5>4. x = y
          BY <5>1, <5>2, <5>3, SameElements
        <5> QED BY <5>4 DEF x, y
      <4> QED BY <3>3, <4>1 DEF PrefixCodes
    <3> QED BY <3>1, <3>2, <3>3
  <2>4. SentInv'
    BY <1>2, <1>5, <1>b, <2>2, <2>3
  <2>5. prompt' = (prompt /\ NoChar # Newline)
    BY <2>2 DEF TypeOK, Newline, NoChar
  <2> QED BY <1>2, <1>5, <1>a, <2>2, <2>4, <2>5 DEF Typed
<1> QED BY <1>4, <1>5

(* The thread reads a byte: the second character becomes the first.        *)
LEMMA ReadSent ==
  ASSUME LeftoverIsMute, TypeOK, NoStaleRead, SentInv, ReadScancode
  PROVE  /\ SentInv' /\ FirstChar = NoChar /\ FirstChar' = SecondChar /\ SecondChar' = NoChar
         /\ pc' = [pc EXCEPT ![Kbd] = "key"] \/ pc' = [pc EXCEPT ![Kbd] = "more"]
<1> USE Who
<1> DEFINE b == ps2_read_data
<1>1. /\ pc[Kbd] = "read" /\ port' = b /\ out' = <<>> /\ scancode' = Append(scancode, b)
      /\ GoTo(Kbd, IF ps2_kbd_scancode_complete(scancode') THEN "key" ELSE "more")
      /\ UNCHANGED <<mods, char, wire, held>>
  BY DEF ReadScancode, At, userVars
<1>2. ~Decoding /\ scancode \in PrefixCodes /\ PrefixLeft = scancode /\ ModsDecoded = mods
      /\ FirstChar = NoChar /\ ~KeyWaits' /\ SecondChar' = NoChar
  BY <1>1 DEF Decoding, SentInv, PrefixLeft, ModsDecoded, FirstChar, KeyWaits, SecondChar
<1>3. pc'[Kbd] = IF ps2_kbd_scancode_complete(scancode') THEN "key" ELSE "more"
  BY <1>1 DEF GoTo, TypeOK
<1>4. pc' = [pc EXCEPT ![Kbd] = "key"] \/ pc' = [pc EXCEPT ![Kbd] = "more"]
  BY <1>1, Zenon DEF GoTo
<1>5. ASSUME b \notin {"e0", "f0"}, b \in Keys \cup Leftover, Code(scancode, b), wire = <<>>,
             held = ModsAfter(mods, scancode, b), SecondChar = CharOf(mods, scancode, b),
             b \in Leftover => scancode = <<>>
      PROVE  SentInv' /\ FirstChar' = SecondChar
  <2> HIDE DEF b
  <2>1. /\ Front(scancode') = scancode /\ Last(scancode') = b
        /\ ps2_kbd_scancode_complete(scancode')
    BY <1>1, <1>2, <1>5, CodeComplete
  <2>2. Decoding' /\ pc'[Kbd] = "key"
    BY <1>3, <2>1 DEF Decoding
  <2>3. PrefixLeft' = <<>> /\ ModsDecoded' = held' /\ FirstChar' = SecondChar
    BY <1>1, <1>5, <2>1, <2>2 DEF PrefixLeft, ModsDecoded, FirstChar
  <2>4. \E w \in PrefixCodes, key \in Keys \cup Leftover :
           scancode' = Append(w, key) /\ Code(w, key)
    BY <1>1, <1>2, <1>5
  <2>5. port' \in Leftover => scancode' = <<port'>>
    BY <1>1, <1>5
  <2> QED BY <1>1, <1>2, <1>5, <2>2, <2>3, <2>4, <2>5, Zenon DEF SentInv
<1>6. CASE out = <<>>
  <2>1. b = port /\ port \in Leftover
    BY <1>1, <1>6 DEF ps2_read_data, NoStaleRead
  <2>2. port \notin {"e0", "f0"} /\ port \notin Modifiers /\ port \notin {"x", Newline, Backspace}
    BY <2>1 DEF LeftoverIsMute, Bytes, Chars
  <2>3. scancode = <<>> /\ wire = <<>> /\ held = mods /\ SecondChar = NoChar
    BY <1>2, <1>6, <2>1 DEF SentInv, KeyWaits, SecondChar
  <2>4. ModsAfter(mods, <<>>, port) = mods
    BY <2>2 DEF ModsAfter, TypeOK
  <2>5. CharOf(mods, <<>>, port) = NoChar
    BY <2>2 DEF CharOf, scancodes_set_2
  <2>6. Code(<<>>, port)
    BY NoPrefix DEF Code
  <2>7. SentInv' /\ FirstChar' = SecondChar
    BY <1>5, <2>1, <2>2, <2>3, <2>4, <2>5, <2>6
  <2> QED BY <1>2, <1>4, <2>7
<1>7. CASE out # <<>>
  <2>1. out[1] = b /\ b \in Bytes
    BY <1>7 DEF TypeOK, ps2_read_data
  <2>2. b \notin Leftover
    BY <2>1 DEF LeftoverIsMute
  <2> HIDE DEF b
  <2>3. CASE b \in Keys
    <3>1. KeyWaits /\ b \notin {"e0", "f0"}
      BY <1>7, <2>1, <2>3, ConsoleAssumption DEF KeyWaits
    <3>2. /\ Code(scancode, b) /\ wire = <<>> /\ held = ModsAfter(mods, scancode, b)
          /\ SecondChar = CharOf(mods, scancode, b)
      BY <1>2, <1>7, <2>1, <2>3, <3>1 DEF SentInv, SecondChar
    <3> QED BY <1>2, <1>4, <1>5, <2>2, <2>3, <3>1, <3>2
  <2>4. CASE b \notin Keys
    <3>1. b \in {"e0", "f0"} /\ ~KeyWaits /\ SecondChar = NoChar
      BY <2>1, <2>4 DEF KeyWaits, Bytes, SecondChar
    <3>2. scancode' \in PrefixCodes /\ wire = scancode' /\ held = mods
      BY <1>1, <1>2, <1>7, <2>1, <2>4, <3>1 DEF SentInv
    <3>3. ~ps2_kbd_scancode_complete(scancode')
      BY <1>1, <1>2, <3>1, <3>2, PrefixIncomplete
    <3>4. pc'[Kbd] = "more" /\ ~Decoding' /\ PrefixLeft' = scancode' /\ ModsDecoded' = mods
      BY <1>1, <1>3, <3>3 DEF Decoding, PrefixLeft, ModsDecoded
    <3>5. FirstChar' = NoChar
      BY <3>4 DEF FirstChar
    <3>6. SentInv'
      BY <1>1, <1>2, <2>2, <3>2, <3>4 DEF SentInv
    <3> QED BY <1>2, <1>4, <3>1, <3>5, <3>6
  <2> QED BY <2>3, <2>4
<1> QED BY <1>6, <1>7

(* The thread decodes a scancode: the characters stay where they are.      *)
LEMMA DecodeSent ==
  ASSUME LeftoverIsMute, TypeOK, SentInv, ps2_kbd_handle_scancode
  PROVE  /\ SentInv' /\ FirstChar' = FirstChar /\ SecondChar' = SecondChar
         /\ mods' \subseteq Modifiers \X BOOLEAN /\ char' = FirstChar /\ scancode' = <<>>
         /\ pc' = [pc EXCEPT ![Kbd] = IF FirstChar = NoChar THEN "more"
                                      ELSE IF FirstChar = Backspace THEN "erase" ELSE "store"]
         /\ FirstChar \in Chars \cup {NoChar}
<1> USE Who
<1>1. /\ pc[Kbd] = "key" /\ Decoding /\ scancode' = <<>>
      /\ UNCHANGED <<out, port, wire, held>>
  BY DEF ps2_kbd_handle_scancode, At, Decoding, deviceVars, userVars
<1>2. PICK w \in PrefixCodes, key \in Keys \cup Leftover : scancode = Append(w, key) /\ Code(w, key)
  BY <1>1 DEF SentInv
<1>3. key \notin {"e0", "f0"}
  BY ConsoleAssumption DEF LeftoverIsMute, Bytes
<1>4. /\ Front(scancode) = w /\ Last(scancode) = key
      /\ scancode[1] = "e0" <=> Extends(w)
      /\ "f0" \in Range(scancode) <=> Release(w)
  BY <1>2, <1>3, CodeComplete
<1>5. mods' = ModsAfter(mods, w, key)
  <2>1. mods' = CASE key \in Modifiers /\ ~Release(w) -> mods \cup {ModBit(key)}
                  [] key \in Modifiers /\ ~~Release(w) -> mods \ {ModBit(key)}
                  [] OTHER -> mods
    BY <1>4 DEF ps2_kbd_handle_scancode
  <2>2. CASE key \in Modifiers
    <3>1. ModBit(key) = <<key, Extends(w)>>
      <4>1. CASE key = "shift"
        <5>1. ~Extends(w)
          BY <1>2, <4>1 DEF Code, Extended
        <5>2. \A P \in BOOLEAN : ~P => P = FALSE
          OBVIOUS
        <5>3. Extends(w) \in BOOLEAN
          BY DEF Extends
        <5>4. Extends(w) = FALSE
          BY <5>1, <5>2, <5>3
        <5> HIDE DEF Extends
        <5> QED BY <4>1, <5>4, Zenon DEF ModBit
      <4>2. CASE key # "shift"
        BY <1>4, <4>2 DEF ModBit, Extends
      <4> QED BY <4>1, <4>2
    <3> QED BY <2>1, <2>2, <3>1 DEF ModsAfter
  <2>3. CASE key \notin Modifiers
    <3>1. <<key, Extends(w)>> \notin mods
      BY <2>3 DEF TypeOK
    <3> QED BY <2>1, <2>3, <3>1 DEF ModsAfter
  <2> QED BY <2>2, <2>3
<1>6. mods' \subseteq Modifiers \X BOOLEAN
  <2>1. Extends(w) \in BOOLEAN
    BY DEF Extends
  <2> QED BY <1>5, <2>1 DEF ModsAfter, TypeOK
<1>7. FirstChar = CharOf(mods, w, key)
  BY <1>1, <1>4 DEF FirstChar
<1> DEFINE c == scancodes_set_2(key, mod_pressed("shift"))
           types == key \notin Modifiers /\ c # NoChar /\ tty_send_key_event(~Release(w))
<1>8. /\ char' = IF types THEN c ELSE NoChar
      /\ GoTo(Kbd, CASE types /\ c = Backspace -> "erase" [] types /\ c # Backspace -> "store" [] OTHER -> "more")
  <2>1. ("f0" \notin Range(scancode)) = ~Release(w)
    BY <1>4, Zenon DEF Release
  <2> QED BY <1>4, <2>1 DEF ps2_kbd_handle_scancode
<1>9. CharOf(mods, w, key) = IF types THEN c ELSE NoChar
  <2>1. key \in Modifiers => \A s : scancodes_set_2(key, s) = NoChar
    BY DEF scancodes_set_2, Modifiers, Newline, Backspace
  <2>2. \A k \in {"shift", "ctrl", "alt"} : mod_pressed(k) = DownIn(mods, k)
    BY DEF mod_pressed, DownIn
  <2> QED BY <2>1, <2>2 DEF CharOf, tty_send_key_event
<1>10. c \in Chars \cup {NoChar}
  BY DEF scancodes_set_2, Chars
<1>a. Backspace # NoChar
  BY DEF Backspace, NoChar
<1> HIDE DEF c, types
<1>11. FirstChar \in Chars \cup {NoChar}
  BY <1>7, <1>9, <1>10
<1>12. pc' = [pc EXCEPT ![Kbd] = IF FirstChar = NoChar THEN "more"
                                 ELSE IF FirstChar = Backspace THEN "erase" ELSE "store"]
  <2>1. CASE types
    <3>1. c # NoChar
      BY <2>1 DEF types
    <3> QED BY <1>7, <1>8, <1>9, <2>1, <3>1, Zenon DEF GoTo
  <2>2. CASE ~types
    BY <1>7, <1>8, <1>9, <2>2 DEF GoTo
  <2> QED BY <2>1, <2>2
<1>13. pc'[Kbd] = IF FirstChar = NoChar THEN "more"
                  ELSE IF FirstChar = Backspace THEN "erase" ELSE "store"
  BY <1>12 DEF TypeOK
<1>14. ~Decoding' /\ FirstChar' = FirstChar
  BY <1>7, <1>8, <1>9, <1>13 DEF Decoding, FirstChar
<1>15. PrefixLeft' = PrefixLeft /\ ModsDecoded' = ModsDecoded /\ PrefixLeft = <<>>
  BY <1>1, <1>4, <1>5, <1>14 DEF PrefixLeft, ModsDecoded
<1>16. KeyWaits' = KeyWaits /\ SecondChar' = SecondChar
  BY <1>1, <1>15 DEF KeyWaits, SecondChar
<1>17. SentInv'
  BY <1>1, <1>14, <1>15, <1>16, NoPrefix DEF SentInv
<1> QED BY <1>1, <1>6, <1>7, <1>8, <1>9, <1>11, <1>12, <1>14, <1>16, <1>17, Zenon

(* A step that leaves the keys alone. *)
LEMMA KeysSent ==
  ASSUME SentInv, ~Decoding, ~Decoding', UNCHANGED <<out, port, scancode, mods, wire, held>>
  PROVE  SentInv' /\ SecondChar' = SecondChar
<1>1. /\ PrefixLeft' = PrefixLeft /\ ModsDecoded' = ModsDecoded /\ KeyWaits' = KeyWaits
  BY DEF PrefixLeft, ModsDecoded, KeyWaits
<1> QED BY <1>1 DEF SentInv, SecondChar

(* A step of somebody else leaves all of it alone. *)
LEMMA OthersSent ==
  ASSUME SentInv, pc'[Kbd] = pc[Kbd], UNCHANGED <<out, port, scancode, mods, char, wire, held>>
  PROVE  SentInv' /\ FirstChar' = FirstChar /\ SecondChar' = SecondChar
<1>1. /\ PrefixLeft' = PrefixLeft /\ ModsDecoded' = ModsDecoded /\ KeyWaits' = KeyWaits
      /\ Decoding' = Decoding
  BY DEF PrefixLeft, ModsDecoded, KeyWaits, Decoding
<1> QED BY <1>1 DEF SentInv, SecondChar, FirstChar

----------------------------------------------------------------------------
(* The line between the keyboard thread and the reader.  Unless keys are   *)
(* pressed before anyone waits for them, the two take turns: while the     *)
(* reader waits, the keyboard thread has the line, until it has told the   *)
(* observers of a newline; then no character is on its way, and none is    *)
(* typed, until the reader has read all of the text and waits again.       *)

Waiting == pc[App] \in {"yield", "again"} /\ App \notin ready

(* The steps after a newline has been counted. *)
Ending == {"move", "shorten", "rewind", "reset", "notify"}

CharInv ==
  /\ pc[Kbd] \in {"store", "grow"} => char \in Chars \ {Backspace}
  /\ pc[Kbd] \in {"erase", "shrink"} => char = Backspace

TurnInv ==
  /\ ~Waiting => ~prompt /\ FirstChar = NoChar /\ SecondChar = NoChar /\ pc[Kbd] \notin Ending
  /\ FirstChar = Newline \/ pc[Kbd] \in Ending => ~prompt /\ SecondChar = NoChar
  /\ SecondChar = Newline => ~prompt

(* Where the text is in the steps of the two threads: l is the line, k and *)
(* a are the steps of the keyboard thread and of the reader.               *)
Placed(l, k) ==
  /\ l.write_pos = IF k = "rewind" THEN l.length + l.read_pos ELSE l.length
  /\ k \notin {"rewind", "reset"} => l.read_pos <= l.length
  /\ k \in {"shrink", "move", "shorten"} => l.read_pos < l.length
  /\ k \in {"rewind", "reset", "notify"} => l.length > 0
  /\ k = "notify" => l.read_pos = 0

Room(l, k) ==
  /\ l.write_pos <= l.capacity
  /\ k = "grow" => l.write_pos < l.capacity

Reading(l, a) ==
  /\ a \in {"yield", "again", "forget", "check", "get", "load", "inc"} => l.read_pos < l.length
  /\ a \in {"observe", "block"} => l.read_pos = l.length
  /\ a = "inc" => loaded = l.read_pos

NoNewline(l) == \A i \in Cells : l.read_pos <= i /\ i < l.length => l.data[i] # Newline

PlaceInv ==
  /\ Placed(line, pc[Kbd]) /\ Room(line, pc[Kbd])
  /\ ~Waiting => Reading(line, pc[App])
  /\ Waiting /\ pc[Kbd] \notin Ending => NoNewline(line)
  /\ pc[Kbd] = "grow" /\ line.write_pos \in Cells => line.data[line.write_pos] = char

LineInv == TypeOK /\ SentInv /\ CharInv /\ TurnInv /\ PlaceInv

LineType == [data : [Cells -> Chars \cup {NoChar}], length : Nat,
             write_pos : Nat, read_pos : Nat, capacity : Nat]

(* The characters are characters. *)
LEMMA CharTypes ==
  ASSUME TypeOK
  PROVE  FirstChar \in Chars \cup {NoChar} /\ SecondChar \in Chars \cup {NoChar}
<1>1. \A m, w, key : CharOf(m, w, key) \in Chars \cup {NoChar}
  BY DEF CharOf, scancodes_set_2, Chars
<1> QED BY <1>1 DEF FirstChar, SecondChar, TypeOK

(* An edited text is a text. *)
LEMMA EditType ==
  ASSUME NEW text \in Seq(Chars), NEW c \in Chars \cup {NoChar}
  PROVE  Typed(text, c) \in Seq(Chars)
<1>1. ASSUME text # <<>> PROVE Front(text) \in Seq(Chars)
  <2>1. Len(text) \in Nat /\ \A i \in 1 .. Len(text) - 1 : text[i] \in Chars
    BY Element, LengthOf
  <2> QED BY <2>1, Slice DEF Front
<1> QED BY <1>1, Appended, Zenon DEF Typed, Edit

(* No step that changes the line changes its type. *)
LEMMA TrimType ==
  ASSUME NEW l \in LineType
  PROVE  /\ Trim(l) \in LineType
         /\ Trim(l).length = l.length /\ Trim(l).write_pos = l.write_pos
         /\ Trim(l).read_pos = l.read_pos /\ Trim(l).capacity = l.capacity
         /\ \A i \in Cells : i < l.length => Trim(l).data[i] = l.data[i]
BY DEF Trim, LineType

(* The reader goes on waiting, or not, as long as it is left alone. *)
LEMMA WaitingSame ==
  ASSUME pc'[App] = pc[App], App \in ready' <=> App \in ready
  PROVE  Waiting' <=> Waiting
BY DEF Waiting

(* A byte arrives. *)
LEMMA ByteKeepsLine ==
  ASSUME ~TypeAhead, LineInv, NEW b \in Bytes, ByteArrives(b)
  PROVE  LineInv'
<1> USE DEF LineInv
<1>1. /\ current' = current /\ out' = <<b>> /\ ready' \in {ready, ready \cup {Kbd}}
      /\ UNCHANGED <<port, unmasked, scancode, mods, char, line, observers, buffer, loaded, pc, failed>>
  BY DEF ByteArrives, Wake, cpu, kbdVars, ttyVars, readerVars
<1>2. /\ SentInv' /\ FirstChar' = FirstChar
      /\ SecondChar' # NoChar => prompt
      /\ typed' = Typed(typed, SecondChar')
      /\ prompt' = (prompt /\ SecondChar' # Newline)
  BY ByteSent
<1>3. SecondChar' \in Chars \cup {NoChar}
  <2>1. \A m, w, key : CharOf(m, w, key) \in Chars \cup {NoChar}
    BY DEF CharOf, scancodes_set_2, Chars
  <2> QED BY <2>1 DEF SecondChar
<1>4. typed' \in Seq(Chars) /\ prompt' \in BOOLEAN
  BY <1>2, <1>3, EditType DEF TypeOK
<1>5. wire' \in Seq({"e0", "f0"}) /\ held' \subseteq Modifiers \X BOOLEAN
  <2>1. CASE b \in Keys
    <3>1. /\ wire' = <<>>
          /\ held' = IF Pressed /\ b \in Modifiers THEN held \cup {Physical(b)}
                                                   ELSE held \ {Physical(b)}
      BY <2>1 DEF ByteArrives, KeyByte
    <3>2. Extends(wire) \in BOOLEAN /\ Physical(b) = <<b, Extends(wire)>>
      BY DEF Physical, Extends
    <3>3. b \in Modifiers => Physical(b) \in Modifiers \X BOOLEAN
      BY <3>2
    <3>4. held' \subseteq Modifiers \X BOOLEAN
      BY <3>1, <3>3 DEF TypeOK
    <3> QED BY <3>1, <3>4
  <2>2. CASE b \notin Keys
    <3>1. b \in {"e0", "f0"} /\ PrefixByte(b)
      BY <2>2 DEF ByteArrives, Bytes
    <3>2. wire' = Append(wire, b) /\ held' = held
      BY <3>1 DEF PrefixByte
    <3> QED BY <3>1, <3>2, Appended DEF TypeOK
  <2> QED BY <2>1, <2>2
<1>6. TypeOK'
  BY <1>1, <1>4, <1>5, Who DEF TypeOK
<1>7. Waiting' <=> Waiting
  BY <1>1, Who, WaitingSame
<1>8. TurnInv'
  BY <1>1, <1>2, <1>7, Zenon DEF TurnInv
<1>9. CharInv' /\ PlaceInv'
  BY <1>1, <1>7, Zenon DEF CharInv, PlaceInv, Reading
<1> QED BY <1>2, <1>6, <1>8, <1>9

(* The steps in which the keyboard thread has nothing to do with the line. *)
Apart == {"flush", "mask", "read", "key", "more", "block", "yield"}

(* A step of the keyboard thread that leaves the line alone. *)
LEMMA ApartKeepsLine ==
  ASSUME LineInv, TypeOK', SentInv', NEW l \in Apart \cup {"erase", "store"},
         pc[Kbd] \in Apart \cup {"erase", "store"}, pc'[Kbd] = l, pc'[App] = pc[App],
         App \in ready' <=> App \in ready, CharInv',
         UNCHANGED <<line, loaded, prompt>>,
         \/ FirstChar' = FirstChar /\ SecondChar' = SecondChar
         \/ FirstChar' = NoChar /\ SecondChar' = SecondChar
         \/ FirstChar' = SecondChar /\ SecondChar' = NoChar
  PROVE  LineInv'
<1>1. Waiting' <=> Waiting
  BY WaitingSame
<1>2. TurnInv'
  <2>1. pc'[Kbd] \notin Ending
    BY DEF Apart, Ending
  <2>2. Newline # NoChar
    BY DEF Newline, NoChar
  <2> QED BY <1>1, <2>1, <2>2 DEF LineInv, TurnInv
<1>3. PlaceInv'
  <2>1. pc[Kbd] \notin Ending \cup {"grow", "shrink"} /\ pc'[Kbd] \notin Ending \cup {"grow", "shrink"}
    BY DEF Apart, Ending
  <2> QED BY <1>1, <2>1, Zenon DEF LineInv, PlaceInv, Placed, Room, Reading, Ending
<1> QED BY <1>2, <1>3 DEF LineInv

(* The second character may become the first; nothing else happens to the  *)
(* text.                                                                   *)
Shift ==
  /\ Waiting' <=> Waiting
  /\ UNCHANGED <<line, buffer, typed, failed>> /\ pc'[App] = pc[App]
  /\ pc[Kbd] \in Apart /\ pc'[Kbd] \in Apart \cup {"erase", "store"}
  /\ \/ FirstChar' = FirstChar /\ SecondChar' = SecondChar
     \/ FirstChar = NoChar /\ FirstChar' = SecondChar /\ SecondChar' = NoChar

(* The keyboard thread up to the line, and its sleep. *)
LEMMA DriverKeepsLine ==
  ASSUME LeftoverIsMute, LineInv, KbdInv, NoStaleRead,
         \/ ps2_flush_output_buffer \/ hal_mask_irq \/ ReadScancode
         \/ ps2_kbd_handle_scancode \/ ps2_can_read_data \/ KbdBlock \/ KbdYield
  PROVE  LineInv' /\ Shift
<1> USE Who
<1>0. TypeOK /\ SentInv /\ PcIsFunction
  BY Zenon DEF LineInv, TypeOK, PcIsFunction
<1>1. ASSUME NEW k \in {"flush", "mask", "more", "block", "yield"}, pc[Kbd] = k,
             NEW l \in {"mask", "read", "more", "block", "yield"}, GoTo(Kbd, l),
             UNCHANGED <<out, port, scancode, mods, char, line, observers, buffer, loaded,
                         typed, prompt, wire, held, failed>>,
             unmasked' \in BOOLEAN, current' \in Threads, ready' \subseteq Threads,
             App \in ready' <=> App \in ready
      PROVE  LineInv' /\ Shift
  <2>1. pc'[Kbd] = l /\ pc'[App] = pc[App] /\ pc' \in [Threads -> Labels]
    BY <1>0, <1>1 DEF GoTo, PcIsFunction, Labels
  <2>2. ~Decoding /\ ~Decoding' /\ FirstChar = NoChar /\ FirstChar' = NoChar
    BY <1>1, <2>1 DEF Decoding, FirstChar
  <2>3. SentInv' /\ SecondChar' = SecondChar
    BY <1>0, <1>1, <2>2, KeysSent
  <2>4. TypeOK'
    BY <1>0, <1>1, <2>1 DEF TypeOK
  <2>5. CharInv'
    BY <1>1, <2>1 DEF CharInv
  <2>6. l \in Apart /\ k \in Apart
    BY DEF Apart
  <2> QED BY <1>1, <2>1, <2>2, <2>3, <2>4, <2>5, <2>6, ApartKeepsLine, WaitingSame DEF Shift
<1>2. CASE ps2_flush_output_buffer
  <2>1. out = <<>> /\ pc[Kbd] = "flush"
    BY <1>2 DEF ps2_flush_output_buffer, At, KbdInv
  <2>2. GoTo(Kbd, "mask") /\ UNCHANGED <<port, out, cpu, unmasked, kbdVars, ttyVars, readerVars, userVars>>
    BY <1>2, <2>1 DEF ps2_flush_output_buffer
  <2>3. unmasked' \in BOOLEAN /\ current' \in Threads /\ ready' \subseteq Threads
    BY <1>0, <2>2 DEF TypeOK, cpu
  <2> QED BY <1>1, <2>1, <2>2, <2>3 DEF cpu, kbdVars, ttyVars, readerVars, userVars
<1>3. CASE hal_mask_irq \/ ps2_can_read_data
  <2>1. unmasked' \in BOOLEAN /\ current' \in Threads /\ ready' \subseteq Threads
    BY <1>0, <1>3, Zenon DEF TypeOK, cpu, hal_mask_irq, ps2_can_read_data, ioapic_setup_irq, deviceVars
  <2>2. \E l \in {"mask", "read", "more", "block", "yield"} : GoTo(Kbd, l)
    BY <1>3, Zenon DEF hal_mask_irq, ps2_can_read_data
  <2>3. pc[Kbd] \in {"flush", "mask", "more", "block", "yield"}
    BY <1>3, Zenon DEF hal_mask_irq, ps2_can_read_data, At
  <2>4. UNCHANGED <<out, port, scancode, mods, char, line, observers, buffer, loaded,
                    typed, prompt, wire, held, failed, ready>>
    BY <1>3, Zenon DEF hal_mask_irq, ps2_can_read_data, cpu, kbdVars, ttyVars, readerVars, userVars, deviceVars
  <2> QED BY <1>1, <2>1, <2>2, <2>3, <2>4
<1>4. CASE KbdBlock \/ KbdYield
  <2>1. unmasked' \in BOOLEAN /\ current' \in Threads /\ ready' \subseteq Threads
        /\ (App \in ready' <=> App \in ready)
    BY <1>0, <1>4, Zenon DEF TypeOK, KbdBlock, KbdYield, ioapic_setup_irq, deviceVars, Block, Yield, At
  <2>2. \E l \in {"mask", "read", "more", "block", "yield"} : GoTo(Kbd, l)
    BY <1>4, Zenon DEF KbdBlock, KbdYield
  <2>3. pc[Kbd] \in {"flush", "mask", "more", "block", "yield"}
    BY <1>4, Zenon DEF KbdBlock, KbdYield, At
  <2>4. UNCHANGED <<out, port, scancode, mods, char, line, observers, buffer, loaded,
                    typed, prompt, wire, held, failed>>
    BY <1>4, Zenon DEF KbdBlock, KbdYield, kbdVars, ttyVars, readerVars, userVars, deviceVars
  <2> QED BY <1>1, <2>1, <2>2, <2>3, <2>4
<1>5. CASE ReadScancode
  <2>1. /\ SentInv' /\ FirstChar = NoChar /\ FirstChar' = SecondChar /\ SecondChar' = NoChar
        /\ pc' = [pc EXCEPT ![Kbd] = "key"] \/ pc' = [pc EXCEPT ![Kbd] = "more"]
    BY <1>0, <1>5, ReadSent
  <2>2. pc'[Kbd] \in {"key", "more"} /\ pc'[App] = pc[App] /\ pc' \in [Threads -> Labels]
    BY <1>0, <2>1 DEF PcIsFunction, Labels
  <2>3. /\ pc[Kbd] = "read" /\ port' = ps2_read_data /\ out' = <<>>
        /\ scancode' = Append(scancode, ps2_read_data)
        /\ UNCHANGED <<current, ready, unmasked, mods, char, line, observers, buffer, loaded,
                       typed, prompt, wire, held, failed>>
    BY <1>5 DEF ReadScancode, At, cpu, ttyVars, readerVars, userVars
  <2>4. ps2_read_data \in Bytes \cup Leftover
    <3>1. out \in {<<>>} \cup {<<b>> : b \in Bytes} /\ port \in Bytes \cup Leftover
      BY <1>0, Zenon DEF TypeOK
    <3>2. CASE out = <<>>
      BY <3>1, <3>2, Zenon DEF ps2_read_data
    <3>3. CASE out # <<>>
      <4>1. PICK b \in Bytes : out = <<b>>
        BY <3>1, <3>3, Zenon
      <4>2. Head(<<b>>) = b
        OBVIOUS
      <4> QED BY <3>3, <4>1, <4>2, Zenon DEF ps2_read_data
    <3> QED BY <3>2, <3>3, Zenon
  <2>5. scancode' \in Seq(Bytes \cup Leftover)
    BY <1>0, <2>3, <2>4, Appended, Zenon DEF TypeOK
  <2>6. TypeOK'
    BY <1>0, <2>2, <2>3, <2>4, <2>5, Zenon DEF TypeOK
  <2>7. CharInv' /\ pc[Kbd] \in Apart /\ pc'[Kbd] \in Apart
    BY <2>2, <2>3 DEF CharInv, Apart
  <2> QED BY <2>1, <2>2, <2>3, <2>6, <2>7, ApartKeepsLine, WaitingSame DEF Shift
<1>6. CASE ps2_kbd_handle_scancode
  <2>1. /\ SentInv' /\ FirstChar' = FirstChar /\ SecondChar' = SecondChar
        /\ mods' \subseteq Modifiers \X BOOLEAN /\ char' = FirstChar /\ scancode' = <<>>
        /\ pc' = [pc EXCEPT ![Kbd] = IF FirstChar = NoChar THEN "more"
                                     ELSE IF FirstChar = Backspace THEN "erase" ELSE "store"]
        /\ FirstChar \in Chars \cup {NoChar}
    BY <1>0, <1>6, DecodeSent
  <2>2. /\ pc[Kbd] = "key"
        /\ UNCHANGED <<current, ready, out, port, unmasked, line, observers, buffer, loaded,
                       typed, prompt, wire, held, failed>>
    BY <1>6 DEF ps2_kbd_handle_scancode, At, cpu, deviceVars, ttyVars, readerVars, userVars
  <2> DEFINE l == IF FirstChar = NoChar THEN "more" ELSE IF FirstChar = Backspace THEN "erase" ELSE "store"
  <2>3. pc'[Kbd] = l /\ pc'[App] = pc[App] /\ l \in Labels
    BY <1>0, <2>1 DEF PcIsFunction, Labels
  <2>4. pc' \in [Threads -> Labels]
    BY <1>0, <2>1, <2>3 DEF PcIsFunction
  <2>5. scancode' \in Seq(Bytes \cup Leftover)
    BY <2>1
  <2>6. TypeOK'
    BY <1>0, <2>1, <2>2, <2>4, <2>5 DEF TypeOK
  <2>7. CharInv'
    BY <2>1, <2>3 DEF CharInv
  <2>8. pc[Kbd] \in Apart /\ l \in Apart \cup {"erase", "store"}
    BY <2>2 DEF Apart
  <2> HIDE DEF l
  <2> QED BY <2>1, <2>2, <2>3, <2>6, <2>7, <2>8, ApartKeepsLine, WaitingSame DEF Shift
<1> QED BY <1>2, <1>3, <1>4, <1>5, <1>6

(* What the keyboard thread's steps at the line have in common. *)
LEMMA AtLine ==
  ASSUME LineInv, ttyUnchanged, NEW l \in Labels \ {"key"}, GoTo(Kbd, l), ~Decoding,
         UNCHANGED <<observers, typed, prompt, wire, held>>,
         line' \in LineType, char' \in Chars \cup {NoChar}, failed' \in BOOLEAN
  PROVE  /\ TypeOK' /\ SentInv' /\ SecondChar' = SecondChar /\ (Waiting' <=> Waiting)
         /\ pc'[Kbd] = l /\ pc'[App] = pc[App] /\ loaded' = loaded /\ buffer' = buffer
         /\ FirstChar' = IF l \in {"store", "grow", "erase", "shrink"} THEN char' ELSE NoChar
<1> USE Who DEF LineInv
<1>1. UNCHANGED <<current, ready, out, port, unmasked, scancode, mods, buffer, loaded>>
  BY DEF ttyUnchanged, cpu, deviceVars, readerVars
<1>2. pc'[Kbd] = l /\ pc'[App] = pc[App] /\ pc' \in [Threads -> Labels] /\ ~Decoding'
  BY Zenon DEF GoTo, TypeOK, Decoding
<1>3. SentInv' /\ SecondChar' = SecondChar
  BY <1>1, <1>2, KeysSent
<1>4. TypeOK'
  BY <1>1, <1>2 DEF TypeOK, LineType
<1>5. Waiting' <=> Waiting
  BY <1>1, <1>2, WaitingSame
<1>6. FirstChar' = IF l \in {"store", "grow", "erase", "shrink"} THEN char' ELSE NoChar
  BY <1>2 DEF FirstChar
<1> QED BY <1>1, <1>2, <1>3, <1>4, <1>5, <1>6

(* While the keyboard thread is at the line, the reader waits. *)
LEMMA LineIsKbds ==
  ASSUME LineInv, pc[Kbd] \in Ending \cup {"store", "grow", "erase", "shrink"}
  PROVE  /\ Waiting /\ ~Decoding /\ line \in LineType
         /\ FirstChar = IF pc[Kbd] \in Ending THEN NoChar ELSE char
         /\ Newline # NoChar /\ Backspace # NoChar /\ Newline # Backspace
<1>1. ~Decoding /\ FirstChar = IF pc[Kbd] \in Ending THEN NoChar ELSE char
  BY DEF Decoding, FirstChar, Ending
<1>2. line \in LineType
  BY DEF LineInv, TypeOK, LineType
<1>3. Newline # NoChar /\ Backspace # NoChar /\ Newline # Backspace
  BY DEF Newline, Backspace, NoChar
<1>4. pc[Kbd] \notin Ending => char # NoChar
  BY DEF LineInv, CharInv, Chars, Newline, Backspace, NoChar
<1> QED BY <1>1, <1>2, <1>3, <1>4 DEF LineInv, TurnInv

(* Backspace. *)
LEMMA EraseTestKeepsLine ==
  ASSUME LineInv, EraseTest
  PROVE  LineInv'
<1>1. /\ pc[Kbd] = "erase" /\ ttyUnchanged
      /\ UNCHANGED <<char, line, observers, typed, prompt, wire, held, failed>>
  BY DEF EraseTest, At, ttyVars, userVars
<1> DEFINE l == IF line.read_pos < line.write_pos THEN "shrink" ELSE "more"
<1>2. GoTo(Kbd, l) /\ l \in Labels \ {"key"}
  BY DEF EraseTest, Labels
<1>3. /\ Waiting /\ ~Decoding /\ line' \in LineType
      /\ Newline # NoChar /\ Backspace # NoChar /\ Newline # Backspace
      /\ char' \in Chars \cup {NoChar} /\ failed' \in BOOLEAN
  BY <1>1, LineIsKbds DEF LineInv, TypeOK
<1> HIDE DEF l
<1>4. /\ TypeOK' /\ SentInv' /\ SecondChar' = SecondChar /\ Waiting'
      /\ pc'[Kbd] = l
      /\ FirstChar' = IF l \in {"store", "grow", "erase", "shrink"} THEN char' ELSE NoChar
  BY <1>1, <1>2, <1>3, AtLine, Zenon
<1>5. char = Backspace
  BY <1>1 DEF LineInv, CharInv
<1>6. CharInv' /\ TurnInv'
  BY <1>1, <1>3, <1>4, <1>5, Zenon DEF l, CharInv, TurnInv, LineInv, Ending
<1>7. PlaceInv'
  BY <1>1, <1>3, <1>4, Zenon DEF l, PlaceInv, LineInv, Ending, Placed, Room, NoNewline
<1> QED BY <1>4, <1>6, <1>7 DEF LineInv

(* A character is taken back. *)
LEMMA EraseStep ==
  ASSUME LineInv, EraseChar
  PROVE  /\ pc[Kbd] = "shrink" /\ ttyUnchanged /\ GoTo(Kbd, "more") /\ char' = NoChar
         /\ UNCHANGED <<observers, typed, prompt, wire, held, failed>>
         /\ line' \in LineType
         /\ line'.length = line.length - 1 /\ line'.write_pos = line.write_pos - 1
         /\ line'.read_pos = line.read_pos /\ line'.capacity = line.capacity
         /\ \A i \in Cells : i < line.length - 1 => line'.data[i] = line.data[i]
<1> DEFINE l == [line EXCEPT !.write_pos = @ - 1, !.length = @ - 1]
<1>1. /\ pc[Kbd] = "shrink" /\ ttyUnchanged /\ GoTo(Kbd, "more") /\ char' = NoChar
      /\ UNCHANGED <<observers, typed, prompt, wire, held, failed>>
      /\ line' = Trim(l)
  BY DEF EraseChar, At, userVars
<1>2. line \in LineType /\ line.length > 0 /\ line.write_pos > 0
  BY <1>1, LineIsKbds DEF LineInv, PlaceInv, Placed, LineType
<1>3. /\ l \in LineType /\ l.data = line.data
      /\ l.length = line.length - 1 /\ l.write_pos = line.write_pos - 1
      /\ l.read_pos = line.read_pos /\ l.capacity = line.capacity
  <2>1. line.length - 1 \in Nat /\ line.write_pos - 1 \in Nat
    BY <1>2 DEF LineType
  <2>2. l \in LineType
    BY <1>2, <2>1, Zenon DEF LineType
  <2>3. /\ l.data = line.data /\ l.length = line.length - 1 /\ l.write_pos = line.write_pos - 1
        /\ l.read_pos = line.read_pos /\ l.capacity = line.capacity
    BY <1>2 DEF LineType
  <2> QED BY <2>2, <2>3
<1> HIDE DEF l
<1> QED BY <1>1, <1>3, TrimType

(* A character is taken back: what is left is still in its place. *)
LEMMA EraseKeepsLine ==
  ASSUME LineInv, EraseChar
  PROVE  LineInv'
<1>1. /\ pc[Kbd] = "shrink" /\ ttyUnchanged /\ GoTo(Kbd, "more") /\ char' = NoChar
      /\ UNCHANGED <<observers, typed, prompt, wire, held, failed>>
      /\ line' \in LineType
      /\ line'.length = line.length - 1 /\ line'.write_pos = line.write_pos - 1
      /\ line'.read_pos = line.read_pos /\ line'.capacity = line.capacity
      /\ \A i \in Cells : i < line.length - 1 => line'.data[i] = line.data[i]
  BY EraseStep, Zenon
<1>2. /\ Waiting /\ ~Decoding /\ line \in LineType
      /\ Newline # NoChar /\ Backspace # NoChar /\ Newline # Backspace
      /\ "more" \in Labels \ {"key"} /\ failed' \in BOOLEAN
  BY <1>1, LineIsKbds DEF LineInv, TypeOK, Labels
<1>3. /\ TypeOK' /\ SentInv' /\ SecondChar' = SecondChar /\ Waiting'
      /\ pc'[Kbd] = "more" /\ FirstChar' = NoChar
  BY <1>1, <1>2, AtLine
<1>4. CharInv' /\ TurnInv'
  BY <1>1, <1>2, <1>3 DEF CharInv, TurnInv, LineInv, Ending
<1>5. PlaceInv'
  <2>1. Cells \subseteq Nat
    BY ConsoleAssumption DEF Cells
  <2>2. Placed(line, "shrink") /\ Room(line, "shrink") /\ NoNewline(line)
    BY <1>1, <1>2, Zenon DEF LineInv, PlaceInv, Ending
  <2>3. Placed(line', "more") /\ Room(line', "more")
    BY <1>1, <1>2, <2>2 DEF Placed, Room, LineType
  <2>4. NoNewline(line')
    BY <1>1, <1>2, <2>1, <2>2 DEF NoNewline, LineType
  <2> QED BY <1>3, <2>3, <2>4, Zenon DEF PlaceInv
<1> QED BY <1>3, <1>4, <1>5 DEF LineInv

(* tty_line_reserve_space leaves room for a character. *)
LEMMA ReservedSpace ==
  ASSUME line \in LineType, line.write_pos <= line.capacity,
         NEW capacity \in tty_line_reserve_space, capacity > 0
  PROVE  capacity \in Nat /\ line.write_pos < capacity
<1>1. line.write_pos \in Nat /\ line.capacity \in Nat
  BY DEF LineType
<1>2. CASE line.capacity > line.write_pos
  BY <1>1, <1>2 DEF tty_line_reserve_space
<1>3. CASE ~(line.capacity > line.write_pos)
  <2> DEFINE two == 2 * line.capacity
             S == {1, two}
  <2>1. two \in Nat /\ capacity = Max(S)
    BY <1>1, <1>3 DEF tty_line_reserve_space
  <2> HIDE DEF two
  <2>2. \E x \in S : \A y \in S : x >= y
    <3>1. CASE two >= 1
      BY <2>1, <3>1
    <3>2. CASE two < 1
      BY <2>1, <3>2
    <3> QED BY <2>1, <3>1, <3>2
  <2>3. Max(S) \in S /\ \A y \in S : Max(S) >= y
    BY <2>2 DEF Max
  <2> QED BY <1>1, <1>3, <2>1, <2>3 DEF two
<1> QED BY <1>2, <1>3

(* A character is stored behind the text, or there is no memory for it. *)
LEMMA StoreStep ==
  ASSUME LineInv, StoreChar
  PROVE  /\ pc[Kbd] = "store" /\ ttyUnchanged
         /\ UNCHANGED <<observers, typed, prompt, wire, held>>
         /\ line' \in LineType
         /\ line'.length = line.length /\ line'.write_pos = line.write_pos
         /\ line'.read_pos = line.read_pos
         /\ \/ /\ GoTo(Kbd, "grow") /\ char' = char /\ failed' = failed
               /\ line'.write_pos < line'.capacity
               /\ \A i \in Cells : line'.data[i] = IF i = line.write_pos THEN char ELSE line.data[i]
            \/ /\ GoTo(Kbd, "more") /\ char' = NoChar /\ failed' = TRUE
               /\ line' = line
<1>1. /\ pc[Kbd] = "store" /\ ttyUnchanged
      /\ UNCHANGED <<observers, typed, prompt, wire, held>>
  BY DEF StoreChar, At
<1>2. /\ line \in LineType /\ char \in Chars \cup {NoChar} /\ line.write_pos <= line.capacity
  BY <1>1, LineIsKbds, Zenon DEF LineInv, TypeOK, PlaceInv, Room
<1>3. PICK capacity \in tty_line_reserve_space :
        IF capacity > 0
          THEN /\ line' = [line EXCEPT !.capacity = capacity,
                                       !.data = [@ EXCEPT ![line.write_pos] = char]]
               /\ GoTo(Kbd, "grow")
               /\ UNCHANGED <<char, failed>>
          ELSE /\ failed' = TRUE /\ char' = NoChar
               /\ GoTo(Kbd, "more")
               /\ UNCHANGED line
  BY Zenon DEF StoreChar
<1>4. CASE capacity > 0
  <2>1. capacity \in Nat /\ line.write_pos < capacity
    BY <1>2, <1>4, ReservedSpace
  <2> DEFINE d == [line.data EXCEPT ![line.write_pos] = char]
  <2>2. /\ d \in [Cells -> Chars \cup {NoChar}]
        /\ \A i \in Cells : d[i] = IF i = line.write_pos THEN char ELSE line.data[i]
    BY <1>2, Zenon DEF LineType
  <2>3. line' = [line EXCEPT !.capacity = capacity, !.data = d]
    BY <1>3, <1>4
  <2> HIDE DEF d
  <2>4. line' \in LineType
    BY <1>2, <2>1, <2>2, <2>3, Zenon DEF LineType
  <2>5. /\ line'.length = line.length /\ line'.write_pos = line.write_pos
        /\ line'.read_pos = line.read_pos /\ line'.capacity = capacity /\ line'.data = d
    BY <1>2, <2>3 DEF LineType
  <2> QED BY <1>1, <1>3, <1>4, <2>1, <2>2, <2>4, <2>5
<1>5. CASE ~(capacity > 0)
  BY <1>1, <1>2, <1>3, <1>5, Zenon
<1> QED BY <1>4, <1>5, Zenon

(* Storing a character leaves the text as it is. *)
LEMMA StoreKeepsLine ==
  ASSUME LineInv, StoreChar
  PROVE  LineInv'
<1>1. /\ pc[Kbd] = "store" /\ ttyUnchanged
      /\ UNCHANGED <<observers, typed, prompt, wire, held>>
      /\ line' \in LineType
      /\ line'.length = line.length /\ line'.write_pos = line.write_pos
      /\ line'.read_pos = line.read_pos
  BY StoreStep, Zenon
<1>2. /\ Waiting /\ ~Decoding /\ line \in LineType /\ FirstChar = char
      /\ Newline # NoChar /\ Backspace # NoChar /\ Newline # Backspace
      /\ "more" \in Labels \ {"key"} /\ "grow" \in Labels \ {"key"}
      /\ char \in Chars \ {Backspace}
      /\ Placed(line, "store") /\ NoNewline(line) /\ line.write_pos <= line.capacity
      /\ failed \in BOOLEAN
  BY <1>1, LineIsKbds, Zenon DEF LineInv, TypeOK, Labels, CharInv, PlaceInv, Room, Ending
<1>3. Cells \subseteq Nat /\ line.write_pos = line.length
  BY <1>2, ConsoleAssumption DEF Cells, Placed
<1>4. CASE /\ GoTo(Kbd, "grow") /\ char' = char /\ failed' = failed
           /\ line'.write_pos < line'.capacity
           /\ \A i \in Cells : line'.data[i] = IF i = line.write_pos THEN char ELSE line.data[i]
  <2>1. /\ TypeOK' /\ SentInv' /\ SecondChar' = SecondChar /\ Waiting'
        /\ pc'[Kbd] = "grow" /\ FirstChar' = char
    BY <1>1, <1>2, <1>4, AtLine, Zenon
  <2>2. CharInv' /\ TurnInv'
    BY <1>1, <1>2, <1>4, <2>1, Zenon DEF CharInv, TurnInv, LineInv, Ending
  <2>3. Placed(line', "grow") /\ Room(line', "grow")
    BY <1>1, <1>2, <1>4 DEF Placed, Room, LineType
  <2>4. NoNewline(line')
    BY <1>1, <1>2, <1>3, <1>4 DEF NoNewline, LineType
  <2>5. PlaceInv'
    BY <1>1, <1>4, <2>1, <2>3, <2>4, Zenon DEF PlaceInv
  <2> QED BY <2>1, <2>2, <2>5 DEF LineInv
<1>5. CASE /\ GoTo(Kbd, "more") /\ char' = NoChar /\ failed' = TRUE /\ line' = line
  <2>1. /\ TypeOK' /\ SentInv' /\ SecondChar' = SecondChar /\ Waiting'
        /\ pc'[Kbd] = "more" /\ FirstChar' = NoChar
    BY <1>1, <1>2, <1>5, AtLine, Zenon
  <2>2. CharInv' /\ TurnInv'
    BY <1>1, <1>2, <1>5, <2>1, Zenon DEF CharInv, TurnInv, LineInv, Ending
  <2>3. PlaceInv'
    BY <1>2, <1>5, <2>1 DEF PlaceInv, Placed, Room, LineType
  <2> QED BY <2>1, <2>2, <2>3 DEF LineInv
<1> QED BY <1>4, <1>5, StoreStep, Zenon

(* The character is counted. *)
LEMMA CountStep ==
  ASSUME LineInv, CountChar
  PROVE  /\ pc[Kbd] = "grow" /\ ttyUnchanged /\ char' = NoChar
         /\ GoTo(Kbd, IF char = Newline THEN "move" ELSE "more")
         /\ UNCHANGED <<observers, typed, prompt, wire, held, failed>>
         /\ line' \in LineType /\ line'.data = line.data
         /\ line'.length = line.length + 1 /\ line'.write_pos = line.write_pos + 1
         /\ line'.read_pos = line.read_pos /\ line'.capacity = line.capacity
<1>1. /\ pc[Kbd] = "grow" /\ ttyUnchanged /\ char' = NoChar
      /\ GoTo(Kbd, IF char = Newline THEN "move" ELSE "more")
      /\ UNCHANGED <<observers, typed, prompt, wire, held, failed>>
      /\ line' = [line EXCEPT !.write_pos = @ + 1, !.length = @ + 1]
  BY DEF CountChar, At, userVars
<1>2. line \in LineType
  BY <1>1, LineIsKbds
<1>3. line.length + 1 \in Nat /\ line.write_pos + 1 \in Nat
  BY <1>2 DEF LineType
<1>4. line' \in LineType
  BY <1>1, <1>2, <1>3, Zenon DEF LineType
<1>5. /\ line'.data = line.data
      /\ line'.length = line.length + 1 /\ line'.write_pos = line.write_pos + 1
      /\ line'.read_pos = line.read_pos /\ line'.capacity = line.capacity
  BY <1>1, <1>2 DEF LineType
<1> QED BY <1>1, <1>4, <1>5

(* The text is longer by the character. *)
LEMMA CountKeepsLine ==
  ASSUME LineInv, CountChar
  PROVE  LineInv'
<1>1. /\ pc[Kbd] = "grow" /\ ttyUnchanged /\ char' = NoChar
      /\ GoTo(Kbd, IF char = Newline THEN "move" ELSE "more")
      /\ UNCHANGED <<observers, typed, prompt, wire, held, failed>>
      /\ line' \in LineType /\ line'.data = line.data
      /\ line'.length = line.length + 1 /\ line'.write_pos = line.write_pos + 1
      /\ line'.read_pos = line.read_pos /\ line'.capacity = line.capacity
  BY CountStep, Zenon
<1>2. /\ Waiting /\ ~Decoding /\ line \in LineType /\ FirstChar = char
      /\ Newline # NoChar /\ Backspace # NoChar /\ Newline # Backspace
      /\ "more" \in Labels \ {"key"} /\ "move" \in Labels \ {"key"}
      /\ Placed(line, "grow") /\ NoNewline(line) /\ Room(line, "grow")
      /\ line.write_pos \in Cells => line.data[line.write_pos] = char
      /\ failed \in BOOLEAN
  BY <1>1, LineIsKbds, Zenon DEF LineInv, TypeOK, Labels, PlaceInv, Ending
<1>3. Cells \subseteq Nat /\ line.write_pos = line.length
  BY <1>2, ConsoleAssumption DEF Cells, Placed
<1> DEFINE l == IF char = Newline THEN "move" ELSE "more"
<1>4. /\ TypeOK' /\ SentInv' /\ SecondChar' = SecondChar /\ Waiting'
      /\ pc'[Kbd] = l /\ FirstChar' = NoChar
  BY <1>1, <1>2, AtLine, Zenon
<1>5. CharInv' /\ TurnInv'
  BY <1>1, <1>2, <1>4, Zenon DEF CharInv, TurnInv, LineInv, Ending
<1>6. Placed(line', l) /\ Room(line', l)
  BY <1>1, <1>2 DEF Placed, Room, LineType
<1>7. char # Newline => NoNewline(line')
  <2> SUFFICES ASSUME char # Newline, NEW i \in Cells, line'.read_pos <= i, i < line'.length
               PROVE  line'.data[i] # Newline
    BY DEF NoNewline
  <2>1. i = line.write_pos \/ i < line.length
    BY <1>1, <1>2, <1>3 DEF LineType
  <2> QED BY <1>1, <1>2, <2>1, Zenon DEF NoNewline
<1>8. PlaceInv'
  BY <1>4, <1>6, <1>7, Zenon DEF PlaceInv, Ending
<1> QED BY <1>4, <1>5, <1>8 DEF LineInv

Compact == CompactMove \/ CompactLength \/ CompactWritePos \/ CompactReadPos

AfterCompact(k) ==
  CASE k = "move" -> "shorten" [] k = "shorten" -> "rewind" [] k = "rewind" -> "reset" [] k = "reset" -> "notify"

(* tty_compact_buffer: the data move first, the positions follow. *)
LEMMA CompactStep ==
  ASSUME LineInv, Compact
  PROVE  /\ pc[Kbd] \in {"move", "shorten", "rewind", "reset"} /\ ttyUnchanged
         /\ GoTo(Kbd, AfterCompact(pc[Kbd]))
         /\ UNCHANGED <<char, observers, typed, prompt, wire, held, failed>>
         /\ line' \in LineType /\ line'.capacity = line.capacity
         /\ line'.length = IF pc[Kbd] = "shorten" THEN line.length - line.read_pos ELSE line.length
         /\ line'.write_pos = IF pc[Kbd] = "rewind" THEN line.write_pos - line.read_pos ELSE line.write_pos
         /\ line'.read_pos = IF pc[Kbd] = "reset" THEN 0 ELSE line.read_pos
         /\ pc[Kbd] = "move" =>
              \A i \in Cells : i < line.length /\ i + line.read_pos \in Cells
                                 => line'.data[i] = line.data[i + line.read_pos]
         /\ pc[Kbd] # "move" => \A i \in Cells : i < line.length => line'.data[i] = line.data[i]
<1>0. /\ pc[Kbd] \in {"move", "shorten", "rewind", "reset"} /\ ttyUnchanged
      /\ UNCHANGED <<char, observers, typed, prompt, wire, held, failed>>
  BY DEF Compact, CompactMove, CompactLength, CompactWritePos, CompactReadPos, At, userVars
<1>1. line \in LineType /\ Placed(line, pc[Kbd])
  BY <1>0, LineIsKbds, Zenon DEF LineInv, PlaceInv, Ending
<1>2. /\ line.data \in [Cells -> Chars \cup {NoChar}] /\ line.length \in Nat /\ line.write_pos \in Nat
      /\ line.read_pos \in Nat /\ line.capacity \in Nat
  BY <1>1 DEF LineType
<1>3. CASE CompactMove
  <2>1. pc[Kbd] = "move" /\ GoTo(Kbd, "shorten")
    BY <1>3 DEF CompactMove, At
  <2> DEFINE d == [i \in Cells |->
                     IF i >= line.length THEN line.data[i]
                     ELSE IF i + line.read_pos \in Cells THEN line.data[i + line.read_pos] ELSE NoChar]
  <2>2. line' = [line EXCEPT !.data = d]
    BY <1>3 DEF CompactMove
  <2>3. /\ d \in [Cells -> Chars \cup {NoChar}]
        /\ \A i \in Cells : i < line.length /\ i + line.read_pos \in Cells
                              => d[i] = line.data[i + line.read_pos]
    <3>1. Cells \subseteq Nat
      BY ConsoleAssumption DEF Cells
    <3>2. ASSUME NEW i \in Cells
          PROVE  (IF i >= line.length THEN line.data[i]
                  ELSE IF i + line.read_pos \in Cells THEN line.data[i + line.read_pos] ELSE NoChar)
                   \in Chars \cup {NoChar}
      <4> HIDE DEF Cells
      <4> QED BY <1>2
    <3>3. d \in [Cells -> Chars \cup {NoChar}]
      BY <3>2
    <3>4. ASSUME NEW i \in Cells, i < line.length, i + line.read_pos \in Cells
          PROVE  d[i] = line.data[i + line.read_pos]
      BY <1>2, <3>1, <3>4
    <3> QED BY <3>3, <3>4, Zenon
  <2> HIDE DEF d
  <2>4. line' \in LineType
    BY <1>1, <2>2, <2>3 DEF LineType
  <2>5. /\ line'.data = d /\ line'.length = line.length /\ line'.write_pos = line.write_pos
        /\ line'.read_pos = line.read_pos /\ line'.capacity = line.capacity
    BY <1>1, <2>2 DEF LineType
  <2> QED BY <1>0, <2>1, <2>3, <2>4, <2>5 DEF AfterCompact
<1>4. CASE CompactLength
  <2>1. pc[Kbd] = "shorten" /\ GoTo(Kbd, "rewind") /\ line' = [line EXCEPT !.length = @ - line.read_pos]
    BY <1>4 DEF CompactLength, At
  <2>2. line.length - line.read_pos \in Nat
    BY <1>1, <1>2, <2>1 DEF Placed
  <2>3. line' \in LineType
    BY <1>1, <2>1, <2>2 DEF LineType
  <2>4. /\ line'.data = line.data /\ line'.length = line.length - line.read_pos
        /\ line'.write_pos = line.write_pos
        /\ line'.read_pos = line.read_pos /\ line'.capacity = line.capacity
    BY <1>1, <2>1 DEF LineType
  <2> QED BY <1>0, <2>1, <2>3, <2>4 DEF AfterCompact
<1>5. CASE CompactWritePos
  <2>1. pc[Kbd] = "rewind" /\ GoTo(Kbd, "reset") /\ line' = [line EXCEPT !.write_pos = @ - line.read_pos]
    BY <1>5 DEF CompactWritePos, At
  <2>2. line.write_pos - line.read_pos \in Nat
    BY <1>1, <1>2, <2>1 DEF Placed
  <2>3. line' \in LineType
    BY <1>1, <2>1, <2>2 DEF LineType
  <2>4. /\ line'.data = line.data /\ line'.length = line.length
        /\ line'.write_pos = line.write_pos - line.read_pos
        /\ line'.read_pos = line.read_pos /\ line'.capacity = line.capacity
    BY <1>1, <2>1 DEF LineType
  <2> QED BY <1>0, <2>1, <2>3, <2>4 DEF AfterCompact
<1>6. CASE CompactReadPos
  <2> DEFINE l == [line EXCEPT !.read_pos = 0]
  <2>1. pc[Kbd] = "reset" /\ GoTo(Kbd, "notify") /\ line' = Trim(l)
    BY <1>6 DEF CompactReadPos, At
  <2>2. /\ l \in LineType /\ l.data = line.data /\ l.length = line.length
        /\ l.write_pos = line.write_pos /\ l.read_pos = 0 /\ l.capacity = line.capacity
    BY <1>1 DEF LineType
  <2> HIDE DEF l
  <2>3. /\ line' \in LineType /\ line'.length = line.length
        /\ line'.write_pos = line.write_pos /\ line'.read_pos = 0 /\ line'.capacity = line.capacity
        /\ \A i \in Cells : i < line.length => line'.data[i] = line.data[i]
    BY <2>1, <2>2, TrimType
  <2> QED BY <1>0, <2>1, <2>3 DEF AfterCompact
<1> QED BY <1>3, <1>4, <1>5, <1>6, Zenon DEF Compact

(* The compaction keeps the positions together. *)
LEMMA CompactKeepsLine ==
  ASSUME LineInv, Compact
  PROVE  LineInv'
<1> DEFINE k == pc[Kbd]
           l == AfterCompact(k)
<1>1. /\ k \in {"move", "shorten", "rewind", "reset"} /\ ttyUnchanged
      /\ GoTo(Kbd, l)
      /\ UNCHANGED <<char, observers, typed, prompt, wire, held, failed>>
      /\ line' \in LineType /\ line'.capacity = line.capacity
      /\ line'.length = IF k = "shorten" THEN line.length - line.read_pos ELSE line.length
      /\ line'.write_pos = IF k = "rewind" THEN line.write_pos - line.read_pos ELSE line.write_pos
      /\ line'.read_pos = IF k = "reset" THEN 0 ELSE line.read_pos
  BY CompactStep, Zenon
<1>2. /\ Waiting /\ ~Decoding /\ line \in LineType /\ FirstChar = NoChar
      /\ Newline # NoChar
      /\ Placed(line, k) /\ Room(line, k)
      /\ failed \in BOOLEAN /\ char \in Chars \cup {NoChar}
  BY <1>1, LineIsKbds, Zenon DEF LineInv, TypeOK, PlaceInv, Ending
<1>3. l \in {"shorten", "rewind", "reset", "notify"} /\ l \in Labels \ {"key"}
  BY <1>1 DEF AfterCompact, Labels
<1>4. Placed(line', l) /\ Room(line', l)
  BY <1>1, <1>2 DEF Placed, Room, LineType, AfterCompact
<1> HIDE DEF l, k
<1>5. /\ TypeOK' /\ SentInv' /\ SecondChar' = SecondChar /\ Waiting'
      /\ pc'[Kbd] = l /\ FirstChar' = NoChar
  BY <1>1, <1>2, <1>3, AtLine, Zenon
<1>6. CharInv' /\ TurnInv'
  BY <1>1, <1>2, <1>3, <1>5, Zenon DEF CharInv, TurnInv, LineInv, Ending, k
<1>7. PlaceInv'
  BY <1>3, <1>4, <1>5, Zenon DEF PlaceInv, Ending
<1> QED BY <1>5, <1>6, <1>7 DEF LineInv

(* The observers are told: the reader waits no longer. *)
LEMMA NotifyKeepsLine ==
  ASSUME LineInv, AppInv, tty_notify_chars_available
  PROVE  LineInv' /\ Waiting /\ ~Waiting' /\ pc'[Kbd] = "more" /\ pc'[App] = pc[App]
<1> USE Who
<1>1. /\ pc[Kbd] = "notify" /\ GoTo(Kbd, "more") /\ "more" \in Labels
      /\ UNCHANGED <<out, port, unmasked, scancode, mods, char, line, observers, buffer, loaded,
                     typed, prompt, wire, held, failed>>
  BY DEF tty_notify_chars_available, At, deviceVars, kbdVars, ttyVars, readerVars, userVars, Labels
<1>2. /\ Waiting /\ ~Decoding /\ line \in LineType /\ FirstChar = NoChar /\ TypeOK /\ SentInv
      /\ ~prompt /\ SecondChar = NoChar /\ Placed(line, "notify") /\ Room(line, "notify")
  BY <1>1, LineIsKbds, Zenon DEF LineInv, TurnInv, PlaceInv, Ending
<1>3. App \in observers
  BY <1>2 DEF Waiting, AppInv, Observing
<1>4. current' = current /\ ready' = ready \cup {App}
  BY <1>3 DEF tty_notify_chars_available, Wake
<1>5. pc'[Kbd] = "more" /\ pc'[App] = pc[App] /\ pc' \in [Threads -> Labels] /\ ~Decoding'
  BY <1>1, <1>2, Zenon DEF GoTo, TypeOK, Decoding
<1>6. ~Waiting'
  BY <1>4 DEF Waiting
<1>7. TypeOK'
  BY <1>1, <1>2, <1>4, <1>5, Zenon DEF TypeOK
<1>8. SentInv' /\ SecondChar' = NoChar /\ FirstChar' = NoChar
  BY <1>1, <1>2, <1>5, KeysSent DEF FirstChar
<1>9. CharInv' /\ TurnInv'
  BY <1>1, <1>2, <1>5, <1>6, <1>8 DEF CharInv, TurnInv, Ending, Newline, NoChar
<1>10. PlaceInv'
  <2>1. Placed(line', "more") /\ Room(line', "more") /\ line'.read_pos < line'.length
    BY <1>1, <1>2 DEF Placed, Room, LineType
  <2>2. pc[App] \in {"yield", "again"}
    BY <1>2 DEF Waiting
  <2>3. Reading(line, pc[App])'
    BY <1>1, <1>5, <2>1, <2>2 DEF Reading
  <2> QED BY <1>5, <1>6, <2>1, <2>3, Zenon DEF PlaceInv, Reading
<1> QED BY <1>2, <1>5, <1>6, <1>7, <1>8, <1>9, <1>10 DEF LineInv

(* While the reader does not wait, the keyboard thread is not at the line. *)
LEMMA LineIsReaders ==
  ASSUME LineInv, ~Waiting
  PROVE  /\ pc[Kbd] \notin Ending \cup {"store", "grow", "erase", "shrink"}
         /\ ~prompt /\ FirstChar = NoChar /\ SecondChar = NoChar
         /\ line \in LineType /\ line.write_pos = line.length /\ line.read_pos <= line.length
         /\ Room(line, pc[Kbd]) /\ Reading(line, pc[App])
<1>1. ~prompt /\ FirstChar = NoChar /\ SecondChar = NoChar /\ pc[Kbd] \notin Ending
  BY DEF LineInv, TurnInv
<1>2. pc[Kbd] \notin {"store", "grow", "erase", "shrink"}
  BY <1>1, LineIsKbds DEF FirstChar
<1> QED BY <1>1, <1>2, Zenon DEF LineInv, PlaceInv, Placed, TypeOK, LineType, Ending

(* What a step of the reader leaves alone. *)
LEMMA ReaderApart ==
  ASSUME LineInv, UNCHANGED <<deviceVars, kbdVars, wire, held, failed>>,
         NEW l \in Labels, GoTo(App, l)
  PROVE  /\ SentInv' /\ FirstChar' = FirstChar /\ SecondChar' = SecondChar /\ CharInv'
         /\ pc'[App] = l /\ pc'[Kbd] = pc[Kbd] /\ pc' \in [Threads -> Labels]
         /\ UNCHANGED <<out, port, unmasked, scancode, mods, char, wire, held, failed>>
<1>1. pc'[App] = l /\ pc'[Kbd] = pc[Kbd] /\ pc' \in [Threads -> Labels]
  BY Who DEF GoTo, LineInv, TypeOK
<1>2. UNCHANGED <<out, port, unmasked, scancode, mods, char, wire, held, failed>>
  BY DEF deviceVars, kbdVars
<1>3. SentInv' /\ FirstChar' = FirstChar /\ SecondChar' = SecondChar
  BY <1>1, <1>2, OthersSent DEF LineInv
<1>4. CharInv'
  BY <1>1, <1>2 DEF LineInv, CharInv
<1> QED BY <1>1, <1>2, <1>3, <1>4

(* A step of the reader while the line is its own. *)
LEMMA ReaderKeepsLine ==
  ASSUME LineInv, ~Waiting, UNCHANGED <<deviceVars, kbdVars, wire, held, failed, prompt>>,
         NEW l \in Labels, GoTo(App, l), l \notin {"yield", "again"},
         UNCHANGED cpu, observers' \subseteq {App}, loaded' \in Nat,
         buffer' \in Seq(Chars \cup {NoChar}), typed' \in Seq(Chars),
         \/ line' = line
         \/ line' = [line EXCEPT !.read_pos = line.read_pos + 1] /\ line.read_pos < line.length,
         Reading(line, l)'
  PROVE  LineInv' /\ ~Waiting'
<1>0. /\ pc[Kbd] \notin Ending \cup {"store", "grow", "erase", "shrink"}
      /\ ~prompt /\ FirstChar = NoChar /\ SecondChar = NoChar
      /\ line \in LineType /\ line.write_pos = line.length /\ line.read_pos <= line.length
      /\ Room(line, pc[Kbd])
  BY LineIsReaders
<1>1. /\ SentInv' /\ FirstChar' = NoChar /\ SecondChar' = NoChar /\ CharInv'
      /\ pc'[App] = l /\ pc'[Kbd] = pc[Kbd] /\ pc' \in [Threads -> Labels]
      /\ UNCHANGED <<out, port, unmasked, scancode, mods, char, wire, held, failed>>
  BY <1>0, ReaderApart
<1>2. ~Waiting'
  BY <1>1 DEF Waiting
<1>3. /\ line' \in LineType /\ line'.write_pos = line.write_pos /\ line'.length = line.length
      /\ line'.capacity = line.capacity /\ line'.read_pos <= line'.length
  <2>1. CASE line' = line
    BY <1>0, <2>1
  <2>2. CASE line' = [line EXCEPT !.read_pos = line.read_pos + 1] /\ line.read_pos < line.length
    <3>1. line.read_pos + 1 \in Nat /\ line.read_pos + 1 <= line.length
      BY <1>0, <2>2 DEF LineType
    <3>2. line' \in LineType
      BY <1>0, <2>2, <3>1 DEF LineType
    <3>3. line'.write_pos = line.write_pos /\ line'.length = line.length
          /\ line'.capacity = line.capacity /\ line'.read_pos = line.read_pos + 1
      BY <1>0, <2>2 DEF LineType
    <3> QED BY <3>1, <3>2, <3>3
  <2> QED BY <2>1, <2>2
<1>4. TypeOK'
  BY <1>1, <1>3 DEF TypeOK, LineInv, LineType, cpu
<1>5. TurnInv'
  BY <1>0, <1>1, <1>2 DEF TurnInv, Newline, NoChar
<1>6. PlaceInv'
  BY <1>0, <1>1, <1>2, <1>3 DEF PlaceInv, Placed, Room, Ending, Reading
<1> QED BY <1>1, <1>2, <1>4, <1>5, <1>6 DEF LineInv

(* The reader goes to sleep. *)
LEMMA WaitKeepsLine ==
  ASSUME LineInv, AppInv, WaitBlock \/ WaitYield
  PROVE  LineInv'
<1> USE Who
<1>0. TypeOK
  BY DEF LineInv
<1>1. CASE WaitBlock
  <2>1. /\ pc[App] = "block" /\ current = App /\ ready' = ready \ {App} /\ current' = current
        /\ prompt' = TRUE /\ GoTo(App, "yield") /\ "yield" \in Labels
        /\ UNCHANGED <<deviceVars, kbdVars, wire, held, failed, typed, line, observers, buffer, loaded>>
    BY <1>1 DEF WaitBlock, At, Block, appUnchanged, ttyVars, readerVars, Labels
  <2>2. ~Waiting
    BY <2>1 DEF Waiting
  <2>3. /\ pc[Kbd] \notin Ending \cup {"store", "grow", "erase", "shrink"}
        /\ FirstChar = NoChar /\ SecondChar = NoChar /\ line \in LineType
        /\ line.read_pos = line.length /\ Placed(line, pc[Kbd]) /\ Room(line, pc[Kbd])
    BY <2>1, <2>2, LineIsReaders, Zenon DEF Reading, LineInv, PlaceInv
  <2>4. /\ SentInv' /\ FirstChar' = NoChar /\ SecondChar' = NoChar /\ CharInv'
        /\ pc'[App] = "yield" /\ pc'[Kbd] = pc[Kbd] /\ pc' \in [Threads -> Labels]
        /\ UNCHANGED <<out, port, unmasked, scancode, mods, char, wire, held, failed>>
    BY <2>1, <2>3, ReaderApart, Zenon
  <2>5. Waiting'
    BY <2>1, <2>4 DEF Waiting
  <2>6. TypeOK'
    BY <1>0, <2>1, <2>4, Zenon DEF TypeOK
  <2>7. TurnInv'
    BY <2>3, <2>4, <2>5, Zenon DEF TurnInv, Newline, NoChar
  <2>8. NoNewline(line')
    <3>1. Cells \subseteq Nat
      BY ConsoleAssumption DEF Cells
    <3> QED BY <2>1, <2>3, <3>1 DEF NoNewline, LineType
  <2>9. PlaceInv'
    BY <2>1, <2>3, <2>4, <2>5, <2>8, Zenon DEF PlaceInv
  <2> QED BY <2>4, <2>6, <2>7, <2>9 DEF LineInv
<1>2. CASE WaitYield
  <2>1. /\ pc[App] = "yield" /\ ready' = ready /\ current' \in ready
        /\ GoTo(App, "again") /\ "again" \in Labels
        /\ UNCHANGED <<deviceVars, kbdVars, wire, held, failed, typed, prompt, line, observers, buffer, loaded>>
    BY <1>2 DEF WaitYield, At, Yield, appUnchanged, ttyVars, readerVars, Labels
  <2>2. /\ SentInv' /\ FirstChar' = FirstChar /\ SecondChar' = SecondChar /\ CharInv'
        /\ pc'[App] = "again" /\ pc'[Kbd] = pc[Kbd] /\ pc' \in [Threads -> Labels]
        /\ UNCHANGED <<out, port, unmasked, scancode, mods, char, wire, held, failed>>
    BY <2>1, ReaderApart
  <2>3. Waiting' <=> Waiting
    BY <2>1, <2>2 DEF Waiting
  <2>4. TypeOK'
    BY <1>0, <2>1, <2>2, Zenon DEF TypeOK
  <2>5. TurnInv'
    BY <2>1, <2>2, <2>3, Zenon DEF TurnInv, LineInv
  <2>6. PlaceInv'
    BY <2>1, <2>2, <2>3, Zenon DEF PlaceInv, LineInv, Reading
  <2> QED BY <2>2, <2>4, <2>5, <2>6 DEF LineInv
<1> QED BY <1>1, <1>2

(* The reader, when it has the line. *)
LEMMA AppKeepsLine ==
  ASSUME LineInv, AppInv, AppStep
  PROVE  LineInv'
<1> USE Who
<1>0. /\ TypeOK /\ line \in LineType /\ loaded \in Nat /\ buffer \in Seq(Chars \cup {NoChar})
      /\ typed \in Seq(Chars) /\ observers \subseteq {App} /\ line.read_pos \in Nat /\ line.length \in Nat
  BY Zenon DEF LineInv, TypeOK, LineType
<1>1. ASSUME pc[App] \notin {"yield", "again"} PROVE ~Waiting /\ Reading(line, pc[App]) /\ line.read_pos <= line.length
  BY <1>1, LineIsReaders DEF Waiting
<1>2. CASE WaitTest
  <2>1. /\ pc[App] = "wait" /\ appUnchanged /\ UNCHANGED <<cpu, observers, buffer, loaded, prompt, line>>
        /\ GoTo(App, IF Available THEN "check" ELSE "observe")
    BY <1>2 DEF WaitTest, At, ttyVars, readerVars
  <2>2. CASE Available
    <3>1. GoTo(App, "check") /\ "check" \in Labels
      BY <2>1, <2>2 DEF Labels
    <3>2. Reading(line, "check")'
      BY <1>0, <1>1, <2>1, <2>2 DEF Reading, Available
    <3> QED BY <1>0, <1>1, <2>1, <3>1, <3>2, ReaderKeepsLine DEF appUnchanged
  <2>3. CASE ~Available
    <3>1. GoTo(App, "observe") /\ "observe" \in Labels
      BY <2>1, <2>3 DEF Labels
    <3>2. Reading(line, "observe")'
      BY <1>0, <1>1, <2>1, <2>3 DEF Reading, Available
    <3> QED BY <1>0, <1>1, <2>1, <3>1, <3>2, ReaderKeepsLine DEF appUnchanged
  <2> QED BY <2>2, <2>3
<1>3. CASE tty_observer_new
  <2>1. /\ pc[App] = "observe" /\ appUnchanged /\ UNCHANGED <<cpu, line, buffer, loaded, prompt>>
        /\ GoTo(App, "block") /\ "block" \in Labels /\ observers' \subseteq {App}
    BY <1>0, <1>3 DEF tty_observer_new, At, readerVars, Labels
  <2>2. Reading(line, "block")'
    BY <1>0, <1>1, <2>1 DEF Reading
  <2> QED BY <1>0, <1>1, <2>1, <2>2, ReaderKeepsLine DEF appUnchanged
<1>4. CASE WaitAgain
  <2>1. /\ pc[App] = "again" /\ current = App /\ appUnchanged
        /\ UNCHANGED <<cpu, observers, buffer, loaded, prompt, line>>
        /\ GoTo(App, IF Available THEN "forget" ELSE "block")
    BY <1>4 DEF WaitAgain, At, ttyVars, readerVars
  <2>2. ~Waiting
    BY <2>1 DEF Waiting, AppInv, Asleep
  <2>3. line.read_pos < line.length
    BY <2>1, <2>2, LineIsReaders DEF Reading
  <2>4. GoTo(App, "forget") /\ "forget" \in Labels
    BY <1>0, <2>1, <2>3 DEF Available, Labels
  <2>5. Reading(line, "forget")'
    BY <2>1, <2>3 DEF Reading
  <2> QED BY <1>0, <2>1, <2>2, <2>4, <2>5, ReaderKeepsLine DEF appUnchanged
<1>5. CASE tty_observer_delete
  <2>1. /\ pc[App] = "forget" /\ appUnchanged /\ UNCHANGED <<cpu, line, buffer, loaded, prompt>>
        /\ GoTo(App, "check") /\ "check" \in Labels /\ observers' \subseteq {App}
    BY <1>0, <1>5 DEF tty_observer_delete, At, readerVars, Labels
  <2>2. Reading(line, "check")'
    BY <1>0, <1>1, <2>1 DEF Reading
  <2> QED BY <1>0, <1>1, <2>1, <2>2, ReaderKeepsLine DEF appUnchanged
<1>6. CASE GetTest
  <2>1. pc[App] = "check" /\ appUnchanged /\ UNCHANGED <<cpu, observers, line, loaded, prompt>>
    BY <1>6 DEF GetTest, At, ttyVars
  <2>2. line.read_pos < line.length
    BY <1>1, <2>1 DEF Reading
  <2>3. GoTo(App, "get") /\ "get" \in Labels /\ buffer' = buffer
    BY <1>0, <1>6, <2>2 DEF GetTest, Available, Labels
  <2>4. Reading(line, "get")'
    BY <2>1, <2>2 DEF Reading
  <2> QED BY <1>0, <1>1, <2>1, <2>3, <2>4, ReaderKeepsLine DEF appUnchanged
<1>7. CASE GetChar
  <2>1. /\ pc[App] = "get" /\ appUnchanged /\ UNCHANGED <<cpu, observers, line, loaded, prompt>>
        /\ GoTo(App, "load") /\ "load" \in Labels
    BY <1>7 DEF GetChar, At, ttyVars, Labels
  <2>2. PICK c \in IF line.read_pos \in Cells THEN {line.data[line.read_pos]} ELSE Chars :
          buffer' = Append(buffer, c)
    BY <1>7 DEF GetChar
  <2>3. c \in Chars \cup {NoChar}
    BY <1>0 DEF LineType
  <2>4. buffer' \in Seq(Chars \cup {NoChar})
    BY <1>0, <2>2, <2>3, Appended
  <2>5. Reading(line, "load")'
    BY <1>1, <2>1, Zenon DEF Reading
  <2> QED BY <1>0, <1>1, <2>1, <2>4, <2>5, ReaderKeepsLine, Zenon DEF appUnchanged
<1>8. CASE LoadReadPos
  <2>1. /\ pc[App] = "load" /\ appUnchanged /\ UNCHANGED <<cpu, observers, line, buffer, prompt>>
        /\ GoTo(App, "inc") /\ "inc" \in Labels /\ loaded' = line.read_pos
    BY <1>8 DEF LoadReadPos, At, ttyVars, Labels
  <2>2. Reading(line, "inc")'
    BY <1>1, <2>1 DEF Reading
  <2> QED BY <1>0, <1>1, <2>1, <2>2, ReaderKeepsLine DEF appUnchanged
<1>9. CASE StoreReadPos
  <2>1. /\ pc[App] = "inc" /\ appUnchanged /\ UNCHANGED <<cpu, observers, buffer, prompt>>
        /\ line' = [line EXCEPT !.read_pos = loaded + 1] /\ loaded' = 0
    BY <1>9 DEF StoreReadPos, At
  <2>2. PICK l \in {"return", "wait"} : GoTo(App, l)
    BY <1>9 DEF StoreReadPos
  <2>3. loaded = line.read_pos /\ line.read_pos < line.length
    BY <1>1, <2>1 DEF Reading
  <2>4. line' = [line EXCEPT !.read_pos = line.read_pos + 1]
    BY <2>1, <2>3
  <2>5. Reading(line, l)' /\ l \in Labels /\ l \notin {"yield", "again"}
    BY DEF Reading, Labels
  <2> QED BY <1>0, <1>1, <2>1, <2>2, <2>3, <2>4, <2>5, ReaderKeepsLine, Zenon DEF appUnchanged
<1>10. CASE GetsReturns
  <2>1. /\ pc[App] = "return" /\ UNCHANGED <<cpu, deviceVars, kbdVars, line, observers, loaded, prompt, wire, held, failed>>
        /\ GoTo(App, "wait") /\ "wait" \in Labels /\ buffer' = <<>>
        /\ typed' = SubSeq(typed, Len(buffer) + 1, Len(typed))
    BY <1>10 DEF GetsReturns, At, ttyVars, Labels
  <2>2. typed' \in Seq(Chars)
    <3>1. Len(buffer) \in Nat /\ Len(typed) \in Nat /\ \A i \in 1 .. Len(typed) : typed[i] \in Chars
      BY <1>0, LengthOf, Element
    <3>2. \A i \in Len(buffer) + 1 .. Len(typed) : typed[i] \in Chars
      BY <3>1
    <3> QED BY <2>1, <3>1, <3>2, Slice
  <2>3. Reading(line, "wait")' /\ buffer' \in Seq(Chars \cup {NoChar})
    BY <2>1 DEF Reading
  <2> QED BY <1>0, <1>1, <2>1, <2>2, <2>3, ReaderKeepsLine
<1> QED BY <1>2, <1>3, <1>4, <1>5, <1>6, <1>7, <1>8, <1>9, <1>10, WaitKeepsLine DEF AppStep

(* Nothing is on its way at the start. *)
LEMMA InitLine ==
  ASSUME Init
  PROVE  LineInv
<1>1. /\ pc \in [Threads -> Labels] /\ pc[Kbd] = "flush" /\ pc[App] = "wait"
  BY ConsoleAssumption DEF Init, Labels
<1>2. line \in LineType /\ line.length = 0 /\ line.write_pos = 0 /\ line.read_pos = 0 /\ line.capacity = 0
  BY DEF Init, LineType
<1>3. TypeOK
  <2>1. current \in Threads /\ ready \subseteq Threads
    BY ConsoleAssumption DEF Init
  <2>2. /\ scancode \in Seq(Bytes \cup Leftover) /\ buffer \in Seq(Chars \cup {NoChar})
        /\ typed \in Seq(Chars) /\ wire \in Seq({"e0", "f0"})
    BY DEF Init
  <2> QED BY <1>1, <1>2, <2>1, <2>2, Zenon DEF Init, TypeOK, LineType
<1>4. ~Decoding /\ ~KeyWaits /\ ~Waiting
  BY <1>1 DEF Init, Decoding, KeyWaits, Waiting
<1>5. SentInv
  BY <1>4, NoPrefix DEF Init, SentInv, PrefixLeft, ModsDecoded
<1>6. FirstChar = NoChar /\ SecondChar = NoChar
  BY <1>1, <1>4 DEF FirstChar, SecondChar
<1>7. CharInv /\ TurnInv
  BY <1>1, <1>4, <1>6 DEF Init, CharInv, TurnInv, Ending, Newline, NoChar
<1>8. PlaceInv
  BY <1>1, <1>2, <1>4 DEF PlaceInv, Placed, Room, Reading
<1> QED BY <1>3, <1>5, <1>7, <1>8 DEF LineInv

(* A step that is no step of the console. *)
LEMMA IdleKeepsLine ==
  ASSUME LineInv, UNCHANGED consoleVars, ready' = ready, current' \in Threads
  PROVE  LineInv'
<1>1. UNCHANGED <<out, port, unmasked, scancode, mods, char, line, observers, buffer, loaded,
                  pc, typed, prompt, wire, held, failed>>
  BY DEF consoleVars, deviceVars, kbdVars, ttyVars, readerVars, userVars
<1>2. SentInv' /\ FirstChar' = FirstChar /\ SecondChar' = SecondChar
  BY <1>1, OthersSent DEF LineInv
<1>3. Waiting' <=> Waiting
  BY <1>1 DEF Waiting
<1>4. TypeOK'
  BY <1>1, Zenon DEF LineInv, TypeOK
<1>5. CharInv' /\ TurnInv' /\ PlaceInv'
  BY <1>1, <1>2, <1>3, Zenon DEF LineInv, CharInv, TurnInv, PlaceInv, Reading
<1> QED BY <1>2, <1>4, <1>5 DEF LineInv

(* The turns at the line, in every behaviour in which the keyboard is used *)
(* only while a reader waits.                                              *)
THEOREM TurnsAtTheLine ==
  ASSUME ~TypeAhead, LeftoverIsMute
  PROVE  Spec => []LineInv
<1>1. Init => LineInv
  BY InitLine
<1>2. LineInv /\ KbdInv /\ (PcIsFunction /\ AppInv) /\ [Next]_vars => LineInv'
  <2> SUFFICES ASSUME LineInv, KbdInv, AppInv, [Next]_vars PROVE LineInv'
    OBVIOUS
  <2>1. NoStaleRead
    BY NothingStale
  <2>2. CASE KbdStep
    BY <2>1, <2>2, DriverKeepsLine, EraseTestKeepsLine, EraseKeepsLine, StoreKeepsLine,
       CountKeepsLine, CompactKeepsLine, NotifyKeepsLine DEF KbdStep, Compact
  <2>3. ASSUME NEW t \in Threads, Preempt(t) PROVE LineInv'
    <3>1. UNCHANGED consoleVars /\ ready' = ready /\ current' \in Threads
      BY <2>3 DEF Preempt, Yield
    <3> QED BY <3>1, IdleKeepsLine
  <2>4. CASE UNCHANGED vars
    <3>1. UNCHANGED consoleVars /\ ready' = ready /\ current' \in Threads
      BY <2>4, Zenon DEF vars, consoleVars, deviceVars, kbdVars, ttyVars, readerVars, userVars, LineInv, TypeOK
    <3> QED BY <3>1, IdleKeepsLine
  <2> QED BY <2>2, <2>3, <2>4, AppKeepsLine, ByteKeepsLine DEF Next
<1> QED BY <1>1, <1>2, KbdAlways, AppAlways, PTL DEF Spec

(* The positions of tty_line never underflow and the console's state has   *)
(* its type, although the two threads share the line without a lock.       *)
THEOREM ConsoleTypes ==
  ASSUME ~TypeAhead, LeftoverIsMute
  PROVE  Spec => []TypeOK
<1>1. LineInv => TypeOK
  BY DEF LineInv
<1> QED BY <1>1, TurnsAtTheLine, PTL

(* tty_line_append_char stores within the buffer it has reserved.          *)
THEOREM StoresInBounds ==
  ASSUME ~TypeAhead, LeftoverIsMute
  PROVE  Spec => [](pc[Kbd] = "grow" => line.write_pos < line.capacity)
<1>1. LineInv => (pc[Kbd] = "grow" => line.write_pos < line.capacity)
  BY Zenon DEF LineInv, PlaceInv, Room
<1> QED BY <1>1, TurnsAtTheLine, PTL

(* A reader does not sleep on a line that has been entered, once           *)
(* tty_notify_chars_available has told the observers.                      *)
THEOREM LineNeverMissed ==
  ASSUME ~TypeAhead, LeftoverIsMute
  PROVE  Spec => []NoLineMissed
<1>1. LineInv /\ (PcIsFunction /\ AppInv) => NoLineMissed
  <2> SUFFICES ASSUME LineInv, AppInv, App \notin ready, pc[Kbd] \notin Ending
               PROVE  \A i \in Cells : line.read_pos <= i /\ i < line.length => line.data[i] # Newline
    BY Zenon DEF NoLineMissed, Ending
  <2>1. Waiting
    BY DEF AppInv, Asleep, Waiting
  <2> QED BY <2>1, Zenon DEF LineInv, PlaceInv, NoNewline
<1> QED BY <1>1, TurnsAtTheLine, AppAlways, PTL

----------------------------------------------------------------------------
(* The text.  While the reader waits, what the user has typed and edited   *)
(* is the text of the line after the characters on their way; afterwards   *)
(* it is what the reader has read and what is left in the line.            *)

(* Where the text begins and ends in the steps of the compaction. *)
TextStart(l, k) == IF k \in {"shorten", "rewind", "reset"} THEN 0 ELSE l.read_pos
TextEnd(l, k) == IF k = "shorten" THEN l.length - l.read_pos ELSE l.length
TextLen(l, k) == TextEnd(l, k) - TextStart(l, k)
Text(l, k) == [i \in 1 .. TextLen(l, k) |-> l.data[TextStart(l, k) + i - 1]]

Entering ==
  /\ buffer = <<>>
  /\ typed = Typed(Typed(Text(line, pc[Kbd]), FirstChar), SecondChar)
  /\ line.read_pos <= MaxTyped + 1
  /\ TextLen(line, pc[Kbd]) <= MaxTyped + 1
  /\ Len(Typed(Text(line, pc[Kbd]), FirstChar)) <= MaxTyped + 1
  /\ Len(typed) <= MaxTyped + 1
  /\ pc[Kbd] \in Ending => Last(Text(line, pc[Kbd])) = Newline

(* The first character the reader has not read. *)
Unread == IF pc[App] \in {"load", "inc"} THEN line.read_pos + 1 ELSE line.read_pos

Returning ==
  /\ line.length <= MaxTyped + 1
  /\ line.read_pos < line.length => line.data[line.length - 1] = Newline
  /\ Len(typed) = Len(buffer) + (line.length - Unread)
  /\ \A i \in 1 .. Len(buffer) : typed[i] = buffer[i]
  /\ \A i \in Unread .. line.length - 1 : typed[Len(buffer) + 1 + (i - Unread)] = line.data[i]
  /\ pc[App] \in {"wait", "observe", "block"} /\ line.read_pos = line.length => buffer = <<>>
  /\ pc[App] \in {"load", "inc"} => buffer # <<>> /\ Last(buffer) = line.data[line.read_pos]

TextInv == ~failed => IF Waiting THEN Entering ELSE Returning

(* The text is a sequence of the characters between two positions. *)
LEMMA TextIsSeq ==
  ASSUME NEW l \in LineType, NEW k, Placed(l, k),
         l.read_pos <= MaxTyped + 1, TextLen(l, k) <= MaxTyped + 1
  PROVE  /\ TextLen(l, k) \in Nat /\ TextStart(l, k) \in Nat
         /\ TextStart(l, k) + TextLen(l, k) = TextEnd(l, k)
         /\ \A i \in 0 .. TextLen(l, k) : i <= MaxTyped => TextStart(l, k) + i \in Cells
         /\ Text(l, k) \in Seq(Chars \cup {NoChar})
         /\ Len(Text(l, k)) = TextLen(l, k)
         /\ \A i \in 1 .. TextLen(l, k) : Text(l, k)[i] = l.data[TextStart(l, k) + i - 1]
<1> DEFINE n == TextLen(l, k)
           s == TextStart(l, k)
<1>1. l.length \in Nat /\ l.read_pos \in Nat /\ MaxTyped \in Nat
  BY ConsoleAssumption DEF LineType
<1>2. n \in Nat /\ s \in Nat /\ s <= MaxTyped + 1 /\ s + n = TextEnd(l, k)
  BY <1>1 DEF TextLen, TextStart, TextEnd, Placed
<1> HIDE DEF n, s
<1>3. \A i \in 0 .. n : i <= MaxTyped => s + i \in Cells
  BY <1>1, <1>2 DEF Cells
<1>4. \A i \in 1 .. n : l.data[s + i - 1] \in Chars \cup {NoChar}
  <2> SUFFICES ASSUME NEW i \in 1 .. n PROVE l.data[s + i - 1] \in Chars \cup {NoChar}
    OBVIOUS
  <2>1. i - 1 \in 0 .. n /\ i - 1 <= MaxTyped /\ s + i - 1 = s + (i - 1)
    BY <1>1, <1>2 DEF n
  <2>2. s + i - 1 \in Cells
    BY <1>3, <2>1
  <2> QED BY <2>2 DEF LineType
<1>5. Text(l, k) = [i \in 1 .. n |-> l.data[s + i - 1]]
  BY DEF Text, n, s
<1>6. Text(l, k) \in Seq(Chars \cup {NoChar}) /\ Len(Text(l, k)) = n
  BY <1>2, <1>4, <1>5
<1>7. \A i \in 1 .. n : Text(l, k)[i] = l.data[s + i - 1]
  BY <1>5
<1> QED BY <1>2, <1>3, <1>6, <1>7, Zenon DEF n, s

(* The same characters at other positions are the same text. *)
LEMMA TextSame ==
  ASSUME NEW l \in LineType, NEW k, NEW m \in LineType, NEW j,
         l.read_pos <= MaxTyped + 1, TextLen(l, k) <= MaxTyped + 1,
         TextLen(m, j) = TextLen(l, k), TextLen(l, k) \in Nat,
         \A i \in 1 .. TextLen(l, k) :
            m.data[TextStart(m, j) + i - 1] = l.data[TextStart(l, k) + i - 1]
  PROVE  Text(m, j) = Text(l, k)
BY DEF Text

(* An edited text has at most one character more. *)
LEMMA EditLen ==
  ASSUME NEW S, NEW text \in Seq(S), NEW c \in S
  PROVE  /\ Len(Typed(text, NoChar)) = Len(text) /\ Typed(text, NoChar) = text
         /\ c \notin {NoChar, Backspace} => Typed(text, c) = Append(text, c) /\ Len(Typed(text, c)) = Len(text) + 1
         /\ Len(Typed(text, c)) <= Len(text) + 1
         /\ Len(Typed(text, Backspace)) <= Len(text)
<1>1. Len(text) \in Nat /\ Len(Append(text, c)) = Len(text) + 1
  BY LengthOf, Appended
<1>2. text # <<>> => Len(Front(text)) <= Len(text)
  <2>1. \A i \in 1 .. Len(text) - 1 : text[i] \in S
    BY <1>1, Element
  <2>2. Len(SubSeq(text, 1, Len(text) - 1)) = IF 1 <= Len(text) - 1 THEN (Len(text) - 1) - 1 + 1 ELSE 0
    BY <1>1, <2>1, Slice
  <2> QED BY <1>1, <2>2 DEF Front
<1> QED BY <1>1, <1>2 DEF Typed, Edit

(* What there is to know of the text while the reader waits. *)
LEMMA TextBefore ==
  ASSUME LineInv, TextInv, ~failed, Waiting
  PROVE  /\ Entering /\ line \in LineType /\ Placed(line, pc[Kbd])
         /\ Text(line, pc[Kbd]) \in Seq(Chars \cup {NoChar})
         /\ Len(Text(line, pc[Kbd])) = TextLen(line, pc[Kbd])
         /\ TextLen(line, pc[Kbd]) \in Nat /\ TextStart(line, pc[Kbd]) \in Nat
         /\ \A i \in 0 .. TextLen(line, pc[Kbd]) : i <= MaxTyped => TextStart(line, pc[Kbd]) + i \in Cells
         /\ \A i \in 1 .. TextLen(line, pc[Kbd]) :
              Text(line, pc[Kbd])[i] = line.data[TextStart(line, pc[Kbd]) + i - 1]
         /\ FirstChar \in Chars \cup {NoChar} /\ SecondChar \in Chars \cup {NoChar}
         /\ MaxTyped \in Nat /\ typed \in Seq(Chars)
<1>1. Entering
  BY DEF TextInv
<1>2. line \in LineType /\ Placed(line, pc[Kbd]) /\ typed \in Seq(Chars) /\ MaxTyped \in Nat
  BY ConsoleAssumption, Zenon DEF LineInv, TypeOK, LineType, PlaceInv
<1>3. line.read_pos <= MaxTyped + 1 /\ TextLen(line, pc[Kbd]) <= MaxTyped + 1
  BY <1>1 DEF Entering
<1>4. FirstChar \in Chars \cup {NoChar} /\ SecondChar \in Chars \cup {NoChar}
  BY CharTypes DEF LineInv
<1>5. /\ Text(line, pc[Kbd]) \in Seq(Chars \cup {NoChar})
      /\ Len(Text(line, pc[Kbd])) = TextLen(line, pc[Kbd])
      /\ TextLen(line, pc[Kbd]) \in Nat /\ TextStart(line, pc[Kbd]) \in Nat
      /\ \A i \in 0 .. TextLen(line, pc[Kbd]) : i <= MaxTyped => TextStart(line, pc[Kbd]) + i \in Cells
      /\ \A i \in 1 .. TextLen(line, pc[Kbd]) :
           Text(line, pc[Kbd])[i] = line.data[TextStart(line, pc[Kbd]) + i - 1]
  BY <1>2, <1>3, TextIsSeq, Zenon
<1> QED BY <1>1, <1>2, <1>4, <1>5, Zenon

(* A character on its way to nowhere. *)
LEMMA TypedNothing == \A text : Typed(text, NoChar) = text
BY DEF Typed

(* What the user types arrives at the end of the characters on their way. *)
LEMMA ByteKeepsText ==
  ASSUME ~TypeAhead, LineInv, TextInv, NEW b \in Bytes, ByteArrives(b)
  PROVE  TextInv'
<1>1. /\ ready' \in {ready, ready \cup {Kbd}}
      /\ UNCHANGED <<line, buffer, pc, failed>>
  BY DEF ByteArrives, Wake, cpu, kbdVars, ttyVars, readerVars
<1>2. /\ SecondChar = NoChar /\ FirstChar' = FirstChar
      /\ SecondChar' # NoChar => prompt /\ MayType(SecondChar')
      /\ typed' = Typed(typed, SecondChar')
  BY ByteSent DEF LineInv
<1>3. Waiting' <=> Waiting
  BY <1>1, Who, WaitingSame
<1> SUFFICES ASSUME ~failed PROVE IF Waiting THEN Entering' ELSE Returning'
  BY <1>1, <1>3 DEF TextInv
<1>4. CASE Waiting
  <2> DEFINE T == Text(line, pc[Kbd])
             c == SecondChar'
  <2>1. /\ Entering /\ T \in Seq(Chars \cup {NoChar}) /\ typed \in Seq(Chars) /\ MaxTyped \in Nat
        /\ TextLen(line, pc[Kbd]) \in Nat
    BY <1>4, TextBefore, Zenon
  <2>2. typed = Typed(T, FirstChar)
    BY <1>2, <2>1, TypedNothing DEF Entering
  <2>3. typed' = Typed(Typed(T, FirstChar'), c)
    BY <1>2, <2>2
  <2>4. c \in Chars \cup {NoChar}
    <3>1. \A m, w, key : CharOf(m, w, key) \in Chars \cup {NoChar}
      BY DEF CharOf, scancodes_set_2, Chars
    <3> QED BY <3>1 DEF SecondChar
  <2> HIDE DEF c
  <2>5. Len(typed') <= MaxTyped + 1
    <3>0. typed \in Seq(Chars \cup {NoChar}) /\ Len(typed) \in Nat /\ Len(typed) <= MaxTyped + 1
      BY <2>1, WiderSeq, LengthOf DEF Entering
    <3>1. /\ Len(Typed(typed, NoChar)) = Len(typed) /\ Len(Typed(typed, Backspace)) <= Len(typed)
          /\ c \notin {NoChar, Backspace} => Len(Typed(typed, c)) = Len(typed) + 1
      BY <2>4, <3>0, EditLen
    <3>2. c = NoChar \/ c = Backspace \/ Len(typed) < MaxTyped + 1
      BY <1>2, <2>1, <3>0 DEF MayType, c
    <3>3. typed' = Typed(typed, c)
      BY <1>2 DEF c
    <3>4. CASE c \in {NoChar, Backspace}
      <4>1. Len(typed') <= Len(typed)
        BY <3>0, <3>1, <3>3, <3>4
      <4>2. typed' \in Seq(Chars)
        BY <2>1, <2>4, <3>3, EditType
      <4>3. Len(typed') \in Nat
        BY <4>2, LengthOf
      <4> QED BY <2>1, <3>0, <4>1, <4>3
    <3>5. CASE c \notin {NoChar, Backspace}
      BY <3>0, <3>1, <3>2, <3>3, <3>5, <2>1
    <3> QED BY <3>4, <3>5
  <2>6. Entering'
    BY <1>1, <1>2, <2>1, <2>3, <2>5, Zenon DEF Entering, c
  <2> QED BY <1>4, <2>6
<1>5. CASE ~Waiting
  <2>1. ~prompt /\ Returning
    BY <1>5 DEF LineInv, TurnInv, TextInv
  <2>2. typed' = typed
    BY <1>2, <2>1, TypedNothing
  <2>3. Returning'
    BY <1>1, <2>1, <2>2, Zenon DEF Returning, Unread
  <2> QED BY <1>5, <2>3
<1> QED BY <1>4, <1>5

(* The keyboard thread up to the line moves a character on. *)
LEMMA DriverKeepsText ==
  ASSUME LineInv, TextInv, Shift
  PROVE  TextInv'
<1>1. /\ Waiting' <=> Waiting
      /\ UNCHANGED <<line, buffer, typed, failed>> /\ pc'[App] = pc[App]
      /\ pc[Kbd] \in Apart /\ pc'[Kbd] \in Apart \cup {"erase", "store"}
  BY Zenon DEF Shift
<1> SUFFICES ASSUME ~failed PROVE IF Waiting THEN Entering' ELSE Returning'
  BY <1>1, Zenon DEF TextInv
<1>2. CASE Waiting
  <2>1. /\ Text(line', pc'[Kbd]) = Text(line, pc[Kbd]) /\ TextLen(line', pc'[Kbd]) = TextLen(line, pc[Kbd])
        /\ pc'[Kbd] \notin Ending
    BY <1>1, Zenon DEF Text, TextLen, TextStart, TextEnd, Apart, Ending
  <2> DEFINE T == Text(line, pc[Kbd])
  <2>2. Entering /\ T \in Seq(Chars \cup {NoChar})
    BY <1>2, TextBefore, Zenon
  <2> HIDE DEF T
  <2>3. /\ typed' = Typed(Typed(T, FirstChar'), SecondChar')
        /\ Len(Typed(T, FirstChar')) <= MaxTyped + 1
    <3>1. /\ typed = Typed(Typed(T, FirstChar), SecondChar)
          /\ Len(Typed(T, FirstChar)) <= MaxTyped + 1 /\ Len(typed) <= MaxTyped + 1
      BY <2>2 DEF Entering, T
    <3>2. CASE FirstChar' = FirstChar /\ SecondChar' = SecondChar
      BY <1>1, <3>1, <3>2, Zenon
    <3>3. CASE FirstChar = NoChar /\ FirstChar' = SecondChar /\ SecondChar' = NoChar
      <4>1. Typed(T, FirstChar) = T /\ typed = Typed(T, SecondChar)
        BY <3>1, <3>3, TypedNothing
      <4> QED BY <1>1, <3>1, <3>3, <4>1, TypedNothing
    <3> QED BY <3>2, <3>3 DEF Shift
  <2>4. Entering'
    BY <1>1, <2>1, <2>2, <2>3, Zenon DEF Entering, T
  <2> QED BY <1>2, <2>4
<1>3. CASE ~Waiting
  <2>1. Returning
    BY <1>3 DEF TextInv
  <2>2. Returning'
    BY <1>1, <2>1, Zenon DEF Returning, Unread
  <2> QED BY <1>3, <2>2
<1> QED BY <1>2, <1>3

(* Backspace is asked for: with nothing to take back it has no effect. *)
LEMMA EraseTestKeepsText ==
  ASSUME LineInv, TextInv, EraseTest
  PROVE  TextInv'
<1>1. /\ pc[Kbd] = "erase" /\ ttyUnchanged
      /\ UNCHANGED <<char, line, observers, typed, prompt, wire, held, failed>>
  BY DEF EraseTest, At, ttyVars, userVars
<1> DEFINE l == IF line.read_pos < line.write_pos THEN "shrink" ELSE "more"
<1>2. GoTo(Kbd, l) /\ l \in Labels \ {"key"}
  BY DEF EraseTest, Labels
<1>3. /\ Waiting /\ ~Decoding /\ line' \in LineType /\ FirstChar = char
      /\ char' \in Chars \cup {NoChar} /\ failed' \in BOOLEAN /\ char = Backspace
  BY <1>1, LineIsKbds, Zenon DEF LineInv, TypeOK, CharInv, Ending
<1>4. l \in {"shrink", "more"} /\ (l = "more" => ~(line.read_pos < line.write_pos))
  OBVIOUS
<1> HIDE DEF l
<1>5. /\ SecondChar' = SecondChar /\ Waiting' /\ pc'[Kbd] = l /\ buffer' = buffer
      /\ FirstChar' = IF l \in {"store", "grow", "erase", "shrink"} THEN char' ELSE NoChar
  BY <1>1, <1>2, <1>3, AtLine, Zenon
<1> SUFFICES ASSUME ~failed PROVE Entering'
  BY <1>1, <1>5, Zenon DEF TextInv
<1> DEFINE T == Text(line, pc[Kbd])
<1>6. /\ Entering /\ Placed(line, "erase") /\ T \in Seq(Chars \cup {NoChar})
      /\ Len(T) = TextLen(line, pc[Kbd])
  BY <1>1, <1>3, TextBefore, Zenon
<1>7. /\ Text(line', pc'[Kbd]) = T /\ TextLen(line', pc'[Kbd]) = TextLen(line, pc[Kbd])
      /\ pc'[Kbd] \notin Ending /\ TextLen(line, pc[Kbd]) = line.length - line.read_pos
  BY <1>1, <1>4, <1>5, Zenon DEF Text, TextLen, TextStart, TextEnd, Ending
<1>8. Typed(T, FirstChar') = Typed(T, FirstChar)
  <2>1. CASE l = "shrink"
    BY <1>1, <1>3, <1>5, <2>1, Zenon
  <2>2. CASE l = "more"
    <3>1. Len(T) = 0
      <4>0. line \in LineType
        BY <1>1, <1>3, Zenon
      <4>1. line.length \in Nat /\ line.read_pos \in Nat /\ line.write_pos \in Nat
        BY <4>0 DEF LineType
      <4>2. Len(T) = line.length - line.read_pos
        BY <1>6, <1>7, Zenon
      <4>3. line.write_pos = line.length /\ line.read_pos <= line.length
        BY <1>6 DEF Placed
      <4>4. ~(line.read_pos < line.write_pos)
        BY <1>4, <2>2, Zenon
      <4> HIDE DEF T
      <4> QED BY <4>1, <4>2, <4>3, <4>4
    <3>2. T = <<>>
      BY <1>6, <3>1, NoElements
    <3>3. Typed(T, Backspace) = T
      BY <3>2 DEF Typed, Edit, Backspace, NoChar
    <3> QED BY <1>3, <1>5, <2>2, <3>3, TypedNothing, Zenon
  <2> QED BY <1>4, <2>1, <2>2
<1> HIDE DEF T
<1> QED BY <1>1, <1>5, <1>6, <1>7, <1>8, Zenon DEF Entering, T

(* The last character of the text is taken back. *)
LEMMA EraseKeepsText ==
  ASSUME LineInv, TextInv, EraseChar
  PROVE  TextInv'
<1>1. /\ pc[Kbd] = "shrink" /\ ttyUnchanged /\ GoTo(Kbd, "more") /\ char' = NoChar
      /\ UNCHANGED <<observers, typed, prompt, wire, held, failed>>
      /\ line' \in LineType
      /\ line'.length = line.length - 1 /\ line'.write_pos = line.write_pos - 1
      /\ line'.read_pos = line.read_pos /\ line'.capacity = line.capacity
      /\ \A i \in Cells : i < line.length - 1 => line'.data[i] = line.data[i]
  BY EraseStep, Zenon
<1>2. /\ Waiting /\ ~Decoding /\ line \in LineType /\ FirstChar = Backspace
      /\ Newline # NoChar /\ Backspace # NoChar
      /\ "more" \in Labels \ {"key"} /\ failed' \in BOOLEAN /\ char' \in Chars \cup {NoChar}
      /\ NoNewline(line)
  BY <1>1, LineIsKbds, Zenon DEF LineInv, TypeOK, Labels, CharInv, Ending, PlaceInv
<1>3. /\ SecondChar' = SecondChar /\ Waiting' /\ buffer' = buffer
      /\ pc'[Kbd] = "more" /\ FirstChar' = NoChar
  BY <1>1, <1>2, AtLine, Zenon
<1> SUFFICES ASSUME ~failed PROVE Entering'
  BY <1>1, <1>3, Zenon DEF TextInv
<1> DEFINE T == Text(line, pc[Kbd])
           U == Text(line', pc'[Kbd])
           n == TextLen(line, pc[Kbd])
           s == line.read_pos
<1>4. /\ Entering /\ Placed(line, "shrink") /\ T \in Seq(Chars \cup {NoChar})
      /\ Len(T) = n /\ n \in Nat /\ TextStart(line, pc[Kbd]) = s /\ MaxTyped \in Nat
      /\ \A i \in 0 .. n : i <= MaxTyped => s + i \in Cells
      /\ \A i \in 1 .. n : T[i] = line.data[s + i - 1]
  <2>1. TextStart(line, pc[Kbd]) = s
    BY <1>1, Zenon DEF TextStart
  <2> QED BY <1>1, <1>2, <2>1, TextBefore, Zenon
<1>5. /\ n = line.length - s /\ s \in Nat /\ line.length \in Nat /\ n > 0 /\ n <= MaxTyped + 1
      /\ TextLen(line', pc'[Kbd]) = n - 1 /\ TextStart(line', pc'[Kbd]) = s
  <2>1. s \in Nat /\ line.length \in Nat
    BY <1>2, Zenon DEF LineType
  <2>2. pc[Kbd] = "shrink" /\ pc'[Kbd] = "more" /\ n \in Nat
    BY <1>1, <1>3, <1>4, Zenon
  <2>3. s < line.length /\ n <= MaxTyped + 1
    BY <1>4, Zenon DEF Placed, Entering
  <2>4. line'.length = line.length - 1 /\ line'.read_pos = s
    BY <1>1, Zenon
  <2>5. n = line.length - s
    BY <2>2 DEF TextLen, TextStart, TextEnd
  <2>6. TextLen(line', pc'[Kbd]) = line'.length - line'.read_pos /\ TextStart(line', pc'[Kbd]) = s
    BY <2>2, <2>4 DEF TextLen, TextStart, TextEnd
  <2> HIDE DEF n, s
  <2>7. n > 0 /\ line.length - 1 - s = n - 1
    BY <2>1, <2>3, <2>5
  <2> QED BY <2>1, <2>3, <2>4, <2>5, <2>6, <2>7
<1>0. /\ n \in Nat /\ s \in Nat /\ MaxTyped \in Nat /\ line.length \in Nat
      /\ n = line.length - s /\ n > 0 /\ n <= MaxTyped + 1
  BY <1>4, <1>5, Zenon
<1>6. \A i \in 1 .. n - 1 : s + i - 1 \in Cells /\ s + i - 1 < line.length - 1
  <2> SUFFICES ASSUME NEW i \in 1 .. n - 1 PROVE s + i - 1 \in Cells /\ s + i - 1 < line.length - 1
    BY Zenon
  <2> HIDE DEF n, s
  <2>1. i - 1 \in 0 .. n /\ i - 1 <= MaxTyped /\ s + (i - 1) = s + i - 1 /\ s + i - 1 < line.length - 1
    BY <1>0
  <2> QED BY <1>4, <2>1, Zenon
<1>7. U = [i \in 1 .. n - 1 |-> line'.data[s + i - 1]]
  BY <1>5, Zenon DEF Text
<1> HIDE DEF T, U, n, s
<1>8. U = Front(T)
  <2>1. \A i \in 1 .. n - 1 : line'.data[s + i - 1] = T[i] /\ T[i] \in Chars \cup {NoChar}
    <3> SUFFICES ASSUME NEW i \in 1 .. n - 1
                 PROVE  line'.data[s + i - 1] = T[i] /\ T[i] \in Chars \cup {NoChar}
      BY Zenon
    <3>1. i \in 1 .. n
      BY <1>0
    <3>2. T[i] = line.data[s + i - 1] /\ T[i] \in Chars \cup {NoChar}
      BY <1>4, <3>1, Element, Zenon
    <3>3. line'.data[s + i - 1] = line.data[s + i - 1]
      BY <1>1, <1>6, Zenon
    <3> QED BY <3>2, <3>3, Zenon
  <2>2. U = [i \in 1 .. n - 1 |-> T[i]]
    BY <1>7, <2>1, Zenon
  <2>3. Front(T) = SubSeq(T, 1, n - 1)
    BY <1>4 DEF Front
  <2>4. /\ Front(T) \in Seq(Chars \cup {NoChar}) /\ Len(Front(T)) = n - 1
        /\ \A i \in 1 .. n - 1 : Front(T)[i] = T[i]
    <3>1. n - 1 \in Int /\ 1 \in Int /\ 0 <= n - 1
      BY <1>0
    <3>2. /\ SubSeq(T, 1, n - 1) \in Seq(Chars \cup {NoChar})
          /\ Len(SubSeq(T, 1, n - 1)) = IF 1 <= n - 1 THEN (n - 1) - 1 + 1 ELSE 0
          /\ \A i \in 1 .. (n - 1) - 1 + 1 : SubSeq(T, 1, n - 1)[i] = T[1 + i - 1]
      BY <2>1, <3>1, Slice
    <3>3. \A i \in 1 .. n - 1 : 1 + i - 1 = i /\ i \in 1 .. (n - 1) - 1 + 1
      BY <1>0
    <3>4. \A i \in 1 .. n - 1 : SubSeq(T, 1, n - 1)[i] = T[i]
      BY <3>2, <3>3
    <3> QED BY <2>3, <3>1, <3>2, <3>4
  <2>5. U \in Seq(Chars \cup {NoChar}) /\ Len(U) = n - 1
    <3>1. n - 1 \in Nat
      BY <1>0
    <3> QED BY <2>1, <2>2, <3>1
  <2> QED BY <2>2, <2>4, <2>5, SameElements
<1>9. T # <<>> /\ Last(T) # Newline
  <2>1. T # <<>>
    BY <1>4, <1>5, NoElements
  <2>2. T[n] = line.data[s + n - 1]
    <3>1. n \in 1 .. n
      BY <1>0
    <3> QED BY <1>4, <3>1, Zenon
  <2>3. s + n - 1 \in Cells /\ s <= s + n - 1 /\ s + n - 1 < line.length
    <3>1. n - 1 \in 0 .. n /\ n - 1 <= MaxTyped /\ s + (n - 1) = s + n - 1
      BY <1>0
    <3>2. s + n - 1 \in Cells
      BY <1>4, <3>1, Zenon
    <3>3. s <= s + n - 1 /\ s + n - 1 < line.length
      BY <1>0
    <3> QED BY <3>2, <3>3, Zenon
  <2>4. T[n] # Newline
    BY <1>2, <2>2, <2>3 DEF NoNewline, s
  <2> QED BY <1>4, <2>1, <2>4 DEF Last
<1>10. Typed(T, Backspace) = U
  BY <1>2, <1>8, <1>9 DEF Typed, Edit
<1>11. Typed(U, FirstChar') = U
  BY <1>3, TypedNothing
<1>12. /\ typed = Typed(U, SecondChar) /\ Len(U) <= MaxTyped + 1
       /\ Len(typed) <= MaxTyped + 1 /\ buffer = <<>> /\ s <= MaxTyped + 1
  BY <1>2, <1>4, <1>10, Zenon DEF Entering, T, s
<1>13. pc'[Kbd] \notin Ending /\ n - 1 <= MaxTyped + 1
  BY <1>3, <1>4, <1>5 DEF Ending
<1> QED BY <1>1, <1>3, <1>5, <1>11, <1>12, <1>13, Zenon DEF Entering, U, s

(* A character stored behind the text is not yet part of it. *)
LEMMA StoreKeepsText ==
  ASSUME LineInv, TextInv, StoreChar
  PROVE  TextInv'
<1>1. /\ pc[Kbd] = "store" /\ ttyUnchanged
      /\ UNCHANGED <<observers, typed, prompt, wire, held>>
      /\ line' \in LineType
      /\ line'.length = line.length /\ line'.write_pos = line.write_pos
      /\ line'.read_pos = line.read_pos
  BY StoreStep, Zenon
<1>2. /\ Waiting /\ ~Decoding /\ line \in LineType /\ FirstChar = char
      /\ "grow" \in Labels \ {"key"} /\ char \in Chars \cup {NoChar} /\ failed \in BOOLEAN
      /\ line.write_pos = line.length
  BY <1>1, LineIsKbds, Zenon DEF LineInv, TypeOK, Labels, PlaceInv, Placed, Ending
<1>3. CASE failed' = TRUE
  BY <1>3 DEF TextInv
<1>4. CASE /\ GoTo(Kbd, "grow") /\ char' = char /\ failed' = failed
           /\ \A i \in Cells : line'.data[i] = IF i = line.write_pos THEN char ELSE line.data[i]
  <2>1. /\ SecondChar' = SecondChar /\ Waiting' /\ pc'[Kbd] = "grow"
        /\ FirstChar' = FirstChar /\ buffer' = buffer
    BY <1>1, <1>2, <1>4, AtLine, Zenon
  <2> SUFFICES ASSUME ~failed PROVE Entering'
    BY <1>4, <2>1, Zenon DEF TextInv
  <2> DEFINE n == TextLen(line, pc[Kbd])
             s == line.read_pos
  <2>2. /\ Entering /\ n \in Nat /\ TextStart(line, pc[Kbd]) = s /\ MaxTyped \in Nat
        /\ \A i \in 0 .. n : i <= MaxTyped => s + i \in Cells
    <3>1. TextStart(line, pc[Kbd]) = s
      BY <1>1 DEF TextStart
    <3> QED BY <1>2, <3>1, TextBefore, Zenon
  <2>3. /\ n = line.length - s /\ s \in Nat /\ line.length \in Nat /\ n <= MaxTyped + 1
        /\ TextLen(line', pc'[Kbd]) = n /\ TextStart(line', pc'[Kbd]) = s
        /\ pc'[Kbd] \notin Ending
    BY <1>1, <1>2, <2>1, <2>2, Zenon DEF TextLen, TextStart, TextEnd, LineType, Entering, Ending
  <2>4. \A i \in 1 .. n : line'.data[s + i - 1] = line.data[s + i - 1]
    <3> SUFFICES ASSUME NEW i \in 1 .. n PROVE line'.data[s + i - 1] = line.data[s + i - 1]
      OBVIOUS
    <3> HIDE DEF n, s
    <3>1. i - 1 \in 0 .. n /\ i - 1 <= MaxTyped /\ s + (i - 1) = s + i - 1 /\ s + i - 1 # line.length
      BY <2>2, <2>3
    <3>2. s + i - 1 \in Cells
      BY <2>2, <3>1
    <3> QED BY <1>2, <1>4, <3>1, <3>2
  <2>5. Text(line', pc'[Kbd]) = Text(line, pc[Kbd])
    BY <2>2, <2>3, <2>4, Zenon DEF Text
  <2> QED BY <1>1, <2>1, <2>2, <2>3, <2>5, Zenon DEF Entering
<1> QED BY <1>3, <1>4, StoreStep, Zenon

(* Once it is counted, it is. *)
LEMMA CountKeepsText ==
  ASSUME LineInv, TextInv, CountChar
  PROVE  TextInv'
<1>1. /\ pc[Kbd] = "grow" /\ ttyUnchanged /\ char' = NoChar
      /\ GoTo(Kbd, IF char = Newline THEN "move" ELSE "more")
      /\ UNCHANGED <<observers, typed, prompt, wire, held, failed>>
      /\ line' \in LineType /\ line'.data = line.data
      /\ line'.length = line.length + 1 /\ line'.write_pos = line.write_pos + 1
      /\ line'.read_pos = line.read_pos
  BY CountStep, Zenon
<1>2. /\ Waiting /\ ~Decoding /\ line \in LineType /\ FirstChar = char
      /\ "more" \in Labels \ {"key"} /\ "move" \in Labels \ {"key"}
      /\ char \in Chars \ {Backspace} /\ char \notin {NoChar, Backspace}
      /\ line.write_pos = line.length
      /\ line.write_pos \in Cells => line.data[line.write_pos] = char
      /\ failed \in BOOLEAN
  BY <1>1, LineIsKbds, Zenon DEF LineInv, TypeOK, Labels, PlaceInv, Placed, Ending, CharInv,
                          Chars, Newline, Backspace, NoChar
<1> DEFINE l == IF char = Newline THEN "move" ELSE "more"
<1>3. /\ SecondChar' = SecondChar /\ Waiting' /\ pc'[Kbd] = l /\ FirstChar' = NoChar
      /\ buffer' = buffer
  BY <1>1, <1>2, AtLine, Zenon
<1> SUFFICES ASSUME ~failed PROVE Entering'
  BY <1>1, <1>3 DEF TextInv
<1> DEFINE T == Text(line, pc[Kbd])
           U == Text(line', pc'[Kbd])
           n == TextLen(line, pc[Kbd])
           s == line.read_pos
<1>4. /\ Entering /\ T \in Seq(Chars \cup {NoChar})
      /\ Len(T) = n /\ n \in Nat /\ TextStart(line, pc[Kbd]) = s /\ MaxTyped \in Nat
      /\ \A i \in 0 .. n : i <= MaxTyped => s + i \in Cells
      /\ \A i \in 1 .. n : T[i] = line.data[s + i - 1]
  <2>1. TextStart(line, pc[Kbd]) = s
    BY <1>1, Zenon DEF TextStart
  <2> QED BY <1>1, <1>2, <2>1, TextBefore, Zenon
<1>5. /\ n = line.length - s /\ s \in Nat /\ line.length \in Nat
      /\ TextLen(line', pc'[Kbd]) = n + 1 /\ TextStart(line', pc'[Kbd]) = s
  <2>1. s \in Nat /\ line.length \in Nat
    BY <1>2, Zenon DEF LineType
  <2>2. pc[Kbd] = "grow" /\ (pc'[Kbd] = "more" \/ pc'[Kbd] = "move")
    BY <1>1, <1>3, Zenon
  <2>3. line'.length = line.length + 1 /\ line'.read_pos = s
    BY <1>1, Zenon
  <2>4. n = line.length - s
    BY <2>2 DEF TextLen, TextStart, TextEnd
  <2>5. TextLen(line', pc'[Kbd]) = line'.length - line'.read_pos /\ TextStart(line', pc'[Kbd]) = s
    BY <2>2, <2>3 DEF TextLen, TextStart, TextEnd
  <2>6. line.length + 1 - s = (line.length - s) + 1
    BY <2>1
  <2> HIDE DEF n, s
  <2> QED BY <2>1, <2>3, <2>4, <2>5, <2>6
<1>6. /\ Typed(T, FirstChar) = Append(T, char) /\ Append(T, char) \in Seq(Chars \cup {NoChar})
      /\ Len(Append(T, char)) = n + 1 /\ Append(T, char)[n + 1] = char
      /\ \A i \in 1 .. n : Append(T, char)[i] = T[i]
  <2> HIDE DEF T, n
  <2>1. T \in Seq(Chars \cup {NoChar}) /\ char \in Chars \cup {NoChar} /\ Len(T) = n
    BY <1>2, <1>4, Zenon
  <2>2. Typed(T, FirstChar) = Append(T, char)
    BY <1>2, <2>1, EditLen, Zenon
  <2> DEFINE S == Chars \cup {NoChar}
  <2>3. /\ Append(T, char) \in Seq(S)
        /\ Len(Append(T, char)) = Len(T) + 1 /\ Append(T, char)[Len(T) + 1] = char
        /\ \A i \in 1 .. Len(T) : Append(T, char)[i] = T[i]
    <3>1. T \in Seq(S) /\ char \in S
      BY <2>1
    <3> HIDE DEF S
    <3> QED BY <3>1, Appended
  <2> QED BY <2>1, <2>2, <2>3
<1>7. U = [i \in 1 .. n + 1 |-> line.data[s + i - 1]]
  BY <1>1, <1>5, Zenon DEF Text
<1> HIDE DEF T, U, n, s, l
<1>8. n <= MaxTyped
  <2>1. Len(Typed(T, FirstChar)) <= MaxTyped + 1
    BY <1>4, Zenon DEF Entering, T
  <2>2. n + 1 <= MaxTyped + 1 /\ n \in Nat /\ MaxTyped \in Nat
    BY <1>4, <1>6, <2>1, Zenon
  <2> QED BY <2>2
<1>9. line.data[s + n] = char
  <2>1. n \in Nat /\ s \in Nat /\ line.length \in Nat /\ n = line.length - s
    BY <1>4, <1>5, Zenon
  <2>2. n \in 0 .. n /\ s + n = line.length
    BY <2>1
  <2>3. s + n \in Cells
    BY <1>4, <1>8, <2>2, Zenon
  <2> QED BY <1>2, <2>2, <2>3, Zenon
<1>10. U = Append(T, char)
  <2>1. \A i \in 1 .. n + 1 : line.data[s + i - 1] = Append(T, char)[i]
    <3> SUFFICES ASSUME NEW i \in 1 .. n + 1 PROVE line.data[s + i - 1] = Append(T, char)[i]
      BY Zenon
    <3>1. CASE i \in 1 .. n
      BY <1>4, <1>6, <3>1, Zenon
    <3>2. CASE i = n + 1
      <4>1. n \in Nat /\ s \in Nat
        BY <1>4, <1>5, Zenon
      <4>2. s + (n + 1) - 1 = s + n
        BY <4>1
      <4> QED BY <1>6, <1>9, <3>2, <4>2, Zenon
    <3>3. n \in Nat
      BY <1>4, Zenon
    <3>4. i \in 1 .. n \/ i = n + 1
      BY <3>3
    <3> QED BY <3>1, <3>2, <3>4, Zenon
  <2>2. Append(T, char) = [i \in 1 .. n + 1 |-> Append(T, char)[i]]
    <3>1. Append(T, char) \in [1 .. Len(Append(T, char)) -> Chars \cup {NoChar}]
      BY <1>6, LengthOf, Zenon
    <3> QED BY <1>6, <3>1, Zenon
  <2> QED BY <1>7, <2>1, <2>2, Zenon
<1>11. pc'[Kbd] \in Ending => Last(U) = Newline
  BY <1>3, <1>6, <1>10, Zenon DEF Last, Ending, l
<1>12. Typed(U, FirstChar') = U
  BY <1>3, TypedNothing
<1>13. /\ typed = Typed(U, SecondChar) /\ Len(U) <= MaxTyped + 1
       /\ Len(typed) <= MaxTyped + 1 /\ buffer = <<>> /\ s <= MaxTyped + 1
  BY <1>4, <1>6, <1>10, Zenon DEF Entering, T, s
<1>14. n + 1 <= MaxTyped + 1
  <2>1. n \in Nat /\ MaxTyped \in Nat
    BY <1>4, Zenon
  <2> QED BY <1>8, <2>1
<1> QED BY <1>1, <1>3, <1>5, <1>11, <1>12, <1>13, <1>14, Zenon DEF Entering, U, s

(* The compaction moves the text, and leaves it what it is. *)
LEMMA CompactKeepsText ==
  ASSUME LineInv, TextInv, Compact
  PROVE  TextInv'
<1> DEFINE k == pc[Kbd]
           l == AfterCompact(k)
<1>1. /\ k \in {"move", "shorten", "rewind", "reset"} /\ ttyUnchanged
      /\ GoTo(Kbd, l)
      /\ UNCHANGED <<char, observers, typed, prompt, wire, held, failed>>
      /\ line' \in LineType
      /\ line'.length = IF k = "shorten" THEN line.length - line.read_pos ELSE line.length
      /\ line'.read_pos = IF k = "reset" THEN 0 ELSE line.read_pos
      /\ k = "move" =>
           \A i \in Cells : i < line.length /\ i + line.read_pos \in Cells
                              => line'.data[i] = line.data[i + line.read_pos]
      /\ k # "move" => \A i \in Cells : i < line.length => line'.data[i] = line.data[i]
  BY CompactStep, Zenon
<1>2. /\ Waiting /\ ~Decoding /\ line \in LineType /\ FirstChar = NoChar
      /\ failed \in BOOLEAN /\ char \in Chars \cup {NoChar}
  BY <1>1, LineIsKbds, Zenon DEF LineInv, TypeOK, Ending
<1>3. l \in {"shorten", "rewind", "reset", "notify"} /\ l \in Labels \ {"key"}
  BY <1>1 DEF AfterCompact, Labels
<1>4. /\ SecondChar' = SecondChar /\ Waiting' /\ pc'[Kbd] = l /\ FirstChar' = NoChar
      /\ buffer' = buffer
  <2> HIDE DEF l, k
  <2> QED BY <1>1, <1>2, <1>3, AtLine, Zenon
<1> SUFFICES ASSUME ~failed PROVE Entering'
  BY <1>1, <1>4, Zenon DEF TextInv
<1> DEFINE n == TextLen(line, k)
           s == TextStart(line, k)
<1>5. /\ Entering /\ n \in Nat /\ s \in Nat /\ MaxTyped \in Nat /\ Placed(line, k)
      /\ \A i \in 0 .. n : i <= MaxTyped => s + i \in Cells
  BY <1>2, TextBefore, Zenon
<1>6. line.length \in Nat /\ line.read_pos \in Nat /\ n <= MaxTyped + 1 /\ line.read_pos <= MaxTyped + 1
  BY <1>2, <1>5, Zenon DEF LineType, Entering
<1>7. TextLen(line', l) = n /\ line'.read_pos <= MaxTyped + 1
  BY <1>1, <1>5, <1>6 DEF TextLen, TextStart, TextEnd, AfterCompact
<1>8. s = (IF k = "move" THEN line.read_pos ELSE 0) /\ TextStart(line', l) = 0
  BY <1>1 DEF TextStart, AfterCompact
<1>9. n <= line.length
  <2>1. /\ n = TextEnd(line, k) - s
        /\ TextEnd(line, k) = IF k = "shorten" THEN line.length - line.read_pos ELSE line.length
    BY Zenon DEF TextLen, TextEnd
  <2> HIDE DEF k, n, s
  <2> QED BY <1>5, <1>6, <2>1
<1>10. \A i \in 1 .. n : line'.data[TextStart(line', l) + i - 1] = line.data[s + i - 1]
  <2> SUFFICES ASSUME NEW i \in 1 .. n PROVE line'.data[0 + i - 1] = line.data[s + i - 1]
    BY <1>8, Zenon
  <2> HIDE DEF n, s, l, k
  <2>1. /\ i - 1 \in 0 .. n /\ i - 1 <= MaxTyped /\ i - 1 < line.length
        /\ 0 + i - 1 = i - 1 /\ s + i - 1 = s + (i - 1) /\ i - 1 \in Nat
    BY <1>5, <1>6, <1>9
  <2>2. s + (i - 1) \in Cells
    BY <1>5, <2>1
  <2>3. i - 1 \in Cells
    BY <1>5, <2>1 DEF Cells
  <2>4. CASE k = "move"
    <3>1. s = line.read_pos /\ (i - 1) + line.read_pos = s + (i - 1)
      BY <1>5, <1>6, <1>8, <2>1, <2>4
    <3> QED BY <1>1, <2>1, <2>2, <2>3, <2>4, <3>1, Zenon
  <2>5. CASE k # "move"
    <3>1. s + (i - 1) = i - 1
      BY <1>8, <2>1, <2>5
    <3> QED BY <1>1, <2>1, <2>3, <2>5, <3>1, Zenon
  <2> QED BY <2>4, <2>5, Zenon
<1>11. Text(line', l) = Text(line, k)
  BY <1>7, <1>10, Zenon DEF Text
<1>12. k \in Ending
  BY <1>1, Zenon DEF Ending
<1> HIDE DEF l
<1> QED BY <1>1, <1>2, <1>4, <1>5, <1>6, <1>7, <1>11, <1>12, Zenon DEF Entering

(* The reader is told, and has the text. *)
LEMMA NotifyKeepsText ==
  ASSUME LineInv, AppInv, TextInv, tty_notify_chars_available
  PROVE  TextInv'
<1>1. Waiting /\ ~Waiting' /\ pc'[App] = pc[App]
  BY NotifyKeepsLine
<1>2. pc[Kbd] = "notify" /\ UNCHANGED <<line, buffer, typed, failed>>
  BY DEF tty_notify_chars_available, At, ttyVars, readerVars, userVars
<1> SUFFICES ASSUME ~failed PROVE Returning'
  BY <1>1, <1>2 DEF TextInv
<1> DEFINE T == Text(line, pc[Kbd])
           n == TextLen(line, pc[Kbd])
<1>3. /\ Entering /\ T \in Seq(Chars \cup {NoChar}) /\ Len(T) = n /\ n \in Nat
      /\ Placed(line, "notify") /\ line \in LineType
      /\ \A i \in 1 .. n : T[i] = line.data[TextStart(line, pc[Kbd]) + i - 1]
      /\ FirstChar = NoChar /\ SecondChar = NoChar /\ MaxTyped \in Nat
  BY <1>1, <1>2, TextBefore, LineIsKbds, Zenon DEF LineInv, TurnInv, Ending
<1>4. /\ line.length \in Nat /\ line.read_pos = 0 /\ line.length > 0
      /\ TextStart(line, pc[Kbd]) = 0 /\ n = line.length /\ n <= MaxTyped + 1
  <2>1. line.length \in Nat /\ n <= MaxTyped + 1 /\ pc[Kbd] = "notify"
    BY <1>2, <1>3, Zenon DEF LineType, Entering
  <2>2. line.read_pos = 0 /\ line.length > 0
    BY <1>3, Zenon DEF Placed
  <2>3. TextStart(line, pc[Kbd]) = line.read_pos /\ n = line.length - line.read_pos
    BY <2>1 DEF TextStart, TextLen, TextEnd
  <2>4. line.length - 0 = line.length
    BY <2>1
  <2> QED BY <2>1, <2>2, <2>3, <2>4, Zenon
<1>5. typed = T /\ buffer = <<>> /\ Last(T) = Newline
  BY <1>2, <1>3, TypedNothing, Zenon DEF Entering, Ending
<1> HIDE DEF T, n
<1>6. \A i \in 1 .. n : typed[i] = line.data[i - 1]
  <2> SUFFICES ASSUME NEW i \in 1 .. n PROVE typed[i] = line.data[i - 1]
    BY Zenon
  <2>1. 0 + i - 1 = i - 1
    BY <1>3
  <2> QED BY <1>3, <1>4, <1>5, <2>1, Zenon
<1>7. line.data[line.length - 1] = Newline
  <2>1. n \in 1 .. n
    BY <1>3, <1>4
  <2>2. typed[n] = Newline
    BY <1>3, <1>5, Zenon DEF Last
  <2> QED BY <1>4, <1>6, <2>1, <2>2
<1>8. Unread' = 0 /\ pc'[App] \in {"yield", "again"}
  BY <1>1, <1>2, <1>4, Zenon DEF Unread, Waiting
<1>9. Len(typed) = n /\ Len(buffer) = 0
  BY <1>3, <1>5, Zenon
<1>10. \A i \in 0 .. line.length - 1 : typed[0 + 1 + (i - 0)] = line.data[i]
  <2> SUFFICES ASSUME NEW i \in 0 .. line.length - 1 PROVE typed[0 + 1 + (i - 0)] = line.data[i]
    BY Zenon
  <2>1. i + 1 \in 1 .. n /\ (i + 1) - 1 = i /\ 0 + 1 + (i - 0) = i + 1
    BY <1>4
  <2> QED BY <1>6, <2>1, Zenon
<1>11. Len(typed) = Len(buffer) + (line.length - 0)
  BY <1>4, <1>9
<1> QED BY <1>2, <1>4, <1>5, <1>7, <1>8, <1>9, <1>10, <1>11 DEF Returning

(* A step of the reader that reads nothing. *)
LEMMA ReaderSameText ==
  ASSUME Returning, UNCHANGED <<line, buffer, typed>>,
         pc[App] \in {"load", "inc"} <=> pc'[App] \in {"load", "inc"},
         pc'[App] \in {"wait", "observe", "block"} /\ line.read_pos = line.length
           => pc[App] \in {"wait", "observe", "block"}
  PROVE  Returning'
<1>1. Unread' = Unread
  BY Zenon DEF Unread
<1> QED BY <1>1, Zenon DEF Returning

(* The reader has read the first character it had not read. *)
LEMMA GetCharReads ==
  ASSUME LineInv, Returning, GetChar
  PROVE  Returning'
<1>1. /\ pc[App] = "get" /\ UNCHANGED <<line, typed>> /\ pc'[App] = "load"
  BY Who, Zenon DEF GetChar, At, ttyVars, appUnchanged, GoTo, LineInv, TypeOK
<1>2. /\ line \in LineType /\ line.read_pos < line.length /\ buffer \in Seq(Chars \cup {NoChar})
      /\ typed \in Seq(Chars) /\ MaxTyped \in Nat
  BY <1>1, LineIsReaders, ConsoleAssumption, Zenon DEF Waiting, Reading, LineInv, TypeOK
<1>3. line.read_pos \in Nat /\ line.length \in Nat /\ line.length <= MaxTyped + 1
  BY <1>2 DEF LineType, Returning
<1>4. line.read_pos \in Cells
  BY <1>2, <1>3 DEF Cells
<1> DEFINE c == line.data[line.read_pos]
           m == Len(buffer)
           s == line.read_pos
<1>5. buffer' = Append(buffer, c) /\ c \in Chars \cup {NoChar}
  BY <1>2, <1>4 DEF GetChar, LineType
<1>6. Unread = s /\ Unread' = s + 1
  BY <1>1, Zenon DEF Unread
<1> HIDE DEF c
<1>7. /\ m \in Nat /\ Len(buffer') = m + 1 /\ buffer' # <<>>
      /\ buffer'[m + 1] = c /\ \A i \in 1 .. m : buffer'[i] = buffer[i]
  BY <1>2, <1>5, Appended, LengthOf
<1>8. /\ Len(typed) = m + (line.length - s)
      /\ \A i \in 1 .. m : typed[i] = buffer[i]
      /\ \A i \in s .. line.length - 1 : typed[m + 1 + (i - s)] = line.data[i]
      /\ line.read_pos < line.length => line.data[line.length - 1] = Newline
  BY <1>6, Zenon DEF Returning
<1> HIDE DEF m, s
<1>0. s \in Nat /\ s < line.length
  BY <1>2, <1>3 DEF s
<1>9. Len(typed') = Len(buffer') + (line'.length - (s + 1))
  <2>1. m + (line.length - s) = (m + 1) + (line.length - (s + 1))
    BY <1>0, <1>3, <1>7
  <2> QED BY <1>1, <1>7, <1>8, <2>1, Zenon
<1>10. \A i \in 1 .. Len(buffer') : typed'[i] = buffer'[i]
  <2> SUFFICES ASSUME NEW i \in 1 .. m + 1 PROVE typed[i] = buffer'[i]
    BY <1>1, <1>7
  <2>1. CASE i \in 1 .. m
    BY <1>7, <1>8, <2>1, Zenon
  <2>2. CASE i = m + 1
    <3>1. s \in s .. line.length - 1 /\ m + 1 + (s - s) = m + 1
      BY <1>0, <1>3, <1>7
    <3>2. typed[m + 1] = line.data[s]
      BY <1>8, <3>1, Zenon
    <3> QED BY <1>7, <2>2, <3>2 DEF c, s
  <2> QED BY <1>7, <2>1, <2>2
<1>11. \A i \in s + 1 .. line'.length - 1 : typed'[Len(buffer') + 1 + (i - (s + 1))] = line'.data[i]
  <2> SUFFICES ASSUME NEW i \in s + 1 .. line.length - 1
               PROVE  typed[(m + 1) + 1 + (i - (s + 1))] = line.data[i]
    BY <1>1, <1>7
  <2>1. i \in s .. line.length - 1 /\ (m + 1) + 1 + (i - (s + 1)) = m + 1 + (i - s)
    BY <1>0, <1>3, <1>7
  <2> QED BY <1>8, <2>1, Zenon
<1>12. Last(buffer') = line'.data[line'.read_pos]
  BY <1>1, <1>7 DEF Last, c
<1> QED BY <1>1, <1>6, <1>7, <1>8, <1>9, <1>10, <1>11, <1>12, <1>3, Zenon DEF Returning

(* The position follows; the newline is the last character of the text,    *)
(* so that the reader does not ask for more when it has read all of it.    *)
LEMMA StoreReadPosReads ==
  ASSUME LineInv, Returning, StoreReadPos
  PROVE  Returning'
<1>1. /\ pc[App] = "inc" /\ UNCHANGED <<buffer, typed>>
      /\ line' = [line EXCEPT !.read_pos = loaded + 1]
      /\ pc'[App] = IF Last(buffer) = Newline \/ Len(buffer) = MAXLENGTH THEN "return" ELSE "wait"
  BY Who DEF StoreReadPos, At, appUnchanged, GoTo, LineInv, TypeOK
<1>2. line \in LineType /\ line.read_pos < line.length /\ loaded = line.read_pos
  BY <1>1, LineIsReaders DEF Waiting, Reading
<1>3. line.read_pos \in Nat /\ line.length \in Nat
  BY <1>2 DEF LineType
<1>4. line'.data = line.data /\ line'.length = line.length /\ line'.read_pos = line.read_pos + 1
  BY <1>1, <1>2 DEF LineType
<1>5. pc'[App] \in {"return", "wait"}
  BY <1>1
<1>6. Unread' = Unread
  BY <1>1, <1>4, <1>5 DEF Unread
<1>7. line'.read_pos = line'.length => pc'[App] = "return"
  <2> SUFFICES ASSUME line.read_pos + 1 = line.length PROVE Last(buffer) = Newline
    BY <1>1, <1>4
  <2>1. line.length - 1 = line.read_pos
    BY <1>3
  <2> QED BY <1>1, <1>2, <2>1 DEF Returning
<1> QED BY <1>1, <1>2, <1>4, <1>5, <1>6, <1>7 DEF Returning

(* The caller has its line; the rest of the text is the next one. *)
LEMMA GetsReturnsReads ==
  ASSUME LineInv, Returning, GetsReturns
  PROVE  Returning'
<1>1. /\ pc[App] = "return" /\ pc'[App] = "wait" /\ line' = line /\ buffer' = <<>>
      /\ typed' = SubSeq(typed, Len(buffer) + 1, Len(typed))
  BY Who, Zenon DEF GetsReturns, At, ttyVars, GoTo, LineInv, TypeOK
<1> DEFINE m == Len(buffer)
           s == line.read_pos
           n == line.length
<1>2. /\ s \in Nat /\ n \in Nat /\ s <= n /\ m \in Nat /\ typed \in Seq(Chars) /\ Len(typed) \in Nat
  <2>1. line \in LineType /\ line.read_pos <= line.length
    BY <1>1, LineIsReaders, Zenon DEF Waiting
  <2>2. buffer \in Seq(Chars \cup {NoChar}) /\ typed \in Seq(Chars)
    BY Zenon DEF LineInv, TypeOK
  <2> QED BY <2>1, <2>2, LengthOf DEF LineType
<1>3. Unread = s /\ Unread' = s
  BY <1>1, Zenon DEF Unread
<1>4. /\ Len(typed) = m + (n - s)
      /\ \A i \in s .. n - 1 : typed[m + 1 + (i - s)] = line.data[i]
  BY <1>3 DEF Returning
<1> HIDE DEF m, s, n
<1>5. /\ Len(typed') = IF m + 1 <= Len(typed) THEN Len(typed) - (m + 1) + 1 ELSE 0
      /\ \A i \in 1 .. Len(typed) - (m + 1) + 1 : typed'[i] = typed[(m + 1) + i - 1]
  <2>1. \A i \in m + 1 .. Len(typed) : typed[i] \in Chars
    <3> SUFFICES ASSUME NEW i \in m + 1 .. Len(typed) PROVE typed[i] \in Chars
      OBVIOUS
    <3>1. i \in 1 .. Len(typed)
      BY <1>2
    <3> QED BY <1>2, <3>1, Element
  <2>2. m + 1 \in Int /\ Len(typed) \in Int
    BY <1>2
  <2> QED BY <1>1, <2>1, <2>2, Slice DEF m
<1>6. Len(typed') = n - s
  BY <1>2, <1>4, <1>5
<1>7. \A i \in s .. n - 1 : typed'[0 + 1 + (i - s)] = line.data[i]
  <2> SUFFICES ASSUME NEW i \in s .. n - 1 PROVE typed'[0 + 1 + (i - s)] = line.data[i]
    OBVIOUS
  <2>1. /\ 0 + 1 + (i - s) \in 1 .. Len(typed) - (m + 1) + 1
        /\ (m + 1) + (0 + 1 + (i - s)) - 1 = m + 1 + (i - s)
    BY <1>2, <1>4
  <2> QED BY <1>4, <1>5, <2>1
<1>8. Len(buffer') = 0 /\ n - s = 0 + (n - s)
  BY <1>1, <1>2
<1>9. Len(typed') = Len(buffer') + (n - s)
  BY <1>6, <1>8
<1>10. \A i \in s .. n - 1 : typed'[Len(buffer') + 1 + (i - s)] = line.data[i]
  BY <1>7, <1>8
<1>11. \A i \in 1 .. Len(buffer') : typed'[i] = buffer'[i]
  BY <1>8
<1>12. line.length <= MaxTyped + 1 /\ (line.read_pos < line.length => line.data[line.length - 1] = Newline)
  BY DEF Returning
<1>13. pc'[App] \notin {"load", "inc"}
  BY <1>1
<1> QED BY <1>1, <1>3, <1>9, <1>10, <1>11, <1>12, <1>13, Zenon DEF Returning, s, n

(* The reader goes to sleep: there is no text yet. *)
LEMMA WaitKeepsText ==
  ASSUME LineInv, AppInv, TextInv, WaitBlock \/ WaitYield
  PROVE  TextInv'
<1> USE Who
<1>1. CASE WaitBlock
  <2>1. /\ pc[App] = "block" /\ current = App /\ ready' = ready \ {App}
        /\ GoTo(App, "yield") /\ "yield" \in Labels
        /\ UNCHANGED <<deviceVars, kbdVars, wire, held, failed, typed, line, buffer>>
    BY <1>1 DEF WaitBlock, At, Block, appUnchanged, ttyVars, readerVars, Labels
  <2>2. ~Waiting
    BY <2>1 DEF Waiting
  <2>3. /\ pc[Kbd] \notin Ending /\ FirstChar = NoChar /\ SecondChar = NoChar
        /\ line \in LineType /\ line.read_pos = line.length /\ typed \in Seq(Chars)
    BY <2>1, <2>2, LineIsReaders, Zenon DEF Reading, LineInv, TypeOK
  <2>4. /\ FirstChar' = NoChar /\ SecondChar' = NoChar /\ pc'[App] = "yield" /\ pc'[Kbd] = pc[Kbd]
    BY <2>1, <2>3, ReaderApart, Zenon
  <2>5. Waiting'
    BY <2>1, <2>4, Zenon DEF Waiting
  <2> SUFFICES ASSUME ~failed PROVE Entering'
    BY <2>1, <2>5 DEF TextInv
  <2>6. Returning
    BY <2>2 DEF TextInv
  <2>7. line.read_pos \in Nat /\ line.length \in Nat /\ line.length <= MaxTyped + 1 /\ MaxTyped \in Nat
    BY <2>3, <2>6, ConsoleAssumption DEF LineType, Returning
  <2>8. buffer = <<>> /\ Len(typed) = 0
    <3>1. buffer = <<>> /\ Unread = line.read_pos
      BY <2>1, <2>3, <2>6, Zenon DEF Returning, Unread
    <3>2. Len(buffer) = 0 /\ line.length - Unread = 0
      BY <2>3, <2>7, <3>1
    <3>3. Len(typed) = Len(buffer) + (line.length - Unread)
      BY <2>6 DEF Returning
    <3> QED BY <3>1, <3>2, <3>3
  <2>9. typed = <<>>
    BY <2>3, <2>8, NoElements
  <2>10. TextLen(line, pc[Kbd]) = 0
    BY <2>3, <2>7 DEF TextLen, TextStart, TextEnd, Ending
  <2>11. Text(line, pc[Kbd]) = <<>>
    BY <2>10 DEF Text
  <2>12. Typed(Typed(<<>>, NoChar), NoChar) = <<>> /\ Typed(<<>>, NoChar) = <<>> /\ Len(<<>>) = 0
    BY TypedNothing
  <2>13. 0 <= MaxTyped + 1
    BY <2>7
  <2> QED BY <2>1, <2>3, <2>4, <2>7, <2>8, <2>9, <2>10, <2>11, <2>12, <2>13, Zenon DEF Entering
<1>2. CASE WaitYield
  <2>1. /\ pc[App] = "yield" /\ ready' = ready
        /\ GoTo(App, "again") /\ "again" \in Labels
        /\ UNCHANGED <<deviceVars, kbdVars, wire, held, failed, typed, line, buffer>>
    BY <1>2 DEF WaitYield, At, Yield, appUnchanged, ttyVars, readerVars, Labels
  <2>2. FirstChar' = FirstChar /\ SecondChar' = SecondChar /\ pc'[App] = "again" /\ pc'[Kbd] = pc[Kbd]
    BY <2>1, ReaderApart
  <2>3. Waiting' <=> Waiting
    BY <2>1, <2>2, Zenon DEF Waiting
  <2>4. Entering => Entering'
    BY <2>1, <2>2, Zenon DEF Entering
  <2>5. Returning => Returning'
    BY <2>1, <2>2, ReaderSameText
  <2> QED BY <2>1, <2>3, <2>4, <2>5 DEF TextInv
<1> QED BY <1>1, <1>2

(* The reader, when it has the line. *)
LEMMA AppKeepsText ==
  ASSUME LineInv, AppInv, TextInv, AppStep
  PROVE  TextInv'
<1> USE Who
<1>0. pc \in [Threads -> Labels]
  BY DEF LineInv, TypeOK
<1>1. ASSUME ~Waiting, ~Waiting', failed' = failed, Returning => Returning' PROVE TextInv'
  BY <1>1 DEF TextInv
<1>2. ASSUME pc[App] \notin {"yield", "again"}, pc'[App] \notin {"yield", "again"},
             failed' = failed, Returning => Returning'
      PROVE  TextInv'
  BY <1>1, <1>2 DEF Waiting
<1>3. CASE WaitTest
  <2>1. /\ pc[App] = "wait" /\ pc'[App] \in {"check", "observe"}
        /\ UNCHANGED <<line, buffer, typed, failed>>
    BY <1>0, <1>3 DEF WaitTest, At, ttyVars, readerVars, appUnchanged, GoTo
  <2>2. Returning => Returning'
    BY <2>1, ReaderSameText, Zenon
  <2> QED BY <1>2, <2>1, <2>2
<1>4. CASE tty_observer_new
  <2>1. /\ pc[App] = "observe" /\ pc'[App] = "block" /\ UNCHANGED <<line, buffer, typed, failed>>
    BY <1>0, <1>4 DEF tty_observer_new, At, readerVars, appUnchanged, GoTo
  <2>2. Returning => Returning'
    BY <2>1, ReaderSameText, Zenon
  <2> QED BY <1>2, <2>1, <2>2, Zenon
<1>5. CASE WaitAgain
  <2>1. /\ pc[App] = "again" /\ current = App /\ UNCHANGED <<line, buffer, typed, failed>>
        /\ GoTo(App, IF Available THEN "forget" ELSE "block")
    BY <1>5 DEF WaitAgain, At, ttyVars, readerVars, appUnchanged
  <2>2. ~Waiting
    BY <2>1 DEF Waiting, AppInv, Asleep
  <2>3. line.read_pos < line.length /\ line.read_pos \in Nat /\ line.length \in Nat
    BY <2>1, <2>2, LineIsReaders DEF Reading, LineType
  <2>4. pc'[App] = "forget"
    BY <1>0, <2>1, <2>3 DEF Available, GoTo
  <2>5. Returning => Returning'
    BY <2>1, <2>4, ReaderSameText
  <2> QED BY <1>1, <2>1, <2>2, <2>4, <2>5 DEF Waiting
<1>6. CASE tty_observer_delete
  <2>1. /\ pc[App] = "forget" /\ pc'[App] = "check" /\ UNCHANGED <<line, buffer, typed, failed>>
    BY <1>0, <1>6 DEF tty_observer_delete, At, readerVars, appUnchanged, GoTo
  <2>2. Returning => Returning'
    BY <2>1, ReaderSameText
  <2> QED BY <1>2, <2>1, <2>2
<1>7. CASE GetTest
  <2>1. /\ pc[App] = "check" /\ UNCHANGED <<line, typed, failed>>
    BY <1>7 DEF GetTest, At, ttyVars, appUnchanged
  <2>2. line.read_pos < line.length /\ line.read_pos \in Nat /\ line.length \in Nat
    BY <2>1, LineIsReaders DEF Waiting, Reading, LineType
  <2>3. pc'[App] = "get" /\ buffer' = buffer
    BY <1>0, <1>7, <2>2 DEF GetTest, Available, GoTo
  <2>4. Returning => Returning'
    BY <2>1, <2>3, ReaderSameText
  <2> QED BY <1>2, <2>1, <2>3, <2>4
<1>8. CASE GetChar
  <2>1. pc[App] = "get" /\ pc'[App] = "load" /\ failed' = failed
    BY <1>0, <1>8, Zenon DEF GetChar, At, appUnchanged, GoTo
  <2> QED BY <1>2, <1>8, <2>1, GetCharReads
<1>9. CASE LoadReadPos
  <2>1. /\ pc[App] = "load" /\ pc'[App] = "inc" /\ UNCHANGED <<line, buffer, typed, failed>>
    BY <1>0, <1>9 DEF LoadReadPos, At, ttyVars, appUnchanged, GoTo
  <2>2. Returning => Returning'
    BY <2>1, ReaderSameText, Zenon
  <2> QED BY <1>2, <2>1, <2>2, Zenon
<1>10. CASE StoreReadPos
  <2>1. pc[App] = "inc" /\ pc'[App] \in {"return", "wait"} /\ failed' = failed
    BY <1>0, <1>10 DEF StoreReadPos, At, appUnchanged, GoTo
  <2> QED BY <1>2, <1>10, <2>1, StoreReadPosReads, Zenon
<1>11. CASE GetsReturns
  <2>1. pc[App] = "return" /\ pc'[App] = "wait" /\ failed' = failed
    BY <1>0, <1>11 DEF GetsReturns, At, GoTo
  <2> QED BY <1>2, <1>11, <2>1, GetsReturnsReads, Zenon
<1> QED BY <1>3, <1>4, <1>5, <1>6, <1>7, <1>8, <1>9, <1>10, <1>11, WaitKeepsText DEF AppStep

(* Nothing is typed, stored or read at the start. *)
LEMMA InitText ==
  ASSUME Init
  PROVE  TextInv
<1>1. pc[App] = "wait" /\ line.length = 0 /\ line.read_pos = 0 /\ typed = <<>> /\ buffer = <<>>
  BY ConsoleAssumption DEF Init
<1>2. ~Waiting /\ Unread = 0
  BY <1>1 DEF Waiting, Unread
<1>3. /\ MaxTyped \in Nat /\ 0 <= MaxTyped + 1 /\ Len(typed) = 0 /\ Len(buffer) = 0
      /\ Len(typed) = Len(buffer) + (line.length - Unread)
  BY <1>1, <1>2, ConsoleAssumption
<1>4. /\ \A i \in 1 .. Len(buffer) : typed[i] = buffer[i]
      /\ \A i \in Unread .. line.length - 1 : typed[Len(buffer) + 1 + (i - Unread)] = line.data[i]
  BY <1>1, <1>2, <1>3
<1> QED BY <1>1, <1>2, <1>3, <1>4 DEF TextInv, Returning

(* A step that is no step of the console. *)
LEMMA IdleKeepsText ==
  ASSUME LineInv, TextInv, UNCHANGED consoleVars, ready' = ready
  PROVE  TextInv'
<1>1. UNCHANGED <<out, port, scancode, mods, char, line, buffer, pc, typed, wire, held, failed>>
  BY DEF consoleVars, deviceVars, kbdVars, ttyVars, readerVars, userVars
<1>2. FirstChar' = FirstChar /\ SecondChar' = SecondChar
  BY <1>1, OthersSent DEF LineInv
<1>3. Waiting' <=> Waiting
  BY <1>1 DEF Waiting
<1>4. (Entering => Entering') /\ (Returning => Returning')
  BY <1>1, <1>2, Zenon DEF Entering, Returning, Unread
<1> QED BY <1>1, <1>3, <1>4 DEF TextInv

(* What the user has typed is where it should be, in every behaviour in    *)
(* which the keyboard is used only while a reader waits: on its way, in    *)
(* tty_line or in the reader's buffer, and nowhere twice.                  *)
THEOREM TextIsKept ==
  ASSUME ~TypeAhead, LeftoverIsMute
  PROVE  Spec => []TextInv
<1>1. Init => TextInv
  BY InitText
<1>2. TextInv /\ LineInv /\ KbdInv /\ (PcIsFunction /\ AppInv) /\ [Next]_vars => TextInv'
  <2> SUFFICES ASSUME TextInv, LineInv, KbdInv, AppInv, [Next]_vars PROVE TextInv'
    OBVIOUS
  <2>1. NoStaleRead
    BY NothingStale
  <2>2. CASE KbdStep
    <3>1. CASE \/ ps2_flush_output_buffer \/ hal_mask_irq \/ ReadScancode
               \/ ps2_kbd_handle_scancode \/ ps2_can_read_data \/ KbdBlock \/ KbdYield
      <4>1. Shift
        BY <2>1, <3>1, DriverKeepsLine
      <4> QED BY <4>1, DriverKeepsText
    <3> QED BY <2>2, <3>1, EraseTestKeepsText, EraseKeepsText, StoreKeepsText,
               CountKeepsText, CompactKeepsText, NotifyKeepsText DEF KbdStep, Compact
  <2>3. ASSUME NEW t \in Threads, Preempt(t) PROVE TextInv'
    <3>1. UNCHANGED consoleVars /\ ready' = ready
      BY <2>3 DEF Preempt, Yield
    <3> QED BY <3>1, IdleKeepsText
  <2>4. CASE UNCHANGED vars
    <3>1. UNCHANGED consoleVars /\ ready' = ready
      BY <2>4 DEF vars, consoleVars, deviceVars, kbdVars, ttyVars, readerVars, userVars
    <3> QED BY <3>1, IdleKeepsText
  <2> QED BY <2>2, <2>3, <2>4, AppKeepsText, ByteKeepsText DEF Next
<1> QED BY <1>1, <1>2, TurnsAtTheLine, KbdAlways, AppAlways, PTL DEF Spec

(* "reads a line from the keyboard, after buffering and editing": what     *)
(* tty_gets returns is the beginning of the text the user has typed, with  *)
(* every backspace applied, unless there was no memory for a character.    *)
THEOREM LineAlwaysEdited ==
  ASSUME ~TypeAhead, LeftoverIsMute
  PROVE  Spec => []LineIsEdited
<1>1. LineInv /\ TextInv => LineIsEdited
  <2> SUFFICES ASSUME LineInv, TextInv, pc[App] = "return", ~failed
               PROVE  Len(buffer) <= Len(typed) /\ buffer = SubSeq(typed, 1, Len(buffer))
    BY DEF LineIsEdited
  <2>1. ~Waiting
    BY DEF Waiting
  <2>2. Returning
    BY <2>1 DEF TextInv
  <2>3. /\ line.read_pos \in Nat /\ line.length \in Nat /\ line.read_pos <= line.length
    BY <2>1, LineIsReaders DEF LineType
  <2> DEFINE S == Chars \cup {NoChar}
             m == Len(buffer)
  <2>4. buffer \in Seq(S) /\ typed \in Seq(S) /\ m \in Nat /\ Len(typed) \in Nat
    <3>1. buffer \in Seq(S) /\ typed \in Seq(Chars)
      BY DEF LineInv, TypeOK
    <3>2. typed \in Seq(S)
      BY <3>1, WiderSeq
    <3> QED BY <3>1, <3>2, LengthOf
  <2>5. /\ Len(typed) = m + (line.length - line.read_pos)
        /\ \A i \in 1 .. m : typed[i] = buffer[i]
    BY <2>2, Zenon DEF Returning, Unread
  <2> HIDE DEF S, m
  <2>6. m <= Len(typed)
    BY <2>3, <2>4, <2>5
  <2>7. buffer = SubSeq(typed, 1, m)
    BY <2>4, <2>5, <2>6, Prefix, Zenon DEF m
  <2> QED BY <2>6, <2>7 DEF m
<1> QED BY <1>1, TurnsAtTheLine, TextIsKept, PTL

=============================================================================
