------------------------------ MODULE Console ------------------------------
(***************************************************************************)
(* The console: the PS/2 controller, the I/O APIC line and keyboard thread *)
(* (ia32/ps2.c, ia32/apic.c), the line buffer of drivers/tty.c and the     *)
(* thread that reads lines from it, on the CPU the scheduler provides.     *)
(*                                                                         *)
(* Neither ps2.c nor tty.c takes a lock.  A step is what a thread does     *)
(* between two accesses to something that another thread or the hardware   *)
(* changes.  length, write_pos, capacity and the data are written by the   *)
(* keyboard thread alone; read_pos is written by both sides.               *)
(***************************************************************************)
EXTENDS Cpu, Integers, Sequences, Functions, FiniteSetsExt

CONSTANTS
  Idle,         \* the idle thread
  Kbd,          \* _ps2_kbd_thread
  App,          \* the thread that calls tty_gets
  Keys,         \* the keys of the keyboard
  Leftover,     \* what the data port may still hold when the thread starts
  TypeAhead,    \* whether keys are pressed while nobody waits for a line
  MAXLENGTH,    \* the size of the buffer given to tty_gets
  MaxTyped      \* bound on the characters typed and not yet returned

VARIABLES
  out,          \* the controller's output buffer: <<>> or one byte
  port,         \* the byte the data port shows when the buffer is empty
  unmasked,     \* the keyboard's redirection entry is not masked
  scancode,     \* the bytes of the current scancode
  mods,         \* _ps2_kbd_mod_state
  char,         \* the character the keyboard thread is putting into the line
  line,         \* _tty.lines
  observers,    \* the threads of _tty.observers
  buffer,       \* what tty_gets has read so far
  loaded,       \* read_pos, as loaded by the reader's increment
  pc,           \* where each thread is in its own code
  typed,        \* the text typed since the last line was returned, edited
  prompt,       \* the user has seen the reader wait and not pressed return
  wire,         \* the prefix bytes the keyboard has sent
  held,         \* the modifiers the user holds down
  failed        \* an allocation has failed and a character was dropped

deviceVars == <<out, port, unmasked>>
kbdVars == <<scancode, mods, char>>
ttyVars == <<line, observers>>
readerVars == <<buffer, loaded>>
userVars == <<typed, prompt, wire, held, failed>>
vars == <<current, ready, out, port, unmasked, scancode, mods,
          char, line, observers, buffer, loaded, pc, typed, prompt, wire, held, failed>>

ASSUME ConsoleAssumption ==
  /\ Threads = {Idle, Kbd, App}
  /\ Idle # Kbd /\ Kbd # App /\ App # Idle
  /\ TypeAhead \in BOOLEAN
  /\ MAXLENGTH \in Nat \ {0} /\ MaxTyped \in Nat
  /\ Keys \cap {"e0", "f0"} = {}

Last(s) == s[Len(s)]
Front(s) == SubSeq(s, 1, Len(s) - 1)

(* Scancode set 2: a key is one byte, 0xe0 announces an extended key and   *)
(* 0xf0 a release.                                                         *)
Modifiers == {"shift", "ctrl", "alt"}
Extended == {"ctrl", "alt"}
Bytes == Keys \cup {"e0", "f0"}

Newline == "newline"
Backspace == "backspace"
NoChar == "none"
Chars == {"x", "X", Newline, Backspace}

(* The two tables, on the keys of the model: what a key types. *)
scancodes_set_2(key, shifted) ==
  CASE key = "x" -> IF shifted THEN "X" ELSE "x"
    [] key \in {Newline, Backspace} -> key
    [] OTHER -> NoChar

(* The read and the unread text between two compactions fit into these. *)
Cells == 0 .. 2 * (MaxTyped + 1) - 1

Labels == {"run", "block", "yield",
           "flush", "mask", "read", "key", "more", "erase", "shrink",
           "store", "grow", "move", "shorten", "rewind", "reset", "notify",
           "wait", "observe", "again", "forget", "check", "get", "load", "inc", "return"}

Init ==
  /\ current = Idle /\ ready = Threads
  /\ out = <<>> /\ port \in Leftover /\ unmasked = FALSE
  /\ scancode = <<>> /\ mods = {} /\ char = NoChar
  /\ line = [data |-> [i \in Cells |-> NoChar],
             length |-> 0, write_pos |-> 0, read_pos |-> 0, capacity |-> 0]
  /\ observers = {}
  /\ buffer = <<>> /\ loaded = 0
  /\ pc = [t \in Threads |-> CASE t = Kbd -> "flush"
                               [] t = App -> "wait"
                               [] OTHER -> "run"]
  /\ typed = <<>> /\ prompt = FALSE
  /\ wire = <<>> /\ held = {} /\ failed = FALSE

----------------------------------------------------------------------------
At(t, label) == current = t /\ pc[t] = label

GoTo(t, label) == pc' = [pc EXCEPT ![t] = label]

----------------------------------------------------------------------------
(* The user, the keyboard and its controller (external).  A byte arrives   *)
(* when the output buffer is empty and raises an edge, which interrupts    *)
(* the CPU at once unless the line is masked: ps2_kbd_interrupt_handler    *)
(* defers to the keyboard thread, before any thread takes another step.    *)
(* Without type-ahead the keyboard is left alone until its thread has      *)
(* unmasked the line, and then used only while a reader waits, up to the   *)
(* newline.                                                                *)
Pressed == "f0" \notin Range(wire)
Physical(key) == <<key, "e0" \in Range(wire)>>
Down(key) == \E e0 \in BOOLEAN : <<key, e0>> \in held

MayType(c) ==
  /\ TypeAhead \/ prompt
  /\ Len(typed) < (IF c = Newline THEN MaxTyped + 1 ELSE MaxTyped) \/ c = Backspace

(* What the text should be once the character is typed: backspace takes    *)
(* back a character of the current line.                                   *)
Edit(text, c) ==
  IF c = Backspace
    THEN IF text # <<>> /\ Last(text) # Newline THEN Front(text) ELSE text
    ELSE Append(text, c)

KeyByte(key) ==
  LET c == scancodes_set_2(key, Down("shift"))
      types == Pressed /\ ~Down("ctrl") /\ ~Down("alt") /\ c # NoChar
  IN  /\ Physical(key)[2] => key \in Extended
      /\ types => MayType(c)
      /\ wire' = <<>>
      /\ held' = IF Pressed /\ key \in Modifiers THEN held \cup {Physical(key)}
                                                 ELSE held \ {Physical(key)}
      /\ typed' = IF types THEN Edit(typed, c) ELSE typed
      /\ prompt' = (prompt /\ ~(types /\ c = Newline))

PrefixByte(b) ==
  /\ b = "e0" => wire = <<>> /\ Extended \cap Keys # {}
  /\ b = "f0" => wire \in {<<>>, <<"e0">>}
  /\ wire' = Append(wire, b)
  /\ UNCHANGED <<held, typed, prompt>>

ByteArrives(b) ==
  /\ TypeAhead \/ unmasked
  /\ out = <<>> /\ out' = <<b>>
  /\ IF b \in Keys THEN KeyByte(b) ELSE PrefixByte(b)
  /\ IF unmasked THEN Wake(Kbd) ELSE UNCHANGED cpu
  /\ UNCHANGED <<port, unmasked, kbdVars, ttyVars, readerVars, pc, failed>>

----------------------------------------------------------------------------
(* ps2_kbd_thread.  No command is ever queued, so the states for commands  *)
(* and their responses are not entered.                                    *)

(* ps2_flush_output_buffer: one byte, or done. *)
ps2_flush_output_buffer ==
  /\ At(Kbd, "flush")
  /\ IF out # <<>>
       THEN port' = Head(out) /\ out' = <<>> /\ UNCHANGED pc
       ELSE GoTo(Kbd, "mask") /\ UNCHANGED <<port, out>>
  /\ UNCHANGED <<cpu, unmasked, kbdVars, ttyVars, readerVars, userVars>>

(* ioapic_setup_irq writes "unmasked" whatever it is asked for. *)
ioapic_setup_irq(masked) == unmasked' = TRUE

hal_mask_irq ==
  /\ At(Kbd, "mask")
  /\ ioapic_setup_irq(TRUE)
  /\ GoTo(Kbd, "read")
  /\ UNCHANGED <<cpu, out, port, kbdVars, ttyVars, readerVars, userVars>>

ps2_read_data == IF out # <<>> THEN Head(out) ELSE port

ps2_kbd_scancode_complete(s) ==
  IF Len(s) = 1 THEN s[1] \notin {"e0", "f0"} ELSE s # <<"e0", "f0">>

ReadScancode ==
  /\ At(Kbd, "read")
  /\ port' = ps2_read_data /\ out' = <<>>
  /\ scancode' = Append(scancode, ps2_read_data)
  /\ GoTo(Kbd, IF ps2_kbd_scancode_complete(scancode') THEN "key" ELSE "more")
  /\ UNCHANGED <<cpu, unmasked, mods, char, ttyVars, readerVars, userVars>>

(* The bit of _ps2_kbd_mod_state a modifier key stands for. *)
ModBit(key) == IF key = "shift" THEN <<key, FALSE>> ELSE <<key, scancode[1] = "e0">>

mod_pressed(key) == \E e0 \in BOOLEAN : <<key, e0>> \in mods

(* A key event reaches the line buffer when it is a key-down without       *)
(* control or alt.                                                         *)
tty_send_key_event(down) == down /\ ~mod_pressed("ctrl") /\ ~mod_pressed("alt")

(* ps2_kbd_handle_scancode, up to the line buffer. *)
ps2_kbd_handle_scancode ==
  LET key == Last(scancode)
      pressed == "f0" \notin Range(scancode)
      c == scancodes_set_2(key, mod_pressed("shift"))
      types == key \notin Modifiers /\ c # NoChar /\ tty_send_key_event(pressed)
  IN  /\ At(Kbd, "key")
      /\ scancode' = <<>>
      /\ mods' = CASE key \in Modifiers /\ pressed -> mods \cup {ModBit(key)}
                   [] key \in Modifiers /\ ~pressed -> mods \ {ModBit(key)}
                   [] OTHER -> mods
      /\ char' = IF types THEN c ELSE NoChar
      /\ GoTo(Kbd, CASE types /\ c = Backspace -> "erase"
                     [] types /\ c # Backspace -> "store"
                     [] OTHER -> "more")
      /\ UNCHANGED <<cpu, deviceVars, ttyVars, readerVars, userVars>>

(* done = !ps2_can_read_data() *)
ps2_can_read_data ==
  /\ At(Kbd, "more")
  /\ GoTo(Kbd, IF out # <<>> THEN "read" ELSE "block")
  /\ UNCHANGED <<cpu, deviceVars, kbdVars, ttyVars, readerVars, userVars>>

(* Variant: the thread yields without having blocked itself. *)
KbdStaysRunnable ==
  /\ At(Kbd, "block")
  /\ GoTo(Kbd, "yield")
  /\ UNCHANGED <<cpu, deviceVars, kbdVars, ttyVars, readerVars, userVars>>

(* make_blocked; then hal_unmask_irq and the yield. *)
KbdBlock ==
  /\ At(Kbd, "block")
  /\ Block
  /\ GoTo(Kbd, "yield")
  /\ UNCHANGED <<deviceVars, kbdVars, ttyVars, readerVars, userVars>>

KbdYield ==
  /\ At(Kbd, "yield")
  /\ ioapic_setup_irq(FALSE)
  /\ Yield
  /\ GoTo(Kbd, "mask")
  /\ UNCHANGED <<out, port, kbdVars, ttyVars, readerVars, userVars>>

----------------------------------------------------------------------------
(* tty_line_append_char and tty_line_newline, in the keyboard thread. *)

ttyUnchanged == UNCHANGED <<cpu, deviceVars, scancode, mods, readerVars>>

(* What lies beyond the text is overwritten before it is read again. *)
Trim(l) == [l EXCEPT !.data = [i \in Cells |-> IF i < l.length THEN @[i] ELSE NoChar]]

(* Variant: backspace is not limited to the unread text. *)
EraseUnchecked ==
  /\ At(Kbd, "erase")
  /\ GoTo(Kbd, "shrink")
  /\ ttyUnchanged /\ UNCHANGED <<char, ttyVars, userVars>>

EraseTest ==
  /\ At(Kbd, "erase")
  /\ GoTo(Kbd, IF line.read_pos < line.write_pos THEN "shrink" ELSE "more")
  /\ ttyUnchanged /\ UNCHANGED <<char, ttyVars, userVars>>

EraseChar ==
  /\ At(Kbd, "shrink")
  /\ line' = Trim([line EXCEPT !.write_pos = @ - 1, !.length = @ - 1])
  /\ char' = NoChar
  /\ GoTo(Kbd, "more")
  /\ ttyUnchanged /\ UNCHANGED <<observers, userVars>>

(* tty_line_reserve_space: a full buffer is doubled, or krealloc fails. *)
tty_line_reserve_space ==
  IF line.capacity > line.write_pos THEN {line.capacity} ELSE {Max({1, 2 * line.capacity}), 0}

(* The space is reserved and the character stored; the assertion that      *)
(* there is space follows from tty_line_reserve_space.                     *)
StoreChar ==
  /\ At(Kbd, "store")
  /\ \E capacity \in tty_line_reserve_space :
       IF capacity > 0
         THEN /\ line' = [line EXCEPT !.capacity = capacity,
                                      !.data = [@ EXCEPT ![line.write_pos] = char]]
              /\ GoTo(Kbd, "grow")
              /\ UNCHANGED <<char, failed>>
         ELSE /\ failed' = TRUE /\ char' = NoChar
              /\ GoTo(Kbd, "more")
              /\ UNCHANGED line
  /\ ttyUnchanged /\ UNCHANGED <<observers, typed, prompt, wire, held>>

CountChar ==
  /\ At(Kbd, "grow")
  /\ line' = [line EXCEPT !.write_pos = @ + 1, !.length = @ + 1]
  /\ char' = NoChar
  /\ GoTo(Kbd, IF char = Newline THEN "move" ELSE "more")
  /\ ttyUnchanged /\ UNCHANGED <<observers, userVars>>

(* Variant: the text stays where it is. *)
CompactWithoutMove ==
  /\ At(Kbd, "move")
  /\ GoTo(Kbd, "shorten")
  /\ ttyUnchanged /\ UNCHANGED <<char, ttyVars, userVars>>

(* tty_compact_buffer: memmove, then the three positions, each of which    *)
(* reads read_pos again.                                                   *)
CompactMove ==
  /\ At(Kbd, "move")
  /\ line' = [line EXCEPT !.data =
                [i \in Cells |->
                   IF i >= line.length THEN @[i]
                   ELSE IF i + line.read_pos \in Cells THEN @[i + line.read_pos] ELSE NoChar]]
  /\ GoTo(Kbd, "shorten")
  /\ ttyUnchanged /\ UNCHANGED <<char, observers, userVars>>

CompactLength ==
  /\ At(Kbd, "shorten")
  /\ line' = [line EXCEPT !.length = @ - line.read_pos]
  /\ GoTo(Kbd, "rewind")
  /\ ttyUnchanged /\ UNCHANGED <<char, observers, userVars>>

CompactWritePos ==
  /\ At(Kbd, "rewind")
  /\ line' = [line EXCEPT !.write_pos = @ - line.read_pos]
  /\ GoTo(Kbd, "reset")
  /\ ttyUnchanged /\ UNCHANGED <<char, observers, userVars>>

CompactReadPos ==
  /\ At(Kbd, "reset")
  /\ line' = Trim([line EXCEPT !.read_pos = 0])
  /\ GoTo(Kbd, "notify")
  /\ ttyUnchanged /\ UNCHANGED <<char, observers, userVars>>

(* Variant: the observers are not told. *)
NotifyNobody ==
  /\ At(Kbd, "notify")
  /\ GoTo(Kbd, "more")
  /\ UNCHANGED <<cpu, deviceVars, kbdVars, ttyVars, readerVars, userVars>>

(* tty_notify_chars_available, for the only reader. *)
tty_notify_chars_available ==
  /\ At(Kbd, "notify")
  /\ IF App \in observers THEN Wake(App) ELSE UNCHANGED cpu
  /\ GoTo(Kbd, "more")
  /\ UNCHANGED <<deviceVars, kbdVars, ttyVars, readerVars, userVars>>

----------------------------------------------------------------------------
(* tty_gets and tty_getc, in the reader. *)

(* tty_line_read_chars_available is unsigned, and compared with 0. *)
Available == line.length # line.read_pos

appUnchanged == UNCHANGED <<deviceVars, kbdVars, typed, wire, held, failed>>

WaitTest ==
  /\ At(App, "wait")
  /\ GoTo(App, IF Available THEN "check" ELSE "observe")
  /\ appUnchanged /\ UNCHANGED <<cpu, ttyVars, readerVars, prompt>>

tty_observer_new ==
  /\ At(App, "observe")
  /\ observers' = observers \cup {App}
  /\ GoTo(App, "block")
  /\ appUnchanged /\ UNCHANGED <<cpu, line, readerVars, prompt>>

WaitBlock ==
  /\ At(App, "block")
  /\ Block
  /\ prompt' = TRUE
  /\ GoTo(App, "yield")
  /\ appUnchanged /\ UNCHANGED <<ttyVars, readerVars>>

WaitYield ==
  /\ At(App, "yield")
  /\ Yield
  /\ GoTo(App, "again")
  /\ appUnchanged /\ UNCHANGED <<ttyVars, readerVars, prompt>>

WaitAgain ==
  /\ At(App, "again")
  /\ GoTo(App, IF Available THEN "forget" ELSE "block")
  /\ appUnchanged /\ UNCHANGED <<cpu, ttyVars, readerVars, prompt>>

(* Variant: LL_DELETE is forgotten. *)
ObserverKept ==
  /\ At(App, "forget")
  /\ GoTo(App, "check")
  /\ appUnchanged /\ UNCHANGED <<cpu, ttyVars, readerVars, prompt>>

tty_observer_delete ==
  /\ At(App, "forget")
  /\ observers' = observers \ {App}
  /\ GoTo(App, "check")
  /\ appUnchanged /\ UNCHANGED <<cpu, line, readerVars, prompt>>

(* tty_getc fails when nothing is available after all, and so does         *)
(* tty_gets.                                                               *)
GetTest ==
  /\ At(App, "check")
  /\ IF Available
       THEN GoTo(App, "get") /\ UNCHANGED buffer
       ELSE GoTo(App, "wait") /\ buffer' = <<>>
  /\ appUnchanged /\ UNCHANGED <<cpu, ttyVars, loaded, prompt>>

(* Outside the buffer the reader finds whatever is there. *)
GetChar ==
  /\ At(App, "get")
  /\ \E c \in IF line.read_pos \in Cells THEN {line.data[line.read_pos]} ELSE Chars :
       buffer' = Append(buffer, c)
  /\ GoTo(App, "load")
  /\ appUnchanged /\ UNCHANGED <<cpu, ttyVars, loaded, prompt>>

(* read_pos++ is a load and a store. *)
LoadReadPos ==
  /\ At(App, "load")
  /\ loaded' = line.read_pos
  /\ GoTo(App, "inc")
  /\ appUnchanged /\ UNCHANGED <<cpu, ttyVars, buffer, prompt>>

(* Variant: only a full buffer ends tty_gets. *)
ReadUntilFull ==
  /\ At(App, "inc")
  /\ line' = [line EXCEPT !.read_pos = loaded + 1]
  /\ loaded' = 0
  /\ GoTo(App, IF Len(buffer) = MAXLENGTH THEN "return" ELSE "wait")
  /\ appUnchanged /\ UNCHANGED <<cpu, observers, buffer, prompt>>

StoreReadPos ==
  /\ At(App, "inc")
  /\ line' = [line EXCEPT !.read_pos = loaded + 1]
  /\ loaded' = 0
  /\ GoTo(App, IF Last(buffer) = Newline \/ Len(buffer) = MAXLENGTH THEN "return" ELSE "wait")
  /\ appUnchanged /\ UNCHANGED <<cpu, observers, buffer, prompt>>

(* The line is in the caller's hands, who asks for the next one. *)
GetsReturns ==
  /\ At(App, "return")
  /\ buffer' = <<>>
  /\ typed' = SubSeq(typed, Len(buffer) + 1, Len(typed))
  /\ GoTo(App, "wait")
  /\ UNCHANGED <<cpu, deviceVars, kbdVars, ttyVars, loaded, prompt, wire, held, failed>>

----------------------------------------------------------------------------
KbdStep ==
  \/ ps2_flush_output_buffer \/ hal_mask_irq \/ ReadScancode
  \/ ps2_kbd_handle_scancode \/ ps2_can_read_data \/ KbdBlock \/ KbdYield
  \/ EraseTest \/ EraseChar \/ StoreChar \/ CountChar
  \/ CompactMove \/ CompactLength \/ CompactWritePos \/ CompactReadPos
  \/ tty_notify_chars_available

AppStep ==
  \/ WaitTest \/ tty_observer_new \/ WaitBlock \/ WaitYield \/ WaitAgain
  \/ tty_observer_delete \/ GetTest \/ GetChar \/ LoadReadPos \/ StoreReadPos
  \/ GetsReturns

consoleVars == <<deviceVars, kbdVars, ttyVars, readerVars, userVars, pc>>

(* An interrupt ends in a yield to t. *)
Preempt(t) == Yield /\ current' = t /\ UNCHANGED consoleVars

Next ==
  \/ \E b \in Bytes : ByteArrives(b)
  \/ KbdStep \/ AppStep
  \/ \E t \in Threads : Preempt(t)

Spec == Init /\ [][Next]_vars

(* Fairness: a ready thread gets the CPU (NoStarvation of Threads), and    *)
(* executes between two interrupts.  The user need not type.               *)
FairSpec ==
  /\ Spec
  /\ SF_vars(Preempt(Kbd)) /\ SF_vars(Preempt(App))
  /\ SF_vars(KbdStep) /\ SF_vars(AppStep)

----------------------------------------------------------------------------
(* Type invariant. *)
TypeOK ==
  /\ current \in Threads /\ ready \subseteq Threads
  /\ out \in {<<>>} \cup {<<b>> : b \in Bytes}
  /\ port \in Bytes \cup Leftover
  /\ unmasked \in BOOLEAN
  /\ scancode \in Seq(Bytes \cup Leftover)
  /\ mods \subseteq Modifiers \X BOOLEAN
  /\ char \in Chars \cup {NoChar}
  /\ line \in [data : [Cells -> Chars \cup {NoChar}], length : Nat,
               write_pos : Nat, read_pos : Nat, capacity : Nat]
  /\ observers \subseteq {App}
  /\ buffer \in Seq(Chars \cup {NoChar})
  /\ loaded \in Nat
  /\ pc \in [Threads -> Labels]
  /\ typed \in Seq(Chars)
  /\ prompt \in BOOLEAN /\ failed \in BOOLEAN
  /\ wire \in Seq({"e0", "f0"}) /\ held \subseteq Modifiers \X BOOLEAN

(* "reads a line from the keyboard, after buffering and editing": tty_gets *)
(* returns the next line of the text the user has typed and edited.        *)
LineIsEdited ==
  pc[App] = "return" /\ ~failed =>
    Len(buffer) <= Len(typed) /\ buffer = SubSeq(typed, 1, Len(buffer))

(* A reader that sleeps is on the list of observers, so that the next      *)
(* newline finds it; one that is not waiting is not on the list.           *)
SleeperObserves ==
  /\ App \notin ready => App \in observers
  /\ App \in observers => pc[App] \in {"block", "yield", "again", "forget"}

(* ps2_kbd_thread reads the data port without looking whether there is a   *)
(* byte.  After its first pass, which may find what ps2_init left behind,  *)
(* there always is one: no byte is taken for a key twice.                  *)
NoStaleRead == pc[Kbd] = "read" /\ out = <<>> => port \in Leftover

(* "if kbd irq arrives here, we're ok, we just immediately get made        *)
(* runnable and rescheduled": the keyboard thread does not sleep while the *)
(* controller holds a byte for it.                                         *)
NoByteStranded == out # <<>> => Kbd \in ready

(* A reader does not sleep on a line that has been entered: once the       *)
(* newline is in the buffer and the observers have been told, the reader   *)
(* is awake.                                                               *)
NoLineMissed ==
  /\ \E i \in Cells : line.read_pos <= i /\ i < line.length /\ line.data[i] = Newline
  /\ pc[Kbd] \notin {"move", "shorten", "rewind", "reset", "notify"}
  => App \in ready

(* A line that has been entered is returned. *)
LineIsReturned ==
  (\E i \in 0 .. line.length - 1 : line.data[i] = Newline /\ i >= line.read_pos)
    ~> pc[App] = "return"

=============================================================================
