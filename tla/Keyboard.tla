------------------------------- MODULE Keyboard -------------------------------
(***************************************************************************)
(* The keyboard driver of kmOS (arch/x86/keyboard.cc): the interrupt       *)
(* handler puts characters into a ring buffer, the shell takes them out in *)
(* read_line, and nothing but the one-instruction accesses of the machine  *)
(* orders the two.  A reader step is what lies between two points at which *)
(* the -O2 build lets the handler change what it reads: the test of        *)
(* buffer_count, the load of the character, the decrement, the new tail.   *)
(* The handler runs with interrupts masked and is one step.                *)
(***************************************************************************)
EXTENDS Integers, Sequences

CONSTANTS Size,      \* KEYBOARD_BUFFER_SIZE (256 in the code)
          MaxLen,    \* the max_len given to read_line (256 in the code)
          Keys,      \* the keys that are pressed: members of AllKeys
          MaxTyped   \* bound: characters put into the buffer

AllKeys == {"LSHIFT", "RSHIFT", "CTRL", "ALT", "CAPS", "LETTER", "TAB", "BACKSPACE",
            "ENTER", "F1"}

ASSUME KeyboardAssumption ==
  /\ Size \in Nat \ {0, 1}
  /\ MaxLen \in Nat \ {0}
  /\ Keys \subseteq AllKeys
  /\ MaxTyped \in Nat

\* What the tables scancode_to_char and scancode_to_char_shift hold, by kind.
Chars == {"a", "A", "tab", "bs", "cr"}

VARIABLES
  input_buffer, buffer_head, buffer_tail, buffer_count,
  mods,        \* struct keyboard_state
  rpc,         \* where the shell is in read_line
  reg, c,      \* the register with buffer_count, and the character taken
  line,        \* the characters of the caller's buffer below pos
  hist,        \* history: every character stored, in order
  taken,       \* history: how many of them the reader has counted off
  lost         \* history: increments of buffer_count that were overwritten

ringVars == <<input_buffer, buffer_head, buffer_count>>
keyboardVars == <<input_buffer, buffer_head, buffer_tail, buffer_count, mods, rpc, reg, c, line,
          hist, taken, lost>>

Slots == 0 .. Size - 1
ReaderLabels == {"idle", "check", "hlt", "halted", "take", "count", "tail"}

KeyboardTypeOK ==
  /\ input_buffer \in [Slots -> Chars \cup {"none"}]
  /\ buffer_head \in Slots /\ buffer_tail \in Slots
  /\ buffer_count \in 0 .. Size - 1
  /\ mods \in [shift : BOOLEAN, ctrl : BOOLEAN, alt : BOOLEAN, caps : BOOLEAN]
  /\ rpc \in ReaderLabels
  /\ reg \in Nat /\ c \in Chars \cup {"none"}
  /\ line \in Seq(Chars) /\ Len(line) <= MaxLen - 1
  /\ hist \in Seq(Chars) /\ taken \in Nat /\ lost \in Nat

\* Keyboard::init; the controller's output buffer has been drained.
KeyboardInit ==
  /\ input_buffer = [i \in Slots |-> "none"]
  /\ buffer_head = 0 /\ buffer_tail = 0 /\ buffer_count = 0
  /\ mods = [shift |-> FALSE, ctrl |-> FALSE, alt |-> FALSE, caps |-> FALSE]
  /\ rpc = "idle" /\ reg = 0 /\ c = "none"
  /\ line = <<>> /\ hist = <<>> /\ taken = 0 /\ lost = 0

\* Mutant: the index wraps one slot too late.
SlotLate(x) == IF x <= Size THEN x ELSE x - Size

\* x % Size for the sums of two slot numbers the code computes.
Slot(x) == IF x < Size THEN x ELSE x - Size

-------------------------------------------------------------------------------
(* The interrupt handler. *)

update_key_state(key, pressed) ==
  mods' = CASE key \in {"LSHIFT", "RSHIFT"} -> [mods EXCEPT !.shift = pressed]
            [] key = "CTRL" -> [mods EXCEPT !.ctrl = pressed]
            [] key = "ALT"  -> [mods EXCEPT !.alt = pressed]
            [] key = "CAPS" /\ pressed -> [mods EXCEPT !.caps = ~@]
            [] OTHER -> mods

\* "none" stands for the entry 0 of both tables.
scancode_to_ascii(key, shift) ==
  CASE key = "LETTER"    -> IF shift THEN "A" ELSE "a"
    [] key = "TAB"       -> "tab"
    [] key = "BACKSPACE" -> "bs"
    [] key = "ENTER"     -> "cr"
    [] OTHER             -> "none"

\* Mutant: every slot is used, so that head meets tail when the buffer is full.
HasRoomForAll == buffer_count < Size

\* The buffer is full one character before head meets tail; then ch is dropped.
HasRoom == buffer_count < Size - 1

\* Mutant: a full buffer takes the character without counting it.
AddUncounted(ch) ==
  /\ input_buffer' = [input_buffer EXCEPT ![buffer_head] = ch]
  /\ buffer_head' = Slot(buffer_head + 1)
  /\ buffer_count' = IF HasRoom THEN buffer_count + 1 ELSE buffer_count
  /\ hist' = Append(hist, ch)

add_to_buffer(ch) ==
  IF HasRoom
  THEN /\ input_buffer' = [input_buffer EXCEPT ![buffer_head] = ch]
       /\ buffer_head' = Slot(buffer_head + 1)
       /\ buffer_count' = buffer_count + 1
       /\ hist' = Append(hist, ch)
  ELSE UNCHANGED <<ringVars, hist>>

\* Mutant: the sleeping reader is not woken.
NoWakeUp == UNCHANGED rpc

\* hlt ends with any interrupt; the loop of read_line then tests again.  The test
\* loads buffer_count anew: hlt is a basic asm statement, which the compiler of the
\* project, GCC, takes to clobber memory, and the -O2 code has the load in the loop.
WakeUp == rpc' = IF rpc = "halted" THEN "check" ELSE rpc

handle_interrupt(key, pressed) ==
  /\ Len(hist) < MaxTyped
  /\ update_key_state(key, pressed)
  /\ LET ch == scancode_to_ascii(key, mods'.shift \/ mods'.caps)
     IN  IF pressed /\ ch # "none" THEN add_to_buffer(ch) ELSE UNCHANGED <<ringVars, hist>>
  /\ WakeUp
  /\ UNCHANGED <<buffer_tail, reg, c, line, taken, lost>>

\* Any other interrupt, in practice the timer 100 times a second.
TimerInterrupt ==
  /\ rpc = "halted" /\ WakeUp
  /\ UNCHANGED <<ringVars, buffer_tail, mods, reg, c, line, hist, taken, lost>>

-------------------------------------------------------------------------------
(* read_line, with char_available and get_from_buffer inlined. *)

\* The shell calls read_line; it returns at once when max_len leaves no room.
StartLine ==
  /\ rpc = "idle" /\ MaxLen > 1
  /\ line' = <<>>
  /\ rpc' = "check"
  /\ UNCHANGED <<ringVars, buffer_tail, mods, reg, c, hist, taken, lost>>

\* buffer_count is loaded into a register, on every turn of the loop (see WakeUp),
\* and tested; the decrement may use the same register.
char_available ==
  /\ rpc = "check"
  /\ reg' = buffer_count
  /\ rpc' = IF buffer_count > 0 THEN "take" ELSE "hlt"
  /\ UNCHANGED <<ringVars, buffer_tail, mods, c, line, hist, taken, lost>>

\* An interrupt that came after the test does not end this hlt.
Halt ==
  /\ rpc = "hlt"
  /\ rpc' = "halted"
  /\ UNCHANGED <<ringVars, buffer_tail, mods, reg, c, line, hist, taken, lost>>

LoadChar ==
  /\ rpc = "take"
  /\ c' = input_buffer[buffer_tail]
  /\ rpc' = "count"
  /\ UNCHANGED <<ringVars, buffer_tail, mods, reg, line, hist, taken, lost>>

\* buffer_count--: either memory is decremented, or the register is, and the
\* increments made since it was loaded are overwritten.
Decrement ==
  \/ buffer_count' = buffer_count - 1 /\ UNCHANGED lost
  \/ /\ buffer_count > reg
     /\ buffer_count' = reg - 1
     /\ lost' = lost + (buffer_count - reg)

StoreCount ==
  /\ rpc = "count"
  /\ Decrement
  /\ taken' = taken + 1
  /\ rpc' = "tail"
  /\ UNCHANGED <<input_buffer, buffer_head, buffer_tail, mods, reg, c, line, hist>>

\* The new tail, and what read_line does with the character.
StoreTail ==
  /\ rpc = "tail"
  /\ buffer_tail' = Slot(buffer_tail + 1)
  /\ c' = "none" /\ reg' = 0
  /\ \/ c = "cr" /\ rpc' = "idle" /\ line' = line
     \/ /\ c = "bs"
        /\ line' = IF line = <<>> THEN line ELSE SubSeq(line, 1, Len(line) - 1)
        /\ rpc' = "check"
     \/ /\ c \in {"a", "A"}
        /\ line' = Append(line, c)
        /\ rpc' = IF Len(line) + 1 < MaxLen - 1 THEN "check" ELSE "idle"
     \/ c \notin {"cr", "bs", "a", "A"} /\ rpc' = "check" /\ line' = line
  /\ UNCHANGED <<ringVars, mods, hist, taken, lost>>

-------------------------------------------------------------------------------
Interrupt == \E key \in Keys, pressed \in BOOLEAN : handle_interrupt(key, pressed)
Reader == StartLine \/ char_available \/ Halt \/ LoadChar \/ StoreCount \/ StoreTail

KeyboardNext == Interrupt \/ TimerInterrupt \/ Reader

\* The shell's processor time and the timer are given; keys need not be pressed.
Fairness == WF_keyboardVars(Reader) /\ WF_keyboardVars(TimerInterrupt)

KeyboardSpec == KeyboardInit /\ [][KeyboardNext]_keyboardVars
FairSpec == KeyboardSpec /\ Fairness

-------------------------------------------------------------------------------
(* Properties. *)

Pending == Len(hist) - taken

\* The slot of the oldest character not yet taken; the new tail is stored last.
First == IF rpc = "tail" THEN Slot(buffer_tail + 1) ELSE buffer_tail

\* buffer_count is the number of characters in the buffer less the increments
\* that a decrement has overwritten: the handler between the load and the store
\* of the reader loses at most what it added, and never makes the count too big.
CountAccounts == buffer_count + lost = Pending

\* The reader gets the characters in the order in which they were typed, each
\* once and none that was not typed.
InOrder ==
  /\ rpc = "count" => c = hist[taken + 1]
  /\ rpc = "tail" => c = hist[taken]

\* The same of the characters that are still to come: they lie intact from First on.
Fifo ==
  /\ Pending \in 0 .. Size
  /\ buffer_head = Slot(First + Pending)
  /\ \A i \in 0 .. Size - 1 : i < Pending => input_buffer[Slot(First + i)] = hist[taken + 1 + i]
  /\ InOrder

\* One overwritten increment does no harm, wherever it happens: the slot that
\* add_to_buffer keeps free takes the character too many, and first in is still
\* first out.  A second one is not absorbed, see the run keyboard_order.
OneLossAbsorbed == lost <= 1 => Fifo

\* As long as characters are counted as available the reader takes one more (it
\* counts it off on its way to "tail"): the handler may run between the test of
\* buffer_count and hlt, and the timer then ends the sleep.
AvailableIsRead == (buffer_count > 0 /\ MaxLen > 1) ~> rpc = "tail"

===============================================================================
