----------------------------- MODULE DriverProofs -----------------------------
(***************************************************************************)
(* Proofs about the two drivers whose device runs beside them: module      *)
(* Keyboard, for every buffer size, every line length, any number of       *)
(* keystrokes and, where it is not said otherwise, any number of lost      *)
(* increments; and module Disk, for drives and sectors of every size, all  *)
(* ranges of bytes, and drives that answer late, fail or never answer.     *)
(***************************************************************************)
EXTENDS Keyboard, Disk, ProofLemmas

-------------------------------------------------------------------------------
(* The handler and the reader.  While the reader is between its test and   *)
(* its decrement only the handler changes buffer_count, and only upwards:  *)
(* the register never exceeds the count, so neither goes below zero.  And  *)
(* inside its loop read_line has room for one character more.              *)

ReaderInv ==
  /\ rpc \in {"take", "count"} => reg \in 1 .. buffer_count
  /\ rpc # "idle" => Len(line) < MaxLen - 1
  /\ rpc = "tail" => taken >= 1

\* The number of characters put into the buffer covers those taken out.
KeyboardInv == KeyboardTypeOK /\ ReaderInv /\ CountAccounts

\* Indices wrap around within the buffer.
LEMMA SlotType ==
  ASSUME NEW x \in 0 .. (2 * Size) - 1
  PROVE  Slot(x) \in Slots
BY KeyboardAssumption DEF Slot, Slots

\* The backspace of read_line.
LEMMA Shortened ==
  ASSUME NEW S, NEW s \in Seq(S), s # <<>>
  PROVE  /\ SubSeq(s, 1, Len(s) - 1) \in Seq(S)
         /\ Len(SubSeq(s, 1, Len(s) - 1)) = Len(s) - 1
<1>1. ASSUME NEW n \in 0 .. Len(s)
      PROVE  SubSeq(s, 1, n) \in Seq(S) /\ Len(SubSeq(s, 1, n)) = n
  OBVIOUS
<1>2. Len(s) - 1 \in 0 .. Len(s)
  OBVIOUS
<1> QED BY <1>1, <1>2

\* A scan code of the tables gives a character.
LEMMA AsciiType ==
  ASSUME NEW key, NEW shift
  PROVE  scancode_to_ascii(key, shift) \in Chars \cup {"none"}
BY DEF scancode_to_ascii, Chars

\* The modifier keys keep their flags Boolean.
LEMMA ModsType ==
  ASSUME KeyboardTypeOK, NEW key \in AllKeys, NEW pressed \in BOOLEAN,
         update_key_state(key, pressed)
  PROVE  mods' \in [shift : BOOLEAN, ctrl : BOOLEAN, alt : BOOLEAN, caps : BOOLEAN]
BY DEF KeyboardTypeOK, update_key_state

\* The buffer starts empty.
LEMMA KeyboardInvInit == KeyboardInit => KeyboardInv
<1> SUFFICES ASSUME KeyboardInit PROVE KeyboardInv
  OBVIOUS
<1>1. KeyboardTypeOK
  BY KeyboardAssumption DEF KeyboardInit, KeyboardTypeOK, Slots, ReaderLabels, Chars
<1>2. ReaderInv /\ CountAccounts
  BY DEF KeyboardInit, ReaderInv, CountAccounts, Pending
<1> QED BY <1>1, <1>2 DEF KeyboardInv

\* What add_to_buffer does to the indices.
LEMMA AddStep ==
  ASSUME KeyboardTypeOK, NEW ch \in Chars, add_to_buffer(ch)
  PROVE  /\ input_buffer' \in [Slots -> Chars \cup {"none"}]
         /\ buffer_head' \in Slots
         /\ buffer_count' \in 0 .. Size - 1
         /\ hist' \in Seq(Chars)
         /\ buffer_count' >= buffer_count
         /\ buffer_count' - buffer_count = Len(hist') - Len(hist)
<1>1. CASE HasRoom
  <2>1. /\ input_buffer' = [input_buffer EXCEPT ![buffer_head] = ch]
        /\ buffer_head' = Slot(buffer_head + 1)
        /\ buffer_count' = buffer_count + 1
        /\ hist' = Append(hist, ch)
    BY <1>1 DEF add_to_buffer
  <2>2. buffer_head' \in Slots
    BY <2>1, SlotType, KeyboardAssumption DEF KeyboardTypeOK, Slots
  <2>3. buffer_count' \in 0 .. Size - 1 /\ buffer_count' >= buffer_count
    BY <1>1, <2>1, KeyboardAssumption DEF KeyboardTypeOK, HasRoom
  <2>4. hist' \in Seq(Chars) /\ Len(hist') = Len(hist) + 1
    BY <2>1 DEF KeyboardTypeOK
  <2>5. input_buffer' \in [Slots -> Chars \cup {"none"}]
    BY <2>1 DEF KeyboardTypeOK
  <2>6. buffer_count' - buffer_count = Len(hist') - Len(hist)
    BY <2>1, <2>4, KeyboardAssumption DEF KeyboardTypeOK
  <2> QED BY <2>2, <2>3, <2>4, <2>5, <2>6
<1>2. CASE ~HasRoom
  BY <1>2, KeyboardAssumption DEF add_to_buffer, KeyboardTypeOK, ringVars
<1> QED BY <1>1, <1>2

\* The steps of the keyboard interrupt.
LEMMA KeyboardInvInterrupt ==
  ASSUME KeyboardInv, NEW key \in Keys, NEW pressed \in BOOLEAN, handle_interrupt(key, pressed)
  PROVE  KeyboardInv'
<1> DEFINE ch == scancode_to_ascii(key, mods'.shift \/ mods'.caps)
<1>0. KeyboardTypeOK /\ ReaderInv /\ CountAccounts
  BY DEF KeyboardInv
<1>1. UNCHANGED <<buffer_tail, reg, c, line, taken, lost>>
  BY DEF handle_interrupt
<1>2. rpc' \in ReaderLabels /\ (rpc' = rpc \/ (rpc = "halted" /\ rpc' = "check"))
  BY <1>0 DEF handle_interrupt, WakeUp, KeyboardTypeOK, ReaderLabels
<1>3. mods' \in [shift : BOOLEAN, ctrl : BOOLEAN, alt : BOOLEAN, caps : BOOLEAN]
  BY <1>0, ModsType, KeyboardAssumption DEF handle_interrupt
<1>4. /\ input_buffer' \in [Slots -> Chars \cup {"none"}]
      /\ buffer_head' \in Slots
      /\ buffer_count' \in 0 .. Size - 1
      /\ hist' \in Seq(Chars)
      /\ buffer_count' >= buffer_count
      /\ buffer_count' - buffer_count = Len(hist') - Len(hist)
  <2>1. CASE pressed /\ ch # "none"
    <3>1. ch \in Chars
      BY <2>1, AsciiType
    <3>2. add_to_buffer(ch)
      BY <2>1 DEF handle_interrupt
    <3> HIDE DEF ch
    <3> QED BY <1>0, <3>1, <3>2, AddStep
  <2>2. CASE ~(pressed /\ ch # "none")
    BY <1>0, <2>2, KeyboardAssumption DEF handle_interrupt, KeyboardTypeOK, ringVars
  <2> QED BY <2>1, <2>2
<1>5. KeyboardTypeOK'
  BY <1>0, <1>1, <1>2, <1>3, <1>4 DEF KeyboardTypeOK
<1>6. ReaderInv'
  BY <1>0, <1>1, <1>2, <1>4, KeyboardAssumption DEF ReaderInv, KeyboardTypeOK
<1>7. CountAccounts'
  <2>1. Len(hist) \in Nat /\ Len(hist') \in Nat
    BY <1>0, <1>4 DEF KeyboardTypeOK
  <2>2. /\ buffer_count \in Int /\ buffer_count' \in Int
        /\ lost \in Int /\ taken \in Int
    BY <1>0, <1>4, KeyboardAssumption DEF KeyboardTypeOK
  <2>3. buffer_count + lost = Len(hist) - taken
    BY <1>0 DEF CountAccounts, Pending
  <2>4. buffer_count' + lost = Len(hist') - taken
    BY <1>4, <2>1, <2>2, <2>3
  <2> QED BY <1>1, <2>4 DEF CountAccounts, Pending
<1> QED BY <1>5, <1>6, <1>7 DEF KeyboardInv

\* The steps of the readers.
LEMMA KeyboardInvReader ==
  ASSUME KeyboardInv, Reader \/ TimerInterrupt \/ UNCHANGED keyboardVars
  PROVE  KeyboardInv'
<1>0. KeyboardTypeOK /\ ReaderInv /\ CountAccounts
  BY DEF KeyboardInv
<1>1. CASE StartLine
  <2>1. KeyboardTypeOK'
    BY <1>0, <1>1, KeyboardAssumption DEF StartLine, KeyboardTypeOK, ReaderLabels, ringVars
  <2>2. ReaderInv' /\ CountAccounts'
    BY <1>0, <1>1, KeyboardAssumption DEF StartLine, ReaderInv, CountAccounts, Pending, ringVars
  <2> QED BY <2>1, <2>2 DEF KeyboardInv
<1>2. CASE char_available
  <2>1. KeyboardTypeOK'
    BY <1>0, <1>2, KeyboardAssumption DEF char_available, KeyboardTypeOK, ReaderLabels, ringVars
  <2>2. ReaderInv' /\ CountAccounts'
    BY <1>0, <1>2, KeyboardAssumption
    DEF char_available, ReaderInv, CountAccounts, Pending, ringVars, KeyboardTypeOK
  <2> QED BY <2>1, <2>2 DEF KeyboardInv
<1>3. CASE Halt
  <2>1. KeyboardTypeOK'
    BY <1>0, <1>3 DEF Halt, KeyboardTypeOK, ReaderLabels, ringVars
  <2>2. ReaderInv' /\ CountAccounts'
    BY <1>0, <1>3 DEF Halt, ReaderInv, CountAccounts, Pending, ringVars
  <2> QED BY <2>1, <2>2 DEF KeyboardInv
<1>4. CASE LoadChar
  <2>1. KeyboardTypeOK'
    BY <1>0, <1>4 DEF LoadChar, KeyboardTypeOK, ReaderLabels, ringVars
  <2>2. ReaderInv' /\ CountAccounts'
    BY <1>0, <1>4 DEF LoadChar, ReaderInv, CountAccounts, Pending, ringVars, KeyboardTypeOK
  <2> QED BY <2>1, <2>2 DEF KeyboardInv
<1>5. CASE StoreCount
  <2>1. /\ rpc = "count" /\ rpc' = "tail" /\ Decrement /\ taken' = taken + 1
        /\ UNCHANGED <<input_buffer, buffer_head, buffer_tail, mods, reg, c, line, hist>>
    BY <1>5 DEF StoreCount
  <2>2. reg \in 1 .. buffer_count /\ Len(line) < MaxLen - 1
    BY <1>0, <2>1 DEF ReaderInv
  <2>3. /\ buffer_count \in Int /\ lost \in Int /\ taken \in Int /\ Len(hist) \in Int
        /\ reg \in Int /\ lost >= 0
    BY <1>0, KeyboardAssumption DEF KeyboardTypeOK
  <2>4. buffer_count + lost = Len(hist) - taken
    BY <1>0 DEF CountAccounts, Pending
  <2>5. /\ buffer_count' \in 0 .. Size - 1 /\ lost' \in Nat
        /\ buffer_count' + lost' = Len(hist) - taken'
    <3>1. CASE buffer_count' = buffer_count - 1 /\ UNCHANGED lost
      BY <1>0, <2>1, <2>2, <2>3, <2>4, <3>1, KeyboardAssumption DEF KeyboardTypeOK
    <3>2. CASE /\ buffer_count > reg
               /\ buffer_count' = reg - 1 /\ lost' = lost + (buffer_count - reg)
      BY <1>0, <2>1, <2>2, <2>3, <2>4, <3>2, KeyboardAssumption DEF KeyboardTypeOK
    <3> QED BY <2>1, <3>1, <3>2 DEF Decrement
  <2>6. KeyboardTypeOK'
    BY <1>0, <2>1, <2>5 DEF KeyboardTypeOK, ReaderLabels
  <2>7. ReaderInv' /\ CountAccounts'
    <3>1. taken' >= 1
      BY <1>0, <2>1 DEF KeyboardTypeOK
    <3> QED BY <2>1, <2>2, <2>5, <3>1 DEF ReaderInv, CountAccounts, Pending
  <2> QED BY <2>6, <2>7 DEF KeyboardInv
<1>6. CASE StoreTail
  <2>1. buffer_tail' \in Slots
    BY <1>0, <1>6, SlotType, KeyboardAssumption DEF StoreTail, KeyboardTypeOK, Slots
  <2>2. /\ rpc' \in {"idle", "check"}
        /\ rpc' # "idle" => Len(line') < MaxLen - 1
    <3>1. rpc = "tail" /\ Len(line) < MaxLen - 1
      BY <1>0, <1>6 DEF StoreTail, ReaderInv
    <3>2. line \in Seq(Chars) /\ Len(line) \in Nat
      BY <1>0 DEF KeyboardTypeOK
    <3>3. CASE c \in {"a", "A"}
      BY <1>6, <3>1, <3>2, <3>3, KeyboardAssumption DEF StoreTail, Chars
    <3>4. CASE line' = line
      BY <1>6, <3>1, <3>4 DEF StoreTail
    <3>5. CASE line # <<>> /\ line' = SubSeq(line, 1, Len(line) - 1)
      <4>2. Len(line') = Len(line) - 1
        BY <3>2, <3>5, Shortened
      <4>3. rpc' \in {"idle", "check"}
        BY <1>6 DEF StoreTail
      <4> QED BY <3>1, <3>2, <4>2, <4>3, KeyboardAssumption
    <3> QED BY <1>6, <3>3, <3>4, <3>5 DEF StoreTail
  <2>3. line' \in Seq(Chars) /\ Len(line') <= MaxLen - 1
    <3>1. line \in Seq(Chars) /\ Len(line) \in Nat /\ Len(line) <= MaxLen - 1
      BY <1>0 DEF KeyboardTypeOK
    <3>2. CASE line' = line
      BY <3>1, <3>2
    <3>3. CASE line # <<>> /\ line' = SubSeq(line, 1, Len(line) - 1)
      <4>1. line' \in Seq(Chars) /\ Len(line') = Len(line) - 1
        BY <3>1, <3>3, Shortened
      <4> QED BY <3>1, <4>1, KeyboardAssumption
    <3>4. CASE c \in {"a", "A"} /\ line' = Append(line, c)
      <4>1. rpc = "tail" /\ Len(line) < MaxLen - 1
        BY <1>0, <1>6 DEF StoreTail, ReaderInv
      <4>2. line' \in Seq(Chars) /\ Len(line') = Len(line) + 1
        BY <3>1, <3>4 DEF Chars
      <4> QED BY <3>1, <4>1, <4>2, KeyboardAssumption
    <3> QED BY <1>6, <3>2, <3>3, <3>4 DEF StoreTail
  <2>4. UNCHANGED <<ringVars, mods, hist, taken, lost>> /\ c' = "none" /\ reg' = 0
    BY <1>6 DEF StoreTail
  <2>5. KeyboardTypeOK'
    BY <1>0, <2>1, <2>2, <2>3, <2>4 DEF KeyboardTypeOK, ReaderLabels, ringVars
  <2>6. ReaderInv' /\ CountAccounts'
    BY <1>0, <2>2, <2>4 DEF ReaderInv, CountAccounts, Pending, ringVars
  <2> QED BY <2>5, <2>6 DEF KeyboardInv
<1>7. CASE TimerInterrupt
  <2>1. KeyboardTypeOK'
    BY <1>0, <1>7 DEF TimerInterrupt, WakeUp, KeyboardTypeOK, ReaderLabels, ringVars
  <2>2. ReaderInv' /\ CountAccounts'
    BY <1>0, <1>7 DEF TimerInterrupt, WakeUp, ReaderInv, CountAccounts, Pending, ringVars
  <2> QED BY <2>1, <2>2 DEF KeyboardInv
<1>8. CASE UNCHANGED keyboardVars
  BY <1>0, <1>8 DEF keyboardVars, KeyboardInv, KeyboardTypeOK, ReaderInv, CountAccounts, Pending
<1> QED BY <1>1, <1>2, <1>3, <1>4, <1>5, <1>6, <1>7, <1>8 DEF Reader

\* The inductive invariant holds in every state.
LEMMA KeyboardInvAlways == KeyboardSpec => []KeyboardInv
<1>1. KeyboardInit => KeyboardInv
  BY KeyboardInvInit
<1>2. KeyboardInv /\ [KeyboardNext]_keyboardVars => KeyboardInv'
  BY KeyboardInvInterrupt, KeyboardInvReader DEF KeyboardNext, Interrupt
<1> QED BY <1>1, <1>2, PTL DEF KeyboardSpec

\* Whatever order handler and reader take their steps in, every variable of the
\* driver keeps its range: the indices stay inside input_buffer, buffer_count
\* stays below the size and never wraps below zero, read_line stays inside the
\* caller's buffer.
THEOREM KeyboardTypeCorrect == KeyboardSpec => []KeyboardTypeOK
<1>1. KeyboardInv => KeyboardTypeOK
  BY DEF KeyboardInv
<1> QED BY <1>1, KeyboardInvAlways, PTL

\* buffer_count and the lost increments together account for every character.
THEOREM KeyboardCountAccounts == KeyboardSpec => []CountAccounts
<1>1. KeyboardInv => CountAccounts
  BY DEF KeyboardInv
<1> QED BY <1>1, KeyboardInvAlways, PTL

-------------------------------------------------------------------------------
(* First in, first out.  Slot arithmetic, then one lemma for the steps of  *)
(* the handler and one for those of the reader.                            *)

\* Counting slots around the ring, from the front and from the back; fewer than Size are different.
LEMMA SlotSteps ==
  ASSUME NEW a \in Slots, NEW n \in 0 .. Size
  PROVE  /\ Slot(a + n) \in Slots
         /\ Slot(a + 0) = a
         /\ n < Size => Slot(Slot(a + n) + 1) = Slot(a + (n + 1))
         /\ n > 0 => Slot(Slot(a + 1) + (n - 1)) = Slot(a + n)
         /\ \A i \in 0 .. Size - 1 : i < n /\ n < Size => Slot(a + i) # Slot(a + n)
BY KeyboardAssumption DEF Slot, Slots

\* The slot of the oldest character is one of the buffer.
LEMMA FirstType == KeyboardTypeOK => First \in Slots
<1> SUFFICES ASSUME KeyboardTypeOK PROVE First \in Slots
  OBVIOUS
<1>1. buffer_tail \in Slots /\ buffer_tail + 1 \in 0 .. (2 * Size) - 1
  BY KeyboardAssumption DEF KeyboardTypeOK, Slots
<1> QED BY <1>1, SlotType DEF First

\* The ring between First and the head holds the rest of the history.
RingHolds(first, head, ring, history, done) ==
  /\ Len(history) - done \in 0 .. Size
  /\ head = Slot(first + (Len(history) - done))
  /\ \A i \in 0 .. Size - 1 :
       i < Len(history) - done => ring[Slot(first + i)] = history[done + 1 + i]

\* Fifo, with the ring and the character in hand stated apart.
LEMMA FifoParts ==
  Fifo <=> /\ RingHolds(First, buffer_head, input_buffer, hist, taken)
           /\ rpc = "count" => c = hist[taken + 1]
           /\ rpc = "tail" => c = hist[taken]
BY DEF Fifo, InOrder, RingHolds, Pending

\* A character goes into a slot that holds no character still to be read.
LEMMA RingAppend ==
  ASSUME NEW first \in Slots, NEW head \in Slots, NEW ch,
         NEW ring \in [Slots -> Chars \cup {"none"}],
         NEW history \in Seq(Chars), NEW done \in Nat, ch \in Chars,
         RingHolds(first, head, ring, history, done),
         Len(history) - done < Size
  PROVE  RingHolds(first, Slot(head + 1), [ring EXCEPT ![head] = ch],
                   Append(history, ch), done)
<1> DEFINE n == Len(history) - done
<1>1. n \in 0 .. Size - 1 /\ n \in 0 .. Size /\ head = Slot(first + n)
  BY KeyboardAssumption DEF RingHolds
<1>2. Len(Append(history, ch)) - done = n + 1
  OBVIOUS
<1>3. Slot(head + 1) = Slot(first + (n + 1))
  <2>1. n < Size
    BY <1>1, KeyboardAssumption
  <2> HIDE DEF n
  <2> QED BY <1>1, <2>1, SlotSteps
<1>4. ASSUME NEW i \in 0 .. Size - 1, i < n + 1
      PROVE  [ring EXCEPT ![head] = ch][Slot(first + i)] = Append(history, ch)[done + 1 + i]
  <2>1. CASE i = n
    <3>1. Append(history, ch)[done + 1 + i] = ch
      BY <2>1
    <3> QED BY <1>1, <2>1, <3>1
  <2>2. CASE i < n
    <3>1. Slot(first + i) # head /\ Slot(first + i) \in Slots
      <4>1. i \in 0 .. Size
        BY <1>4, KeyboardAssumption
      <4>2. Slot(first + i) \in Slots
        BY <4>1, SlotSteps
      <4>3. n < Size
        BY <1>1, KeyboardAssumption
      <4> HIDE DEF n
      <4>4. Slot(first + i) # Slot(first + n)
        BY <1>1, <1>4, <2>2, <4>3, SlotSteps
      <4> QED BY <1>1, <4>2, <4>4
    <3>2. Append(history, ch)[done + 1 + i] = history[done + 1 + i]
      BY <1>4, <2>2
    <3>3. ring[Slot(first + i)] = history[done + 1 + i]
      BY <2>2 DEF RingHolds
    <3> QED BY <3>1, <3>2, <3>3
  <2> QED BY <1>1, <1>4, <2>1, <2>2, KeyboardAssumption
<1>5. n + 1 \in 0 .. Size
  BY <1>1, KeyboardAssumption
<1> HIDE DEF n
<1> QED BY <1>2, <1>3, <1>4, <1>5 DEF RingHolds

\* Taking the oldest character off moves first to the next slot.
LEMMA RingTake ==
  ASSUME NEW first \in Slots, NEW head \in Slots,
         NEW ring \in [Slots -> Chars \cup {"none"}],
         NEW history \in Seq(Chars), NEW done \in Nat,
         RingHolds(first, head, ring, history, done),
         Len(history) - done > 0
  PROVE  RingHolds(Slot(first + 1), head, ring, history, done + 1)
<1> DEFINE n == Len(history) - done
<1>1. n \in 1 .. Size /\ n \in 0 .. Size /\ head = Slot(first + n)
  BY KeyboardAssumption DEF RingHolds
<1>2. Len(history) - (done + 1) = n - 1
  OBVIOUS
<1>3. head = Slot(Slot(first + 1) + (n - 1))
  <2> HIDE DEF n
  <2> QED BY <1>1, SlotSteps
<1>4. ASSUME NEW i \in 0 .. Size - 1, i < n - 1
      PROVE  ring[Slot(Slot(first + 1) + i)] = history[(done + 1) + 1 + i]
  <2>1. i + 1 \in 0 .. Size - 1 /\ i + 1 < n /\ i + 1 \in 0 .. Size /\ i + 1 > 0
    BY <1>1, <1>4, KeyboardAssumption
  <2>2. Slot(Slot(first + 1) + i) = Slot(first + (i + 1))
    <3>1. (i + 1) - 1 = i
      BY <1>4
    <3> QED BY <2>1, <3>1, SlotSteps
  <2>3. ring[Slot(first + (i + 1))] = history[done + 1 + (i + 1)]
    BY <2>1 DEF RingHolds
  <2>4. done + 1 + (i + 1) = (done + 1) + 1 + i
    BY <1>4
  <2> QED BY <2>2, <2>3, <2>4
<1>5. n - 1 \in 0 .. Size
  BY <1>1, KeyboardAssumption
<1> HIDE DEF n
<1> QED BY <1>2, <1>3, <1>4, <1>5 DEF RingHolds

\* A keyboard interrupt appends one character or none.
LEMMA FifoInterrupt ==
  ASSUME KeyboardInv, Fifo, lost <= 1,
         NEW key \in Keys, NEW pressed \in BOOLEAN, handle_interrupt(key, pressed)
  PROVE  Fifo'
<1> DEFINE ch == scancode_to_ascii(key, mods'.shift \/ mods'.caps)
<1>0. KeyboardTypeOK /\ ReaderInv /\ CountAccounts
  BY DEF KeyboardInv
<1>1. /\ RingHolds(First, buffer_head, input_buffer, hist, taken)
      /\ rpc = "count" => c = hist[taken + 1]
      /\ rpc = "tail" => c = hist[taken]
  BY FifoParts
<1>2. UNCHANGED <<buffer_tail, c, taken>> /\ First' = First
  BY DEF handle_interrupt, WakeUp, First
<1>3. rpc' \in {"count", "tail"} => rpc' = rpc
  BY DEF handle_interrupt, WakeUp
<1>4. CASE pressed /\ ch # "none" /\ HasRoom
  <2>1. ch \in Chars /\ add_to_buffer(ch)
    BY <1>4, AsciiType DEF handle_interrupt
  <2> HIDE DEF ch
  <2>2. /\ input_buffer' = [input_buffer EXCEPT ![buffer_head] = ch]
        /\ buffer_head' = Slot(buffer_head + 1)
        /\ hist' = Append(hist, ch)
    BY <1>4, <2>1 DEF add_to_buffer
  <2>3. Len(hist) - taken < Size
    <3>1. buffer_count \in Int /\ buffer_count < Size - 1 /\ lost \in Int /\ lost <= 1
      BY <1>0, <1>4, KeyboardAssumption DEF KeyboardTypeOK, HasRoom
    <3>2. buffer_count + lost = Len(hist) - taken
      BY <1>0 DEF CountAccounts, Pending
    <3> QED BY <3>1, <3>2, KeyboardAssumption
  <2>4. /\ First \in Slots /\ buffer_head \in Slots /\ taken \in Nat
        /\ input_buffer \in [Slots -> Chars \cup {"none"}] /\ hist \in Seq(Chars)
    BY <1>0, FirstType DEF KeyboardTypeOK
  <2>5. RingHolds(First', buffer_head', input_buffer', hist', taken')
    BY <1>1, <1>2, <2>1, <2>2, <2>3, <2>4, RingAppend
  <2>6. /\ rpc' = "count" => c' = hist'[taken' + 1]
        /\ rpc' = "tail" => c' = hist'[taken']
    <3>1. \A k \in 1 .. Len(hist) : hist'[k] = hist[k]
      BY <2>1, <2>2, <2>4
    <3>2. Len(hist) \in Nat /\ buffer_count \in Nat /\ lost \in Nat
      BY <1>0, <2>4, KeyboardAssumption DEF KeyboardTypeOK
    <3>3. buffer_count + lost = Len(hist) - taken
      BY <1>0 DEF CountAccounts, Pending
    <3>4. CASE rpc = "count"
      <4>1. buffer_count >= 1
        BY <1>0, <3>2, <3>4 DEF ReaderInv, KeyboardTypeOK
      <4>2. taken + 1 \in 1 .. Len(hist)
        BY <2>4, <3>2, <3>3, <4>1
      <4> QED BY <1>1, <1>2, <1>3, <3>1, <3>4, <4>2
    <3>5. CASE rpc = "tail"
      <4>1. taken \in 1 .. Len(hist)
        <5>1. taken >= 1
          BY <1>0, <3>5 DEF ReaderInv
        <5> QED BY <2>4, <3>2, <3>3, <5>1
      <4> QED BY <1>1, <1>2, <1>3, <3>1, <3>5, <4>1
    <3> QED BY <1>3, <3>4, <3>5
  <2> QED BY <2>5, <2>6 DEF Fifo, InOrder, RingHolds, Pending
<1>5. CASE ~(pressed /\ ch # "none" /\ HasRoom)
  <2>1. UNCHANGED <<input_buffer, buffer_head, hist>>
    BY <1>5 DEF handle_interrupt, add_to_buffer, ringVars
  <2> QED BY <1>1, <1>2, <1>3, <2>1 DEF Fifo, InOrder, RingHolds, Pending
<1> QED BY <1>4, <1>5

\* A reader takes the oldest character or none.
LEMMA FifoReader ==
  ASSUME KeyboardInv, Fifo, Reader \/ TimerInterrupt \/ UNCHANGED keyboardVars
  PROVE  Fifo'
<1>0. KeyboardTypeOK /\ ReaderInv /\ CountAccounts
  BY DEF KeyboardInv
<1>1. /\ RingHolds(First, buffer_head, input_buffer, hist, taken)
      /\ rpc = "count" => c = hist[taken + 1]
      /\ rpc = "tail" => c = hist[taken]
  BY FifoParts
<1>2. /\ First \in Slots /\ buffer_head \in Slots /\ taken \in Nat
      /\ input_buffer \in [Slots -> Chars \cup {"none"}] /\ hist \in Seq(Chars)
      /\ buffer_count \in Nat /\ lost \in Nat /\ Len(hist) \in Nat
  BY <1>0, FirstType, KeyboardAssumption DEF KeyboardTypeOK
<1>3. rpc \in {"take", "count"} => Len(hist) - taken > 0
  <2>1. rpc \in {"take", "count"} => buffer_count >= 1
    BY <1>0, <1>2 DEF ReaderInv, KeyboardTypeOK
  <2>2. buffer_count + lost = Len(hist) - taken
    BY <1>0 DEF CountAccounts, Pending
  <2> QED BY <1>2, <2>1, <2>2
<1>4. CASE StartLine \/ char_available \/ Halt \/ TimerInterrupt
  <2>1. UNCHANGED <<ringVars, buffer_tail, hist, taken>> /\ rpc # "tail"
        /\ rpc' \notin {"count", "tail"}
    BY <1>4 DEF StartLine, char_available, Halt, TimerInterrupt, WakeUp
  <2>2. First' = First
    BY <2>1 DEF First
  <2> QED BY <1>1, <2>1, <2>2 DEF Fifo, InOrder, RingHolds, Pending, ringVars
<1>5. CASE LoadChar
  <2>1. /\ UNCHANGED <<ringVars, buffer_tail, hist, taken>> /\ rpc = "take"
        /\ rpc' = "count" /\ c' = input_buffer[buffer_tail]
    BY <1>5 DEF LoadChar
  <2>2. First' = First /\ First = buffer_tail
    BY <2>1 DEF First
  <2>3. c' = hist[taken + 1]
    <3>1. 0 \in 0 .. Size - 1 /\ 0 \in 0 .. Size /\ 0 < Len(hist) - taken
      BY <1>3, <2>1, KeyboardAssumption
    <3>2. input_buffer[Slot(First + 0)] = hist[taken + 1 + 0]
      BY <1>1, <3>1 DEF RingHolds
    <3>3. Slot(First + 0) = First /\ taken + 1 + 0 = taken + 1
      BY <1>2, <3>1, SlotSteps
    <3> QED BY <2>1, <2>2, <3>2, <3>3
  <2> QED BY <1>1, <2>1, <2>2, <2>3 DEF Fifo, InOrder, RingHolds, Pending, ringVars
<1>6. CASE StoreCount
  <2>1. /\ UNCHANGED <<input_buffer, buffer_head, buffer_tail, c, hist>>
        /\ rpc = "count" /\ rpc' = "tail" /\ taken' = taken + 1
    BY <1>6 DEF StoreCount
  <2>2. First = buffer_tail /\ First' = Slot(First + 1)
    BY <2>1 DEF First
  <2>3. RingHolds(First', buffer_head', input_buffer', hist', taken')
    BY <1>1, <1>2, <1>3, <2>1, <2>2, RingTake
  <2> QED BY <1>1, <2>1, <2>3 DEF Fifo, InOrder, RingHolds, Pending
<1>7. CASE StoreTail
  <2>1. /\ UNCHANGED <<ringVars, hist, taken>> /\ rpc = "tail"
        /\ rpc' \notin {"count", "tail"} /\ buffer_tail' = Slot(buffer_tail + 1)
    BY <1>7 DEF StoreTail
  <2>2. First' = First
    BY <2>1 DEF First
  <2> QED BY <1>1, <2>1, <2>2 DEF Fifo, InOrder, RingHolds, Pending, ringVars
<1>8. CASE UNCHANGED keyboardVars
  BY <1>8 DEF keyboardVars, Fifo, InOrder, First, Pending
<1> QED BY <1>4, <1>5, <1>6, <1>7, <1>8 DEF Reader

\* The overwritten increments are only ever added to.
LEMMA LostGrows ==
  ASSUME KeyboardInv, [KeyboardNext]_keyboardVars
  PROVE  lost \in Nat /\ lost' \in Nat /\ lost <= lost'
<1>0. /\ lost \in Nat /\ buffer_count \in Nat /\ reg \in Nat
  BY KeyboardAssumption DEF KeyboardInv, KeyboardTypeOK
<1>1. CASE StoreCount
  BY <1>0, <1>1 DEF StoreCount, Decrement
<1>2. CASE UNCHANGED lost
  BY <1>0, <1>2
<1> QED BY <1>1, <1>2 DEF KeyboardNext, Interrupt, handle_interrupt, TimerInterrupt, Reader,
                          StartLine, char_available, Halt, LoadChar, StoreTail, keyboardVars

\* However many increments of buffer_count are overwritten later: up to the second
\* one the reader gets every character in order and once.  The slot that
\* add_to_buffer keeps free absorbs the first, for every size of the buffer.
THEOREM KeyboardOneLossAbsorbed == KeyboardSpec => []OneLossAbsorbed
<1>1. KeyboardInit => OneLossAbsorbed
  BY SlotSteps, KeyboardAssumption
  DEF KeyboardInit, OneLossAbsorbed, Fifo, InOrder, Pending, First, Slots
<1>2. KeyboardInv /\ OneLossAbsorbed /\ [KeyboardNext]_keyboardVars => OneLossAbsorbed'
  <2> SUFFICES ASSUME KeyboardInv, OneLossAbsorbed, [KeyboardNext]_keyboardVars, lost' <= 1
               PROVE  Fifo'
    BY DEF OneLossAbsorbed
  <2>1. lost <= 1 /\ Fifo
    BY LostGrows DEF OneLossAbsorbed
  <2> QED BY <2>1, FifoInterrupt, FifoReader DEF KeyboardNext, Interrupt
<1> QED BY <1>1, <1>2, KeyboardInvAlways, PTL DEF KeyboardSpec

-------------------------------------------------------------------------------
(* The inductive invariant.                                                *)

InSector(a, l) == a \div SECTOR_SIZE = l
Offset(a) == a % SECTOR_SIZE

\* The drive has a sector that it will store, perhaps for a request that was given up.
Storing == drive.st = "busy" /\ drive.cmd = "store"

\* Where the driver is and what the drive was told.
ControlInv ==
  /\ pc # "idle" => /\ Before(req, piece) < req.size /\ req.size <= Len(Payload)
                    /\ ~req.ok
                    /\ req.op = "read" => xfer = "read"
  /\ pc = "select" /\ Storing => piece = 0
  /\ pc = "data" => drive.st # "idle" /\ drive.cmd = xfer /\ drive.lba = Lba(req, piece)
  /\ pc = "finish" => /\ req.op = "write" /\ xfer = "write"
                      /\ drive.st # "drq" /\ drive.cmd = "store" /\ drive.lba = Lba(req, piece)
  /\ pc = "idle" /\ req.op = "read" /\ req.ok => drive.st = "idle"

\* What a read has brought so far, in the drive and in the buffer.
ReadInv ==
  /\ drive.st = "drq" /\ drive.cmd = "read" =>
       /\ drive.lba < Sectors
       /\ \A a \in Addresses : InSector(a, drive.lba) => drive.buf[Offset(a)] = disk[a]
  /\ pc # "idle" /\ req.op = "read" =>
       /\ Len(buffer) = Before(req, piece)
       /\ \A i \in 1 .. Len(buffer) : buffer[i] = disk[req.pos + i - 1]

\* A sector that the drive will store holds nothing but bytes that may be there.
StoreInv ==
  Storing => \A a \in Addresses : InSector(a, drive.lba) => drive.buf[Offset(a)] \in allowed[a]

\* A write: its bytes may be on the drive; those before the sector it has come to are.
\* temp_block has the other bytes of a sector that is written in part, and the drive
\* gets those and the bytes of the range.
WriteInv ==
  pc # "idle" /\ req.op = "write" =>
    /\ \A a \in Addresses : Covers(req, a) => Written(req, a) \in allowed[a]
    /\ \A a \in Addresses : Covers(req, a) /\ a \div SECTOR_SIZE < Lba(req, piece) =>
         disk[a] = Written(req, a)
    /\ xfer = "write" /\ pc # "finish" /\ Partial(req, piece) =>
         /\ pc = "select" => drive.st # "busy"
         /\ \A a \in Addresses : InSector(a, Lba(req, piece)) /\ ~Covers(req, a) =>
              temp[Offset(a)] = disk[a]
    /\ pc = "finish" =>
         \A a \in Addresses : InSector(a, Lba(req, piece)) /\ Covers(req, a) =>
           /\ drive.buf[Offset(a)] = Written(req, a)
           /\ drive.st = "idle" => disk[a] = Written(req, a)

DiskInv == TypeOK /\ Durable /\ ReadOK /\ ControlInv /\ ReadInv /\ StoreInv /\ WriteInv

-------------------------------------------------------------------------------
(* How a range is cut into sectors. *)

\* Multiples of n that are less than n apart in that direction are in order.
LEMMA MultiplesOrdered ==
  ASSUME NEW n \in Nat \ {0}, NEW i \in Nat, NEW j \in Nat, i * n < j * n + n
  PROVE  i <= j
<1> SUFFICES ASSUME i >= j + 1 PROVE FALSE
  OBVIOUS
<1>1. PICK d \in Nat : i = (j + 1) + d
  <2>1. i - (j + 1) \in Nat /\ i = (j + 1) + (i - (j + 1))
    OBVIOUS
  <2> QED BY <2>1
<1>2. i * n = j * n + n + d * n
  BY <1>1
<1>3. d * n \in Nat /\ i * n \in Nat /\ j * n \in Nat
  BY <1>1
<1> QED BY <1>2, <1>3

\* An address is determined by its sector and its offset.
LEMMA AddressUnique ==
  ASSUME NEW n \in Nat \ {0}, NEW l \in Nat, NEW b \in 0 .. n - 1
  PROVE  (l * n + b) \div n = l /\ (l * n + b) % n = b
<1> DEFINE a == l * n + b
<1>0. l * n \in Nat /\ b \in Nat
  OBVIOUS
<1>1. a \in Nat
  BY <1>0
<1> HIDE DEF a
<1>2. a \div n \in Nat /\ a % n \in 0 .. n - 1 /\ a = (a \div n) * n + (a % n)
  BY <1>1, DivMod
<1> DEFINE q == a \div n
           m == a % n
<1> HIDE DEF q, m
<1>3. q \in Nat /\ m \in 0 .. n - 1 /\ q * n + m = l * n + b /\ q * n \in Nat /\ l * n \in Nat
  BY <1>2 DEF q, m, a
<1>4. q * n < l * n + n /\ l * n < q * n + n
  BY <1>3
<1>5. q <= l /\ l <= q
  BY <1>3, <1>4, MultiplesOrdered
<1>6. q = l
  BY <1>3, <1>5
<1>7. m = b
  BY <1>3, <1>6
<1> QED BY <1>6, <1>7 DEF q, m, a

Request == [op : {"read", "write"}, pos : Nat, size : Nat, ok : BOOLEAN]

\* The numbers of the k-th sector of a request that is not at its end.
LEMMA CutBounds ==
  ASSUME NEW r \in Request, NEW k \in Nat, Before(r, k) < r.size
  PROVE  /\ Lba(r, k) \in Nat /\ From(r, k) \in 0 .. SECTOR_SIZE - 1 /\ Before(r, k) \in Nat
         /\ Chunk(r, k) \in 1 .. SECTOR_SIZE - From(r, k)
         /\ Before(r, k) + Chunk(r, k) <= r.size
         /\ Lba(r, k) * SECTOR_SIZE + From(r, k) = r.pos + Before(r, k)
         /\ Chunk(r, k) = SECTOR_SIZE - From(r, k) \/ IsLast(r, k)
         /\ Before(r, k + 1) = Before(r, k) + SECTOR_SIZE - From(r, k)
         /\ Lba(r, k + 1) = Lba(r, k) + 1
<1> DEFINE q == r.pos \div SECTOR_SIZE
           m == r.pos % SECTOR_SIZE
           x == k * SECTOR_SIZE
<1>0. r.pos \in Nat /\ r.size \in Nat /\ SECTOR_SIZE \in Nat \ {0}
  BY DiskAssumption DEF Request
<1>1. q \in Nat /\ m \in 0 .. SECTOR_SIZE - 1 /\ r.pos = q * SECTOR_SIZE + m
  BY <1>0, DivMod
<1>2. /\ x \in Nat /\ (k = 0 => x = 0) /\ (k # 0 => x >= SECTOR_SIZE)
      /\ (k + 1) * SECTOR_SIZE = x + SECTOR_SIZE
  BY <1>0
<1>3. (q + k) * SECTOR_SIZE = q * SECTOR_SIZE + x /\ q * SECTOR_SIZE \in Nat
  BY <1>0, <1>1
<1>4. /\ Lba(r, k) = q + k /\ From(r, k) = (IF k = 0 THEN m ELSE 0)
      /\ Before(r, k) = (IF k = 0 THEN 0 ELSE x - m) /\ Before(r, k + 1) = (k + 1) * SECTOR_SIZE - m
      /\ Lba(r, k + 1) = q + (k + 1)
  BY DEF Lba, From, Before
<1> HIDE DEF q, m, x
<1>5. Lba(r, k) \in Nat /\ From(r, k) \in 0 .. SECTOR_SIZE - 1 /\ Before(r, k) \in Nat
  BY <1>0, <1>1, <1>2, <1>4
<1>6. Lba(r, k) * SECTOR_SIZE + From(r, k) = r.pos + Before(r, k)
  BY <1>0, <1>1, <1>2, <1>3, <1>4
<1>7. /\ Before(r, k + 1) = Before(r, k) + SECTOR_SIZE - From(r, k)
      /\ Lba(r, k + 1) = Lba(r, k) + 1
  BY <1>0, <1>1, <1>2, <1>4
<1>8. /\ Chunk(r, k) \in {SECTOR_SIZE - From(r, k), r.size - Before(r, k)}
      /\ Chunk(r, k) <= SECTOR_SIZE - From(r, k) /\ Chunk(r, k) <= r.size - Before(r, k)
  <2>1. SECTOR_SIZE - From(r, k) \in Int /\ r.size - Before(r, k) \in Int
    BY <1>0, <1>5
  <2> QED BY <2>1, MinOfTwo DEF Chunk
<1>9. Chunk(r, k) \in 1 .. SECTOR_SIZE - From(r, k) /\ Before(r, k) + Chunk(r, k) <= r.size
  BY <1>0, <1>5, <1>8
<1>10. Chunk(r, k) = SECTOR_SIZE - From(r, k) \/ IsLast(r, k)
  BY <1>0, <1>5, <1>8 DEF IsLast
<1> QED BY <1>5, <1>6, <1>7, <1>9, <1>10

\* The chunk of a sector is exactly what the range covers of it, and the bytes that
\* splicing takes from the payload are those that belong there.
LEMMA ChunkCovers ==
  ASSUME NEW r \in Request, NEW k \in Nat, Before(r, k) < r.size,
         NEW a \in Nat, InSector(a, Lba(r, k))
  PROVE  /\ Offset(a) \in 0 .. SECTOR_SIZE - 1
         /\ Offset(a) \in From(r, k) .. From(r, k) + Chunk(r, k) - 1 <=> Covers(r, a)
         /\ Before(r, k) + Offset(a) - From(r, k) + 1 = a - r.pos + 1
<1>0. r.pos \in Nat /\ r.size \in Nat /\ SECTOR_SIZE \in Nat \ {0}
  BY DiskAssumption DEF Request
<1>1. /\ Lba(r, k) \in Nat /\ From(r, k) \in 0 .. SECTOR_SIZE - 1 /\ Before(r, k) \in Nat
      /\ Chunk(r, k) \in 1 .. SECTOR_SIZE - From(r, k)
      /\ Before(r, k) + Chunk(r, k) <= r.size
      /\ Lba(r, k) * SECTOR_SIZE + From(r, k) = r.pos + Before(r, k)
      /\ Chunk(r, k) = SECTOR_SIZE - From(r, k) \/ IsLast(r, k)
  BY CutBounds
<1>2. Offset(a) \in 0 .. SECTOR_SIZE - 1 /\ a = Lba(r, k) * SECTOR_SIZE + Offset(a)
  BY <1>0, DivMod DEF InSector, Offset
<1>3. Lba(r, k) * SECTOR_SIZE \in Nat
  BY <1>0, <1>1
<1>4. a = r.pos + Before(r, k) + Offset(a) - From(r, k)
  BY <1>0, <1>1, <1>2, <1>3
<1>5. k = 0 => Before(r, k) = 0
  BY DEF Before
<1>6. k # 0 => From(r, k) = 0
  BY DEF From
<1>7. Before(r, k) + Offset(a) - From(r, k) + 1 = a - r.pos + 1
  BY <1>0, <1>1, <1>2, <1>4
<1>8. Offset(a) >= From(r, k) <=> a >= r.pos
  BY <1>0, <1>1, <1>2, <1>4, <1>5, <1>6
<1>9. Offset(a) <= From(r, k) + Chunk(r, k) - 1 <=> a <= r.pos + r.size - 1
  BY <1>0, <1>1, <1>2, <1>4 DEF IsLast
<1>10. Offset(a) \in From(r, k) .. From(r, k) + Chunk(r, k) - 1 <=> Covers(r, a)
  BY <1>0, <1>1, <1>2, <1>8, <1>9 DEF Covers
<1> QED BY <1>2, <1>7, <1>10

\* No byte of a range lies before its first sector or after its last.
LEMMA CoversBetween ==
  ASSUME NEW r \in Request, NEW k \in Nat, Before(r, k) < r.size, NEW a \in Nat, Covers(r, a)
  PROVE  /\ a \div SECTOR_SIZE \in Nat /\ a \div SECTOR_SIZE >= Lba(r, 0)
         /\ IsLast(r, k) => a \div SECTOR_SIZE <= Lba(r, k)
<1> DEFINE d == a \div SECTOR_SIZE
           q == r.pos \div SECTOR_SIZE
<1>0. r.pos \in Nat /\ r.size \in Nat /\ SECTOR_SIZE \in Nat \ {0} /\ a >= r.pos /\ a <= r.pos + r.size - 1
  BY DiskAssumption DEF Request, Covers
<1>1. /\ Lba(r, k) \in Nat /\ From(r, k) \in 0 .. SECTOR_SIZE - 1 /\ Before(r, k) \in Nat
      /\ Chunk(r, k) \in 1 .. SECTOR_SIZE - From(r, k)
      /\ Lba(r, k) * SECTOR_SIZE + From(r, k) = r.pos + Before(r, k)
  BY CutBounds
<1>2. d \in Nat /\ a % SECTOR_SIZE \in 0 .. SECTOR_SIZE - 1 /\ a = d * SECTOR_SIZE + (a % SECTOR_SIZE)
  BY <1>0, DivMod
<1>3. q \in Nat /\ r.pos % SECTOR_SIZE \in 0 .. SECTOR_SIZE - 1
      /\ r.pos = q * SECTOR_SIZE + (r.pos % SECTOR_SIZE)
  BY <1>0, DivMod
<1>4. Lba(r, 0) = q
  BY <1>3 DEF Lba
<1> HIDE DEF d, q
<1>5. d * SECTOR_SIZE \in Nat /\ q * SECTOR_SIZE \in Nat /\ Lba(r, k) * SECTOR_SIZE \in Nat
  BY <1>0, <1>1, <1>2, <1>3
<1>6. q * SECTOR_SIZE < d * SECTOR_SIZE + SECTOR_SIZE
  BY <1>0, <1>2, <1>3, <1>5
<1>7. q <= d
  BY <1>0, <1>2, <1>3, <1>6, MultiplesOrdered
<1>8. ASSUME IsLast(r, k) PROVE d <= Lba(r, k)
  <2>1. Before(r, k) + Chunk(r, k) = r.size
    BY <1>8 DEF IsLast
  <2>2. a < Lba(r, k) * SECTOR_SIZE + SECTOR_SIZE
    BY <1>0, <1>1, <1>5, <2>1
  <2>3. d * SECTOR_SIZE < Lba(r, k) * SECTOR_SIZE + SECTOR_SIZE
    BY <1>0, <1>2, <1>5, <2>2
  <2> QED BY <1>0, <1>1, <1>2, <2>3, MultiplesOrdered
<1> QED BY <1>2, <1>3, <1>4, <1>7, <1>8 DEF d

\* What a request writes at an address is a byte of the payload.
LEMMA WrittenType ==
  ASSUME NEW r \in Request, r.size <= Len(Payload), NEW a \in Nat, Covers(r, a)
  PROVE  Written(r, a) \in Bytes
<1>1. r.pos \in Nat /\ r.size \in Nat /\ Payload \in Seq(Bytes) /\ Len(Payload) \in Nat
  BY DiskAssumption DEF Request
<1>2. a - r.pos + 1 \in 1 .. Len(Payload)
  BY <1>1 DEF Covers
<1> QED BY <1>1, <1>2 DEF Written

\* What write puts into a sector: the bytes of the range, and of t around them.
LEMMA SplicedAt ==
  ASSUME NEW r \in Request, NEW k \in Nat, Before(r, k) < r.size, NEW t \in Sector,
         NEW a \in Nat, InSector(a, Lba(r, k))
  PROVE  /\ Covers(r, a) => Spliced(t, r, k)[Offset(a)] = Written(r, a)
         /\ ~Covers(r, a) => Spliced(t, r, k)[Offset(a)] = t[Offset(a)]
<1>1. /\ Offset(a) \in 0 .. SECTOR_SIZE - 1
      /\ Offset(a) \in From(r, k) .. From(r, k) + Chunk(r, k) - 1 <=> Covers(r, a)
      /\ Before(r, k) + Offset(a) - From(r, k) + 1 = a - r.pos + 1
  BY ChunkCovers
<1>2. DOMAIN t = 0 .. SECTOR_SIZE - 1
  BY DEF Sector
<1> QED BY <1>1, <1>2 DEF Spliced, Written

\* A sector with a piece of the payload written over it is a sector.
LEMMA SplicedType ==
  ASSUME NEW r \in Request, NEW k \in Nat, Before(r, k) < r.size, r.size <= Len(Payload),
         NEW t \in Sector
  PROVE  Spliced(t, r, k) \in Sector
<1>1. /\ From(r, k) \in 0 .. SECTOR_SIZE - 1 /\ Before(r, k) \in Nat
      /\ Chunk(r, k) \in 1 .. SECTOR_SIZE - From(r, k)
      /\ Before(r, k) + Chunk(r, k) <= r.size
  BY CutBounds
<1>2. Payload \in Seq(Bytes) /\ Len(Payload) \in Nat /\ r.size \in Nat /\ SECTOR_SIZE \in Nat
  BY DiskAssumption DEF Request
<1>3. \A i \in 1 .. Len(Payload) : Payload[i] \in Bytes
  BY <1>2
<1>4. \A b \in From(r, k) .. From(r, k) + Chunk(r, k) - 1 :
        Before(r, k) + b - From(r, k) + 1 \in 1 .. Len(Payload)
  <2> DEFINE f == From(r, k)
             n == Before(r, k)
             ch == Chunk(r, k)
             m == Len(Payload)
  <2>1. f \in Nat /\ n \in Nat /\ ch \in Nat /\ m \in Nat /\ n + ch <= m
    <3>1. r.size \in Nat /\ r.size <= m
      BY <1>2
    <3>2. f \in Nat /\ n \in Nat /\ ch \in Nat /\ n + ch <= r.size
      BY <1>1, <1>2
    <3> HIDE DEF f, n, ch, m
    <3> QED BY ONLY <1>2, <3>1, <3>2 DEF m
  <2> HIDE DEF f, n, ch, m
  <2>2. \A b \in f .. f + ch - 1 : n + b - f + 1 \in 1 .. m
    BY ONLY <2>1
  <2> QED BY ONLY <2>2 DEF f, n, ch, m
<1>5. DOMAIN t = 0 .. SECTOR_SIZE - 1 /\ \A b \in 0 .. SECTOR_SIZE - 1 : t[b] \in Bytes
  BY DEF Sector
<1> QED BY <1>3, <1>4, <1>5 DEF Spliced, Sector

\* A sector that is not written in part is covered by the range.
LEMMA WholeSector ==
  ASSUME NEW r \in Request, NEW k \in Nat, Before(r, k) < r.size, ~Partial(r, k),
         NEW a \in Nat, InSector(a, Lba(r, k))
  PROVE  Covers(r, a)
<1>1. SECTOR_SIZE \in Nat /\ From(r, k) = 0 /\ Chunk(r, k) = SECTOR_SIZE
  BY DiskAssumption DEF Partial
<1> QED BY <1>1, ChunkCovers

\* The sectors of the drive are within its addresses.
LEMMA SectorAddresses ==
  ASSUME NEW l \in Nat, l < Sectors, NEW b \in 0 .. SECTOR_SIZE - 1
  PROVE  /\ l * SECTOR_SIZE + b \in Addresses
         /\ InSector(l * SECTOR_SIZE + b, l) /\ Offset(l * SECTOR_SIZE + b) = b
<1>0. Sectors \in Nat /\ SECTOR_SIZE \in Nat \ {0}
  BY DiskAssumption
<1>1. InSector(l * SECTOR_SIZE + b, l) /\ Offset(l * SECTOR_SIZE + b) = b
  BY <1>0, AddressUnique DEF InSector, Offset
<1>2. PICK d \in Nat : Sectors = l + 1 + d
  <2>1. Sectors - (l + 1) \in Nat /\ Sectors = l + 1 + (Sectors - (l + 1))
    BY <1>0
  <2> QED BY <2>1
<1>3. Sectors * SECTOR_SIZE = l * SECTOR_SIZE + SECTOR_SIZE + d * SECTOR_SIZE
  BY <1>0, <1>2
<1>4. d * SECTOR_SIZE \in Nat /\ l * SECTOR_SIZE \in Nat
  BY <1>0, <1>2
<1> QED BY <1>0, <1>1, <1>3, <1>4 DEF Addresses

\* An address is a sector number and an offset into the sector.
LEMMA AddressSplit ==
  ASSUME NEW a \in Addresses
  PROVE  /\ a \in Nat /\ a \div SECTOR_SIZE \in Nat /\ Offset(a) \in 0 .. SECTOR_SIZE - 1
         /\ a = (a \div SECTOR_SIZE) * SECTOR_SIZE + Offset(a)
<1>1. a \in Nat /\ SECTOR_SIZE \in Nat \ {0}
  BY DiskAssumption DEF Addresses
<1> QED BY <1>1, DivMod DEF Offset

-------------------------------------------------------------------------------
(* The invariant holds at first, and every step keeps it. *)

\* Before the first request nothing is under way.
LEMMA DiskInvInit == Init => DiskInv
<1> SUFFICES ASSUME Init PROVE DiskInv
  OBVIOUS
<1>1. TypeOK
  <2>1. Blank \in Bytes
    BY DEF Bytes
  <2>2. temp \in Sector
    BY <2>1 DEF Init, Sector
  <2>3. drive \in [st : {"idle", "busy", "drq", "err"}, cmd : Commands, lba : Nat, buf : Sector]
    BY <2>2 DEF Init, Commands
  <2>4. req \in [op : {"read", "write"}, pos : Nat, size : Nat, ok : BOOLEAN] /\ req.size = 0
    BY DEF Init
  <2>5. buffer \in Seq(Bytes) /\ Len(buffer) <= req.size
    BY <2>4 DEF Init
  <2> QED BY <2>1, <2>2, <2>3, <2>4, <2>5 DEF Init, TypeOK
<1>2. Durable /\ ReadOK /\ ControlInv /\ ReadInv /\ StoreInv /\ WriteInv
  BY DEF Init, Durable, ReadOK, ControlInv, ReadInv, StoreInv, WriteInv, Storing
<1> QED BY <1>1, <1>2 DEF DiskInv

\* A request of a caller.
LEMMA SubmitStep ==
  ASSUME DiskInv, NEW op \in {"read", "write"}, NEW range \in Ranges, Submit(op, range)
  PROVE  DiskInv'
<1> DEFINE r == [op |-> op, pos |-> range[1], size |-> range[2], ok |-> FALSE]
<1>0. TypeOK /\ Durable /\ ReadInv /\ StoreInv
  BY DEF DiskInv
<1>1. /\ pc' = "select" /\ req' = r /\ piece' = 0 /\ xfer' = FirstTransfer(r, 0) /\ buffer' = <<>>
      /\ allowed' = IF op = "read" THEN allowed
                    ELSE [a \in Addresses |-> allowed[a] \cup IF Covers(r, a) THEN {Written(r, a)} ELSE {}]
      /\ disk' = disk /\ drive' = drive /\ temp' = temp
  BY DEF Submit
<1>2. /\ r \in Request /\ r.op = op /\ r.size \in Nat /\ r.size >= 1 /\ r.size <= Len(Payload)
      /\ r.ok = FALSE
  BY DiskAssumption DEF Request
<1> HIDE DEF r
<1>3. Before(r, 0) = 0 /\ Before(r, 0) < r.size
  BY <1>2 DEF Before
<1>4. \A a \in Addresses : a \in Nat /\ (Covers(r, a) => Written(r, a) \in Bytes)
  BY <1>2, AddressSplit, WrittenType
<1>5. /\ allowed' \in [Addresses -> SUBSET Bytes]
      /\ \A a \in Addresses : allowed[a] \subseteq allowed'[a]
      /\ op = "write" => \A a \in Addresses : Covers(r, a) => Written(r, a) \in allowed'[a]
  <2>1. CASE op = "read"
    BY <1>0, <1>1, <2>1 DEF TypeOK
  <2>2. CASE op = "write"
    BY <1>0, <1>1, <1>4, <2>2 DEF TypeOK
  <2> QED BY <2>1, <2>2
<1>6. /\ xfer' \in {"read", "write"} /\ (op = "read" => xfer' = "read")
      /\ (xfer' = "write" => ~Partial(r, 0))
  BY <1>1, <1>2 DEF FirstTransfer
<1>7. TypeOK'
  <2>1. buffer' \in Seq(Bytes) /\ Len(buffer') = 0
    BY <1>1
  <2> QED BY <1>0, <1>1, <1>2, <1>5, <1>6, <2>1 DEF TypeOK, Request
<1>8. Durable' /\ StoreInv'
  BY ONLY <1>0, <1>1, <1>5 DEF Durable, StoreInv, Storing
<1>9. ReadOK'
  BY <1>1 DEF ReadOK
<1>10. ControlInv'
  BY <1>1, <1>2, <1>3, <1>6 DEF ControlInv
<1>11. ReadInv'
  <2>1. Len(buffer') = 0
    BY <1>1
  <2> QED BY ONLY <1>0, <1>1, <1>3, <2>1 DEF ReadInv
<1>12. WriteInv'
  <2>1. \A a \in Addresses : Covers(r, a) => ~(a \div SECTOR_SIZE < Lba(r, 0))
    <3> SUFFICES ASSUME NEW a \in Addresses, Covers(r, a), a \div SECTOR_SIZE < Lba(r, 0)
                 PROVE  FALSE
      OBVIOUS
    <3>1. a \div SECTOR_SIZE \in Nat /\ a \div SECTOR_SIZE >= Lba(r, 0) /\ Lba(r, 0) \in Nat
      BY <1>2, <1>3, <1>4, CoversBetween, CutBounds
    <3> QED BY <3>1
  <2> QED BY ONLY <1>1, <1>2, <1>5, <1>6, <2>1 DEF WriteInv
<1> QED BY <1>7, <1>8, <1>9, <1>10, <1>11, <1>12 DEF DiskInv

\* Wherever the request is given up, the drive may go on with what it was told.
LEMMA FailStep ==
  ASSUME DiskInv, pc # "idle", Fail
  PROVE  DiskInv'
<1>0. TypeOK /\ Durable /\ ControlInv /\ ReadInv /\ StoreInv /\ ~req.ok
  BY DEF DiskInv, ControlInv
<1>1. /\ pc' = "idle" /\ disk' = disk /\ drive' = drive /\ req' = req /\ piece' = piece
      /\ xfer' = xfer /\ temp' = temp /\ buffer' = buffer /\ allowed' = allowed
  BY DEF Fail
<1>2. TypeOK' /\ Durable'
  BY <1>0, <1>1 DEF TypeOK, Durable
<1>3. ReadOK' /\ ControlInv' /\ WriteInv'
  BY <1>0, <1>1 DEF ReadOK, ControlInv, WriteInv
<1>4. ReadInv' /\ StoreInv'
  BY <1>0, <1>1 DEF ReadInv, StoreInv, Storing
<1> QED BY <1>2, <1>3, <1>4 DEF DiskInv

\* The numbers of the sector that the request has come to.
LEMMA RequestCut ==
  ASSUME DiskInv, pc # "idle"
  PROVE  /\ req \in Request /\ piece \in Nat /\ Before(req, piece) < req.size
         /\ req.size <= Len(Payload)
         /\ Lba(req, piece) \in Nat /\ Before(req, piece) \in Nat /\ req.pos \in Nat /\ req.size \in Nat
<1>1. req \in Request /\ piece \in Nat /\ Before(req, piece) < req.size /\ req.size <= Len(Payload)
  BY DEF DiskInv, TypeOK, Request, ControlInv
<1> QED BY <1>1, CutBounds DEF Request

\* The driver programs the registers for one sector.
LEMMA IssueStep ==
  ASSUME DiskInv, Issue
  PROVE  DiskInv'
<1>0. /\ TypeOK /\ Durable /\ ControlInv /\ ReadInv /\ WriteInv /\ pc = "select"
      /\ Lba(req, piece) \in Nat
  BY RequestCut DEF DiskInv, Issue
<1>1. /\ pc' = "data" /\ disk' = disk /\ req' = req /\ piece' = piece
      /\ xfer' = xfer /\ temp' = temp /\ buffer' = buffer /\ allowed' = allowed
      /\ drive' = [drive EXCEPT !.st = "busy", !.cmd = xfer, !.lba = Lba(req, piece)]
  BY DEF Issue, Command
<1>2. xfer \in {"read", "write"}
  BY <1>0 DEF TypeOK
<1>3. drive'.st = "busy" /\ drive'.cmd = xfer /\ drive'.lba = Lba(req, piece)
  BY <1>0, <1>1 DEF TypeOK
<1>4. TypeOK' /\ Durable'
  BY <1>0, <1>1 DEF TypeOK, Durable, Commands
<1>5. ReadOK' /\ StoreInv'
  BY <1>1, <1>2, <1>3 DEF ReadOK, StoreInv, Storing
<1>6. ControlInv'
  BY ONLY <1>0, <1>1, <1>3 DEF ControlInv, Storing
<1>7. ReadInv'
  BY ONLY <1>0, <1>1, <1>3 DEF ReadInv
<1>8. WriteInv'
  BY ONLY <1>0, <1>1, <1>3 DEF WriteInv
<1> QED BY <1>4, <1>5, <1>6, <1>7, <1>8 DEF DiskInv

\* The bytes that a sector adds to what a read delivers.
LEMMA ReadChunk ==
  ASSUME DiskInv, pc = "data", xfer = "read", drive.st = "drq", req.op = "read",
         buffer' = buffer \o [i \in 1 .. Chunk(req, piece) |-> drive.buf[From(req, piece) + i - 1]]
  PROVE  /\ buffer' \in Seq(Bytes) /\ Len(buffer') = Before(req, piece) + Chunk(req, piece)
         /\ \A i \in 1 .. Len(buffer') : buffer'[i] = disk[req.pos + i - 1]
<1> DEFINE l == Lba(req, piece)
           f == From(req, piece)
           n == Chunk(req, piece)
           s == [i \in 1 .. n |-> drive.buf[f + i - 1]]
<1>0. TypeOK /\ ControlInv /\ ReadInv
  BY DEF DiskInv
<1>1. /\ req \in Request /\ piece \in Nat /\ Before(req, piece) < req.size
      /\ l \in Nat /\ req.pos \in Nat /\ req.size \in Nat /\ SECTOR_SIZE \in Nat \ {0}
  BY RequestCut, DiskAssumption
<1>2. /\ f \in 0 .. SECTOR_SIZE - 1 /\ Before(req, piece) \in Nat /\ n \in 1 .. SECTOR_SIZE - f
      /\ l * SECTOR_SIZE + f = req.pos + Before(req, piece)
  BY <1>1, CutBounds
<1>3. /\ drive.lba = l /\ l < Sectors
      /\ \A a \in Addresses : InSector(a, l) => drive.buf[Offset(a)] = disk[a]
  BY <1>0 DEF ControlInv, ReadInv
<1>4. /\ Len(buffer) = Before(req, piece)
      /\ \A i \in 1 .. Len(buffer) : buffer[i] = disk[req.pos + i - 1]
  BY <1>0 DEF ReadInv
<1>5. drive.buf \in Sector /\ buffer \in Seq(Bytes)
  BY <1>0 DEF TypeOK
<1> HIDE DEF l, f, n
<1>6. \A i \in 1 .. n : f + i - 1 \in 0 .. SECTOR_SIZE - 1
  BY <1>1, <1>2
<1>7. s \in Seq(Bytes) /\ Len(s) = n /\ \A i \in 1 .. n : s[i] = drive.buf[f + i - 1]
  <2>1. s \in [1 .. n -> Bytes] /\ n \in Nat
    <3>1. n \in Nat
      BY <1>1, <1>2
    <3>2. \A i \in 1 .. n : drive.buf[f + i - 1] \in Bytes
      BY <1>5, <1>6 DEF Sector
    <3> QED BY <3>1, <3>2
  <2>2. \A i \in 1 .. n : s[i] = drive.buf[f + i - 1]
    OBVIOUS
  <2> HIDE DEF s
  <2> QED BY <2>1, <2>2
<1>8. buffer' = buffer \o s
  BY DEF f, n
<1> HIDE DEF s
<1>9. /\ buffer' \in Seq(Bytes) /\ Len(buffer') = Len(buffer) + n
      /\ \A i \in 1 .. Len(buffer) : buffer'[i] = buffer[i]
      /\ \A i \in 1 .. n : buffer'[Len(buffer) + i] = s[i]
  <2>1. /\ buffer \o s \in Seq(Bytes) /\ Len(buffer \o s) = Len(buffer) + Len(s)
        /\ \A i \in 1 .. Len(buffer) : (buffer \o s)[i] = buffer[i]
        /\ \A i \in 1 .. Len(s) : (buffer \o s)[Len(buffer) + i] = s[i]
    <3>1. buffer \in Seq(Bytes) /\ s \in Seq(Bytes)
      BY <1>5, <1>7
    <3> QED BY ONLY <3>1, Joined
  <2> QED BY <1>7, <1>8, <2>1
<1>10. ASSUME NEW i \in 1 .. n
       PROVE  s[i] = disk[req.pos + Before(req, piece) + i - 1]
  <2> DEFINE a == l * SECTOR_SIZE + (f + i - 1)
  <2>1. a \in Addresses /\ InSector(a, l) /\ Offset(a) = f + i - 1
    BY <1>1, <1>3, <1>6, SectorAddresses
  <2>2. drive.buf[f + i - 1] = disk[a]
    BY <1>3, <2>1
  <2>3. l * SECTOR_SIZE \in Nat
    BY <1>1
  <2>4. a = req.pos + Before(req, piece) + i - 1
    BY <1>1, <1>2, <2>3
  <2> QED BY <1>7, <2>2, <2>4
<1>11. ASSUME NEW j \in 1 .. Len(buffer')
       PROVE  buffer'[j] = disk[req.pos + j - 1]
  <2>0. Len(buffer') = Before(req, piece) + n /\ n \in Nat
    BY ONLY <1>1, <1>2, <1>4, <1>9
  <2>1. CASE j <= Len(buffer)
    <3>1. j \in 1 .. Len(buffer)
      BY ONLY <1>2, <1>4, <2>0, <2>1, j \in 1 .. Len(buffer')
    <3> QED BY ONLY <1>4, <1>9, <3>1
  <2>2. CASE ~(j <= Len(buffer))
    <3>1. j - Len(buffer) \in 1 .. n /\ j = Len(buffer) + (j - Len(buffer))
      BY ONLY <1>2, <1>4, <2>0, <2>2, j \in 1 .. Len(buffer')
    <3>2. buffer'[j] = s[j - Len(buffer)]
      BY ONLY <1>9, <3>1
    <3>3. req.pos + Before(req, piece) + (j - Len(buffer)) - 1 = req.pos + j - 1
      BY ONLY <1>1, <1>2, <1>4, <2>0, j \in 1 .. Len(buffer')
    <3> QED BY <1>10, <3>1, <3>2, <3>3
  <2> QED BY <2>1, <2>2
<1> QED BY <1>4, <1>9, <1>11 DEF n

\* The first sector of a request is followed by its next, unless it is the last.
LEMMA NextCut ==
  ASSUME DiskInv, pc # "idle", ~IsLast(req, piece)
  PROVE  /\ Before(req, piece + 1) = Before(req, piece) + Chunk(req, piece)
         /\ Before(req, piece + 1) < req.size
         /\ Lba(req, piece + 1) = Lba(req, piece) + 1
<1>1. /\ req \in Request /\ piece \in Nat /\ Before(req, piece) < req.size /\ req.size \in Nat
      /\ SECTOR_SIZE \in Nat
  BY RequestCut, DiskAssumption
<1>2. /\ From(req, piece) \in 0 .. SECTOR_SIZE - 1 /\ Before(req, piece) \in Nat
      /\ Chunk(req, piece) \in 1 .. SECTOR_SIZE - From(req, piece)
      /\ Before(req, piece) + Chunk(req, piece) <= req.size
      /\ Chunk(req, piece) = SECTOR_SIZE - From(req, piece)
      /\ Before(req, piece + 1) = Before(req, piece) + SECTOR_SIZE - From(req, piece)
      /\ Lba(req, piece + 1) = Lba(req, piece) + 1
  BY <1>1, CutBounds
<1>3. Before(req, piece) + Chunk(req, piece) # req.size
  BY DEF IsLast
<1> QED BY <1>1, <1>2, <1>3

\* A sector arrives in the buffer of the driver and goes to the caller.
LEMMA ReadSectorStep ==
  ASSUME DiskInv, ReadSector
  PROVE  DiskInv'
<1>0. TypeOK /\ Durable /\ ControlInv /\ ReadInv /\ StoreInv /\ WriteInv
  BY DEF DiskInv
<1>1. /\ pc = "data" /\ xfer = "read" /\ drive.st = "drq" /\ disk' = disk
      /\ drive' = [drive EXCEPT !.st = "idle"]
  BY DEF ReadSector, Advance
<1>2. /\ drive'.st = "idle" /\ drive.cmd = "read" /\ drive.lba = Lba(req, piece)
      /\ drive' \in [st : {"idle", "busy", "drq", "err"}, cmd : Commands, lba : Nat, buf : Sector]
  BY <1>0, <1>1 DEF ControlInv, TypeOK
<1>3. CASE req.op = "read"
  <2>1. /\ buffer' = buffer \o [i \in 1 .. Chunk(req, piece) |-> drive.buf[From(req, piece) + i - 1]]
        /\ Advance /\ temp' = temp
    BY <1>3 DEF ReadSector
  <2>2. /\ buffer' \in Seq(Bytes) /\ Len(buffer') = Before(req, piece) + Chunk(req, piece)
        /\ \A i \in 1 .. Len(buffer') : buffer'[i] = disk[req.pos + i - 1]
    BY <1>1, <1>3, <2>1, ReadChunk
  <2>3. req \in Request /\ piece \in Nat /\ req.size \in Nat
    BY <1>1, RequestCut
  <2>4. CASE IsLast(req, piece)
    <3>1. /\ pc' = "idle" /\ req' = [req EXCEPT !.ok = TRUE] /\ allowed' = allowed
          /\ piece' = piece /\ xfer' = xfer
      BY <1>3, <2>1, <2>4 DEF Advance
    <3>2. /\ req' \in Request /\ req'.op = "read" /\ req'.pos = req.pos /\ req'.size = req.size
      BY <1>3, <2>3, <3>1 DEF Request
    <3>3. Len(buffer') = req.size
      BY <2>2, <2>4 DEF IsLast
    <3>4. TypeOK'
      <4>1. Len(buffer') <= req'.size
        BY ONLY <2>3, <3>2, <3>3
      <4>2. disk' = disk /\ temp' = temp
        BY <1>1, <2>1
      <4> QED BY ONLY <1>0, <1>2, <2>2, <3>1, <3>2, <4>1, <4>2 DEF TypeOK, Request
    <3>5. ReadOK'
      <4> SUFFICES buffer' = [i \in 1 .. req.size |-> disk[req.pos + i - 1]]
        BY <1>1, <3>2 DEF ReadOK
      <4>1. DOMAIN buffer' = 1 .. req.size
        BY ONLY <2>2, <3>3
      <4>2. buffer' = [i \in DOMAIN buffer' |-> buffer'[i]]
        BY ONLY <2>2
      <4> QED BY ONLY <2>2, <3>3, <4>1, <4>2
    <3>6. Durable' /\ ControlInv' /\ ReadInv' /\ StoreInv' /\ WriteInv'
      BY ONLY <1>0, <1>1, <1>2, <3>1
      DEF Durable, ControlInv, ReadInv, StoreInv, WriteInv, Storing
    <3> QED BY <3>4, <3>5, <3>6 DEF DiskInv
  <2>5. CASE ~IsLast(req, piece)
    <3>1. /\ pc' = "select" /\ req' = req /\ allowed' = allowed
          /\ piece' = piece + 1 /\ xfer' = FirstTransfer(req, piece + 1)
      BY <1>3, <2>1, <2>5 DEF Advance
    <3>2. /\ Before(req, piece + 1) = Before(req, piece) + Chunk(req, piece)
          /\ Before(req, piece + 1) < req.size
      BY <1>1, <2>5, NextCut
    <3>3. xfer' = "read"
      BY <1>3, <3>1 DEF FirstTransfer
    <3>4. TypeOK'
      <4>1. Len(buffer') <= req.size
        BY ONLY <2>2, <2>3, <3>2
      <4>2. disk' = disk /\ temp' = temp /\ piece' \in Nat
        BY <1>1, <2>1, <2>3, <3>1
      <4>3. pc' = "select" /\ req' = req /\ allowed' = allowed
        BY ONLY <3>1
      <4> QED BY ONLY <1>0, <1>2, <2>2, <3>3, <4>1, <4>2, <4>3 DEF TypeOK
    <3>5. Durable' /\ ReadOK'
      BY ONLY <1>0, <1>1, <3>1 DEF Durable, ReadOK
    <3>6. ControlInv' /\ StoreInv'
      BY ONLY <1>0, <1>1, <1>2, <3>1, <3>2, <3>3 DEF ControlInv, StoreInv, Storing
    <3>7. ReadInv'
      BY ONLY <1>1, <1>2, <2>2, <3>1, <3>2 DEF ReadInv
    <3>8. WriteInv'
      BY <1>3, <3>1 DEF WriteInv
    <3> QED BY <3>4, <3>5, <3>6, <3>7, <3>8 DEF DiskInv
  <2> QED BY <2>4, <2>5
<1>4. CASE req.op = "write"
  <2>1. /\ temp' = drive.buf /\ xfer' = "write" /\ pc' = "select"
        /\ req' = req /\ piece' = piece /\ buffer' = buffer /\ allowed' = allowed
    BY <1>4 DEF ReadSector
  <2>2. TypeOK'
    BY ONLY <1>0, <1>1, <1>2, <2>1 DEF TypeOK
  <2>3. Durable' /\ ReadOK'
    BY ONLY <1>0, <1>1, <2>1 DEF Durable, ReadOK
  <2>4. ControlInv' /\ StoreInv' /\ ReadInv'
    BY ONLY <1>0, <1>1, <1>2, <1>4, <2>1 DEF ControlInv, StoreInv, ReadInv, Storing
  <2>5. WriteInv'
    <3>1. \A a \in Addresses : InSector(a, Lba(req, piece)) => drive.buf[Offset(a)] = disk[a]
      BY <1>0, <1>1, <1>2 DEF ReadInv
    <3> QED BY ONLY <1>0, <1>1, <1>2, <2>1, <3>1 DEF WriteInv
  <2> QED BY <2>2, <2>3, <2>4, <2>5 DEF DiskInv
<1> QED BY <1>0, <1>3, <1>4 DEF TypeOK

\* A sector goes to the drive, whole or merged with what was read before.
LEMMA WriteSectorStep ==
  ASSUME DiskInv, WriteSector
  PROVE  DiskInv'
<1> DEFINE new == Spliced(temp, req, piece)
           l == Lba(req, piece)
<1>0. TypeOK /\ Durable /\ ControlInv /\ WriteInv
  BY DEF DiskInv
<1>1. /\ pc = "data" /\ xfer = "write" /\ drive.st = "drq" /\ pc' = "finish"
      /\ drive' = [drive EXCEPT !.st = "busy", !.cmd = "store", !.buf = new]
      /\ disk' = disk /\ req' = req /\ piece' = piece /\ xfer' = xfer /\ temp' = temp
      /\ buffer' = buffer /\ allowed' = allowed
  BY DEF WriteSector
<1>2. req.op = "write"
  BY <1>0, <1>1 DEF ControlInv, TypeOK
<1>3. req \in Request /\ piece \in Nat /\ Before(req, piece) < req.size /\ req.size <= Len(Payload)
  BY <1>1, RequestCut
<1>4. new \in Sector
  BY <1>0, <1>3, SplicedType DEF TypeOK
<1>5. \A a \in Addresses : InSector(a, l) =>
        /\ Covers(req, a) => new[Offset(a)] = Written(req, a)
        /\ ~Covers(req, a) => new[Offset(a)] = temp[Offset(a)]
  BY <1>0, <1>3, SplicedAt, AddressSplit DEF TypeOK
<1> HIDE DEF new
<1>6. /\ drive'.st = "busy" /\ drive'.cmd = "store" /\ drive'.lba = l /\ drive'.buf = new
      /\ drive' \in [st : {"idle", "busy", "drq", "err"}, cmd : Commands, lba : Nat, buf : Sector]
  BY <1>0, <1>1, <1>4 DEF TypeOK, ControlInv, Commands
<1>7. TypeOK'
  BY ONLY <1>0, <1>1, <1>6 DEF TypeOK
<1>8. Durable' /\ ReadOK' /\ ReadInv'
  BY ONLY <1>0, <1>1, <1>2, <1>6 DEF Durable, ReadOK, ReadInv
<1>9. ControlInv'
  BY ONLY <1>0, <1>1, <1>2, <1>6 DEF ControlInv
<1>10. StoreInv'
  <2>1. ASSUME NEW a \in Addresses, InSector(a, l)
        PROVE  new[Offset(a)] \in allowed[a]
    <3>1. CASE Covers(req, a)
      BY <1>0, <1>1, <1>2, <1>5, <2>1, <3>1 DEF WriteInv
    <3>2. CASE ~Covers(req, a)
      <4>1. Partial(req, piece)
        BY <1>3, <2>1, <3>2, WholeSector, AddressSplit
      <4>2. temp[Offset(a)] = disk[a]
        BY <1>0, <1>1, <1>2, <2>1, <3>2, <4>1 DEF WriteInv
      <4> QED BY <1>0, <1>5, <2>1, <3>2, <4>2 DEF Durable
    <3> QED BY <3>1, <3>2
  <2>2. allowed' = allowed
    BY <1>1
  <2> HIDE DEF l
  <2> QED BY ONLY <1>6, <2>1, <2>2 DEF StoreInv
<1>11. WriteInv'
  BY ONLY <1>0, <1>1, <1>2, <1>5, <1>6 DEF WriteInv
<1> QED BY <1>7, <1>8, <1>9, <1>10, <1>11 DEF DiskInv

\* A sector is stored: the request ends, or goes on to its next sector.
LEMMA StoredStep ==
  ASSUME DiskInv, Stored
  PROVE  DiskInv'
<1>0. TypeOK /\ Durable /\ ControlInv /\ WriteInv
  BY DEF DiskInv
<1>1. /\ pc = "finish" /\ drive.st = "idle" /\ req.op = "write" /\ Advance
      /\ drive' = [drive EXCEPT !.st = "busy", !.cmd = "flush", !.lba = drive.lba]
      /\ disk' = disk /\ temp' = temp /\ buffer' = buffer
  BY <1>0 DEF Stored, Command, ControlInv, TypeOK
<1>2. /\ drive'.st = "busy" /\ drive'.cmd = "flush"
      /\ drive' \in [st : {"idle", "busy", "drq", "err"}, cmd : Commands, lba : Nat, buf : Sector]
  BY <1>0, <1>1 DEF TypeOK, Commands
<1>3. /\ req \in Request /\ piece \in Nat /\ Before(req, piece) < req.size
      /\ req.size <= Len(Payload) /\ Lba(req, piece) \in Nat
  BY <1>1, RequestCut
<1>4. ASSUME NEW a \in Addresses, Covers(req, a), a \div SECTOR_SIZE <= Lba(req, piece)
      PROVE  disk[a] = Written(req, a)
  <2>1. a \div SECTOR_SIZE \in Nat
    BY AddressSplit
  <2>2. CASE a \div SECTOR_SIZE < Lba(req, piece)
    BY <1>0, <1>1, <1>4, <2>2 DEF WriteInv
  <2>3. CASE InSector(a, Lba(req, piece))
    BY <1>0, <1>1, <1>4, <2>3 DEF WriteInv
  <2> QED BY <1>3, <1>4, <2>1, <2>2, <2>3 DEF InSector
<1>5. CASE IsLast(req, piece)
  <2>1. /\ pc' = "idle" /\ req' = [req EXCEPT !.ok = TRUE] /\ piece' = piece /\ xfer' = xfer
        /\ allowed' = [a \in Addresses |-> IF Covers(req, a) THEN {Written(req, a)} ELSE allowed[a]]
    BY <1>1, <1>5 DEF Advance
  <2>2. req' \in Request /\ req'.op = "write" /\ req'.size = req.size
    BY <1>1, <1>3, <2>1 DEF Request
  <2>3. \A a \in Addresses : Covers(req, a) => Written(req, a) \in Bytes /\ disk[a] = Written(req, a)
    <3> SUFFICES ASSUME NEW a \in Addresses, Covers(req, a)
                 PROVE  Written(req, a) \in Bytes /\ disk[a] = Written(req, a)
      OBVIOUS
    <3>1. a \in Nat
      BY AddressSplit
    <3>2. a \div SECTOR_SIZE <= Lba(req, piece)
      BY <1>3, <1>5, <3>1, CoversBetween
    <3> QED BY <1>3, <1>4, <3>1, <3>2, WrittenType
  <2>4. allowed' \in [Addresses -> SUBSET Bytes]
    BY <1>0, <2>1, <2>3 DEF TypeOK
  <2>5. TypeOK'
    <3>1. Len(buffer') <= req'.size
      BY <1>0, <1>1, <2>2 DEF TypeOK
    <3> QED BY ONLY <1>0, <1>1, <1>2, <2>1, <2>2, <2>4, <3>1 DEF TypeOK, Request
  <2>6. Durable'
    BY <1>0, <1>1, <2>1, <2>3 DEF Durable
  <2>7. ReadOK' /\ ControlInv' /\ ReadInv' /\ StoreInv' /\ WriteInv'
    <3>1. pc' = "idle"
      BY <2>1
    <3> QED BY ONLY <1>2, <2>2, <3>1
          DEF ReadOK, ControlInv, ReadInv, StoreInv, WriteInv, Storing
  <2> QED BY <2>5, <2>6, <2>7 DEF DiskInv
<1>6. CASE ~IsLast(req, piece)
  <2>1. /\ pc' = "select" /\ req' = req /\ allowed' = allowed
        /\ piece' = piece + 1 /\ xfer' = FirstTransfer(req, piece + 1)
    BY <1>1, <1>6 DEF Advance
  <2>2. Before(req, piece + 1) < req.size /\ Lba(req, piece + 1) = Lba(req, piece) + 1
    BY <1>1, <1>6, NextCut
  <2>3. xfer' \in {"read", "write"} /\ (xfer' = "write" => ~Partial(req, piece + 1))
    BY <2>1 DEF FirstTransfer
  <2>4. piece + 1 \in Nat
    BY <1>3
  <2>5. TypeOK' /\ Durable'
    BY ONLY <1>0, <1>1, <1>2, <2>1, <2>3, <2>4 DEF TypeOK, Durable
  <2>6. ReadOK' /\ ControlInv' /\ ReadInv' /\ StoreInv'
    BY ONLY <1>0, <1>1, <1>2, <2>1, <2>2
       DEF ReadOK, ControlInv, ReadInv, StoreInv, Storing
  <2>7. \A a \in Addresses : Covers(req, a) /\ a \div SECTOR_SIZE < Lba(req, piece + 1) =>
          disk[a] = Written(req, a)
    <3> SUFFICES ASSUME NEW a \in Addresses, Covers(req, a), a \div SECTOR_SIZE < Lba(req, piece + 1)
                 PROVE  disk[a] = Written(req, a)
      OBVIOUS
    <3>1. a \div SECTOR_SIZE \in Nat
      BY AddressSplit
    <3>2. a \div SECTOR_SIZE <= Lba(req, piece)
      BY <1>3, <2>2, <3>1
    <3> QED BY <1>4, <3>2
  <2>8. WriteInv'
    <3>1. \A a \in Addresses : Covers(req, a) => Written(req, a) \in allowed[a]
      BY <1>0, <1>1 DEF WriteInv
    <3> QED BY ONLY <1>1, <2>1, <2>3, <2>7, <3>1 DEF WriteInv
  <2> QED BY <2>5, <2>6, <2>7, <2>8 DEF DiskInv
<1> QED BY <1>5, <1>6

\* The drive is ready for data, of the request that waits or of one that was given up.
LEMMA DriveReadyStep ==
  ASSUME DiskInv, DriveReady
  PROVE  DiskInv'
<1> DEFINE new == IF drive.cmd = "read" THEN [b \in DOMAIN drive.buf |-> disk[(drive.lba * SECTOR_SIZE) + b]]
                                        ELSE drive.buf
<1>0. TypeOK /\ Durable /\ ReadOK /\ ControlInv /\ ReadInv /\ WriteInv
  BY DEF DiskInv
<1>1. /\ drive.st = "busy" /\ drive.cmd \in {"read", "write"} /\ drive.lba < Sectors
      /\ drive' = [drive EXCEPT !.st = "drq", !.buf = new]
      /\ pc' = pc /\ disk' = disk /\ req' = req /\ piece' = piece /\ xfer' = xfer
      /\ temp' = temp /\ buffer' = buffer /\ allowed' = allowed
  BY DEF DriveReady
<1>2. drive.lba \in Nat /\ DOMAIN drive.buf = 0 .. SECTOR_SIZE - 1 /\ drive.buf \in Sector
  BY <1>0 DEF TypeOK, Sector
<1>3. \A b \in 0 .. SECTOR_SIZE - 1 : disk[drive.lba * SECTOR_SIZE + b] \in Bytes
  BY <1>0, <1>1, <1>2, SectorAddresses DEF TypeOK
<1>4. new \in Sector
  BY <1>2, <1>3 DEF Sector
<1>5. drive.cmd = "read" =>
        \A a \in Addresses : InSector(a, drive.lba) => new[Offset(a)] = disk[a]
  BY <1>2, AddressSplit DEF InSector
<1> HIDE DEF new
<1>6. /\ drive'.st = "drq" /\ drive'.cmd = drive.cmd /\ drive'.lba = drive.lba /\ drive'.buf = new
      /\ drive' \in [st : {"idle", "busy", "drq", "err"}, cmd : Commands, lba : Nat, buf : Sector]
  BY <1>0, <1>1, <1>4 DEF TypeOK
<1>7. TypeOK' /\ Durable' /\ ReadOK'
  BY ONLY <1>0, <1>1, <1>6 DEF TypeOK, Durable, ReadOK
<1>8. ControlInv'
  BY ONLY <1>0, <1>1, <1>6 DEF ControlInv, Storing
<1>9. ReadInv'
  BY ONLY <1>0, <1>1, <1>5, <1>6 DEF ReadInv
<1>10. StoreInv'
  BY ONLY <1>6 DEF StoreInv, Storing
<1>11. WriteInv'
  <2>1. pc # "finish"
    BY <1>0, <1>1 DEF ControlInv
  <2> QED BY ONLY <1>0, <1>1, <1>6, <2>1 DEF WriteInv
<1> QED BY <1>7, <1>8, <1>9, <1>10, <1>11 DEF DiskInv

\* The drive stores a sector, perhaps one of a request that was given up: then the
\* request that waits has not got beyond its first sector.
LEMMA DriveStoresStep ==
  ASSUME DiskInv, DriveStores
  PROVE  DiskInv'
<1>0. TypeOK /\ Durable /\ ReadOK /\ ControlInv /\ ReadInv /\ StoreInv /\ WriteInv
  BY DEF DiskInv
<1>1. /\ drive.st = "busy" /\ drive.cmd \in {"store", "flush"}
      /\ drive' = [drive EXCEPT !.st = "idle"]
      /\ pc' = pc /\ req' = req /\ piece' = piece /\ xfer' = xfer
      /\ temp' = temp /\ buffer' = buffer /\ allowed' = allowed
  BY DEF DriveStores
<1>2. /\ drive'.st = "idle" /\ drive'.cmd = drive.cmd /\ drive'.lba = drive.lba
      /\ drive'.buf = drive.buf
      /\ drive' \in [st : {"idle", "busy", "drq", "err"}, cmd : Commands, lba : Nat, buf : Sector]
  BY <1>0, <1>1 DEF TypeOK
<1>3. pc # "data" /\ ~(pc = "idle" /\ req.op = "read" /\ req.ok)
  BY <1>0, <1>1 DEF ControlInv, TypeOK
<1>4. ControlInv' /\ StoreInv'
  BY ONLY <1>0, <1>1, <1>2, <1>3 DEF ControlInv, StoreInv, Storing
<1>5. ReadOK'
  BY ONLY <1>1, <1>3 DEF ReadOK
<1>6. CASE drive.cmd = "flush"
  <2>1. disk' = disk
    BY <1>6 DEF DriveStores
  <2>2. pc # "finish"
    BY <1>0, <1>6 DEF ControlInv
  <2>3. TypeOK' /\ Durable'
    BY ONLY <1>0, <1>1, <1>2, <2>1 DEF TypeOK, Durable
  <2>4. ReadInv'
    BY ONLY <1>0, <1>1, <1>2, <2>1 DEF ReadInv
  <2>5. WriteInv'
    BY ONLY <1>0, <1>1, <1>2, <2>1, <2>2 DEF WriteInv
  <2> QED BY <1>4, <1>5, <2>3, <2>4, <2>5 DEF DiskInv
<1>7. CASE drive.cmd = "store"
  <2>1. disk' = [a \in Addresses |-> IF a \div SECTOR_SIZE = drive.lba
                                     THEN drive.buf[a % SECTOR_SIZE] ELSE disk[a]]
    BY <1>7 DEF DriveStores
  <2>2. \A a \in Addresses : /\ InSector(a, drive.lba) => disk'[a] = drive.buf[Offset(a)]
                             /\ ~InSector(a, drive.lba) => disk'[a] = disk[a]
    BY <2>1 DEF InSector, Offset
  <2>3. disk' \in [Addresses -> Bytes]
    <3>1. \A a \in Addresses : drive.buf[a % SECTOR_SIZE] \in Bytes /\ disk[a] \in Bytes
      BY <1>0, AddressSplit DEF TypeOK, Sector, Offset
    <3> QED BY <2>1, <3>1
  <2>4. Storing
    BY <1>1, <1>7 DEF Storing
  <2>5. TypeOK'
    BY ONLY <1>0, <1>1, <1>2, <2>3 DEF TypeOK
  <2>6. Durable'
    BY ONLY <1>0, <1>1, <2>2, <2>4 DEF Durable, StoreInv
  <2>7. pc = "select" => piece = 0
    BY <1>0, <2>4 DEF ControlInv
  <2>8. ReadInv'
    <3>1. ASSUME pc # "idle", req.op = "read"
          PROVE  Len(buffer) = Before(req, piece) /\ Len(buffer) = 0
      <4>1. pc = "select"
        BY <1>0, <1>3, <3>1 DEF TypeOK, ControlInv
      <4> QED BY <1>0, <2>7, <3>1, <4>1 DEF ReadInv, Before
    <3>2. drive'.st # "drq" /\ pc' = pc /\ req' = req /\ piece' = piece /\ buffer' = buffer
      BY <1>1, <1>2
    <3> QED BY ONLY <3>1, <3>2 DEF ReadInv
  <2>9. WriteInv'
    <3> SUFFICES ASSUME pc # "idle", req.op = "write"
                 PROVE  WriteInv'
      BY <1>1 DEF WriteInv
    <3>1. req \in Request /\ piece \in Nat /\ Before(req, piece) < req.size /\ Lba(req, piece) \in Nat
      BY RequestCut
    <3>2. pc = "select" \/ pc = "finish"
      BY <1>0, <1>3 DEF TypeOK
    <3>3. \A a \in Addresses : Covers(req, a) => Written(req, a) \in allowed[a]
      BY <1>0 DEF WriteInv
    <3>4. ASSUME NEW a \in Addresses, Covers(req, a), a \div SECTOR_SIZE < Lba(req, piece)
          PROVE  disk'[a] = Written(req, a)
      <4>1. a \in Nat /\ a \div SECTOR_SIZE \in Nat
        BY AddressSplit
      <4>2. a \div SECTOR_SIZE >= Lba(req, 0)
        BY <3>1, <3>4, <4>1, CoversBetween
      <4>3. pc = "finish"
        BY <2>7, <3>1, <3>2, <3>4, <4>1, <4>2
      <4>4. ~InSector(a, drive.lba)
        BY <1>0, <3>1, <3>4, <4>1, <4>3 DEF ControlInv, InSector
      <4>5. disk[a] = Written(req, a)
        BY <1>0, <3>4 DEF WriteInv
      <4> QED BY <2>2, <4>4, <4>5
    <3>5. ~(xfer = "write" /\ pc # "finish" /\ Partial(req, piece))
      BY <1>0, <1>1, <3>2 DEF WriteInv
    <3>6. pc = "finish" =>
            \A a \in Addresses : InSector(a, Lba(req, piece)) /\ Covers(req, a) =>
              drive.buf[Offset(a)] = Written(req, a) /\ disk'[a] = Written(req, a)
      <4>1. pc = "finish" => drive.lba = Lba(req, piece)
        BY <1>0 DEF ControlInv
      <4>2. pc = "finish" =>
              \A a \in Addresses : InSector(a, Lba(req, piece)) /\ Covers(req, a) =>
                drive.buf[Offset(a)] = Written(req, a)
        BY <1>0 DEF WriteInv
      <4> QED BY ONLY <2>2, <4>1, <4>2
    <3> QED BY ONLY <1>1, <1>2, <3>3, <3>4, <3>5, <3>6 DEF WriteInv
  <2> QED BY <1>4, <1>5, <2>5, <2>6, <2>8, <2>9 DEF DiskInv
<1> QED BY <1>1, <1>6, <1>7

\* The drive reports an error.
LEMMA DriveFailsStep ==
  ASSUME DiskInv, DriveFails
  PROVE  DiskInv'
<1>0. TypeOK /\ Durable /\ ReadOK /\ ControlInv /\ ReadInv /\ StoreInv /\ WriteInv
  BY DEF DiskInv
<1>1. /\ drive.st = "busy" /\ drive' = [drive EXCEPT !.st = "err"]
      /\ pc' = pc /\ disk' = disk /\ req' = req /\ piece' = piece /\ xfer' = xfer
      /\ temp' = temp /\ buffer' = buffer /\ allowed' = allowed
  BY DEF DriveFails
<1>2. /\ drive'.st = "err" /\ drive'.cmd = drive.cmd /\ drive'.lba = drive.lba
      /\ drive'.buf = drive.buf
      /\ drive' \in [st : {"idle", "busy", "drq", "err"}, cmd : Commands, lba : Nat, buf : Sector]
  BY <1>0, <1>1 DEF TypeOK
<1>3. TypeOK' /\ Durable' /\ ReadOK'
  BY ONLY <1>0, <1>1, <1>2 DEF TypeOK, Durable, ReadOK
<1>4. ControlInv' /\ StoreInv'
  BY ONLY <1>0, <1>1, <1>2 DEF ControlInv, StoreInv, Storing
<1>5. ReadInv'
  BY ONLY <1>0, <1>1, <1>2 DEF ReadInv
<1>6. WriteInv'
  BY ONLY <1>0, <1>1, <1>2 DEF WriteInv
<1> QED BY <1>3, <1>4, <1>5, <1>6 DEF DiskInv

\* Every step of a request keeps the invariant.
LEMMA DiskInvNext == DiskInv /\ [Next]_vars => DiskInv'
<1> SUFFICES ASSUME DiskInv, [Next]_vars PROVE DiskInv'
  OBVIOUS
<1>1. CASE \E op \in {"read", "write"}, r \in Ranges : Submit(op, r)
  BY <1>1, SubmitStep
<1>2. CASE Issue
  BY <1>2, IssueStep
<1>3. CASE BusyTimeout \/ NoData \/ StoreFailed
  <2>1. pc # "idle" /\ Fail
    BY <1>3 DEF BusyTimeout, NoData, StoreFailed
  <2> QED BY <2>1, FailStep
<1>4. CASE ReadSector
  BY <1>4, ReadSectorStep
<1>5. CASE WriteSector
  BY <1>5, WriteSectorStep
<1>6. CASE Stored
  BY <1>6, StoredStep
<1>7. CASE DriveReady
  BY <1>7, DriveReadyStep
<1>8. CASE DriveStores
  BY <1>8, DriveStoresStep
<1>9. CASE DriveFails
  BY <1>9, DriveFailsStep
<1>10. CASE UNCHANGED vars
  <2>1. /\ disk' = disk /\ drive' = drive /\ req' = req /\ pc' = pc /\ piece' = piece
        /\ xfer' = xfer /\ temp' = temp /\ buffer' = buffer /\ allowed' = allowed
    BY <1>10 DEF vars
  <2>2. TypeOK' /\ Durable' /\ ReadOK' /\ ControlInv'
    BY <2>1 DEF DiskInv, TypeOK, Durable, ReadOK, ControlInv, Storing
  <2>3. ReadInv' /\ StoreInv' /\ WriteInv'
    BY <2>1 DEF DiskInv, ReadInv, StoreInv, WriteInv, Storing
  <2> QED BY <2>2, <2>3 DEF DiskInv
<1> QED
  BY <1>1, <1>2, <1>3, <1>4, <1>5, <1>6, <1>7, <1>8, <1>9, <1>10 DEF Next, Driver, Drive

\* The driver, the drive and what they know of each other stay consistent: DiskInv
\* holds in every state.
THEOREM DiskInvariant == Spec => []DiskInv
<1>1. Init => DiskInv
  BY DiskInvInit
<1>2. DiskInv /\ [Next]_vars => DiskInv'
  BY DiskInvNext
<1> QED BY <1>1, <1>2, PTL DEF Spec

\* Every variable keeps its type; above all, a read never delivers more bytes than
\* the caller asked for.
THEOREM DiskTypeCorrect == Spec => []TypeOK
<1>1. DiskInv => TypeOK
  BY DEF DiskInv
<1> QED BY <1>1, DiskInvariant, PTL

\* BlockDevice::write and ATADevice put on the drive the bytes they were given and
\* disturb no others, whenever the drive stores them and whatever is given up.
THEOREM DiskDurable == Spec => []Durable
<1>1. DiskInv => Durable
  BY DEF DiskInv
<1> QED BY <1>1, DiskInvariant, PTL

\* BlockDevice::read returns the bytes that are on the drive, even after a request
\* that the driver gave up while the drive went on with it.
THEOREM DiskReads == Spec => []ReadOK
<1>1. DiskInv => ReadOK
  BY DEF DiskInv
<1> QED BY <1>1, DiskInvariant, PTL
===============================================================================
