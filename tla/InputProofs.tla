---------------------------- MODULE InputProofs ----------------------------
(* Proofs about the keyboard and the console of Input, for every size of the *)
(* ring, of the line and of the history.                                     *)
EXTENDS Input, StructureProofs

\* Sequences of bounded length.
LEMMA BoundedSequences ==
  ASSUME NEW S, NEW n \in Nat, NEW s
  PROVE  s \in UNION {[1 .. m -> S] : m \in 0 .. n} <=> s \in Seq(S) /\ Len(s) <= n
<1>1. ASSUME s \in UNION {[1 .. m -> S] : m \in 0 .. n}
      PROVE  s \in Seq(S) /\ Len(s) <= n
  <2>1. PICK m \in 0 .. n : s \in [1 .. m -> S]
    BY <1>1
  <2> QED
    BY <2>1, LenProperties
<1>2. ASSUME s \in Seq(S), Len(s) <= n
      PROVE  s \in UNION {[1 .. m -> S] : m \in 0 .. n}
  BY <1>2, LenProperties
<1> QED
  BY <1>1, <1>2

(***************************************************************************)
(* The keyboard.                                                           *)
(***************************************************************************)

RingValues == Keys \cup {NoKey}

\* keyboard_read_key is only inside when there is a key to take.
ReadsWhatIsThere == reading => keyboard_buffer_head # keyboard_buffer_tail

KeyboardInv == KeyboardTypeOK /\ ModifiersAreHeld /\ ReadsWhatIsThere

KeyRing == Contents(keyboard_buffer, keyboard_buffer_head, keyboard_buffer_tail,
                    KEYBOARD_BUFFER_SIZE)

\* The steps of the composition as steps of the keyboard.
LEMMA KeyboardSteps ==
  ASSUME [InputNext]_inputSystem
  PROVE  \/ \E b \in Bytes, up \in BOOLEAN : Scancode(b, up)
         \/ Prefix \/ ReadKey \/ ReadAdvance \/ UNCHANGED keyboardVars
  BY DEF InputNext, inputSystem, Press

\* The array and its two indices are a ring.
LEMMA KeyboardRing ==
  ASSUME KeyboardTypeOK
  PROVE  IsRing(keyboard_buffer, keyboard_buffer_head, keyboard_buffer_tail,
                KEYBOARD_BUFFER_SIZE, RingValues)
  BY KeyboardAssumption DEF KeyboardTypeOK, IsRing, RingValues

\* What is queued is a key.
LEMMA QueuedIsAKey ==
  ASSUME NEW b \in Bytes, NEW up \in BOOLEAN, Queued(b, up) # NoKey
  PROVE  Queued(b, up) \in Keys /\ Room
  BY KeyboardAssumption DEF Queued, KeyOf, NormalKey, ExtendedKey, Keys, Modifiers, ShiftBytes,
     CursorBytes

\* The interrupt and the thread keep the types.
LEMMA KeyboardTypes ==
  ASSUME KeyboardInv, [InputNext]_inputSystem
  PROVE  KeyboardTypeOK'
<1> USE DEF KeyboardInv
<1>1. ASSUME NEW b \in Bytes, NEW up \in BOOLEAN, Scancode(b, up)
      PROVE  KeyboardTypeOK'
  <2>1. /\ pressed' \subseteq Modifiers
    BY <1>1 DEF Scancode, SetModifiers, KeyboardTypeOK
  <2>2. /\ held' \subseteq Bytes \X BOOLEAN
    BY <1>1 DEF Scancode, KeyboardTypeOK
  <2>3. caps_lock' \in BOOLEAN /\ extended' \in BOOLEAN /\ reading' \in BOOLEAN
    BY <1>1 DEF Scancode, KeyboardTypeOK
  <2>4. CASE Queued(b, up) # NoKey
    <3>1. Queued(b, up) \in Keys
      BY <2>4, QueuedIsAKey
    <3>2. /\ keyboard_buffer' \in [0 .. (KEYBOARD_BUFFER_SIZE - 1) -> Keys \cup {NoKey}]
          /\ keyboard_buffer_head' \in 0 .. (KEYBOARD_BUFFER_SIZE - 1)
          /\ keyboard_buffer_tail' \in 0 .. (KEYBOARD_BUFFER_SIZE - 1)
      BY <1>1, <2>4, <3>1, KeyboardAssumption
         DEF Scancode, keyboard_buffer_enqueue, NextSlot, KeyboardTypeOK
    <3> QED
      BY <2>1, <2>2, <2>3, <3>2 DEF KeyboardTypeOK
  <2>5. CASE Queued(b, up) = NoKey
    BY <1>1, <2>1, <2>2, <2>3, <2>5 DEF Scancode, ring, KeyboardTypeOK
  <2> QED
    BY <2>4, <2>5
<1>2. CASE Prefix \/ ReadKey
  BY <1>2 DEF Prefix, ReadKey, ring, keyVars, KeyboardTypeOK
<1>3. CASE ReadAdvance
  <2>1. keyboard_buffer_tail' \in 0 .. (KEYBOARD_BUFFER_SIZE - 1)
    BY <1>3, KeyboardAssumption DEF ReadAdvance, NextSlot, KeyboardTypeOK
  <2> QED
    BY <1>3, <2>1 DEF ReadAdvance, keyVars, KeyboardTypeOK
<1>4. CASE UNCHANGED keyboardVars
  BY <1>4 DEF keyboardVars, keyVars, ring, KeyboardTypeOK
<1> QED
  BY <1>1, <1>2, <1>3, <1>4, KeyboardSteps

\* A key that goes up takes its modifier with it, whichever key had set it.
LEMMA ModifiersKept ==
  ASSUME KeyboardInv, [InputNext]_inputSystem
  PROVE  ModifiersAreHeld'
<1> USE DEF KeyboardInv
<1>1. ASSUME NEW b \in Bytes, NEW up \in BOOLEAN, Scancode(b, up), NEW m \in pressed'
      PROVE  Sources(m) \cap held' # {}
  <2>1. CASE up
    <3>1. m \in pressed /\ m # KeyOf(b) /\ held' = held \ {<<b, extended>>}
      BY <1>1, <2>1 DEF Scancode, SetModifiers
    <3>2. PICK s \in Sources(m) \cap held : TRUE
      BY <3>1 DEF ModifiersAreHeld
    <3>3. <<b, extended>> \in Sources(m) => KeyOf(b) = m
      BY <3>1 DEF Sources, KeyOf, NormalKey, ExtendedKey, ShiftBytes, CursorBytes, KeyboardTypeOK, Modifiers
    <3> QED
      BY <3>1, <3>2, <3>3
  <2>2. CASE ~up
    <3>1. held' = held \cup {<<b, extended>>} /\ (m \in pressed \/ (m = KeyOf(b) /\ m \in Modifiers))
      BY <1>1, <2>2 DEF Scancode, SetModifiers
    <3>2. CASE m \in pressed
      BY <3>1, <3>2 DEF ModifiersAreHeld
    <3>3. CASE m = KeyOf(b) /\ m \in Modifiers
      <4>1. <<b, extended>> \in Sources(m)
        BY <3>3, KeyboardAssumption DEF Sources, KeyOf, NormalKey, ExtendedKey, ShiftBytes, CursorBytes,
           Modifiers, KeyboardTypeOK
      <4> QED
        BY <3>1, <4>1
    <3> QED
      BY <3>1, <3>2, <3>3
  <2> QED
    BY <2>1, <2>2
<1>2. CASE Prefix \/ ReadKey \/ ReadAdvance
  BY <1>2 DEF Prefix, ReadKey, ReadAdvance, keyVars, ModifiersAreHeld
<1>3. CASE UNCHANGED keyboardVars
  BY <1>3 DEF keyboardVars, keyVars, ModifiersAreHeld
<1>4. ASSUME NEW b \in Bytes, NEW up \in BOOLEAN, Scancode(b, up)
      PROVE  ModifiersAreHeld'
  BY <1>1, <1>4 DEF ModifiersAreHeld
<1> QED
  BY <1>2, <1>3, <1>4, KeyboardSteps

\* The interrupt puts at the head, the thread takes at the tail.
LEMMA KeyboardQueues ==
  ASSUME KeyboardInv, [InputNext]_inputSystem
  PROVE  ReadsWhatIsThere' /\ [KeyQueue!Next]_KeyRing
<1> USE DEF KeyboardInv
<1>1. ASSUME NEW b \in Bytes, NEW up \in BOOLEAN, Scancode(b, up), Queued(b, up) # NoKey
      PROVE  ReadsWhatIsThere' /\ KeyQueue!Next
  <2>1. PICK w, g, v : w = keyboard_buffer' /\ g = keyboard_buffer_head' /\ v = Queued(b, up)
    OBVIOUS
  <2>2. v \in Keys /\ Room
    BY <1>1, <2>1, QueuedIsAKey
  <2>3. /\ w = [keyboard_buffer EXCEPT ![keyboard_buffer_head] = v]
        /\ g = (keyboard_buffer_head + 1) % KEYBOARD_BUFFER_SIZE
        /\ g # keyboard_buffer_tail /\ keyboard_buffer_tail' = keyboard_buffer_tail
    BY <1>1, <2>1, <2>2 DEF Scancode, keyboard_buffer_enqueue, NextSlot, Room
  <2>4. Puts(keyboard_buffer, keyboard_buffer_head, keyboard_buffer_tail,
             KEYBOARD_BUFFER_SIZE, RingValues, v, w, g)
    BY <2>2, <2>3, KeyboardRing DEF Puts, RingValues
  <2>5. /\ Contents(w, g, keyboard_buffer_tail, KEYBOARD_BUFFER_SIZE) = Append(KeyRing, v)
        /\ Len(KeyRing) < KEYBOARD_BUFFER_SIZE - 1
    BY <2>4, RingPut DEF KeyRing
  <2>6. KeyRing' = Append(KeyRing, v)
    BY <2>1, <2>3, <2>5 DEF KeyRing
  <2>7. KeyQueue!Put
    BY <2>2, <2>5, <2>6 DEF KeyQueue!Put, KeyRing
  <2>8. ReadsWhatIsThere'
    BY <2>1, <2>3 DEF ReadsWhatIsThere
  <2> QED
    BY <2>7, <2>8 DEF KeyQueue!Next
<1>2. CASE ReadAdvance
  <2>1. PICK u : u = keyboard_buffer_tail'
    OBVIOUS
  <2>2. /\ keyboard_buffer' = keyboard_buffer
        /\ keyboard_buffer_head' = keyboard_buffer_head
        /\ u = (keyboard_buffer_tail + 1) % KEYBOARD_BUFFER_SIZE
        /\ keyboard_buffer_head # keyboard_buffer_tail /\ reading' = FALSE
    BY <1>2, <2>1 DEF ReadAdvance, NextSlot, ReadsWhatIsThere
  <2>3. Gets(keyboard_buffer, keyboard_buffer_head, keyboard_buffer_tail,
             KEYBOARD_BUFFER_SIZE, RingValues, u)
    BY <2>2, KeyboardRing DEF Gets
  <2>4. /\ Contents(keyboard_buffer, keyboard_buffer_head, u, KEYBOARD_BUFFER_SIZE)
              = Tail(KeyRing)
        /\ KeyRing # <<>>
    BY <2>3, RingGet DEF KeyRing
  <2>5. KeyRing' = Tail(KeyRing)
    BY <2>1, <2>2, <2>4 DEF KeyRing
  <2> QED
    BY <2>2, <2>4, <2>5 DEF KeyQueue!Next, KeyQueue!Get, KeyRing, ReadsWhatIsThere
<1>3. ASSUME UNCHANGED ring, reading' => keyboard_buffer_head # keyboard_buffer_tail
      PROVE  ReadsWhatIsThere' /\ KeyRing' = KeyRing
  BY <1>3 DEF ring, KeyRing, ReadsWhatIsThere
<1>4. ASSUME NEW b \in Bytes, NEW up \in BOOLEAN, Scancode(b, up), Queued(b, up) = NoKey
      PROVE  UNCHANGED ring /\ (reading' => keyboard_buffer_head # keyboard_buffer_tail)
  BY <1>4 DEF Scancode, ReadsWhatIsThere
<1>5. CASE Prefix \/ ReadKey \/ UNCHANGED keyboardVars
  BY <1>3, <1>5 DEF Prefix, ReadKey, keyboardVars, ReadsWhatIsThere
<1> QED
  BY <1>1, <1>2, <1>3, <1>4, <1>5, KeyboardSteps

\* The keyboard starts with an empty ring and no key down.
LEMMA KeyboardStarts == InputInit => KeyboardInv /\ KeyQueue!Init
<1> SUFFICES ASSUME InputInit PROVE KeyboardInv /\ KeyQueue!Init
  OBVIOUS
<1>1. KeyboardTypeOK
  <2>1. 0 \in 0 .. (KEYBOARD_BUFFER_SIZE - 1)
    BY KeyboardAssumption
  <2>2. keyboard_buffer \in [0 .. (KEYBOARD_BUFFER_SIZE - 1) -> Keys \cup {NoKey}]
    BY DEF InputInit, KeyboardInit
  <2> QED
    BY <2>1, <2>2 DEF InputInit, KeyboardInit, KeyboardTypeOK
<1>2. KeyRing = <<>>
  BY <1>1, KeyboardRing, ContentsAre DEF KeyRing, InputInit, KeyboardInit
<1> QED
  BY <1>1, <1>2 DEF InputInit, KeyboardInit, KeyboardInv, ModifiersAreHeld,
     ReadsWhatIsThere, KeyQueue!Init, KeyRing

\* The keyboard keeps its invariant.
LEMMA KeyboardAlways == InputSpec => []KeyboardInv
<1>1. KeyboardInv /\ [InputNext]_inputSystem => KeyboardInv'
  BY KeyboardTypes, ModifiersKept, KeyboardQueues DEF KeyboardInv
<1> QED
  BY <1>1, KeyboardStarts, PTL DEF InputSpec

\* A modifier that keyboard_is_key_pressed reports has a key held down, on every
\* keyboard and with every ring.
THEOREM NoModifierSticks == InputSpec => []ModifiersAreHeld
<1>1. KeyboardInv => ModifiersAreHeld
  BY DEF KeyboardInv
<1> QED
  BY <1>1, KeyboardAlways, PTL

\* The keys that are queued come out of keyboard_read_key once and in order, for
\* every size of the ring.
THEOREM KeyRingIsAQueue == InputSpec => KeysComeInOrder
<1>1. KeyboardInv /\ [InputNext]_inputSystem => [KeyQueue!Next]_KeyRing
  BY KeyboardQueues
<1> QED
  BY <1>1, KeyboardStarts, KeyboardAlways, PTL
     DEF InputSpec, KeysComeInOrder, KeyQueue!Spec, KeyRing

(***************************************************************************)
(* The console.                                                            *)
(***************************************************************************)

CharsOrNul == Chars \cup {NUL}
Lines == Strings(LAST)

BufferOK ==
    /\ input_buffer \in [0 .. LAST -> CharsOrNul]
    /\ input_buffer[LAST] = NUL
    /\ input_position \in 0 .. LAST

HistoryOK ==
    /\ history \in Seq(Lines)
    /\ Len(history) <= CONSOLE_MAX_HISTORY
    /\ history_position \in -1 .. (Len(history) - 1)

ThreadOK ==
    /\ place \in {"loop", "copy", "clear", "position", "ready", "execute", "wait"}
    /\ cmd \in Seq(Chars) /\ Len(cmd) <= LAST
    /\ cleared \in 0 .. LAST

LineOK ==
    /\ line \in Seq(CharsOrNul) /\ Len(line) <= LAST
    /\ raced \in BOOLEAN /\ input_ready \in BOOLEAN

ConsoleShape == BufferOK /\ HistoryOK /\ ThreadOK /\ LineOK

\* The last index of the buffer, and what a line is.
LEMMA LineFacts ==
  /\ LAST \in Nat \ {0} /\ NUL \notin Chars
  /\ \A s : s \in Lines <=> s \in Seq(Chars) /\ Len(s) <= LAST
<1>1. LAST \in Nat \ {0} /\ NUL \notin Chars
  BY ConsoleAssumption DEF LAST
<1> QED
  BY <1>1, BoundedSequences DEF Lines, Strings

\* A buffer whose last byte is NUL holds a string that ends inside it.
LEMMA StringInIsALine ==
  ASSUME NEW buffer \in [0 .. LAST -> CharsOrNul], buffer[LAST] = NUL
  PROVE  StringIn(buffer) \in Lines
<1> DEFINE Ends(n) == buffer[n] = NUL /\ \A k \in 0 .. (n - 1) : buffer[k] # NUL
           T == {n \in 0 .. LAST : buffer[n] = NUL}
<1>1. LAST \in Nat \ {0}
  BY LineFacts
<1>2. LAST \in T /\ T \subseteq Nat
  BY <1>1
<1>3. PICK x \in T : \A y \in T : x <= y
  <2> HIDE DEF T
  <2> QED
    BY <1>2, LeastNumber
<1>4. x \in 0 .. LAST /\ Ends(x)
  BY <1>1, <1>3
<1>5. PICK n : n = CHOOSE m \in 0 .. LAST : Ends(m)
  OBVIOUS
<1>6. n \in 0 .. LAST /\ Ends(n)
  <2> HIDE DEF Ends
  <2> QED
    BY <1>4, <1>5
<1>7. StringIn(buffer) = [k \in 1 .. n |-> buffer[k - 1]]
  BY <1>5 DEF StringIn
<1>8. \A k \in 1 .. n : buffer[k - 1] \in Chars
  BY <1>1, <1>6 DEF CharsOrNul
<1>9. StringIn(buffer) \in [1 .. n -> Chars]
  BY <1>7, <1>8
<1> QED
  BY <1>6, <1>9 DEF Lines, Strings

\* KEY_DOWN behind the last line of the history.
Emptied ==
    /\ input_buffer' = [input_buffer EXCEPT ![0] = NUL]
    /\ input_position' = 0
    /\ history_position' = -1
    /\ UNCHANGED <<input_ready, history, line>>

\* What a key does, and to which line of the history.
LEMMA KeyCases ==
  ASSUME HistoryOK, NEW key, Callback(key)
  PROVE  /\ raced' = (raced \/ input_ready) /\ UNCHANGED updateVars
         /\ \/ \E p \in 0 .. (Len(history) - 1) : Recall(p)
            \/ Emptied
            \/ \E home \in BOOLEAN : TypeLeft(home)
            \/ TypeEnter
            \/ TypeBackspace
            \/ \E c \in Chars : TypeChar(c)
<1>0. Len(history) \in Nat /\ (history # <<>> => Len(history) > 0)
  BY LenProperties, EmptySeq DEF HistoryOK
<1>1. CASE TypeUp
  <2>1. (IF history_position = -1 THEN Len(history) - 1
         ELSE IF history_position > 0 THEN history_position - 1
         ELSE history_position) \in 0 .. (Len(history) - 1)
    BY <1>0, <1>1 DEF TypeUp, HistoryOK
  <2> QED
    BY <1>1, <2>1 DEF TypeUp, Callback
<1>2. CASE TypeDown
  <2>1. CASE history_position + 1 < Len(history)
    <3>1. history_position + 1 \in 0 .. (Len(history) - 1)
      BY <1>0, <2>1 DEF HistoryOK
    <3> QED
      BY <1>2, <2>1, <3>1 DEF TypeDown, Callback
  <2>2. CASE ~(history_position + 1 < Len(history))
    BY <1>2, <2>2 DEF TypeDown, Emptied, Callback
  <2> QED
    BY <2>1, <2>2
<1>3. CASE TypeLeft(key = "home")
  BY <1>3 DEF Callback
<1>4. CASE TypeEnter \/ TypeBackspace \/ TypeChar(key)
  BY <1>4 DEF Callback, TypeChar
<1> QED
  BY <1>1, <1>2, <1>3, <1>4 DEF Callback

\* The steps of the composition as steps of the console.
LEMMA ConsoleSteps ==
  ASSUME [InputNext]_inputSystem
  PROVE  \/ \E key : Callback(key)
         \/ Update \/ ReadLineBegins \/ UNCHANGED consoleVars
  BY DEF InputNext, inputSystem, Press, Deliver

\* No key writes behind the buffer or takes its last NUL away.
LEMMA KeysKeepBuffer ==
  ASSUME ConsoleShape, NEW key, Callback(key)
  PROVE  BufferOK'
<1> USE DEF ConsoleShape
<1>0. LAST \in Nat \ {0} /\ NUL \in CharsOrNul /\ Chars \subseteq CharsOrNul
  BY LineFacts DEF CharsOrNul
<1>1. ASSUME NEW p \in 0 .. (Len(history) - 1), Recall(p) PROVE BufferOK'
  <2>1. PICK s : s = history[p + 1]
    OBVIOUS
  <2>2. s \in Lines
    <3>1. p + 1 \in 1 .. Len(history) /\ history \in Seq(Lines)
      BY LenProperties DEF HistoryOK
    <3> QED
      BY <2>1, <3>1, ElementOfSeq
  <2>3. s \in Seq(Chars) /\ Len(s) \in 0 .. LAST
    BY <2>2, LineFacts, LenProperties
  <2>4. \A k \in 1 .. Len(s) : s[k] \in CharsOrNul
    BY <1>0, <2>3, ElementOfSeq
  <2>5. input_buffer' = [k \in 0 .. LAST |->
            IF k < Len(s) THEN s[k + 1] ELSE IF k = Len(s) THEN NUL
            ELSE input_buffer[k]]
    BY <1>1, <2>1 DEF Recall, CopyIn
  <2>6. input_buffer' \in [0 .. LAST -> CharsOrNul]
    BY <1>0, <2>3, <2>4, <2>5 DEF BufferOK
  <2>7. input_buffer'[LAST] = NUL
    BY <1>0, <2>3, <2>5 DEF BufferOK
  <2>8. input_position' \in 0 .. LAST
    BY <1>1, <2>1, <2>3 DEF Recall
  <2> QED
    BY <2>6, <2>7, <2>8 DEF BufferOK
<1>2. CASE Emptied
  BY <1>0, <1>2 DEF Emptied, BufferOK
<1>3. ASSUME NEW home \in BOOLEAN, TypeLeft(home) PROVE BufferOK'
  BY <1>0, <1>3 DEF TypeLeft, BufferOK
<1>4. CASE TypeEnter
  BY <1>0, <1>4 DEF TypeEnter, BufferOK
<1>5. CASE TypeBackspace
  BY <1>0, <1>5 DEF TypeBackspace, BufferOK
<1>6. ASSUME NEW c \in Chars, TypeChar(c) PROVE BufferOK'
  BY <1>0, <1>6 DEF TypeChar, BufferOK, LAST
<1> QED
  BY <1>1, <1>2, <1>3, <1>4, <1>5, <1>6, KeyCases

\* Enter adds a line to the history, and a full history drops one.
LEMMA KeysKeepHistory ==
  ASSUME ConsoleShape, NEW key, Callback(key), BufferOK'
  PROVE  HistoryOK'
<1> USE DEF ConsoleShape
<1>0. Len(history) \in Nat /\ CONSOLE_MAX_HISTORY \in Nat \ {0}
  BY LenProperties, ConsoleAssumption DEF HistoryOK
<1>1. ASSUME NEW p \in 0 .. (Len(history) - 1), Recall(p) PROVE HistoryOK'
  BY <1>1 DEF Recall, HistoryOK
<1>2. CASE Emptied
  BY <1>0, <1>2 DEF Emptied, HistoryOK
<1>3. CASE UNCHANGED historyVars
  BY <1>3 DEF historyVars, HistoryOK
<1>4. CASE TypeEnter
  <2>1. PICK s : s = StringIn(input_buffer')
    OBVIOUS
  <2>2. s \in Lines
    BY <2>1, StringInIsALine DEF BufferOK
  <2>3. PICK h : h = IF Len(history) = CONSOLE_MAX_HISTORY THEN Tail(history) ELSE history
    OBVIOUS
  <2>4. h \in Seq(Lines) /\ Len(h) \in Nat /\ Len(h) + 1 <= CONSOLE_MAX_HISTORY
    <3>1. CASE Len(history) = CONSOLE_MAX_HISTORY
      <4>1. history \in Seq(Lines) /\ history # <<>>
        BY <1>0, <3>1, EmptySeq DEF HistoryOK
      <4>2. Tail(history) \in Seq(Lines) /\ Len(Tail(history)) = Len(history) - 1
        BY <4>1, HeadTailProperties
      <4> QED
        BY <1>0, <2>3, <3>1, <4>2
    <3>2. CASE Len(history) # CONSOLE_MAX_HISTORY
      BY <1>0, <2>3, <3>2 DEF HistoryOK
    <3> QED
      BY <3>1, <3>2
  <2>5. Append(h, s) \in Seq(Lines) /\ Len(Append(h, s)) = Len(h) + 1
    BY <2>2, <2>4, AppendProperties
  <2>6. history' = Append(h, s) \/ history' = history
    BY <1>4, <2>1, <2>3 DEF TypeEnter, Remember
  <2>7. history_position' = -1
    BY <1>4 DEF TypeEnter
  <2>8. history' \in Seq(Lines) /\ Len(history') \in Nat /\ Len(history') <= CONSOLE_MAX_HISTORY
    BY <1>0, <2>4, <2>5, <2>6 DEF HistoryOK
  <2> QED
    BY <2>7, <2>8 DEF HistoryOK
<1> QED
  BY <1>1, <1>2, <1>3, <1>4, KeyCases DEF TypeLeft, TypeBackspace, TypeChar

\* A piece of the buffer is a sequence.
LEMMA PieceOfBuffer ==
  ASSUME BufferOK, NEW n \in 0 .. LAST
  PROVE  /\ [k \in 1 .. n |-> input_buffer[k - 1]] \in Seq(CharsOrNul)
         /\ Len([k \in 1 .. n |-> input_buffer[k - 1]]) = n
<1>1. n \in Nat /\ \A k \in 1 .. n : input_buffer[k - 1] \in CharsOrNul
  BY LineFacts DEF BufferOK
<1>2. [k \in 1 .. n |-> input_buffer[k - 1]] \in [1 .. n -> CharsOrNul]
  BY <1>1
<1> QED
  BY <1>1, <1>2, LenProperties

\* So a key keeps all of it.
LEMMA KeysKeepShape ==
  ASSUME ConsoleShape, NEW key, Callback(key)
  PROVE  ConsoleShape'
<1> USE DEF ConsoleShape
<1>1. BufferOK' /\ HistoryOK'
  BY KeysKeepBuffer, KeysKeepHistory
<1>2. ThreadOK'
  BY KeyCases DEF updateVars, ThreadOK
<1>3. CASE TypeEnter
  <2>1. PICK l : l = [k \in 1 .. input_position |-> input_buffer[k - 1]]
    OBVIOUS
  <2>2. l \in Seq(CharsOrNul) /\ Len(l) <= LAST
    <3>1. input_position \in 0 .. LAST /\ LAST \in Nat
      BY LineFacts DEF BufferOK
    <3> QED
      BY <2>1, <3>1, PieceOfBuffer
  <2>3. <<>> \in Seq(CharsOrNul) /\ Len(<<>>) <= LAST
    BY EmptySeq, LineFacts
  <2>4. line' = <<>> \/ line' = l
    BY <1>3, <2>1 DEF TypeEnter
  <2>5. line' \in Seq(CharsOrNul) /\ Len(line') <= LAST
    BY <2>2, <2>3, <2>4
  <2>6. raced' \in BOOLEAN /\ input_ready' \in BOOLEAN
    BY <1>3, KeyCases DEF TypeEnter, LineOK
  <2> QED
    BY <1>1, <1>2, <2>5, <2>6 DEF LineOK
<1>4. CASE UNCHANGED <<input_ready, line>>
  <2>1. raced' \in BOOLEAN
    BY KeyCases DEF LineOK
  <2> QED
    BY <1>1, <1>2, <1>4, <2>1 DEF LineOK
<1> QED
  BY <1>3, <1>4, KeyCases DEF Recall, Emptied, TypeLeft, TypeBackspace, TypeChar

\* The thread's strcpy ends at the last NUL at the latest.
LEMMA ThreadKeepsShape ==
  ASSUME ConsoleShape, Update \/ ReadLineBegins
  PROVE  ConsoleShape'
<1> USE DEF ConsoleShape
<1>0. LAST \in Nat \ {0} /\ NUL \in CharsOrNul
  BY LineFacts DEF CharsOrNul
<1>1. CASE UpdateBegins \/ ReadLineReturns
  BY <1>1 DEF UpdateBegins, ReadLineReturns, inputVars, historyVars, BufferOK,
     HistoryOK, ThreadOK, LineOK
<1>2. CASE UpdateCopies
  <2>1. UNCHANGED <<inputVars, historyVars, cleared, line, raced>>
    BY <1>2 DEF UpdateCopies
  <2>2. ThreadOK'
    <3>1. CASE input_buffer[Len(cmd)] = NUL
      BY <1>2, <3>1 DEF UpdateCopies, ThreadOK
    <3>2. CASE input_buffer[Len(cmd)] # NUL
      <4>1. PICK c : c = input_buffer[Len(cmd)]
        OBVIOUS
      <4>2. Len(cmd) \in 0 .. LAST /\ Len(cmd) # LAST /\ cmd \in Seq(Chars)
        BY <1>0, <3>2, LenProperties DEF ThreadOK, BufferOK
      <4>3. c \in Chars
        BY <3>2, <4>1, <4>2 DEF BufferOK, CharsOrNul
      <4>4. cmd' = Append(cmd, c) /\ place' = place
        BY <1>2, <3>2, <4>1 DEF UpdateCopies
      <4>5. Append(cmd, c) \in Seq(Chars) /\ Len(Append(cmd, c)) = Len(cmd) + 1
        BY <4>2, <4>3, AppendProperties
      <4> QED
        BY <1>0, <2>1, <4>2, <4>4, <4>5 DEF ThreadOK
    <3> QED
      BY <3>1, <3>2
  <2> QED
    BY <2>1, <2>2 DEF inputVars, historyVars, BufferOK, HistoryOK, LineOK
<1>3. CASE UpdateClears
  <2>1. BufferOK'
    BY <1>0, <1>3 DEF UpdateClears, BufferOK, ThreadOK
  <2>2. ThreadOK'
    BY <1>0, <1>3 DEF UpdateClears, ThreadOK
  <2> QED
    BY <1>3, <2>1, <2>2 DEF UpdateClears, historyVars, HistoryOK, LineOK
<1>4. CASE UpdateResetsPosition
  BY <1>0, <1>4 DEF UpdateResetsPosition, historyVars, BufferOK, HistoryOK,
     ThreadOK, LineOK
<1>5. CASE UpdateResetsReady
  <2>1. line' \in Seq(CharsOrNul) /\ Len(line') <= LAST
    BY <1>0, <1>5, EmptySeq DEF UpdateResetsReady
  <2>2. raced' \in BOOLEAN
    BY <1>5 DEF UpdateResetsReady
  <2> QED
    BY <1>5, <2>1, <2>2 DEF UpdateResetsReady, historyVars, BufferOK, HistoryOK,
       ThreadOK, LineOK
<1>6. CASE UpdateExecutes
  <2>1. cmd' \in Seq(Chars) /\ Len(cmd') <= LAST
    BY <1>0, <1>6, EmptySeq DEF UpdateExecutes
  <2> QED
    BY <1>6, <2>1 DEF UpdateExecutes, inputVars, historyVars, BufferOK, HistoryOK,
       ThreadOK, LineOK
<1>7. CASE ReadLineBegins
  <2>1. line' \in Seq(CharsOrNul) /\ Len(line') <= LAST
    BY <1>0, <1>7, EmptySeq DEF ReadLineBegins
  <2>2. raced' \in BOOLEAN
    BY <1>7 DEF ReadLineBegins
  <2> QED
    BY <1>7, <2>1, <2>2 DEF ReadLineBegins, historyVars, BufferOK, HistoryOK, ThreadOK, LineOK
<1> QED
  BY <1>1, <1>2, <1>3, <1>4, <1>5, <1>6, <1>7 DEF Update

(***************************************************************************)
(* The line that Enter ended, until a key arrives while it is ready.        *)
(***************************************************************************)

\* While the thread is not clearing, the bytes before the cursor are characters.
BeforeCursor ==
    place \notin {"clear", "position"} =>
        \A k \in 0 .. (input_position - 1) : input_buffer[k] \in Chars

\* Until the thread has copied it, a line that is ready stands in the buffer.
ReadyLine ==
    input_ready /\ place \in {"loop", "wait", "copy", "execute"} =>
        /\ input_buffer[input_position] = NUL
        /\ line = [k \in 1 .. input_position |-> input_buffer[k - 1]]

\* A line is ready throughout the copy and the resets, and outside an update
\* nothing has been copied.
UpdateHasALine ==
    /\ place \in {"copy", "clear", "position", "ready"} => input_ready
    /\ place \in {"loop", "wait"} => cmd = <<>>
    /\ raced => input_ready

\* The copy: as far as it has got, and complete once it has come to the NUL.
CopiedLine ==
    /\ place = "copy" => /\ Len(cmd) <= input_position
                         /\ cmd = [k \in 1 .. Len(cmd) |-> input_buffer[k - 1]]
    /\ place \in {"clear", "position", "ready"} => cmd = line

LineInv ==
    /\ BeforeCursor /\ UpdateHasALine
    /\ ~raced => ReadyLine /\ CopiedLine

\* A key that does not race finds no line ready, and only Enter makes one.
LEMMA KeysKeepLine ==
  ASSUME ConsoleShape, LineInv, NEW key, Callback(key)
  PROVE  LineInv'
<1> USE DEF ConsoleShape
<1>1. /\ raced' = (raced \/ input_ready) /\ place' = place /\ cmd' = cmd
      /\ BeforeCursor /\ UpdateHasALine
      /\ ~raced' => ~raced /\ ~input_ready /\ ReadyLine
  BY KeyCases DEF LineInv, LineOK, updateVars
<1>2. ASSUME place \notin {"clear", "position"}
      PROVE  \A k \in 0 .. (input_position - 1) : input_buffer[k] \in Chars
  BY <1>1, <1>2 DEF BeforeCursor
<1>3. UpdateHasALine' /\ (~raced' => CopiedLine')
  <2>1. input_ready => input_ready'
    BY KeyCases DEF Recall, Emptied, TypeLeft, TypeEnter, TypeBackspace, TypeChar
  <2> QED
    BY <1>1, <2>1 DEF UpdateHasALine, CopiedLine, LineOK
<1>4. LAST \in Nat \ {0} /\ NUL \notin Chars
      /\ input_position \in 0 .. LAST /\ input_buffer \in [0 .. LAST -> CharsOrNul]
  BY LineFacts DEF BufferOK
<1>5. ASSUME NEW p \in 0 .. (Len(history) - 1), Recall(p)
      PROVE  BeforeCursor' /\ (~raced' => ReadyLine')
  <2>1. PICK s : s = history[p + 1]
    OBVIOUS
  <2>2. s \in Lines
    <3>1. p + 1 \in 1 .. Len(history) /\ history \in Seq(Lines)
      BY LenProperties DEF HistoryOK
    <3> QED
      BY <2>1, <3>1, ElementOfSeq
  <2>3. s \in Seq(Chars) /\ Len(s) \in 0 .. LAST
    BY <2>2, LineFacts, LenProperties
  <2>4. \A k \in 1 .. Len(s) : s[k] \in Chars
    BY <2>3, ElementOfSeq
  <2>5. /\ input_buffer' = [k \in 0 .. LAST |->
              IF k < Len(s) THEN s[k + 1] ELSE IF k = Len(s) THEN NUL
              ELSE input_buffer[k]]
        /\ input_position' = Len(s) /\ input_ready' = input_ready
    BY <1>5, <2>1 DEF Recall, CopyIn
  <2>6. ASSUME NEW k \in 0 .. (Len(s) - 1) PROVE input_buffer'[k] \in Chars
    <3>1. k \in 0 .. LAST /\ k < Len(s) /\ k + 1 \in 1 .. Len(s)
      BY <1>4, <2>3
    <3> QED
      BY <2>4, <2>5, <3>1
  <2> QED
    BY <1>1, <2>5, <2>6 DEF BeforeCursor, ReadyLine, LineOK
<1>6. ASSUME Emptied PROVE BeforeCursor' /\ (~raced' => ReadyLine')
  <2>1. BeforeCursor'
    BY <1>4, <1>6 DEF Emptied, BeforeCursor
  <2>2. ~raced' => ReadyLine'
    BY <1>1, <1>6 DEF Emptied, ReadyLine
  <2> QED
    BY <2>1, <2>2
<1>7. ASSUME NEW home \in BOOLEAN, TypeLeft(home)
      PROVE  BeforeCursor' /\ (~raced' => ReadyLine')
  BY <1>1, <1>2, <1>4, <1>7 DEF TypeLeft, BeforeCursor, ReadyLine
<1>8. ASSUME TypeEnter PROVE BeforeCursor' /\ (~raced' => ReadyLine')
  <2>1. /\ input_buffer' = [input_buffer EXCEPT ![input_position] = NUL]
        /\ input_position' = input_position
        /\ ~raced' => line' = [k \in 1 .. input_position |-> input_buffer[k - 1]]
    BY <1>1, <1>8 DEF TypeEnter
  <2>2. \A k \in 0 .. (input_position - 1) : input_buffer'[k] = input_buffer[k]
    BY <1>4, <2>1
  <2>3. BeforeCursor'
    BY <1>1, <1>2, <2>1, <2>2 DEF BeforeCursor
  <2>4. input_buffer'[input_position'] = NUL
    BY <1>4, <2>1
  <2>5. \A k \in 1 .. input_position : input_buffer'[k - 1] = input_buffer[k - 1]
    BY <1>4, <2>2
  <2>6. ~raced' => line' = [k \in 1 .. input_position' |-> input_buffer'[k - 1]]
    BY <2>1, <2>5
  <2>7. ~raced' => ReadyLine'
    BY <2>4, <2>6 DEF ReadyLine
  <2> QED
    BY <2>3, <2>7
<1>9. ASSUME TypeBackspace PROVE BeforeCursor' /\ (~raced' => ReadyLine')
  <2>1. /\ input_position > 0 /\ input_position' = input_position - 1
        /\ input_buffer' = [input_buffer EXCEPT ![input_position - 1] = NUL]
        /\ input_ready' = input_ready
    BY <1>9 DEF TypeBackspace
  <2>2. place \notin {"clear", "position"} =>
           \A k \in 0 .. (input_position' - 1) : input_buffer'[k] \in Chars
    BY <1>2, <1>4, <2>1
  <2>3. BeforeCursor'
    BY <1>1, <2>2 DEF BeforeCursor
  <2>4. ~raced' => ReadyLine'
    BY <1>1, <2>1 DEF ReadyLine
  <2> QED
    BY <2>3, <2>4
<1>10. ASSUME NEW c \in Chars, TypeChar(c)
       PROVE  BeforeCursor' /\ (~raced' => ReadyLine')
  <2>1. /\ input_position < LAST /\ input_position' = input_position + 1
        /\ input_buffer' = [input_buffer EXCEPT ![input_position] = c,
                                                ![input_position + 1] = NUL]
        /\ input_ready' = input_ready
    BY <1>10 DEF TypeChar, LAST
  <2>2. place \notin {"clear", "position"} =>
           \A k \in 0 .. (input_position' - 1) : input_buffer'[k] \in Chars
    BY <1>2, <1>4, <2>1
  <2>3. BeforeCursor'
    BY <1>1, <2>2 DEF BeforeCursor
  <2>4. ~raced' => ReadyLine'
    BY <1>1, <2>1 DEF ReadyLine
  <2> QED
    BY <2>3, <2>4
<1> QED
  BY <1>1, <1>3, <1>5, <1>6, <1>7, <1>8, <1>9, <1>10, KeyCases DEF LineInv

\* The thread copies the line up to its NUL before it clears the buffer.
LEMMA ThreadKeepsLine ==
  ASSUME ConsoleShape, LineInv, Update \/ ReadLineBegins
  PROVE  LineInv'
<1> USE DEF ConsoleShape
<1>0. /\ BeforeCursor /\ UpdateHasALine
      /\ raced \in BOOLEAN /\ (~raced => ReadyLine /\ CopiedLine)
  BY DEF LineInv, LineOK
<1>1. LAST \in Nat \ {0} /\ NUL \notin Chars
      /\ input_position \in 0 .. LAST /\ input_buffer \in [0 .. LAST -> CharsOrNul]
  BY LineFacts DEF BufferOK
<1>2. CASE UpdateBegins
  <2>1. /\ cmd = <<>> /\ Len(cmd) = 0 /\ input_ready
        /\ UNCHANGED <<inputVars, cmd, line, raced>>
        /\ place = "loop" /\ place' = "copy"
    BY <1>0, <1>2, EmptySeq DEF UpdateBegins, UpdateHasALine
  <2>2. cmd = [k \in 1 .. Len(cmd) |-> input_buffer[k - 1]]
    BY <2>1
  <2> QED
    BY <1>0, <1>1, <2>1, <2>2 DEF inputVars, BeforeCursor, UpdateHasALine, ReadyLine,
       CopiedLine, LineInv
<1>3. ASSUME UpdateCopies, ~raced PROVE ReadyLine' /\ CopiedLine'
  <2>1. /\ place = "copy" /\ input_ready /\ UNCHANGED <<inputVars, line>>
        /\ Len(cmd) <= input_position /\ Len(cmd) \in Nat /\ cmd \in Seq(Chars)
        /\ cmd = [k \in 1 .. Len(cmd) |-> input_buffer[k - 1]]
        /\ input_buffer[input_position] = NUL
        /\ line = [k \in 1 .. input_position |-> input_buffer[k - 1]]
        /\ \A k \in 0 .. (input_position - 1) : input_buffer[k] \in Chars
    BY <1>0, <1>3, LenProperties DEF UpdateCopies, UpdateHasALine, CopiedLine, ReadyLine,
       BeforeCursor, ThreadOK
  <2>2. CASE input_buffer[Len(cmd)] = NUL
    <3>1. place' = "clear" /\ cmd' = cmd
      BY <1>3, <2>2 DEF UpdateCopies
    <3>2. Len(cmd) = input_position
      <4>1. ASSUME Len(cmd) # input_position PROVE FALSE
        <5>1. PICK n : n = Len(cmd)
          OBVIOUS
        <5>2. n \in Nat /\ n <= input_position /\ n # input_position
          BY <2>1, <4>1, <5>1
        <5>3. n \in 0 .. (input_position - 1)
          BY <1>1, <5>2
        <5>4. input_buffer[n] \in Chars
          BY <2>1, <5>3
        <5> QED
          BY <1>1, <2>2, <5>1, <5>4
      <4> QED
        BY <4>1
    <3>3. cmd = line
      BY <2>1, <3>2
    <3> QED
      BY <2>1, <3>1, <3>3 DEF inputVars, ReadyLine, CopiedLine
  <2>3. CASE input_buffer[Len(cmd)] # NUL
    <3>1. PICK n : n = Len(cmd)
      OBVIOUS
    <3>2. PICK c : c = input_buffer[n]
      OBVIOUS
    <3>3. n \in Nat /\ n < input_position /\ c \in Chars
      BY <1>1, <2>1, <2>3, <3>1, <3>2
    <3>4. place' = "copy" /\ cmd' = Append(cmd, c)
      BY <1>3, <2>1, <2>3, <3>1, <3>2 DEF UpdateCopies
    <3>5. /\ Len(cmd') = n + 1 /\ cmd' \in Seq(Chars)
          /\ \A k \in 1 .. n : cmd'[k] = cmd[k]
          /\ cmd'[n + 1] = c
      BY <2>1, <3>1, <3>3, <3>4, AppendProperties
    <3>6. \A k \in 1 .. n : cmd[k] = input_buffer[k - 1]
      BY <2>1, <3>1
    <3>7. \A k \in 1 .. (n + 1) : cmd'[k] = input_buffer[k - 1]
      BY <3>2, <3>3, <3>5, <3>6
    <3>8. cmd' = [k \in 1 .. (n + 1) |-> input_buffer[k - 1]]
      <4>1. cmd' \in [1 .. (n + 1) -> Chars]
        BY <3>5, LenProperties
      <4> QED
        BY <3>7, <4>1
    <3>9. /\ input_buffer' = input_buffer /\ input_position' = input_position
          /\ input_ready' = input_ready /\ line' = line
      BY <2>1 DEF inputVars
    <3>10. CopiedLine'
      BY <1>1, <2>1, <3>3, <3>4, <3>5, <3>8, <3>9 DEF CopiedLine
    <3> QED
      BY <2>1, <3>4, <3>9, <3>10 DEF ReadyLine
  <2> QED
    BY <2>2, <2>3
<1>10. CASE UpdateCopies
  <2>1. BeforeCursor' /\ UpdateHasALine' /\ raced' = raced
    BY <1>0, <1>10 DEF UpdateCopies, inputVars, BeforeCursor, UpdateHasALine
  <2> QED
    BY <1>3, <1>10, <2>1 DEF LineInv
<1>4. CASE UpdateClears
  <2>1. place' \in {"clear", "position"}
    BY <1>4 DEF UpdateClears
  <2> QED
    BY <1>0, <1>4, <2>1 DEF UpdateClears, BeforeCursor, UpdateHasALine, ReadyLine,
       CopiedLine, LineInv
<1>5. CASE UpdateResetsPosition
  BY <1>0, <1>5 DEF UpdateResetsPosition, BeforeCursor, UpdateHasALine, ReadyLine,
     CopiedLine, LineInv
<1>6. CASE UpdateResetsReady
  BY <1>0, <1>6 DEF UpdateResetsReady, BeforeCursor, UpdateHasALine, ReadyLine,
     CopiedLine, LineInv
<1>7. CASE UpdateExecutes
  BY <1>0, <1>7 DEF UpdateExecutes, inputVars, BeforeCursor, UpdateHasALine, ReadyLine,
     CopiedLine, LineInv
<1>8. CASE ReadLineBegins
  BY <1>0, <1>8 DEF ReadLineBegins, BeforeCursor, UpdateHasALine, ReadyLine,
     CopiedLine, LineInv
<1>9. CASE ReadLineReturns
  BY <1>0, <1>9 DEF ReadLineReturns, inputVars, BeforeCursor, UpdateHasALine, ReadyLine,
     CopiedLine, LineInv
<1> QED
  BY <1>2, <1>4, <1>5, <1>6, <1>7, <1>8, <1>9, <1>10 DEF Update

\* The console starts with an empty line and an empty history.
LEMMA ConsoleStarts == InputInit => ConsoleShape /\ LineInv
<1> SUFFICES ASSUME InputInit PROVE ConsoleShape /\ LineInv
  OBVIOUS
<1>1. LAST \in Nat \ {0}
  BY LineFacts
<1>2. BufferOK
  <2>1. input_buffer = [k \in 0 .. LAST |-> NUL] /\ input_position = 0
    BY DEF InputInit, ConsoleInit, ZeroLine
  <2> QED
    BY <1>1, <2>1 DEF BufferOK, CharsOrNul
<1>3. HistoryOK
  <2>1. history = <<>> /\ history_position = -1 /\ Len(history) = 0
    BY DEF InputInit, ConsoleInit
  <2>2. history \in Seq(Lines)
    BY <2>1, EmptySeq
  <2> QED
    BY <2>1, <2>2, ConsoleAssumption DEF HistoryOK
<1>4. ThreadOK
  <2>1. cmd \in Seq(Chars) /\ Len(cmd) = 0
    BY EmptySeq DEF InputInit, ConsoleInit
  <2> QED
    BY <1>1, <2>1 DEF ThreadOK, InputInit, ConsoleInit
<1>5. LineOK
  <2>1. line \in Seq(CharsOrNul) /\ Len(line) = 0
    BY EmptySeq DEF InputInit, ConsoleInit
  <2> QED
    <3>1. Len(line) <= LAST
      BY <1>1, <2>1
    <3>2. raced = FALSE /\ input_ready = FALSE
      BY DEF InputInit, ConsoleInit
    <3> QED
      BY <2>1, <3>1, <3>2 DEF LineOK
<1>6. LineInv
  BY <1>1 DEF InputInit, ConsoleInit, LineInv, BeforeCursor, UpdateHasALine, ReadyLine,
     CopiedLine
<1> QED
  BY <1>2, <1>3, <1>4, <1>5, <1>6 DEF ConsoleShape

\* The console keeps its invariant.
LEMMA ConsoleAlways == InputSpec => [](ConsoleShape /\ LineInv)
<1>1. ASSUME ConsoleShape, LineInv, UNCHANGED consoleVars PROVE ConsoleShape' /\ LineInv'
  BY <1>1 DEF consoleVars, inputVars, historyVars, updateVars, ConsoleShape, BufferOK,
     HistoryOK, ThreadOK, LineOK, LineInv, BeforeCursor, UpdateHasALine, ReadyLine, CopiedLine
<1>2. ConsoleShape /\ LineInv /\ [InputNext]_inputSystem => ConsoleShape' /\ LineInv'
  BY <1>1, ConsoleSteps, KeysKeepShape, ThreadKeepsShape, KeysKeepLine, ThreadKeepsLine
<1> QED
  BY <1>2, ConsoleStarts, PTL DEF InputSpec

\* The variables of keyboard.c and console.c keep their ranges.
THEOREM TypeCorrect == InputSpec => []InputTypeOK
<1>1. KeyboardInv => KeyboardTypeOK
  BY DEF KeyboardInv
<1>2. ConsoleShape => ConsoleTypeOK
  <2> SUFFICES ASSUME ConsoleShape PROVE ConsoleTypeOK
    OBVIOUS
  <2>1. cmd \in Strings(LAST)
    BY LineFacts DEF ConsoleShape, ThreadOK, Lines
  <2>2. history \in UNION {[1 .. n -> Lines] : n \in 0 .. CONSOLE_MAX_HISTORY}
    <3>1. CONSOLE_MAX_HISTORY \in Nat
      BY ConsoleAssumption
    <3> QED
      BY <3>1, BoundedSequences DEF ConsoleShape, HistoryOK
  <2> QED
    BY <2>1, <2>2 DEF ConsoleShape, BufferOK, HistoryOK, ThreadOK, LineOK, Lines,
       CharsOrNul, ConsoleTypeOK
<1> QED
  BY <1>1, <1>2, KeyboardAlways, ConsoleAlways, PTL DEF InputTypeOK

\* Every strcpy of the console ends inside its buffer, for every size of it.
THEOREM CopiesEnd == InputSpec => []StringsEnd
<1>1. ConsoleShape => StringsEnd
  BY DEF ConsoleShape, BufferOK, ThreadOK, StringsEnd
<1> QED
  BY <1>1, ConsoleAlways, PTL

\* console_update executes the line as it stood up to the cursor when Enter was
\* hit, unless a key arrived while it was ready.
THEOREM TheLineIsExecuted == InputSpec => []ExecutesTheLine
<1>1. LineInv => ExecutesTheLine
  BY DEF LineInv, CopiedLine, ExecutesTheLine
<1> QED
  BY <1>1, ConsoleAlways, PTL
=============================================================================
