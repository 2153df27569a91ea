------------------------------ MODULE Keyboard ------------------------------
(***************************************************************************)
(* The PS/2 keyboard driver, drivers/keyboard.c: an interrupt handler that *)
(* turns scancodes into keys, keeps the modifiers and fills a ring, and a  *)
(* thread that takes keys out of the ring.                                 *)
(*                                                                         *)
(* A scancode is named after the key on it.  "low" and "high" stand for    *)
(* the other keys of the ASCII table: those whose character is below 59,   *)
(* the size of the table, and those whose character is not.  num_lock and  *)
(* scroll_lock are left out: their scancodes, 0x45 and 0x46, are not below *)
(* 59, so the cases that toggle them are never reached.                    *)
(***************************************************************************)
EXTENDS Ring

CONSTANTS
    KEYBOARD_BUFFER_SIZE,  \* 64
    Bytes,                 \* the keys on the keyboard
    NoKey                  \* 0

CursorBytes == {"home", "left", "up", "down"}
ShiftBytes == {"lshift", "rshift"}
Modifiers == {"shift", "ctrl", "alt"}

ASSUME KeyboardAssumption ==
    /\ KEYBOARD_BUFFER_SIZE \in Nat \ {0}
    /\ Bytes \subseteq CursorBytes \cup ShiftBytes \cup
           {"enter", "backspace", "low", "high", "ctrl", "alt", "caps"}
    /\ NoKey \notin Bytes \cup Modifiers

VARIABLES
    keyboard_buffer, keyboard_buffer_head, keyboard_buffer_tail,
    pressed,    \* the modifiers of keyboard_state that are set
    caps_lock,  \* keyboard_state.caps_lock
    extended,   \* the last scancode was the prefix 0xE0
    reading,    \* the thread is inside keyboard_read_key
    held        \* history: the keys held down, each with its prefix or without

ring == <<keyboard_buffer, keyboard_buffer_head, keyboard_buffer_tail>>
keyVars == <<pressed, caps_lock, extended, held>>
keyboardVars == <<ring, keyVars, reading>>

Keys == (Bytes \ ShiftBytes) \cup Modifiers

KeyboardInit ==
    /\ keyboard_buffer = [n \in 0 .. (KEYBOARD_BUFFER_SIZE - 1) |-> NoKey]
    /\ keyboard_buffer_head = 0 /\ keyboard_buffer_tail = 0
    /\ pressed = {} /\ caps_lock = FALSE /\ extended = FALSE
    /\ reading = FALSE
    /\ held = {}

-----------------------------------------------------------------------------
(* The interrupt.                                                          *)

NextSlot(n) == (n + 1) % KEYBOARD_BUFFER_SIZE

\* Mutant: a full ring is not noticed.
RoomAlways == TRUE

Room == NextSlot(keyboard_buffer_head) # keyboard_buffer_tail

\* The cursor keys' scancodes without the prefix are beyond the table.
NormalKey(b) ==
    IF b \in ShiftBytes THEN "shift"
    ELSE IF b \in CursorBytes THEN NoKey ELSE b

ExtendedKey(b) == IF b \in CursorBytes \cup {"ctrl", "alt"} THEN b ELSE NoKey

KeyOf(b) == IF extended THEN ExtendedKey(b) ELSE NormalKey(b)

\* The key that a scancode puts in the ring and hands to the callback, or none:
\* a release is not queued, and a full ring drops the key and the call.
Queued(b, up) == IF up \/ ~Room THEN NoKey ELSE KeyOf(b)

keyboard_buffer_enqueue(key) ==
    /\ keyboard_buffer' =
           [keyboard_buffer EXCEPT ![keyboard_buffer_head] = key]
    /\ keyboard_buffer_head' = NextSlot(keyboard_buffer_head)
    /\ UNCHANGED keyboard_buffer_tail

\* Mutant: the modifiers only follow the keys that are queued.
SetModifiersIfQueued(b, up) ==
    pressed' = (pressed \cup ({Queued(b, up)} \cap Modifiers))
                   \ (IF up /\ Room THEN {KeyOf(b)} ELSE {})

SetModifiers(b, up) ==
    pressed' = IF up THEN pressed \ {KeyOf(b)}
                     ELSE pressed \cup ({KeyOf(b)} \cap Modifiers)

\* keyboard_handler with a key's own scancode.  A keyboard releases what is
\* held, and repeats the scancode of a key that stays down.
Scancode(b, up) ==
    /\ up => <<b, extended>> \in held
    /\ held' = IF up THEN held \ {<<b, extended>>}
                     ELSE held \cup {<<b, extended>>}
    /\ SetModifiers(b, up)
    /\ caps_lock' = (caps_lock # (KeyOf(b) = "caps" /\ ~up))
    /\ IF Queued(b, up) # NoKey
         THEN keyboard_buffer_enqueue(Queued(b, up))
         ELSE UNCHANGED ring
    /\ extended' = FALSE
    /\ UNCHANGED reading

\* keyboard_handler with 0xE0.
Prefix ==
    /\ ~extended
    /\ extended' = TRUE
    /\ UNCHANGED <<ring, pressed, caps_lock, held, reading>>

-----------------------------------------------------------------------------
(* The thread, in console_getchar.                                         *)

\* keyboard_read_key has found the ring not empty and has read a key.
ReadKey ==
    /\ ~reading
    /\ keyboard_buffer_head # keyboard_buffer_tail
    /\ reading' = TRUE
    /\ UNCHANGED <<ring, keyVars>>

ReadAdvance ==
    /\ reading
    /\ keyboard_buffer_tail' = NextSlot(keyboard_buffer_tail)
    /\ reading' = FALSE
    /\ UNCHANGED <<keyboard_buffer, keyboard_buffer_head, keyVars>>

KeyboardNext ==
    \/ Prefix
    \/ \E b \in Bytes, up \in BOOLEAN : Scancode(b, up)
    \/ ReadKey \/ ReadAdvance

-----------------------------------------------------------------------------
(* Properties.                                                             *)

KeyboardTypeOK ==
    /\ keyboard_buffer \in [0 .. (KEYBOARD_BUFFER_SIZE - 1) -> Keys \cup {NoKey}]
    /\ keyboard_buffer_head \in 0 .. (KEYBOARD_BUFFER_SIZE - 1)
    /\ keyboard_buffer_tail \in 0 .. (KEYBOARD_BUFFER_SIZE - 1)
    /\ pressed \subseteq Modifiers
    /\ caps_lock \in BOOLEAN /\ extended \in BOOLEAN /\ reading \in BOOLEAN
    /\ held \subseteq Bytes \X BOOLEAN

\* The keys that set a modifier: both shifts without the prefix (with it they
\* are the fake shifts around a cursor key), ctrl and alt with and without.
Sources(m) ==
    IF m = "shift" THEN ShiftBytes \X {FALSE} ELSE {m} \X BOOLEAN

\* A modifier never sticks: one that keyboard_is_key_pressed reports has a key
\* held down, although the ring is full, the same key exists twice, and fake
\* shifts and repeats come in between.
ModifiersAreHeld == \A m \in pressed : Sources(m) \cap held # {}

\* The keys that are queued come out of keyboard_read_key once and in order,
\* whatever the interrupt does between its reads and its update of the tail.
KeyQueue ==
    INSTANCE BoundedFifo WITH
        ITEMS    <- Keys,
        CAPACITY <- KEYBOARD_BUFFER_SIZE - 1,
        queue    <- Contents(keyboard_buffer, keyboard_buffer_head,
                             keyboard_buffer_tail, KEYBOARD_BUFFER_SIZE)

KeysComeInOrder == KeyQueue!Spec
=============================================================================
