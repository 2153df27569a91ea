------------------------------- MODULE Input -------------------------------
(***************************************************************************)
(* The keyboard driver and the console together: a key that enters the     *)
(* keyboard's ring is converted to a character and handed to the console   *)
(* in the same interrupt.                                                  *)
(***************************************************************************)
EXTENDS Keyboard, Console

inputSystem == <<keyboardVars, consoleVars>>

\* keyboard_scancode_to_ascii.  The ring holds characters, and the conversion
\* uses a character as a scancode once more: 10, the newline, is the scancode of
\* '9', and 8 that of '7'.  A character from 59 on is read behind the end of the
\* table, and what stands there is not defined.
ToAscii(key) ==
    CASE key \in {"enter", "backspace"} -> Chars
      [] key = "low" -> Chars \cup {NUL}
      [] key = "high" -> Chars \cup {NUL, Newline, Backspace}
      [] OTHER -> {NUL}

\* What console_keyboard_callback makes of a key.
Meanings(key) == IF key \in Special THEN {key} ELSE ToAscii(key)

Deliver(key) ==
    \E m \in Meanings(key) :
        Callback(m) \/ (Ignored(m) /\ UNCHANGED consoleVars)

Press(b, up) ==
    /\ Scancode(b, up)
    /\ IF Queued(b, up) = NoKey THEN UNCHANGED consoleVars
                                ELSE Deliver(Queued(b, up))

InputInit == KeyboardInit /\ ConsoleInit

InputNext ==
    \/ \E b \in Bytes, up \in BOOLEAN : Press(b, up)
    \/ (Prefix \/ ReadKey \/ ReadAdvance) /\ UNCHANGED consoleVars
    \/ (Update \/ ReadLineBegins) /\ UNCHANGED keyboardVars

InputSpec == InputInit /\ [][InputNext]_inputSystem

\* The state of the keyboard driver and of the console stays in its range.
InputTypeOK == KeyboardTypeOK /\ ConsoleTypeOK

\* "Enter key - process the command" (console.c:41): a press of Enter that the
\* ring has room for makes the line ready.
EnterMakesReady ==
    [][\A up \in BOOLEAN :
          Scancode("enter", up) /\ Queued("enter", up) # NoKey => input_ready']_inputSystem
=============================================================================
