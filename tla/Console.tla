------------------------------ MODULE Console ------------------------------
(***************************************************************************)
(* The kernel console, drivers/console.c: a keyboard callback, which runs  *)
(* in the keyboard interrupt, edits an input line and keeps a history of   *)
(* the lines that Enter ended; a thread executes a line that is ready.     *)
(*                                                                         *)
(* The callback runs to its end between two steps of the thread.  The      *)
(* thread's strcpy and memset take one step per character, because the     *)
(* callback writes the same buffer.  The callback's argument is taken      *)
(* after keyboard_scancode_to_ascii, which may give it any character.      *)
(***************************************************************************)
EXTENDS Integers, Sequences

CONSTANTS
    CONSOLE_INPUT_BUFFER_SIZE,  \* 256
    CONSOLE_MAX_HISTORY,        \* 10
    Chars,                      \* the characters a line is made of
    NUL, Newline, Backspace

ASSUME ConsoleAssumption ==
    /\ CONSOLE_INPUT_BUFFER_SIZE \in Nat \ {0, 1}
    /\ CONSOLE_MAX_HISTORY \in Nat \ {0}
    /\ {NUL, Newline, Backspace} \cap Chars = {}
    /\ NUL # Newline /\ NUL # Backspace /\ Newline # Backspace

LAST == CONSOLE_INPUT_BUFFER_SIZE - 1

VARIABLES
    input_buffer, input_position, input_ready,
    history,           \* history_buffer up to history_count, as strings
    history_position,
    place,    \* the place of the thread: "loop" outside the console's calls
    cmd,      \* console_update's copy of the line, as far as it has got
    cleared,  \* how far its memset has got
    line,     \* history: the line that is ready, until a key has raced
    raced     \* history: a key has arrived since the line became ready

inputVars == <<input_buffer, input_position, input_ready>>
historyVars == <<history, history_position>>
updateVars == <<place, cmd, cleared>>
consoleVars == <<inputVars, historyVars, updateVars, line, raced>>

ZeroLine == [k \in 0 .. LAST |-> NUL]

ConsoleInit ==
    /\ input_buffer = ZeroLine /\ input_position = 0 /\ input_ready = FALSE
    /\ history = <<>> /\ history_position = -1
    /\ place = "loop" /\ cmd = <<>> /\ cleared = 0
    /\ line = <<>> /\ raced = FALSE

-----------------------------------------------------------------------------
(* The keyboard callback.                                                  *)

\* The string at the beginning of a buffer.
StringIn(buffer) ==
    LET length == CHOOSE n \in 0 .. LAST :
                      buffer[n] = NUL /\ \A k \in 0 .. (n - 1) : buffer[k] # NUL
    IN  [k \in 1 .. length |-> buffer[k - 1]]

\* strcpy into the input buffer leaves what is behind the string's end.
CopyIn(s) ==
    [k \in 0 .. LAST |->
        IF k < Len(s) THEN s[k + 1] ELSE IF k = Len(s) THEN NUL
        ELSE input_buffer[k]]

\* Mutant: the whole buffer may be filled, the end of the string included.
TypeCharToTheEnd(c) ==
    /\ c \in Chars
    /\ input_position < CONSOLE_INPUT_BUFFER_SIZE
    /\ input_buffer' = [input_buffer EXCEPT ![input_position] = c,
                                            ![input_position + 1] = NUL]
    /\ input_position' = input_position + 1
    /\ UNCHANGED <<input_ready, historyVars, line>>

TypeChar(c) ==
    /\ c \in Chars
    /\ input_position < CONSOLE_INPUT_BUFFER_SIZE - 1
    /\ input_buffer' = [input_buffer EXCEPT ![input_position] = c,
                                            ![input_position + 1] = NUL]
    /\ input_position' = input_position + 1
    /\ UNCHANGED <<input_ready, historyVars, line>>

TypeBackspace ==
    /\ input_position > 0
    /\ input_position' = input_position - 1
    /\ input_buffer' = [input_buffer EXCEPT ![input_position'] = NUL]
    /\ UNCHANGED <<input_ready, historyVars, line>>

\* Mutant: a full history keeps growing.
RememberAll(s) == Append(history, s)

\* A full history drops its oldest line.
Remember(s) ==
    Append(IF Len(history) = CONSOLE_MAX_HISTORY THEN Tail(history) ELSE history,
           s)

\* Mutant: the line is not ended at the cursor.
EnterKeepsTail ==
    /\ history' = IF input_position > 0
                    THEN Remember(StringIn(input_buffer)) ELSE history
    /\ line' = IF raced \/ input_ready THEN <<>>
               ELSE SubSeq(StringIn(input_buffer), 1, input_position)
    /\ input_ready' = TRUE
    /\ history_position' = -1
    /\ UNCHANGED <<input_buffer, input_position>>

\* Enter ends the line at the cursor, which may be left of the string's end.
TypeEnter ==
    /\ input_buffer' = [input_buffer EXCEPT ![input_position] = NUL]
    /\ history' = IF input_position > 0
                    THEN Remember(StringIn(input_buffer')) ELSE history
    /\ line' = IF raced \/ input_ready THEN <<>>
               ELSE [k \in 1 .. input_position |-> input_buffer[k - 1]]
    /\ input_ready' = TRUE
    /\ history_position' = -1
    /\ UNCHANGED input_position

Recall(position) ==
    /\ input_buffer' = CopyIn(history[position + 1])
    /\ input_position' = Len(history[position + 1])
    /\ history_position' = position
    /\ UNCHANGED <<input_ready, history, line>>

\* KEY_UP; nothing happens without a history.
TypeUp ==
    /\ history # <<>>
    /\ Recall(IF history_position = -1 THEN Len(history) - 1
              ELSE IF history_position > 0 THEN history_position - 1
              ELSE history_position)

\* KEY_DOWN; nothing happens outside the history, and behind its last line the
\* input is empty.
TypeDown ==
    /\ history_position # -1
    /\ IF history_position + 1 < Len(history)
         THEN Recall(history_position + 1)
         ELSE /\ input_buffer' = [input_buffer EXCEPT ![0] = NUL]
              /\ input_position' = 0
              /\ history_position' = -1
              /\ UNCHANGED <<input_ready, history, line>>

\* KEY_LEFT, and KEY_HOME until the beginning of the line.
TypeLeft(home) ==
    /\ input_position > 0
    /\ input_position' = IF home THEN 0 ELSE input_position - 1
    /\ UNCHANGED <<input_buffer, input_ready, historyVars, line>>

Special == {"up", "down", "left", "home"}

\* The keys and characters that do nothing as things stand.
Ignored(key) ==
    \/ key = NUL
    \/ key = "up" /\ history = <<>>
    \/ key = "down" /\ history_position = -1
    \/ key \in {"left", "home", Backspace} /\ input_position = 0
    \/ key \in Chars /\ input_position = LAST

\* console_keyboard_callback, for a special key or for the character of another
\* key, when it does something.
Callback(key) ==
    /\ \/ key = "up" /\ TypeUp
       \/ key = "down" /\ TypeDown
       \/ key \in {"left", "home"} /\ TypeLeft(key = "home")
       \/ key = Newline /\ TypeEnter
       \/ key = Backspace /\ TypeBackspace
       \/ TypeChar(key)
    /\ raced' = (raced \/ input_ready)
    /\ UNCHANGED updateVars

-----------------------------------------------------------------------------
(* The thread: console_update in the loop of kmain, and console_read_line. *)

UpdateBegins ==
    /\ place = "loop" /\ input_ready
    /\ place' = "copy"
    /\ UNCHANGED <<inputVars, historyVars, cmd, cleared, line, raced>>

\* One character of strcpy; the NUL is the last.
UpdateCopies ==
    /\ place = "copy"
    /\ IF input_buffer[Len(cmd)] = NUL
         THEN place' = "clear" /\ UNCHANGED cmd
         ELSE cmd' = Append(cmd, input_buffer[Len(cmd)]) /\ UNCHANGED place
    /\ UNCHANGED <<inputVars, historyVars, cleared, line, raced>>

UpdateClears ==
    /\ place = "clear"
    /\ input_buffer' = [input_buffer EXCEPT ![cleared] = NUL]
    /\ IF cleared = LAST
         THEN cleared' = 0 /\ place' = "position"
         ELSE cleared' = cleared + 1 /\ UNCHANGED place
    /\ UNCHANGED <<input_position, input_ready, historyVars, cmd, line, raced>>

UpdateResetsPosition ==
    /\ place = "position"
    /\ input_position' = 0
    /\ place' = "ready"
    /\ UNCHANGED <<input_buffer, input_ready, historyVars, cmd, cleared, line,
                   raced>>

\* Whatever key has raced with this line, the next one starts afresh.
UpdateResetsReady ==
    /\ place = "ready"
    /\ input_ready' = FALSE
    /\ line' = <<>> /\ raced' = FALSE
    /\ place' = "execute"
    /\ UNCHANGED <<input_buffer, input_position, historyVars, cmd, cleared>>

\* Mutant: input_ready is reset only when the command has been executed.
UpdateResetsTooLate ==
    /\ place = "execute"
    /\ place' = "loop"
    /\ cmd' = <<>>
    /\ input_ready' = FALSE
    /\ UNCHANGED <<input_buffer, input_position, historyVars, cleared, line, raced>>

\* console_execute_command and the prompt.
UpdateExecutes ==
    /\ place = "execute"
    /\ place' = "loop"
    /\ cmd' = <<>>
    /\ UNCHANGED <<inputVars, historyVars, cleared, line, raced>>

\* console_read_line drops a line that is ready, and waits for the next; the
\* buffer it returns is not reset and the line stays ready.
ReadLineBegins ==
    /\ place = "loop"
    /\ input_ready' = FALSE
    /\ line' = <<>> /\ raced' = FALSE
    /\ place' = "wait"
    /\ UNCHANGED <<input_buffer, input_position, historyVars, cmd, cleared>>

ReadLineReturns ==
    /\ place = "wait" /\ input_ready
    /\ place' = "loop"
    /\ UNCHANGED <<inputVars, historyVars, cmd, cleared, line, raced>>

Update ==
    \/ UpdateBegins \/ UpdateCopies \/ UpdateClears \/ UpdateResetsPosition
    \/ UpdateResetsReady \/ UpdateExecutes \/ ReadLineReturns

ConsoleNext ==
    \/ \E key \in Special \cup Chars \cup {Newline, Backspace} : Callback(key)
    \/ Update
    \/ ReadLineBegins

-----------------------------------------------------------------------------
(* Properties.                                                             *)

Strings(n) == UNION {[1 .. m -> Chars] : m \in 0 .. n}

ConsoleTypeOK ==
    /\ input_buffer \in [0 .. LAST -> Chars \cup {NUL}]
    /\ input_position \in 0 .. LAST
    /\ input_ready \in BOOLEAN
    /\ history \in UNION {[1 .. n -> Strings(LAST)] :
                              n \in 0 .. CONSOLE_MAX_HISTORY}
    /\ history_position \in -1 .. (Len(history) - 1)
    /\ place \in {"loop", "copy", "clear", "position", "ready", "execute",
                  "wait"}
    /\ cmd \in Strings(LAST)
    /\ cleared \in 0 .. LAST
    /\ line \in Seq(Chars \cup {NUL}) /\ Len(line) <= LAST
    /\ raced \in BOOLEAN

\* Every strcpy of the console ends inside its buffer: the last byte of the
\* input buffer is NUL at every moment, also while console_update copies a line
\* that the callback is changing.
StringsEnd == input_buffer[LAST] = NUL /\ Len(cmd) <= LAST

\* What console_update is about to execute is the line as it stood up to the
\* cursor when Enter was hit, unless a key arrived while that line was ready.
\* Keys that race with one line do not spoil the next.
ExecutesTheLine ==
    place \in {"clear", "position", "ready"} /\ ~raced => cmd = line

\* The only Enter that console_update loses is one that comes while it copies and
\* resets the line before (console.c:210-215).  One that comes earlier or later,
\* also while a command is executed, has its line taken up, unless a caller of
\* console_read_line drops it; the copy ends although keys go on editing the
\* buffer, and a caller that waits gets the line.
LineIsServed ==
    /\ input_ready /\ place \in {"loop", "execute"} ~> place \in {"copy", "wait"}
    /\ place = "copy" ~> place = "execute"
    /\ input_ready /\ place = "wait" ~> place = "loop"
=============================================================================
