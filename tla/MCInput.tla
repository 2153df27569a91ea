------------------------------ MODULE MCInput ------------------------------
(* The keyboard and the console one at a time: a behaviour is either of the *)
(* keyboard, with nobody called back, or of the console, with keys that may *)
(* arrive at any moment.  A line of two characters, a history of two lines, *)
(* a ring of two keys; a shift, ctrl and a cursor key, with and without the *)
(* prefix.                                                                  *)
EXTENDS Input

VARIABLE part

MCVars == <<inputSystem, part>>

MCInit == InputInit /\ part \in {"keyboard", "console"}

MCNext ==
    \/ part = "keyboard" /\ KeyboardNext /\ UNCHANGED <<consoleVars, part>>
    \/ part = "console" /\ ConsoleNext /\ UNCHANGED <<keyboardVars, part>>

\* The loop of kmain goes on.
MCSpec ==
    /\ MCInit
    /\ [][MCNext]_MCVars
    /\ WF_MCVars(Update /\ UNCHANGED <<keyboardVars, part>>)
=============================================================================
