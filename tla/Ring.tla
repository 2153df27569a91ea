-------------------------------- MODULE Ring --------------------------------
(***************************************************************************)
(* The ring buffers of the drivers: an array, the position to fill next    *)
(* (head) and the position to take next (tail).  A ring whose head is at   *)
(* its tail is empty, so one slot always stays free.                       *)
(***************************************************************************)
EXTENDS Integers, Sequences

\* What a ring of the given size holds, from its tail up to its head.
Contents(buffer, head, tail, size) ==
    [k \in 1 .. ((head - tail) % size) |-> buffer[(tail + k - 1) % size]]
=============================================================================
