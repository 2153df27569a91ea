----------------------------- MODULE BlockPool -----------------------------
(***************************************************************************)
(* What a physical block allocator promises, whatever it is built from: a  *)
(* pool is opened once; a caller is given a run of consecutive blocks that *)
(* were all available, and owns it until it frees it; a run that begins at *)
(* block 0 has the null address, so it goes to nobody and is lost.         *)
(***************************************************************************)
EXTENDS Integers

CONSTANTS
    BLOCKS,   \* the numbers a block may have
    SIZES     \* the sizes of run that are asked for

VARIABLES
    open,    \* the pool has been set up
    avail,   \* the blocks that may be given out
    owned    \* the runs <<first block, size>> that callers own

vars == <<open, avail, owned>>

Blocks(first, size) == first .. (first + size - 1)

Init == open = FALSE /\ avail = {} /\ owned = {}

Open ==
    /\ ~open
    /\ open' = TRUE
    /\ avail' \in SUBSET BLOCKS
    /\ UNCHANGED owned

Alloc ==
    /\ open
    /\ \E s \in avail : \E size \in SIZES :
          /\ Blocks(s, size) \subseteq avail
          /\ avail' = avail \ Blocks(s, size)
          /\ owned' = IF s = 0 THEN owned ELSE owned \cup {<<s, size>>}
    /\ UNCHANGED open

Free ==
    /\ open
    /\ \E r \in owned :
          /\ avail' = avail \cup Blocks(r[1], r[2])
          /\ owned' = owned \ {r}
    /\ UNCHANGED open

Next == Open \/ Alloc \/ Free

Spec == Init /\ [][Next]_vars
=============================================================================
