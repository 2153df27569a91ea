----------------------------- MODULE MCPmmScan -----------------------------
(* The machines of MCPmm for PmmScan; RAM is shorter, the scan is longer.   *)
EXTENDS PmmScan

MCRam == [type |-> 1, base |-> 0, length |-> 63]
MCHole == [type |-> 2, base |-> 18, length |-> 12]

\* Eight blocks of 8 bytes with a bitmap of one bit per byte at address 0,
\* which does not fill a block: all of the pool but the hole is free.
MCBootInfo ==
    {[flag |-> TRUE, mmap |-> <<MCRam, MCHole>>],
     [flag |-> TRUE, mmap |-> <<MCRam>>]}

MCSizes == {0, 1, 2, 3}
=============================================================================
