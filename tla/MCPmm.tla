------------------------------- MODULE MCPmm -------------------------------
(* Small machines for Pmm: 16 blocks of 8 bytes, two bitmap bits to a byte, *)
(* so that the bitmap of the largest machine fills one block exactly, as it *)
(* fills 32 blocks of the real one.                                         *)
EXTENDS Pmm

Avail(base, end) == [type |-> 1, base |-> base, length |-> end - base]
Resvd(base, end) == [type |-> 2, base |-> base, length |-> end - base]
WithMap(m) == [flag |-> TRUE, mmap |-> m]

\* Memory ends in the middle of the last block of the address space: the
\* aligned bitmap address wraps to 0.
MCWrapped == WithMap(<<Avail(0, 125), Resvd(10, 36)>>)

\* The same with a reserved hole, listed twice with an overlap.
MCWrappedHole == WithMap(<<Avail(0, 123), Resvd(50, 80), Resvd(70, 100)>>)

\* Memory above 4 GB beside a reserved region at the very end.
MCHigh == WithMap(<<Avail(128, 249), Resvd(64, 128)>>)

\* The bitmap fits behind the last block of RAM, and its end wraps to 0.
MCEdge == WithMap(<<Avail(0, 120), Resvd(12, 65)>>)

\* An ordinary machine: RAM, then a reserved region.
MCOrdinary == WithMap(<<Avail(0, 8), Resvd(8, 16), Avail(16, 64)>>)

MCNoMap == NoInfo

MCBootInfo ==
    {MCWrapped, MCWrappedHole, MCHigh, MCEdge, MCOrdinary, MCNoMap}

\* The run about an ordinary machine alone.
MCOnlyOrdinary == {MCOrdinary}

\* pmm_alloc_blocks is called with 0 blocks, one block and a run.
MCSizes == {0, 1, 3}
=============================================================================
