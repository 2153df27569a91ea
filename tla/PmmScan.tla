------------------------------ MODULE PmmScan ------------------------------
(***************************************************************************)
(* Pmm with the loops of pmm_find_first_free_blocks in full: an allocation *)
(* call tests the counter, scans the bitmap one bit per step, and marks    *)
(* what it found.  Frees and pmm_init are Pmm's.  PmmScan implements Pmm,  *)
(* whose Finds and FindsNone only say what the search returns.             *)
(***************************************************************************)
EXTENDS Pmm

VARIABLES
    call,         \* the allocation under way, or "none"
    count,        \* the parameter of pmm_find_first_free_blocks
    i,            \* the loop variable
    free_blocks,  \* free blocks in a row, up to i
    first_free    \* where they begin, or -1

scanVars == <<call, count, i, free_blocks, first_free>>

allVars == <<vars, scanVars>>

ScanInit ==
    /\ Init
    /\ call = "none"
    /\ count = 0
    /\ i = 0
    /\ free_blocks = 0
    /\ first_free = -1

StartScan(name, size) ==
    /\ call' = name
    /\ count' = size
    /\ i' = 0
    /\ free_blocks' = 0
    /\ first_free' = -1

Return ==
    /\ call' = "none"
    /\ UNCHANGED <<count, i, free_blocks, first_free>>

StartAllocBlock ==
    /\ phase = "ready" /\ call = "none"
    /\ mem_used_blocks < mem_blocks
    /\ StartScan("pmm_alloc_block", 1)
    /\ UNCHANGED vars

StartAllocBlocks(size) ==
    /\ phase = "ready" /\ call = "none"
    /\ U32(mem_used_blocks + size) <= mem_blocks
    /\ StartScan("pmm_alloc_blocks", size)
    /\ UNCHANGED vars

\* The test of the counter fails: nothing is scanned.
RefuseBlock ==
    /\ phase = "ready" /\ call = "none"
    /\ mem_used_blocks >= mem_blocks
    /\ UNCHANGED allVars

RefuseRun ==
    /\ phase = "ready" /\ call = "none"
    /\ \E size \in RUN_SIZES : U32(mem_used_blocks + size) > mem_blocks
    /\ UNCHANGED allVars

\* Mutant: the loop ends before the last block.
ScanFailsEarly ==
    /\ call # "none"
    /\ count = 0 \/ i >= mem_blocks - 1
    /\ Return
    /\ UNCHANGED vars

\* count == 0, or the loop ends: pmm_find_first_free_blocks returns -1.
ScanFails ==
    /\ call # "none"
    /\ count = 0 \/ i >= mem_blocks
    /\ Return
    /\ UNCHANGED vars

Scanning == call # "none" /\ count # 0 /\ i < mem_blocks

\* Mutant: a used block does not end the run counted so far.
ScanUsedKeepsRun ==
    /\ Scanning
    /\ i \in bitmap
    /\ i' = i + 1
    /\ UNCHANGED <<call, count, free_blocks, first_free>>
    /\ UNCHANGED vars

\* Mutant: the loop variable does not move past a used block.
ScanUsedStays ==
    /\ Scanning
    /\ i \in bitmap
    /\ free_blocks' = 0
    /\ first_free' = -1
    /\ UNCHANGED <<call, count, i>>
    /\ UNCHANGED vars

ScanUsedBlock ==
    /\ Scanning
    /\ i \in bitmap
    /\ i' = i + 1
    /\ free_blocks' = 0
    /\ first_free' = -1
    /\ UNCHANGED <<call, count>>
    /\ UNCHANGED vars

\* Mutant: every free block starts a run.
RunStartHere == i

\* first_free once the free block i is counted.
RunStart == IF free_blocks = 0 THEN i ELSE first_free

ScanFreeBlock ==
    /\ Scanning
    /\ i \notin bitmap
    /\ free_blocks + 1 # count
    /\ i' = i + 1
    /\ free_blocks' = free_blocks + 1
    /\ first_free' = RunStart
    /\ UNCHANGED <<call, count>>
    /\ UNCHANGED vars

\* The search succeeds; the caller marks the blocks and returns their address.
ScanFinds ==
    /\ Scanning
    /\ i \notin bitmap
    /\ free_blocks + 1 = count
    /\ Give(RunStart, count)
    /\ UNCHANGED OtherVars
    /\ Return

ScanNext ==
    \/ /\ call = "none"
       /\ UNCHANGED scanVars
       /\ \/ BootNext
          \/ \E run \in held : pmm_free_block(run) \/ pmm_free_blocks(run)
    \/ StartAllocBlock
    \/ \E size \in RUN_SIZES : StartAllocBlocks(size)
    \/ RefuseBlock \/ RefuseRun
    \/ ScanFails
    \/ ScanUsedBlock
    \/ ScanFreeBlock
    \/ ScanFinds

\* The loop is never left half way: a call returns.
ScanSpec ==
    /\ ScanInit
    /\ [][ScanNext]_allVars
    /\ WF_allVars(ScanFails \/ ScanUsedBlock \/ ScanFreeBlock \/ ScanFinds)

-----------------------------------------------------------------------------
(* Properties.                                                             *)

\* What pmm_find_first_free_blocks knows at the head of its loop: the last
\* free_blocks blocks are free and begin at first_free, the block before them
\* is not free, and no run of count free blocks begins any earlier.
LoopInv ==
    call # "none" =>
        /\ i \in 0 .. mem_blocks
        /\ free_blocks \in 0 .. i
        /\ count = 0 => free_blocks = 0
        /\ count # 0 => free_blocks < count
        /\ free_blocks # 0 => first_free = i - free_blocks
        /\ \A b \in (i - free_blocks) .. (i - 1) : b \in FreeBlocks
        /\ count # 0 =>
              \A s \in FreeRuns(count) : s >= i - free_blocks

\* pmm_find_first_free_blocks returns -1 only when no run of count blocks is
\* free, so a null pointer is never returned while the pool could serve.
FailureIsReal == [][ScanFails => FindsNone(count)]_allVars

\* Allocating with the loops of pmm_find_first_free_blocks is allocating the
\* lowest run that fits: every step of this module is a step of Pmm or none.
ScanImplementsPmm == Spec

\* Every allocation call returns, whatever the bitmap holds.
CallsReturn == call # "none" ~> call = "none"
=============================================================================
