-------------------------------- MODULE Pmm --------------------------------
(***************************************************************************)
(* The physical memory manager, mem/pmm.c: a bitmap with one bit per block *)
(* of physical memory, a counter of used blocks kept beside it, and a      *)
(* first-fit search.  pmm_init runs once, before interrupts are enabled;   *)
(* the four allocation calls follow in any order.                          *)
(*                                                                         *)
(* A block is its number, the bitmap is the set of the numbers whose bit   *)
(* is set, and a block's address is its number times BLOCK_SIZE.  The 32   *)
(* bit arithmetic of the code is arithmetic modulo WORD.                   *)
(***************************************************************************)
EXTENDS Integers, FiniteSets, Sequences

CONSTANTS
    BLOCK_SIZE,          \* bytes in a block (4096)
    BLOCKS_PER_BYTE,     \* bitmap bits in a byte (8)
    ADDRESSABLE_BLOCKS,  \* blocks in the 32-bit address space (2^20)
    BOOT_INFO,           \* the multiboot information pmm_init may be given
    RUN_SIZES            \* the sizes pmm_alloc_blocks is called with

\* The number of values of a uint32_t, an address or a counter.
WORD == ADDRESSABLE_BLOCKS * BLOCK_SIZE

\* A memory map entry; base and length are the 64-bit fields.
Region == [type : Nat, base : Nat, length : Nat]

ASSUME ConstantAssumption ==
    /\ BLOCK_SIZE \in Nat \ {0}
    /\ BLOCKS_PER_BYTE \in Nat \ {0}
    /\ ADDRESSABLE_BLOCKS \in Nat \ {0}
    /\ RUN_SIZES \subseteq Nat

\* A map has so few entries that marking every block once for the kernel,
\* once per entry and once by allocation does not wrap the counter: at most
\* 4094 entries for the code's constants.
ASSUME BootInfoAssumption ==
    \A info \in BOOT_INFO :
        /\ info.flag \in BOOLEAN
        /\ info.mmap \in Seq(Region)
        /\ (Len(info.mmap) + 2) * ADDRESSABLE_BLOCKS <= WORD

VARIABLES
    phase,            \* where pmm_init is: "off", "parse", "reserve", "ready"
    info,             \* the multiboot information
    entry,            \* the index of the map entry the loops look at
    mem_max_addr,     \* also mem_size
    mem_blocks,
    pmm_memory_map,   \* address of the bitmap
    bitmap,           \* the blocks whose bit is set
    mem_used_blocks,
    held              \* the runs <<first block, size>> the callers own

vars == <<phase, info, entry, mem_max_addr, mem_blocks, pmm_memory_map,
          bitmap, mem_used_blocks, held>>

NoInfo == [flag |-> FALSE, mmap |-> <<>>]

-----------------------------------------------------------------------------
(* Arithmetic and the bitmap.                                              *)

U32(n) == n % WORD

\* (a + BLOCK_ALIGN - 1) & ~(BLOCK_ALIGN - 1)
AlignUp(a) ==
    LET s == U32(a + BLOCK_SIZE - 1) IN s - (s % BLOCK_SIZE)

Run(first, size) == first .. (first + size - 1)

Pool == 0 .. (mem_blocks - 1)

FreeBlocks == Pool \ bitmap

\* Mutant: a run is counted as one block.
MarkCountsOnce(B) ==
    /\ bitmap' = bitmap \cup B
    /\ mem_used_blocks' = U32(mem_used_blocks + 1)

\* pmm_set_block on every block of B counts them all, those already set too.
Mark(B) ==
    /\ bitmap' = bitmap \cup B
    /\ mem_used_blocks' = U32(mem_used_blocks + Cardinality(B))

\* Mutant: a run is uncounted as one block.
UnmarkCountsOnce(B) ==
    /\ bitmap' = bitmap \ B
    /\ mem_used_blocks' = U32(mem_used_blocks - 1)

\* pmm_unset_block on every block of B counts them all, those already clear too.
Unmark(B) ==
    /\ bitmap' = bitmap \ B
    /\ mem_used_blocks' = U32(mem_used_blocks - Cardinality(B))

\* Mutant: the last block of a run is not tested.
FreeRunsShort(size) ==
    {s \in FreeBlocks : Run(s, size - 1) \subseteq FreeBlocks}

FreeRuns(size) == {s \in Pool : Run(s, size) \subseteq FreeBlocks}

\* pmm_find_first_free_blocks(size) returns s.  (PmmScan has the loop.)
Finds(size, s) ==
    /\ size > 0
    /\ s \in FreeRuns(size)
    /\ \A t \in FreeRuns(size) : s <= t

\* pmm_find_first_free_blocks(size) returns -1.
FindsNone(size) == size = 0 \/ FreeRuns(size) = {}

-----------------------------------------------------------------------------
(* pmm_init, one action per step of its two loops over the memory map.     *)

Init ==
    /\ phase = "off"
    /\ info = NoInfo
    /\ entry = 1
    /\ mem_max_addr = 0
    /\ mem_blocks = 0
    /\ pmm_memory_map = 0
    /\ bitmap = {}
    /\ mem_used_blocks = 0
    /\ held = {}

\* Without a memory map pmm_init returns and mem_blocks stays 0.
pmm_init ==
    /\ phase = "off"
    /\ info' \in BOOT_INFO
    /\ phase' = IF info'.flag THEN "parse" ELSE "ready"
    /\ UNCHANGED <<entry, mem_max_addr, mem_blocks, pmm_memory_map, bitmap,
                   mem_used_blocks, held>>

\* Mutant: the end of a region is not cut to 32 bits.
RegionEndWide(r) == r.base + r.length

RegionEnd(r) == U32(r.base + r.length)

ParseEntry ==
    /\ phase = "parse"
    /\ entry <= Len(info.mmap)
    /\ mem_max_addr' = IF /\ info.mmap[entry].type = 1
                          /\ RegionEnd(info.mmap[entry]) > mem_max_addr
                         THEN RegionEnd(info.mmap[entry])
                         ELSE mem_max_addr
    /\ entry' = entry + 1
    /\ UNCHANGED <<phase, info, mem_blocks, pmm_memory_map, bitmap,
                   mem_used_blocks, held>>

\* pmm_memory_map_size, in bytes.
MapSize(blocks) ==
    blocks \div BLOCKS_PER_BYTE
        + IF blocks % BLOCKS_PER_BYTE # 0 THEN 1 ELSE 0

\* kernel_end / BLOCK_SIZE
BlocksBelowKernelEnd(addr, blocks) ==
    U32(addr + MapSize(blocks)) \div BLOCK_SIZE

PlaceBitmap ==
    /\ phase = "parse"
    /\ entry > Len(info.mmap)
    /\ mem_blocks' = mem_max_addr \div BLOCK_SIZE
    /\ pmm_memory_map' = AlignUp(mem_max_addr)
    /\ LET low == BlocksBelowKernelEnd(pmm_memory_map', mem_blocks')
       IN  Mark(0 .. (low - 1))
    /\ phase' = "reserve"
    /\ entry' = 1
    /\ UNCHANGED <<info, mem_max_addr, held>>

\* The blocks [block_start, block_end) of a reserved region, cut at mem_blocks.
ReservedBlocks(r) ==
    LET block_start == U32(r.base) \div BLOCK_SIZE
        block_end   == U32(U32(r.base) + U32(r.length) + BLOCK_SIZE - 1)
                           \div BLOCK_SIZE
    IN  {b \in Pool : block_start <= b /\ b < block_end}

ReserveEntry ==
    /\ phase = "reserve"
    /\ entry <= Len(info.mmap)
    /\ IF info.mmap[entry].type # 1
         THEN Mark(ReservedBlocks(info.mmap[entry]))
         ELSE UNCHANGED <<bitmap, mem_used_blocks>>
    /\ entry' = entry + 1
    /\ UNCHANGED <<phase, info, mem_max_addr, mem_blocks, pmm_memory_map, held>>

InitDone ==
    /\ phase = "reserve"
    /\ entry > Len(info.mmap)
    /\ phase' = "ready"
    /\ UNCHANGED <<info, entry, mem_max_addr, mem_blocks, pmm_memory_map,
                   bitmap, mem_used_blocks, held>>

-----------------------------------------------------------------------------
(* The calls.  A caller owns what it was given and frees it once, with the *)
(* size it asked for.  The address of block 0 is the null pointer, which a *)
(* caller takes for a failure: it owns nothing then.                       *)

\* Mutant: only the first block of a run is marked.
GiveFirst(s, size) ==
    /\ Mark({s})
    /\ held' = IF s = 0 THEN held ELSE held \cup {<<s, size>>}

Give(s, size) ==
    /\ Mark(Run(s, size))
    /\ held' = IF s = 0 THEN held ELSE held \cup {<<s, size>>}

OtherVars == <<phase, info, entry, mem_max_addr, mem_blocks, pmm_memory_map>>

pmm_alloc_block ==
    /\ phase = "ready"
    /\ mem_used_blocks < mem_blocks
    /\ \E s \in Pool : Finds(1, s) /\ Give(s, 1)
    /\ UNCHANGED OtherVars

pmm_alloc_block_fails ==
    /\ phase = "ready"
    /\ mem_used_blocks >= mem_blocks \/ FindsNone(1)
    /\ UNCHANGED vars

pmm_alloc_blocks(size) ==
    /\ phase = "ready"
    /\ U32(mem_used_blocks + size) <= mem_blocks
    /\ \E s \in Pool : Finds(size, s) /\ Give(s, size)
    /\ UNCHANGED OtherVars

pmm_alloc_blocks_fails(size) ==
    /\ phase = "ready"
    /\ U32(mem_used_blocks + size) > mem_blocks \/ FindsNone(size)
    /\ UNCHANGED vars

\* pmm_free_block returns at once when the block is not in the pool.
pmm_free_block(run) ==
    /\ phase = "ready"
    /\ run[2] = 1
    /\ IF run[1] >= mem_blocks
         THEN UNCHANGED <<bitmap, mem_used_blocks>>
         ELSE Unmark({run[1]})
    /\ held' = held \ {run}
    /\ UNCHANGED OtherVars

\* Mutant: one block too many is freed.
FreesOneTooMany(run) ==
    /\ phase = "ready"
    /\ Unmark(Run(run[1], run[2] + 1) \cap Pool)
    /\ held' = held \ {run}
    /\ UNCHANGED OtherVars

pmm_free_blocks(run) ==
    /\ phase = "ready"
    /\ Unmark(Run(run[1], run[2]) \cap Pool)
    /\ held' = held \ {run}
    /\ UNCHANGED OtherVars

BootNext ==
    pmm_init \/ ParseEntry \/ PlaceBitmap \/ ReserveEntry \/ InitDone

Next ==
    \/ BootNext
    \/ pmm_alloc_block
    \/ pmm_alloc_block_fails
    \/ \E size \in RUN_SIZES :
          pmm_alloc_blocks(size) \/ pmm_alloc_blocks_fails(size)
    \/ \E run \in held : pmm_free_block(run) \/ pmm_free_blocks(run)

Spec == Init /\ [][Next]_vars

-----------------------------------------------------------------------------
(* Properties.                                                             *)

TypeOK ==
    /\ phase \in {"off", "parse", "reserve", "ready"}
    /\ info \in BOOT_INFO \cup {NoInfo}
    /\ entry \in Nat \ {0}
    /\ mem_max_addr \in 0 .. (WORD - 1)
    /\ mem_blocks \in 0 .. (ADDRESSABLE_BLOCKS - 1)
    /\ pmm_memory_map \in 0 .. (WORD - 1)
    /\ bitmap \subseteq 0 .. (ADDRESSABLE_BLOCKS - 1)
    /\ mem_used_blocks \in 0 .. (WORD - 1)
    /\ held \subseteq (Nat \X Nat)

Owned(r) == Run(r[1], r[2])

HeldBlocks == UNION {Owned(r) : r \in held}

\* Two callers never own the same block, and every owned block is a block of
\* the pool whose bit is set: pmm_alloc_block and pmm_alloc_blocks hand out
\* free blocks only, and a free clears the bits of its own run only.
HeldSafe ==
    /\ \A r \in held : Owned(r) \subseteq (Pool \cap bitmap)
    /\ \A r, q \in held : r # q => Owned(r) \cap Owned(q) = {}

\* The counter is a sound reason to try: while mem_used_blocks < mem_blocks
\* the search for one block succeeds, so the "despite counter saying
\* otherwise" return of pmm_alloc_block is never taken.  pmm_init counts
\* blocks that are reserved twice, so the counter may be high, never low.
CounterCheckSound ==
    phase = "ready" /\ mem_used_blocks < mem_blocks => ~FindsNone(1)

\* How far the counter is above the number of set bits of the pool.
Excess == mem_used_blocks - Cardinality(Pool \cap bitmap)

\* What pmm_init counted too much is neither repaired nor made worse by any
\* sequence of allocations and frees: the error of the free block count is
\* decided at boot.
ExcessNeverChanges == [][phase = "ready" => Excess' = Excess]_vars

\* A block of the pool that is marked and belongs to nobody (the kernel's,
\* the bitmap's, a reserved one, or one lost behind a null pointer) is never
\* freed and never given to a caller once pmm_init has returned.
Withdrawn == bitmap \ HeldBlocks
WithdrawnForGood == [][phase = "ready" => Withdrawn \subseteq Withdrawn']_vars

\* The contract of a block allocator, in BlockPool.  Before pmm_init returns
\* nothing is available.
Allocator ==
    INSTANCE BlockPool WITH
        BLOCKS <- 0 .. (ADDRESSABLE_BLOCKS - 1),
        SIZES  <- (RUN_SIZES \cup {1}) \ {0},
        open   <- phase = "ready",
        avail  <- IF phase = "ready" THEN FreeBlocks ELSE {},
        owned  <- held

ImplementsAllocator == Allocator!Spec

-----------------------------------------------------------------------------
(* What the comments of pmm_init promise and it does not deliver.          *)

\* pmm_init marks "blocks used by the kernel and the PMM bitmap" and
\* "unavailable regions"; the rest it has cleared, "mark all blocks as free".
\* So a machine with an available region that reaches beyond its first block
\* has a block to allocate.
BlocksLeftToAllocate ==
    phase = "ready" /\ mem_blocks > 1 /\ held = {} => FreeBlocks # {}
=============================================================================
