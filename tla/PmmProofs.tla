----------------------------- MODULE PmmProofs -----------------------------
(* Proofs about Pmm, and about PmmScan: the loops of                       *)
(* pmm_find_first_free_blocks find the lowest run that fits, and allocation *)
(* with them implements Pmm.                                               *)
EXTENDS PmmScan, FiniteSetTheorems, TLAPS

(***************************************************************************)
(* Arithmetic.                                                             *)
(***************************************************************************)

\* The word is a positive number of bytes, at least one per block.
LEMMA WordPositive == WORD \in Nat \ {0} /\ ADDRESSABLE_BLOCKS <= WORD
  BY ConstantAssumption DEF WORD

\* A 32-bit result is in range, and is the exact one when that is in range.
LEMMA U32Range ==
  ASSUME NEW n \in Int
  PROVE  /\ U32(n) \in 0 .. (WORD - 1)
         /\ n \in 0 .. (WORD - 1) => U32(n) = n
  BY WordPositive DEF U32

\* The block number of a 32-bit address is below ADDRESSABLE_BLOCKS.
LEMMA BlockOfAddress ==
  ASSUME NEW a \in 0 .. (WORD - 1)
  PROVE  a \div BLOCK_SIZE \in 0 .. (ADDRESSABLE_BLOCKS - 1)
<1>1. /\ a \div BLOCK_SIZE \in Int
      /\ BLOCK_SIZE * (a \div BLOCK_SIZE) <= a
      /\ a \div BLOCK_SIZE >= 0
  BY ConstantAssumption, WordPositive
<1>2. BLOCK_SIZE * (a \div BLOCK_SIZE) < BLOCK_SIZE * ADDRESSABLE_BLOCKS
  BY <1>1, ConstantAssumption DEF WORD
<1>3. a \div BLOCK_SIZE < ADDRESSABLE_BLOCKS
  BY <1>1, <1>2, ConstantAssumption
<1> QED
  BY <1>1, <1>3, ConstantAssumption

\* The blocks of a pool of n blocks are addressable.
LEMMA PoolRange ==
  ASSUME NEW n \in 0 .. (ADDRESSABLE_BLOCKS - 1)
  PROVE  0 .. (n - 1) \subseteq 0 .. (ADDRESSABLE_BLOCKS - 1)
  BY ConstantAssumption

(***************************************************************************)
(* The inductive invariant.                                                *)
(***************************************************************************)

\* What pmm_init has and has not done yet in each phase.
BootShape ==
    /\ phase # "off" => info \in BOOT_INFO
    /\ phase = "off" => entry = 1
    /\ entry <= Len(info.mmap) + 1
    /\ phase \in {"off", "parse"} =>
          bitmap = {} /\ mem_used_blocks = 0 /\ mem_blocks = 0
    /\ phase # "ready" => held = {}

\* The counter is at least the number of marked blocks of the pool, and so
\* small that neither another entry nor an allocation makes it wrap.
CounterBounds ==
    /\ Cardinality(Pool \cap bitmap) <= mem_used_blocks
    /\ mem_used_blocks <= entry * ADDRESSABLE_BLOCKS

PmmInv == TypeOK /\ BootShape /\ HeldSafe /\ CounterBounds

\* Sets of blocks are finite, and no larger than the address space.
LEMMA BlockSetsFinite ==
  ASSUME NEW B \in SUBSET (0 .. (ADDRESSABLE_BLOCKS - 1))
  PROVE  /\ IsFiniteSet(B)
         /\ Cardinality(B) \in Nat
         /\ Cardinality(B) <= ADDRESSABLE_BLOCKS
<1>1. /\ IsFiniteSet(0 .. (ADDRESSABLE_BLOCKS - 1))
      /\ Cardinality(0 .. (ADDRESSABLE_BLOCKS - 1)) = ADDRESSABLE_BLOCKS
  BY FS_Interval, ConstantAssumption
<1>2. IsFiniteSet(B) /\ Cardinality(B) <= ADDRESSABLE_BLOCKS
  BY <1>1, FS_Subset
<1> QED
  BY <1>2, FS_CardinalityType, ConstantAssumption

\* Once the multiboot information is known, there is room in the counter for
\* one more marking of every block.
LEMMA CounterRoom ==
  ASSUME TypeOK, BootShape, CounterBounds, phase # "off"
  PROVE  /\ mem_used_blocks + ADDRESSABLE_BLOCKS <= WORD
         /\ entry <= Len(info.mmap) =>
               mem_used_blocks + ADDRESSABLE_BLOCKS < WORD
<1> DEFINE len == Len(info.mmap)
<1>1. info \in BOOT_INFO /\ info.mmap \in Seq(Region)
  BY BootInfoAssumption DEF BootShape
<1>2. len \in Nat /\ (len + 2) * ADDRESSABLE_BLOCKS <= WORD
  BY <1>1, BootInfoAssumption
<1>3. entry \in Nat \ {0} /\ entry <= len + 1 /\ mem_used_blocks \in Nat
      /\ mem_used_blocks <= entry * ADDRESSABLE_BLOCKS
  BY WordPositive DEF TypeOK, BootShape, CounterBounds
<1> HIDE DEF len
<1>4. entry * ADDRESSABLE_BLOCKS <= (len + 1) * ADDRESSABLE_BLOCKS
  BY <1>2, <1>3, ConstantAssumption
<1>5. (len + 1) * ADDRESSABLE_BLOCKS + ADDRESSABLE_BLOCKS
        = (len + 2) * ADDRESSABLE_BLOCKS
  BY <1>2, ConstantAssumption
<1>6. mem_used_blocks + ADDRESSABLE_BLOCKS <= WORD
  BY <1>2, <1>3, <1>4, <1>5, ConstantAssumption, WordPositive
<1>7. ASSUME entry <= len
      PROVE  mem_used_blocks + ADDRESSABLE_BLOCKS < WORD
  <2>1. entry * ADDRESSABLE_BLOCKS + ADDRESSABLE_BLOCKS
          <= (len + 1) * ADDRESSABLE_BLOCKS
    BY <1>2, <1>3, <1>7, ConstantAssumption
  <2> QED
    BY <2>1, <1>2, <1>3, <1>5, ConstantAssumption, WordPositive
<1> QED
  BY <1>6, <1>7 DEF len

\* Marking blocks when there is room: the counter goes up by their number and
\* stays an upper bound of the marked blocks of an unchanged pool; if all of
\* them were free blocks, by exactly what the bitmap gained.
LEMMA MarkEffect ==
  ASSUME TypeOK, CounterBounds, NEW B, Mark(B), mem_blocks' = mem_blocks,
         B \subseteq 0 .. (ADDRESSABLE_BLOCKS - 1),
         mem_used_blocks + Cardinality(B) < WORD
  PROVE  /\ bitmap' \subseteq 0 .. (ADDRESSABLE_BLOCKS - 1)
         /\ mem_used_blocks' = mem_used_blocks + Cardinality(B)
         /\ mem_used_blocks' \in 0 .. (WORD - 1)
         /\ (Cardinality(Pool \cap bitmap) <= mem_used_blocks)'
         /\ B \subseteq FreeBlocks => Excess' = Excess
<1> DEFINE Used == Pool \cap bitmap
           In == Pool \cap B
<1>1. /\ bitmap' = bitmap \cup B
      /\ bitmap' \subseteq 0 .. (ADDRESSABLE_BLOCKS - 1)
      /\ Pool' = Pool
      /\ Used' = Used \cup In
  BY DEF Mark, TypeOK, Pool
<1>2. /\ IsFiniteSet(B) /\ Cardinality(B) \in Nat
      /\ IsFiniteSet(Used) /\ Cardinality(Used) \in Nat
      /\ IsFiniteSet(In) /\ Cardinality(In) \in Nat
      /\ IsFiniteSet(Used \cap In) /\ Cardinality(Used \cap In) \in Nat
  <2>1. /\ Used \subseteq 0 .. (ADDRESSABLE_BLOCKS - 1)
        /\ In \subseteq 0 .. (ADDRESSABLE_BLOCKS - 1)
        /\ Used \cap In \subseteq 0 .. (ADDRESSABLE_BLOCKS - 1)
    BY DEF TypeOK
  <2>2. IsFiniteSet(B) /\ Cardinality(B) \in Nat
    BY BlockSetsFinite
  <2>3. IsFiniteSet(Used) /\ Cardinality(Used) \in Nat
    BY <2>1, BlockSetsFinite
  <2>4. IsFiniteSet(In) /\ Cardinality(In) \in Nat
    BY <2>1, BlockSetsFinite
  <2>5. IsFiniteSet(Used \cap In) /\ Cardinality(Used \cap In) \in Nat
    BY <2>1, BlockSetsFinite
  <2> QED
    BY <2>2, <2>3, <2>4, <2>5
<1>3. /\ mem_used_blocks \in Nat
      /\ mem_used_blocks' = U32(mem_used_blocks + Cardinality(B))
      /\ mem_used_blocks + Cardinality(B) \in 0 .. (WORD - 1)
  BY <1>2, WordPositive DEF TypeOK, Mark
<1>4. mem_used_blocks' = mem_used_blocks + Cardinality(B)
  BY <1>2, <1>3, U32Range
<1>5. Cardinality(In) <= Cardinality(B)
  BY <1>2, FS_Subset
<1>6. Cardinality(Used \cup In)
        = Cardinality(Used) + Cardinality(In) - Cardinality(Used \cap In)
  BY <1>2, FS_Union
<1>7. Cardinality(Used)' = Cardinality(Used \cup In)
  BY <1>1
<1>8. Cardinality(Used) <= mem_used_blocks
  BY DEF CounterBounds
<1>9. (Cardinality(Pool \cap bitmap) <= mem_used_blocks)'
  BY <1>2, <1>3, <1>4, <1>5, <1>6, <1>7, <1>8
<1>10. ASSUME B \subseteq FreeBlocks
       PROVE  Excess' = Excess
  <2>1. In = B /\ Used \cap In = {}
    BY <1>10 DEF FreeBlocks
  <2>2. Cardinality(Used \cap In) = 0
    BY <2>1, FS_EmptySet
  <2> QED
    BY <2>1, <2>2, <1>2, <1>3, <1>4, <1>6, <1>7, WordPositive DEF Excess
<1> QED
  BY <1>1, <1>3, <1>4, <1>9, <1>10

\* Unmarking marked blocks of the pool: the counter goes down by their number
\* and not below the marked blocks that are left.
LEMMA UnmarkEffect ==
  ASSUME TypeOK, CounterBounds, NEW B, Unmark(B), mem_blocks' = mem_blocks,
         B \subseteq Pool \cap bitmap
  PROVE  /\ bitmap' \subseteq 0 .. (ADDRESSABLE_BLOCKS - 1)
         /\ mem_used_blocks' \in 0 .. (WORD - 1)
         /\ mem_used_blocks' <= mem_used_blocks
         /\ (Cardinality(Pool \cap bitmap) <= mem_used_blocks)'
         /\ Excess' = Excess
<1> DEFINE Used == Pool \cap bitmap
<1>1. /\ bitmap' = bitmap \ B
      /\ bitmap' \subseteq 0 .. (ADDRESSABLE_BLOCKS - 1)
      /\ Used' = Used \ B
      /\ Used \cap B = B
  BY DEF Unmark, TypeOK, Pool
<1>2. /\ IsFiniteSet(Used) /\ Cardinality(Used) \in Nat
      /\ IsFiniteSet(B) /\ Cardinality(B) \in Nat
      /\ Cardinality(Used \ B) \in Nat
  <2>1. /\ Used \subseteq 0 .. (ADDRESSABLE_BLOCKS - 1)
        /\ B \subseteq 0 .. (ADDRESSABLE_BLOCKS - 1)
        /\ Used \ B \subseteq 0 .. (ADDRESSABLE_BLOCKS - 1)
    BY DEF TypeOK
  <2>2. IsFiniteSet(Used) /\ Cardinality(Used) \in Nat
    BY <2>1, BlockSetsFinite
  <2>3. IsFiniteSet(B) /\ Cardinality(B) \in Nat
    BY <2>1, BlockSetsFinite
  <2>4. Cardinality(Used \ B) \in Nat
    BY <2>1, BlockSetsFinite
  <2> QED
    BY <2>2, <2>3, <2>4
<1>3. Cardinality(Used \ B) = Cardinality(Used) - Cardinality(B)
  BY <1>1, <1>2, FS_Difference
<1>4. Cardinality(B) <= Cardinality(Used) /\ Cardinality(Used) <= mem_used_blocks
  BY <1>2, <1>3 DEF CounterBounds
<1>5. /\ mem_used_blocks \in 0 .. (WORD - 1)
      /\ mem_used_blocks' = U32(mem_used_blocks - Cardinality(B))
      /\ mem_used_blocks - Cardinality(B) \in 0 .. (WORD - 1)
  BY <1>2, <1>4, WordPositive DEF TypeOK, Unmark
<1>6. mem_used_blocks' = mem_used_blocks - Cardinality(B)
  BY <1>2, <1>5, U32Range, WordPositive
<1>7. Cardinality(Used)' = Cardinality(Used \ B)
  BY <1>1
<1>8. (Cardinality(Pool \cap bitmap) <= mem_used_blocks)'
  BY <1>2, <1>3, <1>4, <1>6, <1>7, WordPositive DEF TypeOK
<1>9. Excess' = Excess
  BY <1>2, <1>3, <1>5, <1>6, <1>7, WordPositive DEF Excess
<1> QED
  BY <1>1, <1>2, <1>5, <1>6, <1>8, <1>9, WordPositive

(***************************************************************************)
(* The invariant is inductive.                                             *)
(***************************************************************************)

\* At first nothing is counted, marked or owned.
LEMMA InitInv == Init => PmmInv
<1> SUFFICES ASSUME Init PROVE PmmInv
  OBVIOUS
<1>1. TypeOK
  BY ConstantAssumption, WordPositive DEF Init, TypeOK
<1>2. BootShape
  BY DEF Init, BootShape, NoInfo
<1>3. HeldSafe
  BY DEF Init, HeldSafe
<1>4. Cardinality(Pool \cap bitmap) = 0
  BY FS_EmptySet DEF Init
<1>5. CounterBounds
  BY <1>4, ConstantAssumption DEF Init, CounterBounds
<1> QED
  BY <1>1, <1>2, <1>3, <1>5 DEF PmmInv

\* While nothing is held, no block is owned.
LEMMA NothingHeld == held = {} => HeldSafe
  BY DEF HeldSafe

\* pmm_init begins: with a memory map, or with nothing to do.
LEMMA PmmInitStep ==
  ASSUME PmmInv, pmm_init
  PROVE  PmmInv'
<1> USE DEF PmmInv
<1>1. /\ info' \in BOOT_INFO /\ phase = "off" /\ phase' \in {"parse", "ready"}
      /\ entry = 1
  BY DEF pmm_init, BootShape
<1>2. info'.mmap \in Seq(Region) /\ Len(info'.mmap) \in Nat
  BY <1>1, BootInfoAssumption
<1>3. TypeOK'
  BY <1>1 DEF pmm_init, TypeOK
<1>4. /\ entry' = entry /\ held' = held /\ held = {} /\ bitmap' = bitmap
      /\ mem_used_blocks' = mem_used_blocks /\ mem_blocks' = mem_blocks
      /\ bitmap = {} /\ mem_used_blocks = 0 /\ mem_blocks = 0
  BY <1>1 DEF pmm_init, BootShape
<1>5. BootShape'
  BY <1>1, <1>2, <1>4 DEF BootShape
<1>6. HeldSafe'
  BY <1>4, NothingHeld DEF HeldSafe
<1>7. CounterBounds'
  BY <1>4 DEF CounterBounds, Pool
<1> QED
  BY <1>3, <1>5, <1>6, <1>7

\* Sizing: an available entry may raise mem_max_addr.
LEMMA ParseEntryStep ==
  ASSUME PmmInv, ParseEntry
  PROVE  PmmInv'
<1> USE DEF PmmInv
<1>1. /\ phase = "parse" /\ phase' = phase /\ info' = info
      /\ info \in BOOT_INFO /\ entry <= Len(info.mmap) /\ entry' = entry + 1
      /\ entry \in Nat \ {0} /\ held' = held /\ held = {} /\ bitmap' = bitmap
      /\ mem_used_blocks' = mem_used_blocks /\ mem_blocks' = mem_blocks
      /\ bitmap = {} /\ mem_used_blocks = 0 /\ mem_blocks = 0
  BY DEF ParseEntry, BootShape, TypeOK
<1>2. info.mmap \in Seq(Region) /\ info.mmap[entry] \in Region
  BY <1>1, BootInfoAssumption
<1>3. RegionEnd(info.mmap[entry]) \in 0 .. (WORD - 1)
  <2>1. info.mmap[entry].base + info.mmap[entry].length \in Int
    BY <1>2 DEF Region
  <2> QED
    BY <2>1, U32Range DEF RegionEnd
<1>4. TypeOK'
  BY <1>1, <1>3 DEF ParseEntry, TypeOK
<1>5. BootShape'
  BY <1>1, <1>2 DEF BootShape
<1>6. HeldSafe'
  BY <1>1 DEF HeldSafe
<1>7. CounterBounds'
  BY <1>1, ConstantAssumption DEF CounterBounds, Pool
<1> QED
  BY <1>4, <1>5, <1>6, <1>7

\* The bitmap's size is a natural number, so its end has a block number.
LEMMA KernelEnd ==
  ASSUME NEW addr \in Nat, NEW blocks \in Nat
  PROVE  BlocksBelowKernelEnd(addr, blocks) \in 0 .. (ADDRESSABLE_BLOCKS - 1)
<1>1. MapSize(blocks) \in Nat
  BY ConstantAssumption DEF MapSize
<1>2. U32(addr + MapSize(blocks)) \in 0 .. (WORD - 1)
  BY <1>1, U32Range
<1> QED
  BY <1>2, BlockOfAddress DEF BlocksBelowKernelEnd

\* Rounding up to a block wraps to 0 at the end of the address space.
LEMMA AlignUpRange ==
  ASSUME NEW a \in 0 .. (WORD - 1)
  PROVE  AlignUp(a) \in 0 .. (WORD - 1)
<1> DEFINE s == U32(a + BLOCK_SIZE - 1)
<1>1. s \in 0 .. (WORD - 1)
  BY U32Range, ConstantAssumption, WordPositive
<1> HIDE DEF s
<1>2. s % BLOCK_SIZE \in 0 .. s
  BY <1>1, ConstantAssumption, WordPositive
<1> QED
  BY <1>1, <1>2, WordPositive DEF AlignUp, s

\* The pool is sized, the bitmap placed, and what lies below its end marked.
LEMMA PlaceBitmapStep ==
  ASSUME PmmInv, PlaceBitmap
  PROVE  PmmInv'
<1> USE DEF PmmInv
<1>1. /\ phase = "parse" /\ phase' = "reserve" /\ info' = info
      /\ info \in BOOT_INFO /\ entry' = 1 /\ held' = held /\ held = {}
      /\ bitmap = {} /\ mem_used_blocks = 0
      /\ mem_max_addr' = mem_max_addr /\ mem_max_addr \in 0 .. (WORD - 1)
      /\ mem_blocks' = mem_max_addr \div BLOCK_SIZE
      /\ pmm_memory_map' = AlignUp(mem_max_addr)
  BY DEF PlaceBitmap, BootShape, TypeOK
<1>2. /\ mem_blocks' \in 0 .. (ADDRESSABLE_BLOCKS - 1)
      /\ pmm_memory_map' \in 0 .. (WORD - 1)
  BY <1>1, BlockOfAddress, AlignUpRange
<1> DEFINE low == BlocksBelowKernelEnd(pmm_memory_map', mem_blocks')
           B == 0 .. (low - 1)
<1>3. low \in 0 .. (ADDRESSABLE_BLOCKS - 1)
  BY <1>2, KernelEnd, ConstantAssumption, WordPositive
<1>4. Mark(B)
  BY DEF PlaceBitmap
<1> HIDE DEF low
<1>5. Cardinality(B) = low
  BY <1>3, FS_Interval
<1>6. /\ bitmap' = B
      /\ mem_used_blocks' = low
  <2>1. low \in 0 .. (WORD - 1)
    BY <1>3, ConstantAssumption, WordPositive
  <2>2. U32(0 + low) = low
    BY <2>1, U32Range, WordPositive
  <2> QED
    BY <1>1, <1>4, <1>5, <2>2 DEF Mark
<1>7. B \subseteq 0 .. (ADDRESSABLE_BLOCKS - 1)
  BY <1>3, ConstantAssumption
<1>8. TypeOK'
  BY <1>1, <1>2, <1>3, <1>6, <1>7, WordPositive, ConstantAssumption DEF TypeOK
<1>9. BootShape'
  <2>1. Len(info.mmap) \in Nat
    BY <1>1, BootInfoAssumption
  <2> QED
    BY <1>1, <2>1 DEF BootShape
<1>10. HeldSafe'
  BY <1>1 DEF HeldSafe
<1>11. CounterBounds'
  <2>1. Cardinality(Pool' \cap B) <= Cardinality(B)
    <3>1. IsFiniteSet(B)
      BY <1>3, FS_Interval, ConstantAssumption
    <3> QED
      BY <3>1, FS_Subset
  <2>2. mem_used_blocks' <= entry' * ADDRESSABLE_BLOCKS
    BY <1>1, <1>3, <1>6, ConstantAssumption
  <2> QED
    BY <2>1, <2>2, <1>5, <1>6 DEF CounterBounds
<1> QED
  BY <1>8, <1>9, <1>10, <1>11

\* A reserved entry marks its blocks, each one counted again.
LEMMA ReserveEntryStep ==
  ASSUME PmmInv, ReserveEntry
  PROVE  PmmInv'
<1> USE DEF PmmInv
<1> DEFINE r == info.mmap[entry]
           B == ReservedBlocks(r)
<1>1. /\ phase = "reserve" /\ phase' = phase /\ info' = info
      /\ info \in BOOT_INFO /\ entry <= Len(info.mmap) /\ entry' = entry + 1
      /\ entry \in Nat \ {0} /\ held' = held /\ held = {}
      /\ mem_max_addr' = mem_max_addr /\ mem_blocks' = mem_blocks
      /\ pmm_memory_map' = pmm_memory_map
  BY DEF ReserveEntry, BootShape, TypeOK
<1>2. Len(info.mmap) \in Nat
  BY <1>1, BootInfoAssumption
<1>3. BootShape'
  BY <1>1, <1>2 DEF BootShape
<1>4. HeldSafe'
  BY <1>1 DEF HeldSafe
<1>5. /\ B \subseteq 0 .. (ADDRESSABLE_BLOCKS - 1)
      /\ Cardinality(B) \in Nat /\ Cardinality(B) <= ADDRESSABLE_BLOCKS
  <2>1. B \subseteq 0 .. (ADDRESSABLE_BLOCKS - 1)
    BY ConstantAssumption DEF ReservedBlocks, Pool, TypeOK
  <2> QED
    BY <2>1, BlockSetsFinite
<1>6. /\ mem_used_blocks + ADDRESSABLE_BLOCKS < WORD
      /\ mem_used_blocks \in Nat
      /\ mem_used_blocks <= entry * ADDRESSABLE_BLOCKS
  BY <1>1, CounterRoom, WordPositive DEF TypeOK, CounterBounds
<1>7. entry' * ADDRESSABLE_BLOCKS = entry * ADDRESSABLE_BLOCKS + ADDRESSABLE_BLOCKS
  BY <1>1, ConstantAssumption
<1>8. CASE r.type # 1
  <2>1. Mark(B)
    BY <1>8 DEF ReserveEntry
  <2>2. mem_used_blocks + Cardinality(B) < WORD
    BY <1>5, <1>6, ConstantAssumption, WordPositive
  <2>3. /\ bitmap' \subseteq 0 .. (ADDRESSABLE_BLOCKS - 1)
        /\ mem_used_blocks' = mem_used_blocks + Cardinality(B)
        /\ mem_used_blocks' \in 0 .. (WORD - 1)
        /\ (Cardinality(Pool \cap bitmap) <= mem_used_blocks)'
    BY <1>1, <1>5, <2>1, <2>2, MarkEffect
  <2>4. TypeOK'
    BY <1>1, <2>3 DEF TypeOK
  <2>5. mem_used_blocks' <= entry' * ADDRESSABLE_BLOCKS
    BY <1>1, <1>5, <1>6, <1>7, <2>3, ConstantAssumption
  <2>6. CounterBounds'
    BY <2>3, <2>5 DEF CounterBounds
  <2> QED
    BY <1>3, <1>4, <2>4, <2>6
<1>9. CASE r.type = 1
  <2>1. bitmap' = bitmap /\ mem_used_blocks' = mem_used_blocks
    BY <1>9 DEF ReserveEntry
  <2>2. TypeOK'
    BY <1>1, <2>1 DEF TypeOK
  <2>3. mem_used_blocks' <= entry' * ADDRESSABLE_BLOCKS
    BY <1>1, <1>6, <1>7, <2>1, ConstantAssumption
  <2>4. CounterBounds'
    BY <1>1, <2>1, <2>3 DEF CounterBounds, Pool
  <2> QED
    BY <1>3, <1>4, <2>2, <2>4
<1> QED
  BY <1>8, <1>9

\* The end of pmm_init.
LEMMA InitDoneStep ==
  ASSUME PmmInv, InitDone
  PROVE  PmmInv'
<1>1. TypeOK'
  BY DEF InitDone, PmmInv, TypeOK
<1>2. BootShape'
  BY DEF InitDone, PmmInv, BootShape
<1>3. HeldSafe' /\ CounterBounds'
  BY DEF InitDone, PmmInv, HeldSafe, CounterBounds, Pool, Owned
<1> QED
  BY <1>1, <1>2, <1>3 DEF PmmInv

\* A call that found a run: all of it was free, the counter does not wrap, and
\* no other caller owns any of it.
LEMMA GiveStep ==
  ASSUME PmmInv, phase = "ready", UNCHANGED OtherVars,
         NEW size \in Nat, NEW s \in Pool, Finds(size, s), Give(s, size),
         U32(mem_used_blocks + size) <= mem_blocks
  PROVE  /\ PmmInv'
         /\ Run(s, size) \subseteq FreeBlocks
         /\ Excess' = Excess
<1> USE DEF PmmInv
<1> DEFINE B == Run(s, size)
<1>1. /\ size > 0 /\ B \subseteq FreeBlocks /\ Mark(B)
      /\ held' = IF s = 0 THEN held ELSE held \cup {<<s, size>>}
  BY DEF Finds, FreeRuns, Give
<1>2. /\ phase' = phase /\ info' = info /\ entry' = entry
      /\ mem_max_addr' = mem_max_addr /\ mem_blocks' = mem_blocks
      /\ pmm_memory_map' = pmm_memory_map
  BY DEF OtherVars
<1>3. /\ mem_blocks \in Nat /\ mem_blocks < ADDRESSABLE_BLOCKS /\ s \in Nat
      /\ mem_used_blocks \in Nat /\ entry \in Nat \ {0}
      /\ held \subseteq (Nat \X Nat)
  BY ConstantAssumption, WordPositive DEF TypeOK, Pool
<1>4. Cardinality(B) = size
  <2>1. s \in Int /\ s + size - 1 \in Int /\ ~(s > s + size - 1)
        /\ (s + size - 1) - s + 1 = size
    BY <1>1, <1>3
  <2> QED
    BY <2>1, FS_Interval DEF Run
<1>5. s + size - 1 \in Pool
  <2>1. s + size - 1 \in B
    BY <1>1, <1>3 DEF Run
  <2> QED
    BY <2>1, <1>1 DEF FreeBlocks
<1>6. size <= mem_blocks
  BY <1>3, <1>5 DEF Pool
<1>7. mem_used_blocks + size < WORD
  <2>1. mem_used_blocks + ADDRESSABLE_BLOCKS <= WORD
    BY CounterRoom
  <2> QED
    BY <2>1, <1>3, <1>6, ConstantAssumption, WordPositive
<1>8. B \subseteq 0 .. (ADDRESSABLE_BLOCKS - 1)
  BY <1>1, <1>3, ConstantAssumption DEF FreeBlocks, Pool
<1>9. /\ bitmap' \subseteq 0 .. (ADDRESSABLE_BLOCKS - 1)
      /\ mem_used_blocks' = mem_used_blocks + size
      /\ mem_used_blocks' \in 0 .. (WORD - 1)
      /\ (Cardinality(Pool \cap bitmap) <= mem_used_blocks)'
      /\ Excess' = Excess
  BY <1>1, <1>2, <1>4, <1>7, <1>8, MarkEffect
<1>10. TypeOK'
  BY <1>1, <1>2, <1>3, <1>9 DEF TypeOK
<1>11. BootShape'
  BY <1>2 DEF BootShape
<1>12. HeldSafe'
  <2>1. bitmap' = bitmap \cup B /\ Pool' = Pool
    BY <1>1, <1>2 DEF Mark, Pool
  <2>2. \A r \in held : Owned(r) \subseteq Pool \cap bitmap
    BY DEF HeldSafe
  <2>3. B \cap bitmap = {} /\ B \subseteq Pool
    BY <1>1 DEF FreeBlocks
  <2>4. Owned(<<s, size>>) = B
    BY DEF Owned
  <2>5. \A r \in held' : r \in held \/ r = <<s, size>>
    BY <1>1
  <2>6. ASSUME NEW r \in held' PROVE Owned(r) \subseteq Pool' \cap bitmap'
    BY <2>1, <2>2, <2>3, <2>4, <2>5
  <2>7. ASSUME NEW r \in held', NEW q \in held', r # q
        PROVE  Owned(r) \cap Owned(q) = {}
    <3>1. CASE r \in held /\ q \in held
      BY <3>1, <2>7 DEF HeldSafe
    <3>2. CASE r \in held /\ q = <<s, size>>
      BY <3>2, <2>2, <2>3, <2>4
    <3>3. CASE r = <<s, size>> /\ q \in held
      BY <3>3, <2>2, <2>3, <2>4
    <3> QED
      BY <2>5, <2>7, <3>1, <3>2, <3>3
  <2>8. \A r : Owned(r)' = Owned(r)
    BY DEF Owned, Run
  <2> QED
    BY <2>6, <2>7, <2>8 DEF HeldSafe, Owned, Run
<1>13. CounterBounds'
  <2>1. U32(mem_used_blocks + size) = mem_used_blocks + size
    BY <1>3, <1>7, U32Range, WordPositive
  <2>2. mem_used_blocks' <= ADDRESSABLE_BLOCKS
    BY <1>3, <1>9, <2>1, ConstantAssumption
  <2>3. ADDRESSABLE_BLOCKS <= entry * ADDRESSABLE_BLOCKS
    BY <1>3, ConstantAssumption
  <2>4. mem_used_blocks' <= entry' * ADDRESSABLE_BLOCKS
    BY <1>2, <1>3, <1>9, <2>2, <2>3, ConstantAssumption
  <2> QED
    BY <1>9, <2>4 DEF CounterBounds
<1> QED
  BY <1>1, <1>9, <1>10, <1>11, <1>12, <1>13

\* pmm_alloc_block gives out one free block.
LEMMA AllocBlockStep ==
  ASSUME PmmInv, pmm_alloc_block
  PROVE  /\ PmmInv' /\ Excess' = Excess
         /\ \E s \in Pool : Run(s, 1) \subseteq FreeBlocks /\ Give(s, 1)
<1>1. /\ phase = "ready" /\ UNCHANGED OtherVars
      /\ mem_used_blocks < mem_blocks
  BY DEF pmm_alloc_block
<1>2. PICK s \in Pool : Finds(1, s) /\ Give(s, 1)
  BY DEF pmm_alloc_block
<1>3. U32(mem_used_blocks + 1) <= mem_blocks
  <2>1. /\ mem_used_blocks \in Nat /\ mem_blocks \in Nat
        /\ mem_blocks < ADDRESSABLE_BLOCKS
    BY ConstantAssumption, WordPositive DEF PmmInv, TypeOK
  <2>2. mem_used_blocks + 1 \in 0 .. (WORD - 1)
    BY <1>1, <2>1, ConstantAssumption, WordPositive
  <2>3. U32(mem_used_blocks + 1) = mem_used_blocks + 1
    BY <2>1, <2>2, U32Range
  <2> QED
    BY <1>1, <2>1, <2>3
<1>4. PmmInv' /\ Run(s, 1) \subseteq FreeBlocks /\ Excess' = Excess
  BY <1>1, <1>2, <1>3, GiveStep
<1> QED
  BY <1>2, <1>4

\* pmm_alloc_blocks gives out a run of free blocks.
LEMMA AllocBlocksStep ==
  ASSUME PmmInv, NEW size \in RUN_SIZES, pmm_alloc_blocks(size)
  PROVE  /\ PmmInv' /\ Excess' = Excess
         /\ size > 0
         /\ \E s \in Pool : Run(s, size) \subseteq FreeBlocks /\ Give(s, size)
<1>1. /\ phase = "ready" /\ UNCHANGED OtherVars
      /\ U32(mem_used_blocks + size) <= mem_blocks
      /\ size \in Nat
  BY ConstantAssumption DEF pmm_alloc_blocks
<1>2. PICK s \in Pool : Finds(size, s) /\ Give(s, size)
  BY DEF pmm_alloc_blocks
<1>3. PmmInv' /\ Run(s, size) \subseteq FreeBlocks /\ Excess' = Excess
  BY <1>1, <1>2, GiveStep
<1> QED
  BY <1>2, <1>3 DEF Finds

\* A free of a held run clears exactly its bits and leaves the others' alone.
LEMMA FreeStep ==
  ASSUME PmmInv, phase = "ready", UNCHANGED OtherVars,
         NEW run \in held, Unmark(Owned(run)), held' = held \ {run}
  PROVE  PmmInv' /\ Excess' = Excess
<1> USE DEF PmmInv
<1>1. /\ phase' = phase /\ info' = info /\ entry' = entry
      /\ mem_max_addr' = mem_max_addr /\ mem_blocks' = mem_blocks
      /\ pmm_memory_map' = pmm_memory_map
  BY DEF OtherVars
<1>2. Owned(run) \subseteq Pool \cap bitmap
  BY DEF HeldSafe
<1>3. /\ bitmap' \subseteq 0 .. (ADDRESSABLE_BLOCKS - 1)
      /\ mem_used_blocks' \in 0 .. (WORD - 1)
      /\ mem_used_blocks' <= mem_used_blocks
      /\ (Cardinality(Pool \cap bitmap) <= mem_used_blocks)'
      /\ Excess' = Excess
  BY <1>1, <1>2, UnmarkEffect
<1>4. TypeOK'
  BY <1>1, <1>3 DEF TypeOK
<1>5. BootShape'
  BY <1>1 DEF BootShape
<1>6. HeldSafe'
  <2>1. bitmap' = bitmap \ Owned(run) /\ Pool' = Pool
    BY <1>1 DEF Unmark, Pool
  <2>2. \A r \in held' : r \in held /\ Owned(r) \cap Owned(run) = {}
    BY DEF HeldSafe
  <2>3. \A r : Owned(r)' = Owned(r)
    BY DEF Owned, Run
  <2> QED
    BY <2>1, <2>2, <2>3 DEF HeldSafe, Owned, Run
<1>7. CounterBounds'
  <2>1. mem_used_blocks' <= entry' * ADDRESSABLE_BLOCKS
    BY <1>1, <1>3, ConstantAssumption, WordPositive DEF CounterBounds, TypeOK
  <2> QED
    BY <1>3, <2>1 DEF CounterBounds
<1> QED
  BY <1>3, <1>4, <1>5, <1>6, <1>7

\* pmm_free_block takes one owned block back.
LEMMA FreeBlockStep ==
  ASSUME PmmInv, NEW run \in held, pmm_free_block(run)
  PROVE  PmmInv' /\ Excess' = Excess /\ Unmark(Owned(run))
<1>1. /\ phase = "ready" /\ UNCHANGED OtherVars /\ held' = held \ {run}
      /\ run[2] = 1 /\ run[1] \in Nat
  BY DEF pmm_free_block, PmmInv, TypeOK
<1>2. Owned(run) = {run[1]}
  BY <1>1 DEF Owned, Run
<1>3. run[1] \in Pool
  BY <1>2 DEF PmmInv, HeldSafe
<1>4. Unmark(Owned(run))
  <2>1. ~(run[1] >= mem_blocks)
    BY <1>3, ConstantAssumption DEF Pool, PmmInv, TypeOK
  <2> QED
    BY <1>2, <2>1 DEF pmm_free_block
<1> QED
  BY <1>1, <1>4, FreeStep

\* pmm_free_blocks takes an owned run back.
LEMMA FreeBlocksStep ==
  ASSUME PmmInv, NEW run \in held, pmm_free_blocks(run)
  PROVE  PmmInv' /\ Excess' = Excess /\ Unmark(Owned(run))
<1>1. /\ phase = "ready" /\ UNCHANGED OtherVars /\ held' = held \ {run}
  BY DEF pmm_free_blocks
<1>2. Run(run[1], run[2]) \cap Pool = Owned(run)
  BY DEF PmmInv, HeldSafe, Owned
<1>3. Unmark(Owned(run))
  BY <1>2 DEF pmm_free_blocks
<1> QED
  BY <1>1, <1>3, FreeStep

\* A step that changes nothing.
LEMMA StutterStep ==
  ASSUME PmmInv, UNCHANGED vars
  PROVE  PmmInv' /\ Excess' = Excess
<1>1. TypeOK' /\ BootShape' /\ CounterBounds' /\ Excess' = Excess
  BY DEF vars, PmmInv, TypeOK, BootShape, CounterBounds, Pool, Excess
<1>2. HeldSafe'
  BY DEF vars, PmmInv, HeldSafe, Owned, Run, Pool
<1> QED
  BY <1>1, <1>2 DEF PmmInv

\* One case per action of Next.
LEMMA NextInv == PmmInv /\ [Next]_vars => PmmInv'
<1> SUFFICES ASSUME PmmInv, [Next]_vars PROVE PmmInv'
  OBVIOUS
<1>1. CASE pmm_init
  BY <1>1, PmmInitStep
<1>2. CASE ParseEntry
  BY <1>2, ParseEntryStep
<1>3. CASE PlaceBitmap
  BY <1>3, PlaceBitmapStep
<1>4. CASE ReserveEntry
  BY <1>4, ReserveEntryStep
<1>5. CASE InitDone
  BY <1>5, InitDoneStep
<1>6. CASE pmm_alloc_block
  BY <1>6, AllocBlockStep
<1>7. CASE pmm_alloc_block_fails
  BY <1>7, StutterStep DEF pmm_alloc_block_fails
<1>8. ASSUME NEW size \in RUN_SIZES, pmm_alloc_blocks(size) PROVE PmmInv'
  BY <1>8, AllocBlocksStep
<1>9. ASSUME NEW size \in RUN_SIZES, pmm_alloc_blocks_fails(size) PROVE PmmInv'
  BY <1>9, StutterStep DEF pmm_alloc_blocks_fails
<1>10. ASSUME NEW run \in held, pmm_free_block(run) PROVE PmmInv'
  BY <1>10, FreeBlockStep
<1>11. ASSUME NEW run \in held, pmm_free_blocks(run) PROVE PmmInv'
  BY <1>11, FreeBlocksStep
<1>12. CASE UNCHANGED vars
  BY <1>12, StutterStep
<1> QED
  BY <1>1, <1>2, <1>3, <1>4, <1>5, <1>6, <1>7, <1>8, <1>9, <1>10, <1>11,
     <1>12 DEF Next, BootNext

\* PmmInv is an invariant.
LEMMA SpecInv == Spec => []PmmInv
  BY InitInv, NextInv, PTL DEF Spec

(***************************************************************************)
(* The theorems.                                                           *)
(***************************************************************************)

\* Type correctness: with at most the assumed number of map entries every
\* 32-bit variable stays in its range and no block number is out of range.
THEOREM TypeCorrect == Spec => []TypeOK
<1>1. PmmInv => TypeOK
  BY DEF PmmInv
<1> QED
  BY <1>1, SpecInv, PTL

\* The allocation calls of pmm.c never give a block to two callers, and every
\* owned block stays marked until its owner frees it.
THEOREM OwnersAreSafe == Spec => []HeldSafe
<1>1. PmmInv => HeldSafe
  BY DEF PmmInv
<1> QED
  BY <1>1, SpecInv, PTL

\* The counter test of pmm_alloc_block is enough: the search behind it finds a
\* block whenever mem_used_blocks < mem_blocks.
THEOREM CounterIsSound == Spec => []CounterCheckSound
<1>1. ASSUME PmmInv PROVE CounterCheckSound
  <2> SUFFICES ASSUME phase = "ready", mem_used_blocks < mem_blocks
               PROVE  ~FindsNone(1)
    BY DEF CounterCheckSound
  <2>1. /\ mem_blocks \in Nat /\ mem_used_blocks \in Nat
        /\ Cardinality(Pool \cap bitmap) <= mem_used_blocks
    BY <1>1, ConstantAssumption, WordPositive DEF PmmInv, TypeOK, CounterBounds
  <2>2. IsFiniteSet(Pool) /\ Cardinality(Pool) = mem_blocks
    BY <2>1, FS_Interval DEF Pool
  <2>3. Cardinality(Pool \cap bitmap) \in Nat
    BY <2>2, FS_Intersection, FS_CardinalityType
  <2>4. Pool \cap bitmap # Pool
    BY <2>1, <2>2, <2>3
  <2>5. PICK b \in Pool : b \notin bitmap
    BY <2>4
  <2>6. Run(b, 1) = {b}
    BY <2>1, <2>5 DEF Run, Pool
  <2>7. b \in FreeRuns(1)
    BY <2>5, <2>6 DEF FreeRuns, FreeBlocks
  <2> QED
    BY <2>7 DEF FindsNone
<1> QED
  BY <1>1, SpecInv, PTL

\* A step taken after pmm_init is an allocation of free blocks, a free of a
\* held run, or changes nothing.
LEMMA ReadySteps ==
  ASSUME PmmInv, phase = "ready", [Next]_vars
  PROVE  \/ \E size \in (RUN_SIZES \cup {1}) \ {0} : \E s \in Pool :
               /\ Run(s, size) \subseteq FreeBlocks
               /\ Give(s, size)
               /\ UNCHANGED OtherVars
               /\ Excess' = Excess
         \/ \E run \in held :
               /\ Unmark(Owned(run))
               /\ held' = held \ {run}
               /\ UNCHANGED OtherVars
               /\ Excess' = Excess
         \/ UNCHANGED vars /\ Excess' = Excess
<1>1. ~BootNext
  BY DEF BootNext, pmm_init, ParseEntry, PlaceBitmap, ReserveEntry, InitDone
<1>2. CASE pmm_alloc_block
  BY <1>2, AllocBlockStep, ConstantAssumption DEF pmm_alloc_block
<1>3. CASE pmm_alloc_block_fails
  BY <1>3, StutterStep DEF pmm_alloc_block_fails
<1>4. ASSUME NEW size \in RUN_SIZES, pmm_alloc_blocks(size)
      PROVE  \E n \in (RUN_SIZES \cup {1}) \ {0} : \E s \in Pool :
               /\ Run(s, n) \subseteq FreeBlocks
               /\ Give(s, n)
               /\ UNCHANGED OtherVars
               /\ Excess' = Excess
  <2>1. size \in (RUN_SIZES \cup {1}) \ {0} /\ UNCHANGED OtherVars
    BY <1>4, AllocBlocksStep, ConstantAssumption DEF pmm_alloc_blocks
  <2> QED
    BY <2>1, <1>4, AllocBlocksStep
<1>5. ASSUME NEW size \in RUN_SIZES, pmm_alloc_blocks_fails(size)
      PROVE  UNCHANGED vars /\ Excess' = Excess
  BY <1>5, StutterStep DEF pmm_alloc_blocks_fails
<1>6. ASSUME NEW run \in held, pmm_free_block(run)
      PROVE  /\ Unmark(Owned(run)) /\ held' = held \ {run}
             /\ UNCHANGED OtherVars /\ Excess' = Excess
  BY <1>6, FreeBlockStep DEF pmm_free_block
<1>7. ASSUME NEW run \in held, pmm_free_blocks(run)
      PROVE  /\ Unmark(Owned(run)) /\ held' = held \ {run}
             /\ UNCHANGED OtherVars /\ Excess' = Excess
  BY <1>7, FreeBlocksStep DEF pmm_free_blocks
<1>8. CASE UNCHANGED vars
  BY <1>8, StutterStep
<1> QED
  BY <1>1, <1>2, <1>3, <1>4, <1>5, <1>6, <1>7, <1>8 DEF Next

\* The free count reported by pmm_get_free_block_count is wrong by what
\* pmm_init made it, for as long as the kernel runs.
THEOREM ExcessIsPermanent == Spec => ExcessNeverChanges
<1>1. ASSUME PmmInv, [Next]_vars PROVE [phase = "ready" => Excess' = Excess]_vars
  BY <1>1, ReadySteps
<1> QED
  BY <1>1, SpecInv, PTL DEF Spec, ExcessNeverChanges

\* Reserved, kernel and lost blocks never come back into circulation.
THEOREM WithdrawnIsPermanent == Spec => WithdrawnForGood
<1>1. ASSUME PmmInv, [Next]_vars, phase = "ready", NEW b \in Withdrawn
      PROVE  b \in Withdrawn'
  <2>1. b \in bitmap /\ \A r \in held : b \notin Owned(r)
    BY <1>1 DEF Withdrawn, HeldBlocks
  <2>2. SUFFICES b \in bitmap' /\ \A r \in held' : b \notin Owned(r)
    BY DEF Withdrawn, HeldBlocks, Owned, Run
  <2>3. ASSUME NEW size, NEW s, Run(s, size) \subseteq FreeBlocks, Give(s, size)
        PROVE  b \in bitmap' /\ \A r \in held' : b \notin Owned(r)
    <3>1. b \notin Run(s, size)
      BY <2>1, <2>3 DEF FreeBlocks
    <3>2. \A r \in held' : r \in held \/ Owned(r) = Run(s, size)
      BY <2>3 DEF Give, Owned
    <3> QED
      BY <2>1, <2>3, <3>1, <3>2 DEF Give, Mark
  <2>4. ASSUME NEW run \in held, Unmark(Owned(run)), held' = held \ {run}
        PROVE  b \in bitmap' /\ \A r \in held' : b \notin Owned(r)
    BY <2>1, <2>4 DEF Unmark
  <2>5. CASE UNCHANGED vars
    BY <2>1, <2>5 DEF vars
  <2> QED
    BY <1>1, <2>3, <2>4, <2>5, ReadySteps
<1>2. ASSUME PmmInv, [Next]_vars
      PROVE  [phase = "ready" => Withdrawn \subseteq Withdrawn']_vars
  BY <1>1, <1>2
<1> QED
  BY <1>2, SpecInv, PTL DEF Spec, WithdrawnForGood

\* pmm.c implements the abstract allocator.
THEOREM PmmImplementsAllocator == Spec => ImplementsAllocator
<1> DEFINE open == phase = "ready"
           avail == IF phase = "ready" THEN FreeBlocks ELSE {}
<1>1. Init => Allocator!Init
  BY DEF Init, Allocator!Init
<1>2. ASSUME PmmInv, PmmInv', [Next]_vars
      PROVE  [Allocator!Next]_(Allocator!vars)
  <2>1. CASE phase = "ready"
    <3>1. ASSUME NEW size \in (RUN_SIZES \cup {1}) \ {0}, NEW s \in Pool,
                 Run(s, size) \subseteq FreeBlocks, Give(s, size),
                 UNCHANGED OtherVars
          PROVE  Allocator!Alloc
      <4>1. phase' = "ready" /\ Pool' = Pool
        BY <2>1, <3>1 DEF OtherVars, Pool
      <4>2. avail = FreeBlocks /\ avail' = FreeBlocks \ Run(s, size)
        BY <2>1, <3>1, <4>1 DEF Give, Mark, FreeBlocks
      <4>3. s \in FreeBlocks
        <5>1. size \in Nat /\ size > 0 /\ s \in Nat
          BY <3>1, ConstantAssumption DEF Pool, PmmInv, TypeOK
        <5>2. s \in Run(s, size)
          BY <5>1 DEF Run
        <5> QED
          BY <3>1, <5>2
      <4> QED
        BY <2>1, <3>1, <4>1, <4>2, <4>3
           DEF Allocator!Alloc, Allocator!Blocks, Run, Give
    <3>2. ASSUME NEW run \in held, Unmark(Owned(run)), held' = held \ {run},
                 UNCHANGED OtherVars
          PROVE  Allocator!Free
      <4>1. phase' = "ready" /\ Pool' = Pool
        BY <2>1, <3>2 DEF OtherVars, Pool
      <4>2. Owned(run) \subseteq Pool
        BY <1>2 DEF PmmInv, HeldSafe
      <4>3. avail = FreeBlocks /\ avail' = FreeBlocks \cup Owned(run)
        BY <2>1, <3>2, <4>1, <4>2 DEF Unmark, FreeBlocks
      <4> QED
        BY <2>1, <3>2, <4>1, <4>3
           DEF Allocator!Free, Allocator!Blocks, Owned, Run
    <3>3. CASE UNCHANGED vars
      BY <3>3 DEF vars, Allocator!vars, FreeBlocks, Pool
    <3> QED
      BY <1>2, <2>1, <3>1, <3>2, <3>3, ReadySteps DEF Allocator!Next
  <2>2. CASE phase # "ready"
    <3>1. CASE phase' = "ready"
      <4>1. held = {} /\ held' = {}
        BY <1>2, <2>2, <3>1 DEF PmmInv, BootShape, Next, BootNext, vars,
           pmm_init, ParseEntry, PlaceBitmap, ReserveEntry, InitDone,
           pmm_alloc_block, pmm_alloc_block_fails, pmm_alloc_blocks,
           pmm_alloc_blocks_fails, pmm_free_block, pmm_free_blocks
      <4>2. FreeBlocks' \in SUBSET (0 .. (ADDRESSABLE_BLOCKS - 1))
        <5>1. mem_blocks' \in 0 .. (ADDRESSABLE_BLOCKS - 1)
          BY <1>2 DEF PmmInv, TypeOK
        <5>2. 0 .. (mem_blocks' - 1) \subseteq 0 .. (ADDRESSABLE_BLOCKS - 1)
          BY <5>1, PoolRange
        <5> QED
          BY <5>2 DEF FreeBlocks, Pool
      <4> QED
        BY <2>2, <3>1, <4>1, <4>2 DEF Allocator!Open, Allocator!Next
    <3>2. CASE phase' # "ready"
      BY <1>2, <2>2, <3>2 DEF PmmInv, BootShape, Allocator!vars
    <3> QED
      BY <3>1, <3>2
  <2> QED
    BY <2>1, <2>2
<1> QED
  BY <1>1, <1>2, SpecInv, PTL DEF Spec, ImplementsAllocator, Allocator!Spec

(***************************************************************************)
(* PmmScan: the search bit by bit.                                         *)
(***************************************************************************)

\* What a call knows of its parameter and of the counter it has tested.
CallInv ==
    /\ call \in {"none", "pmm_alloc_block", "pmm_alloc_blocks"}
    /\ count \in Nat /\ i \in Nat /\ free_blocks \in Nat /\ first_free \in Int
    /\ call # "none" => phase = "ready"
    /\ call = "pmm_alloc_block" => count = 1 /\ mem_used_blocks < mem_blocks
    /\ call = "pmm_alloc_blocks" =>
          count \in RUN_SIZES /\ U32(mem_used_blocks + count) <= mem_blocks

ScanInv == PmmInv /\ CallInv /\ LoopInv

\* No call is under way at first.
LEMMA ScanInitInv == ScanInit => ScanInv
  BY InitInv DEF ScanInit, ScanInv, CallInv, LoopInv

\* Counting from first_free or from i, the run begins free_blocks before i.
LEMMA RunStartValue ==
  ASSUME i \in Nat, free_blocks \in Nat,
         free_blocks # 0 => first_free = i - free_blocks
  PROVE  RunStart = i - free_blocks
<1>1. CASE free_blocks = 0
  <2>1. RunStart = i
    BY <1>1 DEF RunStart
  <2> QED
    BY <1>1, <2>1
<1>2. CASE free_blocks # 0
  <2>1. RunStart = first_free
    BY <1>2 DEF RunStart
  <2> QED
    BY <1>2, <2>1
<1> QED
  BY <1>1, <1>2

\* When the scan succeeds, what it found is what Finds describes.
LEMMA ScanFound ==
  ASSUME ScanInv, ScanFinds
  PROVE  /\ RunStart = i - free_blocks
         /\ RunStart \in Pool
         /\ Finds(count, RunStart)
<1>1. /\ call # "none" /\ count # 0 /\ i < mem_blocks /\ i \notin bitmap
      /\ free_blocks + 1 = count
      /\ mem_blocks \in Nat /\ i \in Nat /\ free_blocks \in Nat /\ count \in Nat
  <2>1. mem_blocks \in Nat
    BY ConstantAssumption DEF ScanInv, PmmInv, TypeOK
  <2>2. i \in Nat /\ free_blocks \in Nat /\ count \in Nat
    BY DEF ScanInv, CallInv
  <2>3. /\ call # "none" /\ count # 0 /\ i < mem_blocks /\ i \notin bitmap
        /\ free_blocks + 1 = count
    BY DEF ScanFinds, Scanning
  <2> QED
    BY <2>1, <2>2, <2>3
<1>2. /\ free_blocks <= i
      /\ free_blocks # 0 => first_free = i - free_blocks
      /\ \A b \in (i - free_blocks) .. (i - 1) : b \in FreeBlocks
      /\ \A s \in FreeRuns(count) : s >= i - free_blocks
  BY <1>1 DEF ScanInv, LoopInv
<1>3. RunStart = i - free_blocks
  BY <1>1, <1>2, RunStartValue
<1>4. RunStart \in Pool
  BY <1>1, <1>2, <1>3 DEF Pool
<1>5. Run(RunStart, count) \subseteq FreeBlocks
  <2>1. i \in FreeBlocks
    BY <1>1 DEF FreeBlocks, Pool
  <2>2. ASSUME NEW b \in Run(RunStart, count)
        PROVE  b = i \/ b \in (i - free_blocks) .. (i - 1)
    BY <1>1, <1>3, <2>2 DEF Run
  <2> QED
    BY <1>2, <2>1, <2>2
<1> QED
  BY <1>1, <1>2, <1>3, <1>4, <1>5 DEF Finds, FreeRuns

\* Past a used block no run can begin at or before it.
LEMMA RunsBeginLater ==
  ASSUME ScanInv, Scanning, i \in bitmap, NEW s \in FreeRuns(count)
  PROVE  s >= i + 1
<1>1. /\ s \in Nat /\ i \in Nat /\ count \in Nat /\ free_blocks \in Nat
      /\ free_blocks < count /\ s >= i - free_blocks
      /\ Run(s, count) \subseteq FreeBlocks
  BY ConstantAssumption DEF Scanning, ScanInv, CallInv, LoopInv, FreeRuns,
     Pool, PmmInv, TypeOK
<1>2. i \notin Run(s, count)
  BY <1>1 DEF FreeBlocks
<1> QED
  BY <1>1, <1>2 DEF Run

\* Every step of the loops is a step of Pmm, or leaves its variables alone.
LEMMA ScanStepMaps ==
  ASSUME ScanInv, [ScanNext]_allVars
  PROVE  [Next]_vars
<1>1. CASE call = "none" /\ (BootNext \/ \E run \in held :
                                pmm_free_block(run) \/ pmm_free_blocks(run))
  BY <1>1 DEF Next
<1>2. CASE ScanFinds
  <2>1. /\ Finds(count, RunStart) /\ RunStart \in Pool
        /\ Give(RunStart, count) /\ UNCHANGED OtherVars
        /\ call # "none" /\ phase = "ready"
    BY <1>2, ScanFound DEF ScanFinds, Scanning, ScanInv, CallInv
  <2>2. CASE call = "pmm_alloc_block"
    BY <2>1, <2>2 DEF ScanInv, CallInv, pmm_alloc_block, Next
  <2>3. CASE call = "pmm_alloc_blocks"
    BY <2>1, <2>3 DEF ScanInv, CallInv, pmm_alloc_blocks, Next
  <2> QED
    BY <2>1, <2>2, <2>3 DEF ScanInv, CallInv
<1>3. CASE UNCHANGED vars
  BY <1>3
<1> QED
  BY <1>1, <1>2, <1>3 DEF ScanNext, StartAllocBlock, StartAllocBlocks, RefuseBlock, RefuseRun,
     ScanFails, ScanUsedBlock, ScanFreeBlock, allVars

\* The loop invariant depends on the bitmap and mem_blocks only.
LEMMA FreeRunsStable ==
  ASSUME UNCHANGED vars
  PROVE  /\ FreeBlocks' = FreeBlocks /\ Pool' = Pool
         /\ \A size : FreeRuns(size)' = FreeRuns(size)
  BY DEF vars, FreeBlocks, FreeRuns, Pool, Run

\* One case per action of ScanNext.
LEMMA ScanNextInv == ScanInv /\ [ScanNext]_allVars => ScanInv'
<1> SUFFICES ASSUME ScanInv, [ScanNext]_allVars PROVE ScanInv'
  OBVIOUS
<1>1. PmmInv'
  BY ScanStepMaps, NextInv DEF ScanInv
<1>2. mem_blocks \in Nat
  BY ConstantAssumption DEF ScanInv, PmmInv, TypeOK
<1>3. CASE call' = "none" /\ UNCHANGED <<count, i, free_blocks, first_free>>
  BY <1>1, <1>3 DEF ScanInv, CallInv, LoopInv
<1>4. ASSUME NEW name \in {"pmm_alloc_block", "pmm_alloc_blocks"},
             NEW size \in Nat, StartScan(name, size), UNCHANGED vars
      PROVE  LoopInv'
  <2>1. i' = 0 /\ free_blocks' = 0 /\ count' = size /\ mem_blocks' = mem_blocks
    BY <1>4 DEF StartScan, vars
  <2>2. \A s \in FreeRuns(size) : s >= 0
    BY <1>2 DEF FreeRuns, Pool
  <2>3. \A s \in FreeRuns(count)' : s >= i' - free_blocks'
    BY <1>4, <2>1, <2>2, FreeRunsStable
  <2> QED
    BY <1>2, <2>1, <2>3 DEF LoopInv
<1>5. CASE StartAllocBlock
  <2>1. LoopInv'
    BY <1>4, <1>5 DEF StartAllocBlock
  <2>2. CallInv'
    BY <1>5 DEF StartAllocBlock, StartScan, CallInv, vars
  <2> QED
    BY <1>1, <2>1, <2>2 DEF ScanInv
<1>6. ASSUME NEW size \in RUN_SIZES, StartAllocBlocks(size) PROVE ScanInv'
  <2>1. LoopInv'
    BY <1>4, <1>6, ConstantAssumption DEF StartAllocBlocks
  <2>2. CallInv'
    <3>1. U32(mem_used_blocks' + count') = U32(mem_used_blocks + size)
      BY <1>6 DEF StartAllocBlocks, StartScan, vars
    <3> QED
      BY <1>6, <3>1, ConstantAssumption
         DEF StartAllocBlocks, StartScan, CallInv, vars
  <2> QED
    BY <1>1, <2>1, <2>2 DEF ScanInv
<1>7. CASE ScanUsedBlock
  <2>1. /\ i' = i + 1 /\ free_blocks' = 0 /\ first_free' = -1 /\ call' = call
        /\ count' = count /\ mem_blocks' = mem_blocks /\ UNCHANGED vars
        /\ Scanning /\ i \in bitmap /\ i \in Nat /\ count \in Nat
        /\ i < mem_blocks /\ count # 0
    BY <1>7 DEF ScanUsedBlock, Scanning, vars, ScanInv, CallInv
  <2>2. \A s \in FreeRuns(count)' : s >= i' - free_blocks'
    BY <2>1, RunsBeginLater, FreeRunsStable
  <2>3. LoopInv'
    BY <1>2, <2>1, <2>2 DEF LoopInv
  <2>4. CallInv'
    BY <2>1 DEF ScanInv, CallInv, vars, U32
  <2> QED
    BY <1>1, <2>3, <2>4 DEF ScanInv
<1>8. CASE ScanFreeBlock
  <2>1. /\ i' = i + 1 /\ free_blocks' = free_blocks + 1 /\ first_free' = RunStart
        /\ call' = call /\ count' = count /\ mem_blocks' = mem_blocks
        /\ UNCHANGED vars /\ call # "none" /\ i \notin bitmap /\ i < mem_blocks
        /\ count # 0 /\ free_blocks + 1 # count
        /\ i \in Nat /\ count \in Nat /\ free_blocks \in Nat
    BY <1>8 DEF ScanFreeBlock, Scanning, vars, ScanInv, CallInv
  <2>2. /\ free_blocks <= i /\ free_blocks < count
        /\ free_blocks # 0 => first_free = i - free_blocks
        /\ \A b \in (i - free_blocks) .. (i - 1) : b \in FreeBlocks
        /\ \A s \in FreeRuns(count) : s >= i - free_blocks
    BY <2>1 DEF ScanInv, LoopInv
  <2>3. first_free' = i' - free_blocks' /\ i' - free_blocks' = i - free_blocks
    <3>1. free_blocks # 0 => first_free = i - free_blocks
      BY <2>2
    <3>2. RunStart = i - free_blocks
      BY <2>1, <3>1, RunStartValue
    <3> QED
      BY <2>1, <3>2
  <2>4. i \in FreeBlocks
    BY <1>2, <2>1 DEF FreeBlocks, Pool
  <2>5. ASSUME NEW b \in (i' - free_blocks') .. (i' - 1)
        PROVE  b \in FreeBlocks'
    <3>1. b = i \/ b \in (i - free_blocks) .. (i - 1)
      BY <2>1, <2>2, <2>3
    <3> QED
      BY <2>1, <2>2, <2>4, <3>1, FreeRunsStable
  <2>6. \A s \in FreeRuns(count)' : s >= i' - free_blocks'
    BY <2>1, <2>2, <2>3, FreeRunsStable
  <2>7. /\ i' \in 0 .. mem_blocks' /\ free_blocks' \in 0 .. i'
        /\ free_blocks' < count'
    BY <1>2, <2>1, <2>2
  <2>8. LoopInv'
    <3>1. count' # 0 /\ first_free' = i' - free_blocks'
      BY <2>1, <2>3
    <3> QED
      BY <2>5, <2>6, <2>7, <3>1 DEF LoopInv
  <2>9. CallInv'
    BY <2>1, <2>3 DEF ScanInv, CallInv, vars, U32
  <2> QED
    BY <1>1, <2>8, <2>9 DEF ScanInv
<1>9. CASE UNCHANGED allVars
  <2>1. UNCHANGED vars
    BY <1>9 DEF allVars
  <2>2. LoopInv'
    BY <1>9, <2>1, FreeRunsStable DEF ScanInv, LoopInv, allVars, scanVars, vars
  <2>3. CallInv'
    BY <1>9 DEF ScanInv, CallInv, allVars, scanVars, vars, U32
  <2> QED
    BY <1>1, <2>2, <2>3 DEF ScanInv
<1> QED
  BY <1>3, <1>5, <1>6, <1>7, <1>8, <1>9
     DEF ScanNext, RefuseBlock, RefuseRun, ScanFails, ScanFinds, Return, scanVars, allVars

\* ScanInv is an invariant.
LEMMA ScanSpecInv == ScanSpec => []ScanInv
  BY ScanInitInv, ScanNextInv, PTL DEF ScanSpec

\* The loop invariant of pmm_find_first_free_blocks holds in every call.
THEOREM LoopInvariant == ScanSpec => []LoopInv
<1>1. ScanInv => LoopInv
  BY DEF ScanInv
<1> QED
  BY <1>1, ScanSpecInv, PTL

\* Allocation with the loops is allocation by first fit.
THEOREM ScanRefinesPmm == ScanSpec => ScanImplementsPmm
<1>1. ScanInit => Init
  BY DEF ScanInit
<1>2. ScanInv /\ [ScanNext]_allVars => [Next]_vars
  BY ScanStepMaps
<1> QED
  BY <1>1, <1>2, ScanSpecInv, PTL DEF ScanSpec, ScanImplementsPmm, Spec

\* A search that gives up has seen that no run of that length is free.
THEOREM SearchIsComplete == ScanSpec => FailureIsReal
<1>1. ASSUME ScanInv, ScanFails PROVE FindsNone(count)
  <2>1. CASE count = 0
    BY <2>1 DEF FindsNone
  <2>2. CASE count # 0
    <3>1. /\ i >= mem_blocks /\ call # "none"
          /\ mem_blocks \in Nat /\ i \in Nat /\ count \in Nat
          /\ free_blocks \in Nat
      BY <1>1, <2>2, ConstantAssumption
         DEF ScanFails, ScanInv, CallInv, PmmInv, TypeOK
    <3>2. /\ i <= mem_blocks /\ free_blocks < count
          /\ \A s \in FreeRuns(count) : s >= i - free_blocks
      BY <1>1, <2>2, <3>1 DEF ScanInv, LoopInv
    <3>3. ASSUME NEW s \in FreeRuns(count) PROVE FALSE
      <4>1. /\ s \in Nat /\ s + count - 1 \in Run(s, count)
            /\ Run(s, count) \subseteq Pool
        BY <2>2, <3>1, <3>3 DEF FreeRuns, FreeBlocks, Run, Pool
      <4>2. s + count - 1 < mem_blocks
        BY <3>1, <4>1 DEF Pool
      <4> QED
        BY <3>1, <3>2, <3>3, <4>1, <4>2
    <3> QED
      BY <3>3 DEF FindsNone
  <2> QED
    BY <2>1, <2>2
<1>2. ScanInv /\ [ScanNext]_allVars => [ScanFails => FindsNone(count)]_allVars
  BY <1>1
<1> QED
  BY <1>2, ScanSpecInv, PTL DEF ScanSpec, FailureIsReal
=============================================================================
