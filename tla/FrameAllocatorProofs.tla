------------------------ MODULE FrameAllocatorProofs ------------------------
(***************************************************************************)
(* Proofs about FrameAllocator, for every memory map and every word size.  *)
(***************************************************************************)
EXTENDS FrameAllocator, FiniteSetTheorems, TLAPS

-----------------------------------------------------------------------------
(* Arithmetic of the bitmap.                                               *)

\* Division with remainder, as frame_idx_to_parts splits a frame index.
LEMMA DivMod ==
  ASSUME NEW w \in Nat \ {0}, NEW i \in Nat
  PROVE  /\ i = w * (i \div w) + (i % w)
         /\ i % w \in 0 .. (w - 1)
         /\ i \div w \in Nat
OBVIOUS

\* A quotient stays below any multiple that the dividend stays below.
LEMMA DivBound ==
  ASSUME NEW w \in Nat \ {0}, NEW i \in Nat, NEW k \in Nat, i < k * w
  PROVE  i \div w < k
<1> DEFINE q == i \div w
<1>1. q \in Nat /\ w * q <= i
  BY DivMod
<1> HIDE DEF q
<1>2. SUFFICES ASSUME q >= k PROVE FALSE
  BY <1>1 DEF q
<1>3. w * q >= w * k
  BY <1>1, <1>2
<1> QED
  BY <1>1, <1>3

\* The ceiling division of init gives enough pages for every index.
LEMMA CeilEnough ==
  ASSUME NEW n \in Nat \ {0}, NEW e \in Nat
  PROVE  /\ (e + n - 1) \div n \in Nat
         /\ e <= ((e + n - 1) \div n) * n
<1> DEFINE s == e + n - 1
           q == s \div n
           r == s % n
<1>1. s \in Nat
  OBVIOUS
<1>2. s = n * q + r /\ r \in 0 .. (n - 1) /\ q \in Nat
  BY <1>1, DivMod, Zenon
<1> QED
  BY <1>2

\* frame_idx_to_parts gives different frames different bits.
LEMMA PartsInjective ==
  ASSUME NEW f \in Nat, NEW g \in Nat,
         WordOf(f) = WordOf(g), BitOf(f) = BitOf(g)
  PROVE  f = g
BY WordsAssumption, DivMod, Zenon DEF WordOf, BitOf

\* A frame has a word and a bit in it.
LEMMA BitInWord ==
  ASSUME NEW f \in Nat
  PROVE  BitOf(f) \in Bits /\ WordOf(f) \in Nat
BY WordsAssumption, DivMod, Zenon DEF BitOf, WordOf, Bits

-----------------------------------------------------------------------------
(* The memory map.                                                         *)

\* What a well-formed memory map gives: regions are non-empty, lie below the
\* end of the last one, and do not overlap.
LEMMA MapFacts ==
  ASSUME memory_map \in MemoryMaps
  PROVE  /\ Len(memory_map) \in Blocks
         /\ Blocks \subseteq Nat
         /\ EndFrame \in Nat
         /\ \A b \in Blocks : /\ memory_map[b].start \in Nat
                              /\ memory_map[b].end \in Nat
                              /\ memory_map[b].type \in RegionType
                              /\ memory_map[b].start < memory_map[b].end
                              /\ memory_map[b].end <= EndFrame
         /\ \A b, c \in Blocks : b < c => memory_map[b].end <= memory_map[c].start
<1>1. IsMemoryMap(memory_map)
  BY MemoryMapsAssumption
<1>2. memory_map \in Seq(Region) /\ Len(memory_map) \in 1 .. 64
  BY <1>1 DEF IsMemoryMap, USED_SLOTS
<1>3. Len(memory_map) \in Blocks /\ Blocks \subseteq Nat
  <2> DEFINE n == Len(memory_map)
  <2>1. n \in 1 .. 64
    BY <1>2
  <2> HIDE DEF n
  <2>2. n \in 1 .. n /\ 1 .. n \subseteq Nat
    BY <2>1
  <2> QED
    BY <2>2 DEF Blocks, n
<1>4. \A b \in Blocks : memory_map[b] \in Region
  BY <1>2 DEF Blocks
<1>5. \A b \in Blocks : /\ memory_map[b].start \in Nat
                        /\ memory_map[b].end \in Nat
                        /\ memory_map[b].type \in RegionType
  BY <1>4 DEF Region
<1>6. /\ \A b \in Blocks : memory_map[b].start < memory_map[b].end
      /\ \A b, c \in Blocks : b < c => memory_map[b].end <= memory_map[c].start
  BY <1>1 DEF IsMemoryMap, Blocks
<1>7. \A b \in Blocks : memory_map[b].end <= EndFrame
  <2> TAKE b \in Blocks
  <2>1. CASE b = Len(memory_map)
    BY <2>1, <1>3, <1>5 DEF EndFrame
  <2>2. CASE b < Len(memory_map)
    <3>1. memory_map[b].end <= memory_map[Len(memory_map)].start
      BY <2>2, <1>3, <1>6
    <3>2. memory_map[Len(memory_map)].start < memory_map[Len(memory_map)].end
      BY <1>3, <1>6
    <3> QED
      BY <3>1, <3>2, <1>3, <1>5 DEF EndFrame
  <2> QED
    BY <2>1, <2>2, <1>2 DEF Blocks
<1> QED
  BY <1>3, <1>5, <1>6, <1>7 DEF EndFrame

\* The regions lie below the end of memory and do not overlap.
LEMMA RegionFacts ==
  ASSUME memory_map \in MemoryMaps
  PROVE  /\ \A b \in Blocks : RegionFrames(b) \subseteq 0 .. (EndFrame - 1)
         /\ \A b, c \in Blocks : b # c => RegionFrames(b) \cap RegionFrames(c) = {}
<1>1. \A b \in Blocks : RegionFrames(b) \subseteq 0 .. (EndFrame - 1)
  BY MapFacts DEF RegionFrames
<1>2. \A b, c \in Blocks : b < c => RegionFrames(b) \cap RegionFrames(c) = {}
  BY MapFacts DEF RegionFrames
<1>3. \A b, c \in Blocks : b # c => b < c \/ c < b
  BY MapFacts
<1> QED
  BY <1>1, <1>2, <1>3

\* Usable frames lie below the end of memory, outside every other region.
LEMMA UsableFacts ==
  ASSUME memory_map \in MemoryMaps
  PROVE  /\ UsableFrames \subseteq 0 .. (EndFrame - 1)
         /\ UsableFrames \subseteq Nat
         /\ IsFiniteSet(UsableFrames)
         /\ UsableFrames \cap MarkedRegions = {}
         /\ MarkedRegions \subseteq 0 .. (EndFrame - 1)
<1>1. UsableFrames \subseteq 0 .. (EndFrame - 1)
  BY RegionFacts DEF UsableFrames
<1>2. IsFiniteSet(0 .. (EndFrame - 1))
  BY MapFacts, FS_Interval
<1>3. UsableFrames \cap MarkedRegions = {}
  BY RegionFacts DEF UsableFrames, MarkedRegions, SkippedTypes
<1>4. MarkedRegions \subseteq 0 .. (EndFrame - 1)
  BY RegionFacts DEF MarkedRegions
<1>5. IsFiniteSet(UsableFrames)
  BY <1>1, <1>2, FS_Subset, Zenon
<1>6. UsableFrames \subseteq Nat
  BY <1>1, MapFacts
<1> QED
  BY <1>1, <1>3, <1>4, <1>5, <1>6

-----------------------------------------------------------------------------
(* Reading and writing bits.                                               *)

\* Every bit of a frame below the end of the map is in a mapped word.
LEMMA WordMapped ==
  ASSUME memory_map \in MemoryMaps, NEW f \in 0 .. (EndFrame - 1)
  PROVE  WordOf(f) \in MappedWords
<1> DEFINE q == BitmapFrames
           k == q * WORDS_PER_FRAME
<1>1. BITS_PER_FRAME \in Nat \ {0} /\ EndFrame \in Nat
  BY WordsAssumption, MapFacts DEF BITS_PER_FRAME
<1>2. q \in Nat /\ EndFrame <= q * BITS_PER_FRAME
  BY <1>1, CeilEnough DEF BitmapFrames
<1> HIDE DEF q
<1>3. k \in Nat /\ q * BITS_PER_FRAME = k * BITS_PER_WORD
  BY <1>2, WordsAssumption DEF BITS_PER_FRAME
<1> HIDE DEF k
<1>4. f \in Nat /\ f < k * BITS_PER_WORD
  BY <1>1, <1>2, <1>3, WordsAssumption
<1>5. f \div BITS_PER_WORD < k
  BY <1>3, <1>4, WordsAssumption, DivBound
<1>6. WordOf(f) \in Nat /\ WordOf(f) < k
  BY <1>4, <1>5, BitInWord DEF WordOf
<1> QED
  BY <1>3, <1>6 DEF MappedWords, k, q

\* mark_used sets the bit of its frame and no other.
LEMMA MarkUsedFacts ==
  ASSUME memory_map \in MemoryMaps, NEW bm \in [MappedWords -> SUBSET Bits],
         NEW f \in 0 .. (EndFrame - 1)
  PROVE  /\ mark_used(bm, f) \in [MappedWords -> SUBSET Bits]
         /\ \A g \in 0 .. (EndFrame - 1) :
              is_used(mark_used(bm, f), g) <=> (g = f \/ is_used(bm, g))
<1>1. \A g \in 0 .. (EndFrame - 1) : /\ g \in Nat
                                     /\ WordOf(g) \in MappedWords
                                     /\ BitOf(g) \in Bits
  BY WordMapped, BitInWord, MapFacts
<1>2. mark_used(bm, f) \in [MappedWords -> SUBSET Bits]
  BY <1>1 DEF mark_used
<1>3. \A g \in 0 .. (EndFrame - 1) : WordOf(g) = WordOf(f) /\ BitOf(g) = BitOf(f) => g = f
  BY <1>1, PartsInjective
<1> QED
  BY <1>1, <1>2, <1>3 DEF mark_used, is_used

\* mark_unused clears the bit of its frame and no other.
LEMMA MarkUnusedFacts ==
  ASSUME memory_map \in MemoryMaps, NEW bm \in [MappedWords -> SUBSET Bits],
         NEW f \in 0 .. (EndFrame - 1)
  PROVE  /\ mark_unused(bm, f) \in [MappedWords -> SUBSET Bits]
         /\ \A g \in 0 .. (EndFrame - 1) :
              is_used(mark_unused(bm, f), g) <=> (g # f /\ is_used(bm, g))
<1>1. \A g \in 0 .. (EndFrame - 1) : /\ g \in Nat
                                     /\ WordOf(g) \in MappedWords
                                     /\ BitOf(g) \in Bits
  BY WordMapped, BitInWord, MapFacts
<1>2. mark_unused(bm, f) \in [MappedWords -> SUBSET Bits]
  BY <1>1 DEF mark_unused
<1>3. \A g \in 0 .. (EndFrame - 1) : WordOf(g) = WordOf(f) /\ BitOf(g) = BitOf(f) => g = f
  BY <1>1, PartsInjective
<1> QED
  BY <1>1, <1>2, <1>3 DEF mark_unused, is_used

\* Marking a set of frames sets at least their bits.
LEMMA MarkAllFacts ==
  ASSUME memory_map \in MemoryMaps, NEW bm \in [MappedWords -> SUBSET Bits],
         NEW F \in SUBSET (0 .. (EndFrame - 1))
  PROVE  /\ MarkAll(bm, F) \in [MappedWords -> SUBSET Bits]
         /\ \A g \in F : is_used(MarkAll(bm, F), g)
<1>1. \A g \in F : WordOf(g) \in MappedWords /\ BitOf(g) \in Bits
  BY WordMapped, BitInWord, MapFacts
<1> QED
  BY <1>1 DEF MarkAll, is_used

-----------------------------------------------------------------------------
(* The bootstrap enumeration.                                              *)

\* A set of usable frames that is closed downwards and has as many elements as
\* there are usable frames before f is the set of usable frames before f.
LEMMA PrefixByCount ==
  ASSUME NEW U, IsFiniteSet(U), U \subseteq Nat,
         NEW S \in SUBSET U,
         \A x \in S, y \in U : y < x => y \in S,
         NEW f \in U,
         Cardinality({g \in U : g < f}) = Cardinality(S)
  PROVE  S = {g \in U : g < f}
<1> DEFINE T == {g \in U : g < f}
<1>1. IsFiniteSet(S) /\ IsFiniteSet(T)
  BY FS_Subset, Zenon
<1>2. f \notin S
  <2> SUFFICES ASSUME f \in S PROVE FALSE
    OBVIOUS
  <2>1. T \cup {f} \in SUBSET S
    BY Zenon
  <2>2. f \notin T
    OBVIOUS
  <2>3. Cardinality(T \cup {f}) = Cardinality(T) + 1
    BY <1>1, <2>2, FS_AddElement, Zenon
  <2>4. Cardinality(T \cup {f}) <= Cardinality(S)
    BY <1>1, <2>1, FS_Subset
  <2>5. Cardinality(S) \in Nat
    BY <1>1, FS_CardinalityType
  <2> QED
    BY <2>3, <2>4, <2>5
<1>3. S \in SUBSET T
  BY <1>2
<1> QED
  BY <1>1, <1>3, FS_Subset, Zenon

-----------------------------------------------------------------------------
(* The inductive invariant.  LiveFramesMarked needs the counts of the      *)
(* bootstrap allocator to be exact, and they are exact because it takes    *)
(* the usable frames in ascending order, none left out.                    *)

BootPrefix ==
  \A x \in boot_frames, y \in UsableFrames : y < x => y \in boot_frames

BootCount == next = Cardinality(boot_frames)

PhaseOK ==
  /\ phase # "ready" => owned = {}
  /\ phase = "tables" => missing > 0 /\ page < BitmapFrames

IndInv ==
  /\ TypeOK
  /\ PhaseOK
  /\ BootPrefix
  /\ BootCount
  /\ UsedCountsExact
  /\ BootFramesNeverGranted
  /\ LiveFramesMarked
  /\ KernelFramesMarked

\* What is computed from the memory map stays what it was.
LEMMA MapUnchanged ==
  ASSUME memory_map' = memory_map
  PROVE  /\ Blocks' = Blocks
         /\ BitmapFrames' = BitmapFrames
         /\ MappedWords' = MappedWords
         /\ UsableFrames' = UsableFrames
         /\ MarkedRegions' = MarkedRegions
         /\ \A b : RegionFrames(b)' = RegionFrames(b)
BY DEF Blocks, BitmapFrames, EndFrame, MappedWords, UsableFrames, MarkedRegions,
       RegionFrames

\* What a successful BootStrapAllocator::allocate_frame preserves.
LEMMA BootstrapAllocateFacts ==
  ASSUME TypeOK, BootPrefix, BootCount, UsedCountsExact, memory_map' = memory_map,
         NEW f, BootstrapAllocate(f)
  PROVE  /\ next' \in Nat
         /\ used' \in [Blocks -> Nat]
         /\ f \in UsableFrames \ boot_frames
         /\ boot_frames' = boot_frames \cup {f}
         /\ BootPrefix'
         /\ BootCount'
         /\ UsedCountsExact'
<1> USE MapUnchanged
<1>1. /\ memory_map \in MemoryMaps
      /\ f \in UsableFrames
      /\ boot_frames \in SUBSET UsableFrames
      /\ boot_frames' = boot_frames \cup {f}
      /\ next' = next + 1
      /\ next \in Nat
      /\ used \in [Blocks -> Nat]
  BY DEF TypeOK, BootstrapAllocate
<1>2. Cardinality({g \in UsableFrames : g < f}) = Cardinality(boot_frames)
  BY DEF BootstrapAllocate, UsableRank, BootCount
<1>3. boot_frames = {g \in UsableFrames : g < f}
  BY <1>1, <1>2, UsableFacts, PrefixByCount DEF BootPrefix
<1>4. f \notin boot_frames
  BY <1>1, <1>3, UsableFacts
<1>5. BootPrefix'
  BY <1>1, <1>3, UsableFacts DEF BootPrefix
<1>6. BootCount'
  <2>1. IsFiniteSet(boot_frames)
    BY <1>1, UsableFacts, FS_Subset
  <2> QED
    BY <1>1, <1>4, <2>1, FS_AddElement, Zenon DEF BootCount
<1>7. PICK b \in Blocks : f \in RegionFrames(b) /\ used' = [used EXCEPT ![b] = @ + 1]
  BY Zenon DEF BootstrapAllocate
<1>8. used' \in [Blocks -> Nat] /\ used'[b] = used[b] + 1
  BY <1>1, <1>7
<1>9. RegionFrames(b) \subseteq UsableFrames
  BY <1>1, <1>7, RegionFacts DEF UsableFrames
<1>10. UsedCountsExact'
  <2> SUFFICES ASSUME NEW c \in Blocks
               PROVE  boot_frames' \cap RegionFrames(c)
                        = memory_map[c].start .. (memory_map[c].start + used'[c] - 1)
    BY <1>1 DEF UsedCountsExact
  <2>1. CASE c # b
    <3>1. f \notin RegionFrames(c)
      BY <1>1, <1>7, <2>1, RegionFacts
    <3>2. used'[c] = used[c]
      BY <1>1, <1>7, <2>1
    <3> QED
      BY <1>1, <3>1, <3>2 DEF UsedCountsExact
  <2>2. CASE c = b
    <3> DEFINE lo == memory_map[b].start
               n == used[b]
    <3>1. lo \in Nat /\ n \in Nat /\ f \in Nat /\ lo <= f
      BY <1>1, <1>7, MapFacts DEF RegionFrames
    <3>2. boot_frames \cap RegionFrames(b) = lo .. (f - 1)
      <4>1. \A g \in RegionFrames(b) : g \in Nat /\ (g < f <=> g \in boot_frames)
        BY <1>1, <1>3, <1>9, UsableFacts
      <4>2. lo .. (f - 1) \subseteq RegionFrames(b)
        BY <1>1, <1>7, MapFacts, SMTT(20) DEF RegionFrames
      <4>3. \A g \in RegionFrames(b) : lo <= g
        BY <1>1, MapFacts DEF RegionFrames
      <4> QED
        BY <3>1, <4>1, <4>2, <4>3
    <3>3. lo .. (f - 1) = lo .. (lo + n - 1)
      BY <3>2, Zenon DEF UsedCountsExact
    <3> HIDE DEF lo, n
    <3>4. f = lo + n
      <4>1. ~ (f < lo + n)
        BY <3>1, <3>3
      <4>2. ~ (f > lo + n)
        BY <3>1, <3>3
      <4> QED
        BY <3>1, <4>1, <4>2
    <3>5. (lo .. (f - 1)) \cup {f} = lo .. (lo + (n + 1) - 1)
      BY <3>1, <3>4
    <3>6. boot_frames' \cap RegionFrames(b) = (lo .. (f - 1)) \cup {f}
      BY <1>1, <1>7, <3>2
    <3> QED
      BY <2>2, <1>8, <3>5, <3>6 DEF lo, n
  <2> QED
    BY <2>1, <2>2
<1> QED
  BY <1>1, <1>4, <1>5, <1>6, <1>8, <1>10

\* The ranges init marks for the bootstrap allocator are exactly its frames.
LEMMA BootstrapMarksExact ==
  ASSUME TypeOK, UsedCountsExact
  PROVE  BootstrapMarks = boot_frames
BY DEF TypeOK, UsedCountsExact, BootstrapMarks, UsableFrames

\* The invariant holds before init.
LEMMA InitInv == Init => IndInv
<1> SUFFICES ASSUME Init PROVE IndInv
  OBVIOUS
<1>1. BitmapFrames \in Nat
  <2>1. BITS_PER_FRAME \in Nat \ {0}
    BY WordsAssumption DEF BITS_PER_FRAME
  <2> QED
    BY <2>1, MapFacts, CeilEnough DEF Init, BitmapFrames
<1>2. TypeOK
  BY <1>1 DEF Init, TypeOK, TABLE_LEVELS
<1>3. UsedCountsExact
  BY MapFacts DEF Init, UsedCountsExact
<1>4. BootCount
  BY FS_EmptySet DEF Init, BootCount
<1> QED
  BY <1>2, <1>3, <1>4 DEF Init, IndInv, PhaseOK, BootPrefix, BootFramesNeverGranted,
     LiveFramesMarked, KernelFramesMarked

\* Every step of init keeps the invariant.
LEMMA InitStepInv == IndInv /\ InitStep => IndInv'
<1> SUFFICES ASSUME IndInv, InitStep PROVE IndInv'
  OBVIOUS
<1> USE MapUnchanged DEF IndInv
<1>0. BitmapFrames \in Nat /\ page \in Nat /\ missing \in 0 .. 3
  <2>1. BITS_PER_FRAME \in Nat \ {0}
    BY WordsAssumption DEF BITS_PER_FRAME
  <2>2. BitmapFrames \in Nat
    BY <2>1, MapFacts, CeilEnough DEF TypeOK, BitmapFrames
  <2> QED
    BY <2>2 DEF TypeOK, TABLE_LEVELS
<1>1. CASE AllocateBitmapFrame
  <2>1. PICK f \in UsableFrames : BootstrapAllocate(f)
    BY <1>1 DEF AllocateBitmapFrame
  <2>2. /\ memory_map' = memory_map /\ bitmap' = bitmap /\ owned' = owned
        /\ next_usable' = next_usable /\ phase = "bitmap"
    BY <1>1 DEF AllocateBitmapFrame, allocVars
  <2>3. PICK n \in 0 .. 3 : /\ missing' = n
                            /\ phase' = IF n = 0 THEN "bitmap" ELSE "tables"
                            /\ page' = IF n = 0 THEN page + 1 ELSE page
    BY <1>1 DEF AllocateBitmapFrame, TABLE_LEVELS
  <2>4. page < BitmapFrames
    BY <1>1 DEF AllocateBitmapFrame
  <2>5. page' \in 0 .. BitmapFrames /\ missing' \in 0 .. 3
    BY <1>0, <2>3, <2>4
  <2>6. PhaseOK'
    BY <2>2, <2>3, <2>4 DEF PhaseOK
  <2>7. TypeOK'
    BY <2>1, <2>2, <2>3, <2>5, BootstrapAllocateFacts DEF TypeOK, TABLE_LEVELS
  <2> QED
    BY <2>1, <2>2, <2>3, <2>6, <2>7, BootstrapAllocateFacts
       DEF PhaseOK, BootFramesNeverGranted, LiveFramesMarked, KernelFramesMarked
<1>2. CASE CreateBitmapTable
  <2>1. PICK f \in UsableFrames : BootstrapAllocate(f)
    BY <1>2 DEF CreateBitmapTable
  <2>2. /\ memory_map' = memory_map /\ bitmap' = bitmap /\ owned' = owned
        /\ next_usable' = next_usable /\ phase = "tables"
    BY <1>2 DEF CreateBitmapTable, allocVars
  <2>3. /\ missing' = missing - 1
        /\ phase' = IF missing = 1 THEN "bitmap" ELSE "tables"
        /\ page' = IF missing = 1 THEN page + 1 ELSE page
    BY <1>2 DEF CreateBitmapTable
  <2>4. page < BitmapFrames /\ missing > 0
    BY <2>2 DEF PhaseOK
  <2>5. page' \in 0 .. BitmapFrames /\ missing' \in 0 .. 3
    BY <1>0, <2>3, <2>4
  <2>6. PhaseOK'
    BY <1>0, <2>2, <2>3, <2>4 DEF PhaseOK
  <2>7. TypeOK'
    BY <2>1, <2>2, <2>3, <2>5, BootstrapAllocateFacts DEF TypeOK, TABLE_LEVELS
  <2> QED
    BY <2>1, <2>2, <2>3, <2>6, <2>7, BootstrapAllocateFacts
       DEF PhaseOK, BootFramesNeverGranted, LiveFramesMarked, KernelFramesMarked
<1>3. CASE BootstrapPanic
  BY <1>3 DEF BootstrapPanic, bootVars, allocVars, TypeOK, PhaseOK, BootPrefix, BootCount,
     UsedCountsExact, BootFramesNeverGranted, LiveFramesMarked, KernelFramesMarked
<1>4. CASE FinishInit
  <2>1. /\ memory_map' = memory_map /\ page' = page /\ missing' = missing /\ next' = next
        /\ used' = used /\ boot_frames' = boot_frames /\ next_usable' = next_usable
        /\ owned' = owned /\ phase = "bitmap" /\ phase' = "ready"
    BY <1>4 DEF FinishInit, bootVars
  <2>2. PICK garbage \in [MappedWords -> SUBSET Bits] :
          bitmap' = MarkAll(garbage, BootstrapMarks \cup MarkedRegions)
    BY <1>4 DEF FinishInit
  <2>3. owned = {} /\ BootstrapMarks = boot_frames
    BY <2>1, BootstrapMarksExact DEF PhaseOK
  <2>4. BootstrapMarks \cup MarkedRegions \in SUBSET (0 .. (EndFrame - 1))
    BY <2>3, UsableFacts DEF TypeOK
  <2>5. /\ bitmap' \in [MappedWords -> SUBSET Bits]
        /\ \A g \in BootstrapMarks \cup MarkedRegions : is_used(bitmap', g)
    BY <2>2, <2>4, MarkAllFacts DEF TypeOK
  <2>6. TypeOK' /\ PhaseOK'
    BY <2>1, <2>5 DEF TypeOK, PhaseOK
  <2>7. LiveFramesMarked' /\ KernelFramesMarked'
    BY <2>1, <2>3, <2>5 DEF LiveFramesMarked, KernelFramesMarked, is_used
  <2> QED
    BY <2>1, <2>6, <2>7 DEF BootPrefix, BootCount, UsedCountsExact, BootFramesNeverGranted
<1> QED
  BY <1>1, <1>2, <1>3, <1>4 DEF InitStep

\* allocate_frame keeps the invariant.
LEMMA AllocateInv ==
  ASSUME IndInv, phase = "ready", UNCHANGED <<memory_map, phase, bootVars>>,
         NEW f \in UsableFrames, allocate_frame(f)
  PROVE  /\ IndInv'
         /\ ~ is_used(bitmap, f)
         /\ \A g \in UsableFrames : is_used(bitmap', g) <=> (g = f \/ is_used(bitmap, g))
<1> USE MapUnchanged DEF IndInv
<1>1. /\ memory_map' = memory_map /\ phase' = phase /\ page' = page
      /\ missing' = missing /\ next' = next /\ used' = used /\ boot_frames' = boot_frames
  BY DEF bootVars
<1>2. /\ ~ is_used(bitmap, f) /\ next_usable' = f /\ f \in Nat
      /\ bitmap' = mark_used(bitmap, f)
      /\ owned' = owned \cup {f}
  BY UsableFacts DEF allocate_frame, FreeFromNext, TypeOK
<1>3. /\ bitmap' \in [MappedWords -> SUBSET Bits]
      /\ \A g \in 0 .. (EndFrame - 1) :
           is_used(bitmap', g) <=> (g = f \/ is_used(bitmap, g))
  BY <1>2, MarkUsedFacts, UsableFacts DEF TypeOK
<1>4. TypeOK' /\ PhaseOK'
  BY <1>1, <1>2, <1>3 DEF TypeOK, PhaseOK
<1>5. f \notin boot_frames
  BY <1>2 DEF LiveFramesMarked
<1>6. BootFramesNeverGranted'
  BY <1>1, <1>2, <1>5 DEF BootFramesNeverGranted
<1>7. boot_frames \cup owned \cup {f} \subseteq 0 .. (EndFrame - 1)
  BY UsableFacts DEF TypeOK
<1>8. LiveFramesMarked'
  BY <1>1, <1>2, <1>3, <1>7 DEF LiveFramesMarked, is_used
<1>9. KernelFramesMarked'
  BY <1>1, <1>3, UsableFacts DEF KernelFramesMarked, TypeOK, is_used
<1> QED
  BY <1>1, <1>2, <1>3, <1>4, <1>6, <1>8, <1>9, UsableFacts
     DEF BootPrefix, BootCount, UsedCountsExact, TypeOK

\* deallocate_frame keeps the invariant.
LEMMA DeallocateInv ==
  ASSUME IndInv, phase = "ready", UNCHANGED <<memory_map, phase, bootVars>>,
         NEW f \in owned, deallocate_frame(f)
  PROVE  /\ IndInv'
         /\ \A g \in UsableFrames : is_used(bitmap', g) <=> (g # f /\ is_used(bitmap, g))
<1> USE MapUnchanged DEF IndInv
<1>1. /\ memory_map' = memory_map /\ phase' = phase /\ page' = page
      /\ missing' = missing /\ next' = next /\ used' = used /\ boot_frames' = boot_frames
  BY DEF bootVars
<1>2. /\ next_usable' = next_usable /\ bitmap' = mark_unused(bitmap, f)
      /\ owned' = owned \ {f} /\ f \in UsableFrames
  BY DEF deallocate_frame, TypeOK
<1>3. /\ bitmap' \in [MappedWords -> SUBSET Bits]
      /\ \A g \in 0 .. (EndFrame - 1) :
           is_used(bitmap', g) <=> (g # f /\ is_used(bitmap, g))
  BY <1>2, MarkUnusedFacts, UsableFacts DEF TypeOK
<1>4. TypeOK' /\ PhaseOK'
  BY <1>1, <1>2, <1>3 DEF TypeOK, PhaseOK
<1>5. f \notin boot_frames
  BY DEF BootFramesNeverGranted
<1>6. boot_frames \cup owned \subseteq 0 .. (EndFrame - 1)
  BY UsableFacts DEF TypeOK
<1>7. LiveFramesMarked'
  BY <1>1, <1>2, <1>3, <1>5, <1>6 DEF LiveFramesMarked, is_used
<1>8. KernelFramesMarked'
  BY <1>1, <1>2, <1>3, UsableFacts DEF KernelFramesMarked, TypeOK, is_used
<1> QED
  BY <1>1, <1>2, <1>3, <1>4, <1>5, <1>7, <1>8, UsableFacts
     DEF BootPrefix, BootCount, UsedCountsExact, BootFramesNeverGranted, TypeOK

\* A stutter keeps the invariant.
LEMMA StutterInv == IndInv /\ UNCHANGED vars => IndInv'
BY MapUnchanged DEF IndInv, vars, bootVars, allocVars, TypeOK, PhaseOK, BootPrefix,
   BootCount, UsedCountsExact, BootFramesNeverGranted, LiveFramesMarked, KernelFramesMarked

\* Every step keeps the invariant.
LEMMA NextInv == IndInv /\ [Next]_vars => IndInv'
<1> SUFFICES ASSUME IndInv, [Next]_vars PROVE IndInv'
  OBVIOUS
<1>1. CASE InitStep
  BY <1>1, InitStepInv
<1>2. CASE Allocate
  <2>1. CASE \E f \in UsableFrames : allocate_frame(f)
    BY <1>2, <2>1, AllocateInv DEF Allocate
  <2>2. CASE no_frame
    BY <1>2, <2>2, StutterInv DEF Allocate, no_frame, vars
  <2> QED
    BY <1>2, <2>1, <2>2 DEF Allocate
<1>3. CASE Deallocate
  BY <1>3, DeallocateInv DEF Deallocate
<1>4. CASE Halted \/ UNCHANGED vars
  BY <1>4, StutterInv DEF Halted
<1> QED
  BY <1>1, <1>2, <1>3, <1>4 DEF Next

-----------------------------------------------------------------------------
(* The theorems.                                                           *)

\* The invariant that carries the others holds in every reachable state.
THEOREM Inductive == Spec => []IndInv
BY InitInv, NextInv, PTL DEF Spec

\* For every memory map and word size the allocator's state keeps its type: in
\* particular init never loops past the pages of the bitmap.
THEOREM TypeCorrect == Spec => []TypeOK
<1>1. IndInv => TypeOK
  BY DEF IndInv
<1> QED
  BY <1>1, Inductive, PTL

\* For every memory map, BootStrapAllocator.used describes exactly the frames
\* that the bootstrap allocator handed out.
THEOREM CountsExact == Spec => []UsedCountsExact
<1>1. IndInv => UsedCountsExact
  BY DEF IndInv
<1> QED
  BY <1>1, Inductive, PTL

\* For every memory map and every content of the uncleared bitmap frames, a
\* frame in use is marked, so allocate_frame never returns a frame twice.
THEOREM LiveMarked == Spec => []LiveFramesMarked
<1>1. IndInv => LiveFramesMarked
  BY DEF IndInv
<1> QED
  BY <1>1, Inductive, PTL

\* For every memory map, allocate_frame never grants a frame that backs the
\* bitmap or the page tables that map it.
THEOREM BootNeverGranted == Spec => []BootFramesNeverGranted
<1>1. IndInv => BootFramesNeverGranted
  BY DEF IndInv
<1> QED
  BY <1>1, Inductive, PTL

\* For every memory map, allocation and deallocation never clear the bit of a
\* frame in a region that init marked.
THEOREM KernelMarked == Spec => []KernelFramesMarked
<1>1. IndInv => KernelFramesMarked
  BY DEF IndInv
<1> QED
  BY <1>1, Inductive, PTL

\* For every memory map and word size, every bit the kernel looks up lies in a
\* mapped frame of the bitmap: rounding up reserved enough of them.
THEOREM LookupsMapped == Spec => []BitsMapped
<1>1. IndInv => BitsMapped
  <2> SUFFICES ASSUME IndInv, NEW f \in 0 .. EndFrame,
                      f < EndFrame \/ get_frame_ty(f) # "None"
               PROVE  WordOf(f) \in MappedWords /\ WordOf(f) \in SliceWords
    BY DEF BitsMapped
  <2>0. memory_map \in MemoryMaps
    BY Zenon DEF IndInv, TypeOK
  <2>1. EndFrame \in Nat /\ f \in Nat /\ f <= EndFrame
    BY <2>0, MapFacts
  <2>2. f < EndFrame
    <3>1. CASE f < EndFrame
      BY <3>1
    <3>2. CASE get_frame_ty(f) # "None"
      <4>1. PICK b \in Blocks : f < memory_map[b].end
        BY <3>2, Zenon DEF get_frame_ty, FrameTyMatches
      <4>2. memory_map[b].end \in Nat /\ memory_map[b].end <= EndFrame
        BY <2>0, MapFacts, Zenon
      <4> QED
        BY <2>1, <4>1, <4>2
    <3> QED
      BY <3>1, <3>2
  <2>3. WordOf(f) \in MappedWords
    BY <2>0, <2>1, <2>2, WordMapped
  <2>4. WordOf(f) \in Nat /\ WordOf(f) <= f
    <3>1. f < (f + 1) * BITS_PER_WORD
      BY <2>1, WordsAssumption
    <3>2. f \div BITS_PER_WORD < f + 1
      BY <2>1, <3>1, WordsAssumption, DivBound
    <3>3. WordOf(f) \in Nat /\ WordOf(f) < f + 1
      BY <2>1, <3>2, BitInWord DEF WordOf
    <3> QED
      BY <3>3, <2>1
  <2> QED
    BY <2>1, <2>3, <2>4 DEF SliceWords
<1> QED
  BY <1>1, Inductive, PTL

-----------------------------------------------------------------------------
(* The refinement of FrameOwnership.                                       *)

\* Usable frames are frames of FrameOwnership.
LEMMA UsableInAllFrames ==
  ASSUME memory_map \in MemoryMaps
  PROVE  UsableFrames \subseteq AllFrames
BY UsableFacts DEF AllFrames, EndFrame

\* The allocator starts as FrameOwnership does.
LEMMA RefineInit == Init => Ownership!Init
BY UsableInAllFrames DEF Init, Ownership!Init, Free

\* Every step of the allocator is a step of FrameOwnership or a stutter.
LEMMA RefineNext ==
  ASSUME IndInv, IndInv', [Next]_vars
  PROVE  [Ownership!Next \/ Ownership!Lose]_(Ownership!vars)
<1> USE MapUnchanged DEF IndInv
<1>0. memory_map \in MemoryMaps /\ UsableFrames \subseteq AllFrames
  BY UsableInAllFrames DEF TypeOK
<1>1. ASSUME NEW f \in UsableFrames, BootstrapAllocate(f), memory_map' = memory_map,
             owned' = owned, phase # "ready", phase' # "ready"
      PROVE  Ownership!Next
  <2>1. f \notin boot_frames /\ boot_frames' = boot_frames \cup {f}
    BY <1>1, BootstrapAllocateFacts
  <2>2. Free = UsableFrames \ boot_frames /\ Free' = UsableFrames \ boot_frames'
    BY <1>1 DEF Free
  <2>3. Ownership!Keep(f)
    BY <1>1, <2>1, <2>2 DEF Ownership!Keep
  <2> QED
    BY <1>0, <2>3 DEF Ownership!Next
<1>2. CASE AllocateBitmapFrame
  <2>1. /\ memory_map' = memory_map /\ owned' = owned /\ phase # "ready" /\ phase' # "ready"
        /\ \E f \in UsableFrames : BootstrapAllocate(f)
    BY <1>2 DEF AllocateBitmapFrame, allocVars
  <2> QED
    BY <1>1, <2>1
<1>3. CASE CreateBitmapTable
  <2>1. /\ memory_map' = memory_map /\ owned' = owned /\ phase # "ready" /\ phase' # "ready"
        /\ \E f \in UsableFrames : BootstrapAllocate(f)
    BY <1>3 DEF CreateBitmapTable, allocVars
  <2> QED
    BY <1>1, <2>1
<1>4. CASE BootstrapPanic
  BY <1>4 DEF BootstrapPanic, bootVars, allocVars, Free, Ownership!vars
<1>5. CASE FinishInit
  <2>1. /\ memory_map' = memory_map /\ boot_frames' = boot_frames /\ owned' = owned
        /\ phase = "bitmap" /\ phase' = "ready"
    BY <1>5 DEF FinishInit, bootVars
  <2>2. \A g \in boot_frames : is_used(bitmap', g)
    BY <2>1 DEF LiveFramesMarked, is_used
  <2>3. Free' \in SUBSET Free
    BY <2>1, <2>2 DEF Free, is_used
  <2> QED
    BY <2>1, <2>3 DEF Ownership!Lose
<1>6. CASE Allocate
  <2>1. /\ phase = "ready" /\ UNCHANGED <<memory_map, phase, bootVars>>
        /\ memory_map' = memory_map /\ phase' = phase /\ boot_frames' = boot_frames
    BY <1>6 DEF Allocate, bootVars
  <2>2. ASSUME NEW f \in UsableFrames, allocate_frame(f) PROVE Ownership!Next
    <3>1. /\ ~ is_used(bitmap, f)
          /\ \A g \in UsableFrames : is_used(bitmap', g) <=> (g = f \/ is_used(bitmap, g))
      BY <2>1, <2>2, AllocateInv
    <3>2. f \in Free /\ Free' = Free \ {f} /\ owned' = owned \cup {f}
      BY <2>1, <2>2, <3>1 DEF Free, allocate_frame, is_used
    <3>3. Ownership!Grant(f)
      BY <2>1, <3>2 DEF Ownership!Grant
    <3> QED
      BY <1>0, <3>3 DEF Ownership!Next
  <2>3. CASE no_frame
    BY <2>1, <2>3 DEF no_frame, allocVars, Free, Ownership!vars
  <2> QED
    BY <1>6, <2>2, <2>3 DEF Allocate
<1>7. CASE Deallocate
  <2>1. /\ phase = "ready" /\ UNCHANGED <<memory_map, phase, bootVars>>
        /\ memory_map' = memory_map /\ phase' = phase /\ boot_frames' = boot_frames
    BY <1>7 DEF Deallocate, bootVars
  <2>2. PICK f \in owned : deallocate_frame(f)
    BY <1>7 DEF Deallocate
  <2>3. \A g \in UsableFrames : is_used(bitmap', g) <=> (g # f /\ is_used(bitmap, g))
    BY <2>1, <2>2, DeallocateInv
  <2>4. f \in UsableFrames /\ Free' = Free \cup {f} /\ owned' = owned \ {f}
    BY <2>1, <2>2, <2>3 DEF Free, deallocate_frame, TypeOK, is_used
  <2>5. Ownership!Return(f)
    BY <2>1, <2>2, <2>4 DEF Ownership!Return
  <2> QED
    BY <1>0, <2>4, <2>5 DEF Ownership!Next
<1>8. CASE Halted \/ UNCHANGED vars
  BY <1>8 DEF Halted, vars, bootVars, allocVars, Free, Ownership!vars
<1> QED
  BY <1>2, <1>3, <1>4, <1>5, <1>6, <1>7, <1>8 DEF Next, InitStep

\* For every memory map and word size the two allocators together implement
\* exclusive ownership of frames.
THEOREM Refinement == Spec => ImplementsOwnership
BY RefineInit, RefineNext, Inductive, PTL DEF Spec, ImplementsOwnership, Ownership!Spec

=============================================================================
