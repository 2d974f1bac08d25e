------------------------- MODULE AcpiHandlerProofs --------------------------
(***************************************************************************)
(* Proofs about AcpiHandler, for all areas, page sizes and numbers of live *)
(* mappings.                                                               *)
(***************************************************************************)
EXTENDS AcpiHandler, FiniteSetTheorems, TLAPS

-----------------------------------------------------------------------------
(* Pages of addresses.                                                     *)

\* Division with remainder by the page size.
LEMMA PageParts ==
  ASSUME NEW n \in Nat
  PROVE  /\ PageOf(n) \in Nat
         /\ n % PAGE_SIZE \in 0 .. (PAGE_SIZE - 1)
         /\ n = PAGE_SIZE * PageOf(n) + (n % PAGE_SIZE)
BY AcpiAssumption DEF PageOf

\* The page of the first address of page n is n.
LEMMA PageOfStart ==
  ASSUME NEW n \in Nat
  PROVE  n * PAGE_SIZE \in Nat /\ PageOf(n * PAGE_SIZE) = n
<1> DEFINE q == PageOf(n * PAGE_SIZE)
           r == (n * PAGE_SIZE) % PAGE_SIZE
<1>1. PAGE_SIZE \in Nat \ {0} /\ n * PAGE_SIZE \in Nat
  BY AcpiAssumption
<1>2. q \in Nat /\ r \in 0 .. (PAGE_SIZE - 1) /\ n * PAGE_SIZE = PAGE_SIZE * q + r
  BY <1>1, PageParts, Zenon
<1> HIDE DEF q, r
<1>3. PAGE_SIZE * (n - q) = r
  BY <1>1, <1>2
<1>4. n - q < 1
  <2> SUFFICES ASSUME n - q >= 1 PROVE FALSE
    BY <1>2
  <2>1. PAGE_SIZE * (n - q) >= PAGE_SIZE
    BY <1>1, <1>2
  <2> QED
    BY <2>1, <1>1, <1>2, <1>3
<1>5. n - q > -1
  <2> SUFFICES ASSUME n - q <= -1 PROVE FALSE
    BY <1>2
  <2>1. PAGE_SIZE * (n - q) <= -PAGE_SIZE
    BY <1>1, <1>2
  <2> QED
    BY <2>1, <1>1, <1>2, <1>3
<1> QED
  BY <1>1, <1>2, <1>4, <1>5 DEF q

\* A higher address is on no lower page.
LEMMA PageOfMonotone ==
  ASSUME NEW a \in Nat, NEW b \in Nat, a <= b
  PROVE  PageOf(a) <= PageOf(b)
<1> DEFINE p == PageOf(a)
           q == PageOf(b)
           i == a % PAGE_SIZE
           j == b % PAGE_SIZE
<1>a. PAGE_SIZE \in Nat \ {0}
  BY AcpiAssumption
<1>b. p \in Nat /\ i \in 0 .. (PAGE_SIZE - 1) /\ a = PAGE_SIZE * p + i
  BY PageParts
<1>c. q \in Nat /\ j \in 0 .. (PAGE_SIZE - 1) /\ b = PAGE_SIZE * q + j
  BY PageParts
<1> HIDE DEF p, q, i, j
<1>1. /\ p \in Nat /\ q \in Nat /\ PAGE_SIZE \in Nat \ {0}
      /\ PAGE_SIZE * p <= a /\ b < PAGE_SIZE * q + PAGE_SIZE
  BY <1>a, <1>b, <1>c
<1>2. SUFFICES ASSUME p >= q + 1 PROVE FALSE
  BY <1>1 DEF p, q
<1>3. PAGE_SIZE * p >= PAGE_SIZE * (q + 1)
  BY <1>1, <1>2
<1> QED
  BY <1>1, <1>3

-----------------------------------------------------------------------------
(* Mappings.                                                               *)

\* A mapping that map_physical_region may return.
IsRegion(m) == \E r \in Request : m = MappingOf(r)

First(m) == PageOf(m.physical_start)

\* map_physical_region maps the pages from First to LastPage, the very pages that
\* unmap_physical_region unmaps, and every byte that was asked for is in them.
LEMMA RegionFacts ==
  ASSUME NEW r \in Request
  PROVE  /\ MappingOf(r) \in Mapping
         /\ MappingOf(r).mapped_length > 0
         /\ First(MappingOf(r)) = PageOf(r.address)
         /\ LastPage(MappingOf(r)) = PageOf(r.address + r.size)
         /\ PageOf(r.address) \in Nat /\ PageOf(r.address + r.size) \in Nat
         /\ PageOf(r.address) <= PageOf(r.address + r.size)
         /\ PageOf(r.address) .. PageOf(r.address + r.size) \subseteq Frame
         /\ \A a \in r.address .. (r.address + r.size - 1) :
              PageOf(a) \in PageOf(r.address) .. PageOf(r.address + r.size)
<1> DEFINE p == PageOf(r.address)
           q == PageOf(r.address + r.size)
<1>1. r.address \in Nat /\ r.size \in Nat /\ PAGE_SIZE \in Nat \ {0}
  BY AcpiAssumption DEF Area
<1> DEFINE last == r.address + r.size
<1>a. last \in Nat /\ r.address <= last
  BY <1>1
<1>2. p \in Nat /\ q \in Nat /\ p <= q
  <2> HIDE DEF last
  <2>1. PageOf(r.address) \in Nat /\ PageOf(last) \in Nat
    BY <1>1, <1>a, PageParts, Zenon
  <2>2. PageOf(r.address) <= PageOf(last)
    BY <1>1, <1>a, PageOfMonotone
  <2> QED
    BY <2>1, <2>2 DEF last
<1>3. \A a \in r.address .. (r.address + r.size - 1) : PageOf(a) \in p .. q
  <2> SUFFICES ASSUME NEW a \in r.address .. (r.address + r.size - 1)
               PROVE  PageOf(a) \in p .. q
    OBVIOUS
  <2>1. a \in Nat /\ r.address <= a /\ a <= last
    BY <1>1
  <2> HIDE DEF last
  <2>2. PageOf(a) \in Nat
    BY <2>1, PageParts
  <2>3. PageOf(r.address) <= PageOf(a) /\ PageOf(a) <= PageOf(last)
    BY <1>1, <1>a, <2>1, PageOfMonotone
  <2> QED
    BY <1>2, <2>2, <2>3 DEF last
<1>4. p .. q \subseteq Frame
  BY AcpiAssumption
<1>5. MappingOf(r) = [physical_start |-> p * PAGE_SIZE,
                      mapped_length |-> q * PAGE_SIZE + PAGE_SIZE - p * PAGE_SIZE,
                      address |-> r.address, size |-> r.size]
  BY DEF MappingOf
<1> HIDE DEF p, q
<1>6. /\ p * PAGE_SIZE \in Nat /\ q * PAGE_SIZE \in Nat /\ p * PAGE_SIZE <= q * PAGE_SIZE
      /\ q * PAGE_SIZE + PAGE_SIZE = (q + 1) * PAGE_SIZE
  BY <1>1, <1>2
<1>7. q * PAGE_SIZE + PAGE_SIZE - p * PAGE_SIZE \in Nat \ {0}
  BY <1>1, <1>6
<1>8. /\ MappingOf(r) \in Mapping
      /\ MappingOf(r).mapped_length > 0
  BY <1>1, <1>5, <1>6, <1>7 DEF Mapping
<1>9. First(MappingOf(r)) = p
  BY <1>2, <1>5, PageOfStart DEF First
<1>10. LastPage(MappingOf(r)) = q
  <2>1. MappingOf(r).physical_start + MappingOf(r).mapped_length = (q + 1) * PAGE_SIZE
    BY <1>1, <1>5, <1>6
  <2>2. PageOf((q + 1) * PAGE_SIZE) = q + 1
    BY <1>2, PageOfStart
  <2> QED
    BY <1>2, <2>1, <2>2 DEF LastPage
<1> QED
  BY <1>2, <1>3, <1>4, <1>8, <1>9, <1>10 DEF p, q

\* The same facts about a mapping whose request is not known any more.
LEMMA MappingFacts ==
  ASSUME NEW m, IsRegion(m)
  PROVE  /\ m \in Mapping /\ m.mapped_length > 0 /\ m # NoMapping
         /\ First(m) \in Nat /\ LastPage(m) \in Nat /\ First(m) <= LastPage(m)
         /\ First(m) .. LastPage(m) \subseteq Frame
         /\ \A a \in m.address .. (m.address + m.size - 1) : PageOf(a) \in First(m) .. LastPage(m)
<1>1. PICK r \in Request : m = MappingOf(r)
  BY DEF IsRegion
<1>2. m.address = r.address /\ m.size = r.size
  BY <1>1 DEF MappingOf
<1>3. m.mapped_length > 0 => m # NoMapping
  BY DEF NoMapping
<1> QED
  BY <1>1, <1>2, <1>3, RegionFacts

-----------------------------------------------------------------------------
(* The inductive invariant.                                                *)

Op == [kind : {"idle", "map", "pin", "unmap"}, at : Nat, end : Nat,
       slot : Slot \cup {0}, mapping : Mapping]

\* A slot is empty or holds what map_physical_region returned for a request.
LiveOK == \A s \in Slot : live[s] = NoMapping \/ IsRegion(live[s])

\* The loop over the pages of a mapping runs from its first to its last page.
Within == /\ IsRegion(op.mapping)
          /\ op.end = LastPage(op.mapping)
          /\ op.at \in First(op.mapping) .. (op.end + 1)

OpOK ==
  /\ op \in Op
  /\ op.kind = "idle" => op = Idle
  /\ op.kind = "map" => Within /\ op.slot \in Slot /\ live[op.slot] = NoMapping
  /\ op.kind = "unmap" => Within
  /\ op.kind = "pin" => op.at .. op.end \subseteq Frame

Holders(f) == {s \in Slot : Spans(live[s], f)}

\* RefsExact and PagesOwnedOnce hold in a panic as well.
Counted ==
  \A f \in Frame : mapping_refs[f] = Cardinality(Holders(f)) + pins[f] + LoopRefs(f)

OwnedOnce ==
  /\ mapped = drivers \cup {f \in Frame : mapping_refs[f] > 0}
  /\ drivers \cap {f \in Frame : mapping_refs[f] > 0} = {}

IInv == TypeOK /\ LiveOK /\ OpOK /\ Counted /\ OwnedOnce /\ DropNeverPanics

-----------------------------------------------------------------------------
(* What the counts are made of.                                            *)

\* The parts of a loop in progress.
LEMMA OpTypes ==
  ASSUME NEW o \in Op
  PROVE  /\ o.kind \in {"idle", "map", "pin", "unmap"} /\ o.at \in Nat /\ o.end \in Int
         /\ o.mapping \in Mapping
BY DEF Op

\* The share of the loop in progress, by its kind.
LEMMA LoopShare ==
  ASSUME NEW f \in Frame, op \in Op
  PROVE  /\ LoopRefs(f) \in {0, 1}
         /\ op.kind \in {"idle", "pin"} => LoopRefs(f) = 0
         /\ op.kind = "map" => (LoopRefs(f) = 1 <=> f \in First(op.mapping) .. (op.at - 1))
         /\ op.kind = "unmap" => (LoopRefs(f) = 1 <=> f \in op.at .. op.end)
BY DEF LoopRefs, First, Op

\* The same of the next state.
LEMMA LoopShareNext ==
  ASSUME NEW f \in Frame, op' \in Op
  PROVE  /\ LoopRefs(f)' \in {0, 1}
         /\ op'.kind \in {"idle", "pin"} => LoopRefs(f)' = 0
         /\ op'.kind = "map" => (LoopRefs(f)' = 1 <=> f \in First(op'.mapping) .. (op'.at - 1))
         /\ op'.kind = "unmap" => (LoopRefs(f)' = 1 <=> f \in op'.at .. op'.end)
BY DEF LoopRefs, First, Op

\* Finitely many mappings hold a page.
LEMMA HoldersFinite ==
  ASSUME NEW f
  PROVE  IsFiniteSet(Holders(f)) /\ Cardinality(Holders(f)) \in Nat
BY AcpiAssumption, FS_Subset, FS_CardinalityType DEF Holders

\* A slot that is filled with a mapping adds one holder to each of its pages.
LEMMA HoldersAdd ==
  ASSUME NEW f, NEW s \in Slot, NEW m, live \in [Slot -> Mapping],
         live[s] = NoMapping, IsRegion(m), live' = [live EXCEPT ![s] = m]
  PROVE  Cardinality(Holders(f)')
           = Cardinality(Holders(f)) + (IF f \in First(m) .. LastPage(m) THEN 1 ELSE 0)
<1>1. s \notin Holders(f)
  BY DEF Holders, Spans, NoMapping
<1>2. Spans(m, f) <=> f \in First(m) .. LastPage(m)
  BY MappingFacts DEF Spans, First
<1>3. CASE f \in First(m) .. LastPage(m)
  <2>1. Holders(f)' = Holders(f) \cup {s}
    BY <1>2, <1>3 DEF Holders
  <2> QED
    BY <1>1, <1>3, <2>1, HoldersFinite, FS_AddElement
<1>4. CASE f \notin First(m) .. LastPage(m)
  <2>1. Holders(f)' = Holders(f)
    BY <1>1, <1>2, <1>4 DEF Holders
  <2> QED
    BY <1>4, <2>1, HoldersFinite
<1> QED
  BY <1>3, <1>4

\* A slot that is emptied takes one holder from each page of its mapping.
LEMMA HoldersRemove ==
  ASSUME NEW f, NEW s \in Slot, live \in [Slot -> Mapping],
         IsRegion(live[s]), live' = [live EXCEPT ![s] = NoMapping]
  PROVE  Cardinality(Holders(f))
           = Cardinality(Holders(f)') + (IF f \in First(live[s]) .. LastPage(live[s]) THEN 1 ELSE 0)
<1>1. s \notin Holders(f)'
  BY DEF Holders, Spans, NoMapping
<1>2. Spans(live[s], f) <=> f \in First(live[s]) .. LastPage(live[s])
  BY MappingFacts DEF Spans, First
<1>a. IsFiniteSet(Holders(f)') /\ Cardinality(Holders(f)') \in Nat
  BY AcpiAssumption, FS_Subset, FS_CardinalityType DEF Holders
<1>3. CASE f \in First(live[s]) .. LastPage(live[s])
  <2>1. Holders(f) = Holders(f)' \cup {s}
    BY <1>2, <1>3 DEF Holders
  <2> QED
    BY <1>1, <1>3, <1>a, <2>1, FS_AddElement
<1>4. CASE f \notin First(live[s]) .. LastPage(live[s])
  <2>1. Holders(f)' = Holders(f)
    BY <1>1, <1>2, <1>4 DEF Holders
  <2> QED
    BY <1>4, <1>a, <2>1
<1> QED
  BY <1>3, <1>4

-----------------------------------------------------------------------------
(* The invariant holds initially and every step preserves it.              *)

\* The invariant holds at boot.
LEMMA InitInv == Init => IInv
<1> SUFFICES ASSUME Init PROVE IInv
  OBVIOUS
<1>1. NoMapping \in Mapping /\ Idle \in Op
  BY DEF NoMapping, Mapping, Idle, Op
<1>0. \A f \in Frame : mapping_refs[f] = 0 /\ pins[f] = 0
  BY DEF Init
<1>2. /\ \A s \in Slot : live[s] = NoMapping
      /\ mapped = {} /\ guarded = {} /\ drivers = {} /\ op = Idle /\ panic = ""
  BY DEF Init, PageTable!Init
<1>3. TypeOK
  <2>1. mapping_refs \in [Frame -> Nat] /\ pins \in [Frame -> Nat] /\ live \in [Slot -> Mapping]
    BY <1>1 DEF Init
  <2>2. op.kind \in {"idle", "map", "pin", "unmap"} /\ op.at \in Nat /\ op.end \in Int
          /\ op.mapping \in Mapping
    BY <1>1, <1>2, OpTypes
  <2> QED
    BY <1>2, <2>1, <2>2 DEF TypeOK
<1>4. OpOK
  BY <1>1, <1>2 DEF OpOK, Idle
<1>5. LiveOK /\ DropNeverPanics
  BY <1>2 DEF LiveOK, DropNeverPanics
<1>6. Counted
  <2> SUFFICES ASSUME NEW f \in Frame
               PROVE  mapping_refs[f] = Cardinality(Holders(f)) + pins[f] + LoopRefs(f)
    BY DEF Counted
  <2>1. ~ Spans(NoMapping, f)
    BY DEF Spans, NoMapping
  <2>2. Holders(f) = {}
    BY <1>2, <2>1 DEF Holders
  <2>3. LoopRefs(f) = 0
    BY <1>1, <1>2, LoopShare DEF Idle
  <2> QED
    BY <1>0, <2>2, <2>3, FS_EmptySet
<1>7. OwnedOnce
  <2>1. {f \in Frame : mapping_refs[f] > 0} = {}
    BY <1>0
  <2> QED
    BY <1>2, <2>1 DEF OwnedOnce
<1> QED
  BY <1>3, <1>4, <1>5, <1>6, <1>7 DEF IInv

\* Steps that touch neither pages nor counts, and keep the sum on the right of
\* Counted, keep the invariant if they keep the shapes.
LEMMA KeepsPages ==
  ASSUME IInv, UNCHANGED <<pageVars, mapping_refs, pins, drivers>>,
         TypeOK', LiveOK', OpOK', DropNeverPanics',
         \A f \in Frame : Cardinality(Holders(f)') + LoopRefs(f)'
                            = Cardinality(Holders(f)) + LoopRefs(f)
  PROVE  IInv'
<1>1. Counted'
  <2> SUFFICES ASSUME NEW f \in Frame
               PROVE  mapping_refs'[f] = Cardinality(Holders(f)') + pins'[f] + LoopRefs(f)'
    BY DEF Counted
  <2>1. mapping_refs[f] = Cardinality(Holders(f)) + pins[f] + LoopRefs(f)
    BY DEF IInv, Counted
  <2>2. /\ Cardinality(Holders(f)) \in Nat /\ Cardinality(Holders(f)') \in Nat
        /\ LoopRefs(f) \in {0, 1} /\ LoopRefs(f)' \in {0, 1} /\ pins[f] \in Nat
    BY AcpiAssumption, FS_Subset, FS_CardinalityType, LoopShare, LoopShareNext
    DEF Holders, IInv, OpOK, TypeOK
  <2> QED
    BY <2>1, <2>2
<1>2. OwnedOnce'
  BY DEF IInv, OwnedOnce, pageVars
<1> QED
  BY <1>1, <1>2 DEF IInv

\* The start of map_physical_region keeps the invariant.
LEMMA StartMapStep ==
  ASSUME IInv, NEW s \in Slot, NEW r \in Request, StartMap(s, r)
  PROVE  IInv'
<1>1. IsRegion(MappingOf(r))
  BY DEF IsRegion
<1>2. op' \in Op
  BY RegionFacts DEF StartMap, Op
<1>3. OpOK' /\ TypeOK' /\ LiveOK' /\ DropNeverPanics'
  <2>1. OpOK'
    BY <1>1, <1>2, RegionFacts DEF StartMap, OpOK, Within, First
  <2>2. TypeOK'
    BY <1>2, OpTypes DEF IInv, StartMap, TypeOK, pageVars
  <2>3. LiveOK'
    BY DEF IInv, StartMap, LiveOK
  <2>4. DropNeverPanics'
    BY DEF IInv, StartMap, DropNeverPanics
  <2> QED
    BY <2>1, <2>2, <2>3, <2>4
<1>4. ASSUME NEW f \in Frame
      PROVE  Cardinality(Holders(f)') + LoopRefs(f)' = Cardinality(Holders(f)) + LoopRefs(f)
  <2>1. Holders(f)' = Holders(f)
    BY DEF StartMap, Holders
  <2>2. LoopRefs(f) = 0
    BY LoopShare DEF StartMap, IInv, OpOK, Idle
  <2>3. LoopRefs(f)' = 0
    BY <1>2, LoopShareNext, RegionFacts, AcpiAssumption DEF StartMap
  <2> QED
    BY <2>1, <2>2, <2>3
<1> QED
  BY <1>3, <1>4, KeepsPages DEF StartMap

\* The start of a mapping for good keeps the invariant.
LEMMA StartPinStep ==
  ASSUME IInv, NEW first \in Nat, NEW last \in Nat, first .. last \subseteq Frame,
         StartPin(first, last)
  PROVE  IInv'
<1>1. op' \in Op /\ op'.kind = "pin" /\ op'.at = first /\ op'.end = last
  BY Zenon DEF StartPin, Op, Idle, NoMapping, Mapping
<1>2. OpOK' /\ TypeOK' /\ LiveOK' /\ DropNeverPanics'
  <2>1. OpOK'
    BY <1>1 DEF OpOK
  <2>2. TypeOK'
    BY <1>1, OpTypes DEF IInv, StartPin, TypeOK, pageVars
  <2>3. LiveOK'
    BY DEF IInv, StartPin, LiveOK
  <2>4. DropNeverPanics'
    BY DEF IInv, StartPin, DropNeverPanics
  <2> QED
    BY <2>1, <2>2, <2>3, <2>4
<1>3. ASSUME NEW f \in Frame
      PROVE  Cardinality(Holders(f)') + LoopRefs(f)' = Cardinality(Holders(f)) + LoopRefs(f)
  <2>1. Holders(f)' = Holders(f)
    BY DEF StartPin, Holders
  <2>2. LoopRefs(f) = 0
    BY LoopShare DEF StartPin, IInv, OpOK, Idle
  <2>3. LoopRefs(f)' = 0
    BY <1>1, LoopShareNext
  <2> QED
    BY <2>1, <2>2, <2>3
<1> QED
  BY <1>2, <1>3, KeepsPages DEF StartPin

\* The start of unmap_physical_region keeps the invariant.
LEMMA StartUnmapStep ==
  ASSUME IInv, NEW s \in Slot, StartUnmap(s)
  PROVE  IInv'
<1>1. IsRegion(live[s]) /\ live \in [Slot -> Mapping] /\ NoMapping \in Mapping
  BY DEF IInv, LiveOK, StartUnmap, TypeOK, NoMapping, Mapping
<1>2. op' \in Op
  BY <1>1, MappingFacts DEF StartUnmap, Op, First
<1>3. OpOK' /\ TypeOK' /\ LiveOK' /\ DropNeverPanics'
  <2>1. OpOK'
    BY <1>1, <1>2, MappingFacts DEF StartUnmap, OpOK, Within, First
  <2>2. TypeOK'
    BY <1>1, <1>2, OpTypes DEF IInv, StartUnmap, TypeOK, pageVars
  <2>3. LiveOK'
    BY <1>1 DEF IInv, StartUnmap, LiveOK
  <2>4. DropNeverPanics'
    BY DEF IInv, StartUnmap, DropNeverPanics
  <2> QED
    BY <2>1, <2>2, <2>3, <2>4
<1>4. ASSUME NEW f \in Frame
      PROVE  Cardinality(Holders(f)') + LoopRefs(f)' = Cardinality(Holders(f)) + LoopRefs(f)
  <2>1. Cardinality(Holders(f))
          = Cardinality(Holders(f)') + (IF f \in First(live[s]) .. LastPage(live[s]) THEN 1 ELSE 0)
    BY <1>1, HoldersRemove, Zenon DEF StartUnmap
  <2>2. LoopRefs(f) = 0
    BY LoopShare DEF StartUnmap, IInv, OpOK, Idle
  <2>3. LoopRefs(f)' \in {0, 1} /\ (LoopRefs(f)' = 1 <=> f \in First(live[s]) .. LastPage(live[s]))
    BY <1>2, LoopShareNext DEF StartUnmap, First
  <2>4. Cardinality(Holders(f)') \in Nat
    BY AcpiAssumption, FS_Subset, FS_CardinalityType DEF Holders
  <2> QED
    BY <2>1, <2>2, <2>3, <2>4
<1> QED
  BY <1>3, <1>4, KeepsPages DEF StartUnmap

\* The end of map_physical_region keeps the invariant.
LEMMA FinishMapStep ==
  ASSUME IInv, FinishMap
  PROVE  IInv'
<1>1. /\ Within /\ op.slot \in Slot /\ live[op.slot] = NoMapping
      /\ op \in Op /\ op.mapping \in Mapping /\ live \in [Slot -> Mapping]
  BY OpTypes DEF IInv, OpOK, FinishMap, TypeOK
<1>2. op' \in Op /\ op' = Idle
  BY DEF FinishMap, Op, Idle, NoMapping, Mapping
<1>3. OpOK' /\ TypeOK' /\ LiveOK' /\ DropNeverPanics'
  <2>1. OpOK'
    BY <1>2 DEF OpOK, Idle
  <2>2. TypeOK'
    BY <1>1, <1>2, OpTypes DEF IInv, FinishMap, TypeOK, pageVars
  <2>3. LiveOK'
    BY <1>1 DEF IInv, FinishMap, LiveOK, Within
  <2>4. DropNeverPanics'
    BY DEF IInv, FinishMap, DropNeverPanics
  <2> QED
    BY <2>1, <2>2, <2>3, <2>4
<1>4. ASSUME NEW f \in Frame
      PROVE  Cardinality(Holders(f)') + LoopRefs(f)' = Cardinality(Holders(f)) + LoopRefs(f)
  <2> DEFINE m == op.mapping
  <2>1. Cardinality(Holders(f)')
          = Cardinality(Holders(f)) + (IF f \in First(m) .. LastPage(m) THEN 1 ELSE 0)
    BY <1>1, HoldersAdd, Zenon DEF FinishMap, Within
  <2>2. op.at = LastPage(m) + 1 /\ LastPage(m) \in Nat
    BY <1>1, MappingFacts DEF FinishMap, Within
  <2>3. LoopRefs(f) \in {0, 1} /\ (LoopRefs(f) = 1 <=> f \in First(m) .. (op.at - 1))
    BY <1>1, LoopShare DEF FinishMap
  <2>4. LoopRefs(f)' = 0
    BY <1>2, LoopShareNext DEF Idle
  <2>5. First(m) .. (op.at - 1) = First(m) .. LastPage(m)
    BY <2>2
  <2> QED
    <3>1. LoopRefs(f) = IF f \in First(m) .. LastPage(m) THEN 1 ELSE 0
      BY <2>3, <2>5, Zenon
    <3> QED
      BY <2>1, <2>4, <3>1, HoldersFinite
<1> QED
  BY <1>3, <1>4, KeepsPages DEF FinishMap

\* The loops that end with nothing to hand over.
LEMMA FinishStep ==
  ASSUME IInv, FinishPin \/ FinishUnmap
  PROVE  IInv'
<1>1. op' \in Op /\ op' = Idle
  BY DEF FinishPin, FinishUnmap, Op, Idle, NoMapping, Mapping
<1>2. OpOK' /\ TypeOK' /\ LiveOK' /\ DropNeverPanics'
  <2>1. OpOK'
    BY <1>1 DEF OpOK, Idle
  <2>2. TypeOK'
    BY <1>1, OpTypes DEF IInv, FinishPin, FinishUnmap, TypeOK, pageVars
  <2>3. LiveOK'
    BY DEF IInv, FinishPin, FinishUnmap, LiveOK
  <2>4. DropNeverPanics'
    BY DEF IInv, FinishPin, FinishUnmap, DropNeverPanics
  <2> QED
    BY <2>1, <2>2, <2>3, <2>4
<1>3. ASSUME NEW f \in Frame
      PROVE  Cardinality(Holders(f)') + LoopRefs(f)' = Cardinality(Holders(f)) + LoopRefs(f)
  <2>1. Holders(f)' = Holders(f)
    BY DEF FinishPin, FinishUnmap, Holders
  <2>2. LoopRefs(f) = 0
    <3>1. op \in Op /\ op.at \in Nat /\ op.end \in Int /\ f \in Nat
      BY OpTypes, AcpiAssumption DEF IInv, OpOK
    <3> QED
      BY <3>1, LoopShare DEF FinishPin, FinishUnmap
  <2>3. LoopRefs(f)' = 0
    BY <1>1, LoopShareNext DEF Idle
  <2> QED
    BY <2>1, <2>2, <2>3
<1> QED
  BY <1>2, <1>3, KeepsPages DEF FinishPin, FinishUnmap

\* Handler::map of the next frame keeps the invariant.
LEMMA MapNextFrameStep ==
  ASSUME IInv, MapNextFrame
  PROVE  IInv'
<1> DEFINE e == op.at
<1>1. /\ op \in Op /\ e \in Nat /\ op.end \in Nat /\ e <= op.end
      /\ e \in Frame /\ Frame \subseteq Nat
      /\ mapping_refs \in [Frame -> Nat] /\ pins \in [Frame -> Nat]
  <2>1. op \in Op /\ e \in Nat /\ op.end \in Nat /\ e <= op.end
    BY DEF IInv, OpOK, Op, MapNextFrame
  <2>2. CASE op.kind = "pin"
    <3>1. e \in op.at .. op.end /\ op.at .. op.end \subseteq Frame
      BY <2>1, <2>2 DEF IInv, OpOK
    <3> QED
      BY <2>1, <3>1, AcpiAssumption DEF IInv, TypeOK
  <2>3. CASE op.kind = "map"
    <3>1. e \in First(op.mapping) .. LastPage(op.mapping)
      BY <2>1, <2>3, MappingFacts DEF IInv, OpOK, Within
    <3>2. First(op.mapping) .. LastPage(op.mapping) \subseteq Frame
      BY <2>3, MappingFacts DEF IInv, OpOK, Within
    <3> QED
      BY <2>1, <3>1, <3>2, AcpiAssumption DEF IInv, TypeOK
  <2> QED
    BY <2>2, <2>3 DEF MapNextFrame
<1>2. mapping_refs' = [mapping_refs EXCEPT ![e] = @ + 1]
  <2>1. CASE mapping_refs[e] > 0
    BY <2>1 DEF MapNextFrame, HandlerMap
  <2>2. CASE ~ (mapping_refs[e] > 0)
    <3>1. mapping_refs[e] = 0
      BY <1>1, <2>2
    <3> QED
      BY <1>1, <2>2, <3>1 DEF MapNextFrame, HandlerMap
  <2> QED
    BY <2>1, <2>2
<1>3. /\ op' \in Op
      /\ op'.kind = op.kind /\ op'.at = e + 1 /\ op'.end = op.end
      /\ op'.mapping = op.mapping /\ op'.slot = op.slot
  BY <1>1 DEF MapNextFrame, Op
<1>4. /\ op.kind \in {"map", "pin"}
      /\ pins' = IF op.kind = "pin" THEN [pins EXCEPT ![e] = @ + 1] ELSE pins
      /\ live' = live /\ drivers' = drivers /\ panic' = panic
  BY DEF MapNextFrame
<1>5. /\ mapped' = mapped \cup {e} /\ mapped' \subseteq Frame /\ guarded' \subseteq Frame
      /\ e \notin drivers
  <2>1. CASE mapping_refs[e] > 0
    BY <1>1, <2>1 DEF MapNextFrame, HandlerMap, pageVars, IInv, OwnedOnce, TypeOK
  <2>2. CASE ~ (mapping_refs[e] > 0)
    <3>1. e \notin mapped /\ mapped' = mapped \cup {e} /\ guarded' = guarded \cup {e}
      BY <2>2 DEF MapNextFrame, HandlerMap, PageTable!Acquire
    <3> QED
      BY <1>1, <3>1 DEF IInv, OwnedOnce, TypeOK
  <2> QED
    BY <2>1, <2>2
<1>6. TypeOK'
  <2>1. mapping_refs' \in [Frame -> Nat] /\ pins' \in [Frame -> Nat]
    BY <1>1, <1>2, <1>4
  <2> QED
    BY <1>3, <1>4, <1>5, <2>1, OpTypes DEF IInv, TypeOK
<1>7. LiveOK' /\ DropNeverPanics'
  BY <1>4 DEF IInv, LiveOK, DropNeverPanics
<1>8. OpOK'
  <2>1. CASE op.kind = "pin"
    BY <1>1, <1>3, <2>1 DEF IInv, OpOK
  <2>2. CASE op.kind = "map"
    <3>1. /\ IsRegion(op.mapping) /\ op.end = LastPage(op.mapping)
          /\ First(op.mapping) \in Nat /\ First(op.mapping) <= e
      BY <1>1, <2>2, MappingFacts DEF IInv, OpOK, Within
    <3>2. IsRegion(op'.mapping) /\ op'.end = LastPage(op'.mapping)
      BY <1>3, <3>1
    <3>3. op'.at \in First(op'.mapping) .. (op'.end + 1)
      BY <1>1, <1>3, <3>1
    <3>4. Within'
      BY <3>2, <3>3 DEF Within, IsRegion, LastPage, First
    <3> QED
      BY <1>3, <1>4, <2>2, <3>4 DEF IInv, OpOK
  <2> QED
    BY <1>4, <2>1, <2>2
<1>9. Counted'
  <2> SUFFICES ASSUME NEW f \in Frame
               PROVE  mapping_refs'[f] = Cardinality(Holders(f)') + pins'[f] + LoopRefs(f)'
    BY DEF Counted
  <2>1. mapping_refs[f] = Cardinality(Holders(f)) + pins[f] + LoopRefs(f)
    BY DEF IInv, Counted
  <2>2. Holders(f)' = Holders(f) /\ Cardinality(Holders(f)) \in Nat
    BY <1>4, HoldersFinite, Zenon DEF Holders
  <2>3. f \in Nat /\ pins[f] \in Nat /\ mapping_refs[f] \in Nat
    BY <1>1
  <2>4. mapping_refs'[f] = mapping_refs[f] + (IF f = e THEN 1 ELSE 0)
    BY <1>1, <1>2, <2>3
  <2>5. CASE op.kind = "pin"
    <3>1. LoopRefs(f) = 0 /\ LoopRefs(f)' = 0
      BY <1>1, <1>3, <2>5, LoopShare, LoopShareNext
    <3>2. pins'[f] = pins[f] + (IF f = e THEN 1 ELSE 0)
      BY <1>1, <1>4, <2>3, <2>5
    <3> QED
      BY <2>1, <2>2, <2>3, <2>4, <3>1, <3>2
  <2>6. CASE op.kind = "map"
    <3>1. LoopRefs(f) \in {0, 1} /\ (LoopRefs(f) = 1 <=> f \in First(op.mapping) .. (e - 1))
      BY <1>1, <2>6, LoopShare
    <3>2. LoopRefs(f)' \in {0, 1} /\ (LoopRefs(f)' = 1 <=> f \in First(op.mapping) .. e)
      <4>1. /\ LoopRefs(f)' \in {0, 1}
            /\ LoopRefs(f)' = 1 <=> f \in First(op'.mapping) .. (op'.at - 1)
        BY <1>3, <2>6, LoopShareNext
      <4>2. op'.at - 1 = e
        BY <1>1, <1>3
      <4> QED
        BY <1>3, <4>1, <4>2 DEF First
    <3>3. First(op.mapping) \in Nat /\ First(op.mapping) <= e
      BY <1>1, <2>6, MappingFacts DEF IInv, OpOK, Within
    <3>4. LoopRefs(f)' = LoopRefs(f) + (IF f = e THEN 1 ELSE 0)
      BY <1>1, <2>3, <3>1, <3>2, <3>3
    <3>5. pins'[f] = pins[f]
      BY <1>4, <2>6
    <3> QED
      BY <2>1, <2>2, <2>3, <2>4, <3>1, <3>4, <3>5
  <2> QED
    BY <1>4, <2>5, <2>6
<1>10. OwnedOnce'
  <2> DEFINE Held == {f \in Frame : mapping_refs[f] > 0}
  <2>1. {f \in Frame : mapping_refs'[f] > 0} = Held \cup {e}
    BY <1>1, <1>2
  <2>2. mapped = drivers \cup Held /\ drivers \cap Held = {}
    BY DEF IInv, OwnedOnce
  <2> HIDE DEF Held
  <2> QED
    BY <1>4, <1>5, <2>1, <2>2 DEF OwnedOnce
<1> QED
  BY <1>6, <1>7, <1>8, <1>9, <1>10 DEF IInv

\* Handler::unmap of the next page keeps the invariant.
LEMMA UnmapNextPageStep ==
  ASSUME IInv, UnmapNextPage
  PROVE  IInv'
<1> DEFINE e == op.at
<1>1. /\ op \in Op /\ op.kind = "unmap" /\ e \in Nat /\ op.end \in Nat /\ e <= op.end
      /\ e \in Frame /\ Frame \subseteq Nat
      /\ mapping_refs \in [Frame -> Nat] /\ pins \in [Frame -> Nat]
  <2>1. op \in Op /\ op.kind = "unmap" /\ e \in Nat /\ op.end \in Nat /\ e <= op.end
    BY DEF IInv, OpOK, Op, UnmapNextPage
  <2>2. e \in First(op.mapping) .. LastPage(op.mapping)
    BY <2>1, MappingFacts DEF IInv, OpOK, Within
  <2>3. First(op.mapping) .. LastPage(op.mapping) \subseteq Frame
    BY <2>1, MappingFacts DEF IInv, OpOK, Within
  <2> QED
    BY <2>1, <2>2, <2>3, AcpiAssumption DEF IInv, TypeOK
<1>2. mapping_refs[e] > 0
  <2>1. LoopRefs(e) = 1
    BY <1>1, LoopShare
  <2>2. mapping_refs[e] = Cardinality(Holders(e)) + pins[e] + LoopRefs(e)
    BY <1>1 DEF IInv, Counted
  <2>3. Cardinality(Holders(e)) \in Nat /\ pins[e] \in Nat
    BY <1>1, HoldersFinite
  <2> QED
    BY <2>1, <2>2, <2>3
<1>3. e \in mapped /\ e \notin drivers
  BY <1>1, <1>2 DEF IInv, OwnedOnce
<1>4. /\ mapping_refs' = [mapping_refs EXCEPT ![e] = @ - 1]
      /\ panic' = panic /\ live' = live /\ pins' = pins /\ drivers' = drivers
  <2>1. HandlerUnmap(e) /\ live' = live /\ pins' = pins /\ drivers' = drivers
    BY DEF UnmapNextPage
  <2>2. mapping_refs[e] # 0
    BY <1>1, <1>2
  <2> HIDE DEF e
  <2> QED
    BY <1>3, <2>1, <2>2 DEF HandlerUnmap
<1>5. /\ op' \in Op
      /\ op'.kind = op.kind /\ op'.at = e + 1 /\ op'.end = op.end
      /\ op'.mapping = op.mapping
  BY <1>1 DEF UnmapNextPage, Op
<1>6. /\ mapped' = IF mapping_refs[e] > 1 THEN mapped ELSE mapped \ {e}
      /\ guarded' \subseteq Frame
  <2>1. CASE mapping_refs[e] > 1
    BY <1>1, <1>2, <2>1 DEF UnmapNextPage, HandlerUnmap, pageVars, IInv, TypeOK
  <2>2. CASE ~ (mapping_refs[e] > 1)
    <3>1. mapped' = mapped \ {e} /\ guarded' = guarded \ {e}
      <4>1. HandlerUnmap(e) /\ mapping_refs[e] # 0
        BY <1>1, <1>2 DEF UnmapNextPage
      <4> HIDE DEF e
      <4> QED
        BY <1>3, <2>2, <4>1 DEF HandlerUnmap, PageTable!Release
    <3> QED
      BY <2>2, <3>1 DEF IInv, TypeOK
  <2> QED
    BY <2>1, <2>2
<1>7. TypeOK'
  <2>1. mapping_refs' \in [Frame -> Nat]
    BY <1>1, <1>2, <1>4
  <2>2. mapped' \subseteq Frame
    BY <1>6 DEF IInv, TypeOK
  <2> QED
    BY <1>1, <1>4, <1>5, <1>6, <2>1, <2>2, OpTypes DEF IInv, TypeOK
<1>8. LiveOK' /\ DropNeverPanics'
  BY <1>4 DEF IInv, LiveOK, DropNeverPanics
<1>9. OpOK'
  <2>1. /\ IsRegion(op.mapping) /\ op.end = LastPage(op.mapping)
        /\ First(op.mapping) \in Nat /\ First(op.mapping) <= e
    BY <1>1, MappingFacts DEF IInv, OpOK, Within
  <2>2. IsRegion(op'.mapping) /\ op'.end = LastPage(op'.mapping)
    BY <1>5, <2>1
  <2>3. op'.at \in First(op'.mapping) .. (op'.end + 1)
    BY <1>1, <1>5, <2>1
  <2>4. Within'
    BY <2>2, <2>3 DEF Within, IsRegion, LastPage, First
  <2> QED
    BY <1>1, <1>5, <2>4 DEF OpOK
<1>10. Counted'
  <2> SUFFICES ASSUME NEW f \in Frame
               PROVE  mapping_refs'[f] = Cardinality(Holders(f)') + pins'[f] + LoopRefs(f)'
    BY DEF Counted
  <2>1. mapping_refs[f] = Cardinality(Holders(f)) + pins[f] + LoopRefs(f)
    BY DEF IInv, Counted
  <2>2. Holders(f)' = Holders(f) /\ Cardinality(Holders(f)) \in Nat
    BY <1>4, HoldersFinite DEF Holders
  <2>3. f \in Nat /\ pins[f] \in Nat /\ mapping_refs[f] \in Nat
    BY <1>1
  <2>4. mapping_refs'[f] = mapping_refs[f] - (IF f = e THEN 1 ELSE 0)
    BY <1>1, <1>4, <2>3
  <2>5. LoopRefs(f) \in {0, 1} /\ (LoopRefs(f) = 1 <=> f \in e .. op.end)
    BY <1>1, LoopShare
  <2>6. LoopRefs(f)' \in {0, 1} /\ (LoopRefs(f)' = 1 <=> f \in (e + 1) .. op.end)
    <3>1. /\ LoopRefs(f)' \in {0, 1}
          /\ LoopRefs(f)' = 1 <=> f \in op'.at .. op'.end
      BY <1>1, <1>5, LoopShareNext
    <3> QED
      BY <1>5, <3>1
  <2>7. LoopRefs(f)' = LoopRefs(f) - (IF f = e THEN 1 ELSE 0)
    BY <1>1, <2>3, <2>5, <2>6
  <2> QED
    BY <1>4, <2>1, <2>2, <2>3, <2>4, <2>5, <2>7
<1>11. OwnedOnce'
  <2> DEFINE Held == {f \in Frame : mapping_refs[f] > 0}
  <2>1. {f \in Frame : mapping_refs'[f] > 0} = IF mapping_refs[e] > 1 THEN Held ELSE Held \ {e}
    BY <1>1, <1>2, <1>4
  <2>2. mapped = drivers \cup Held /\ drivers \cap Held = {}
    BY DEF IInv, OwnedOnce
  <2> HIDE DEF Held
  <2> QED
    BY <1>3, <1>4, <1>6, <2>1, <2>2 DEF OwnedOnce
<1> QED
  BY <1>7, <1>8, <1>9, <1>10, <1>11 DEF IInv

\* A driver that maps its device keeps the invariant.
LEMMA DriverMmapStep ==
  ASSUME IInv, NEW f \in Frame, DriverMmap(f)
  PROVE  IInv'
<1>1. /\ f \notin mapped /\ mapped' = mapped \cup {f} /\ guarded' = guarded \cup {f}
      /\ drivers' = drivers \cup {f}
      /\ UNCHANGED <<mapping_refs, live, op, pins, panic>>
  BY DEF DriverMmap, PageTable!Acquire
<1>2. TypeOK'
  BY <1>1 DEF IInv, TypeOK
<1>3. LiveOK' /\ OpOK' /\ DropNeverPanics'
  BY <1>1 DEF IInv, LiveOK, OpOK, Within, DropNeverPanics
<1>4. Counted'
  BY <1>1 DEF IInv, Counted, Holders, LoopRefs
<1>5. OwnedOnce'
  BY <1>1 DEF IInv, OwnedOnce
<1> QED
  BY <1>2, <1>3, <1>4, <1>5 DEF IInv

\* The panics of mapping leave everything else as it is.
LEMMA PanicStep ==
  ASSUME IInv, panic' \in {panic, "Failed to identity map", "Failed to mmap"},
         UNCHANGED <<pageVars, mapping_refs, live, op, pins, drivers>>
  PROVE  IInv'
<1>1. TypeOK'
  BY DEF IInv, TypeOK, pageVars
<1>2. LiveOK' /\ OpOK'
  BY DEF IInv, LiveOK, OpOK, Within
<1>3. DropNeverPanics'
  BY DEF IInv, DropNeverPanics
<1>4. Counted'
  BY DEF IInv, Counted, Holders, LoopRefs
<1>5. OwnedOnce'
  BY DEF IInv, OwnedOnce, pageVars
<1> QED
  BY <1>1, <1>2, <1>3, <1>4, <1>5 DEF IInv

\* Every step keeps the invariant.
LEMMA NextInv == IInv /\ [Next]_vars => IInv'
<1> SUFFICES ASSUME IInv, [Next]_vars PROVE IInv'
  OBVIOUS
<1>1. ASSUME NEW s \in Slot, StartUnmap(s) PROVE IInv'
  BY <1>1, StartUnmapStep
<1>2. ASSUME NEW s \in Slot, NEW r \in Request, StartMap(s, r) PROVE IInv'
  BY <1>2, StartMapStep
<1>3. ASSUME NEW t \in Table, StartTable(t) PROVE IInv'
  <2> DEFINE first == PageOf(t.address)
             last == PageOf(t.address + t.size)
  <2>1. t.address \in Nat /\ t.address + t.size \in Nat
    BY AcpiAssumption DEF Area
  <2>2. first \in Nat /\ last \in Nat
    BY <2>1, PageParts
  <2>3. first .. last \subseteq Frame
    BY AcpiAssumption
  <2> QED
    BY <1>3, <2>2, <2>3, StartPinStep DEF StartTable
<1>4. ASSUME NEW a \in Address, StartAccess(a) PROVE IInv'
  <2> DEFINE p == PageOf(a)
  <2>0. p \in Frame /\ p \in Nat
    BY AcpiAssumption, Zenon
  <2> HIDE DEF p
  <2>1. p \in Nat /\ p .. p \subseteq Frame
    BY <2>0
  <2> QED
    BY <1>4, <2>1, StartPinStep, SMTT(20) DEF StartAccess, p
<1>5. CASE MapNextFrame
  BY <1>5, MapNextFrameStep
<1>6. CASE FinishMap
  BY <1>6, FinishMapStep
<1>7. CASE FinishPin \/ FinishUnmap
  BY <1>7, FinishStep
<1>8. CASE UnmapNextPage
  BY <1>8, UnmapNextPageStep
<1>9. ASSUME NEW f \in Frame, DriverMmap(f) PROVE IInv'
  BY <1>9, DriverMmapStep
<1>10. CASE MapNextFrameFails \/ (\E f \in Frame : DriverMmapFails(f)) \/ Halted \/ UNCHANGED vars
  BY <1>10, PanicStep DEF MapNextFrameFails, DriverMmapFails, Halted, vars
<1> QED
  BY <1>1, <1>2, <1>3, <1>4, <1>5, <1>6, <1>7, <1>8, <1>9, <1>10 DEF Next, LoopStep

\* The invariant holds in every state.
LEMMA Invariant == Spec => []IInv
BY InitInv, NextInv, PTL DEF Spec

-----------------------------------------------------------------------------
(* The properties.                                                         *)

\* Every byte of a live mapping is in a page with a holder, so with a count, so
\* mapped.
LEMMA InvLive == IInv => LiveBytesMapped
<1> SUFFICES ASSUME IInv, NEW s \in Slot, live[s] # NoMapping,
                    NEW a \in live[s].address .. (live[s].address + live[s].size - 1)
             PROVE  PageOf(a) \in mapped
  BY DEF LiveBytesMapped
<1> DEFINE f == PageOf(a)
<1>1. IsRegion(live[s])
  BY DEF IInv, LiveOK
<1>2. f \in First(live[s]) .. LastPage(live[s]) /\ f \in Frame
  BY <1>1, MappingFacts
<1> HIDE DEF f
<1>3. s \in Holders(f)
  BY <1>1, <1>2, MappingFacts DEF Holders, Spans, First
<1>4. Cardinality(Holders(f)) # 0 /\ Cardinality(Holders(f)) \in Nat
  BY <1>3, HoldersFinite, FS_EmptySet
<1>5. pins[f] \in Nat /\ LoopRefs(f) \in {0, 1}
  BY <1>2, LoopShare DEF IInv, TypeOK, OpOK
<1>6. mapping_refs[f] > 0
  BY <1>2, <1>4, <1>5 DEF IInv, Counted
<1> QED
  BY <1>2, <1>6 DEF IInv, OwnedOnce, f

\* The handler's variables keep their types, and the messages of the panics are
\* those of the code.
THEOREM TypeCorrect == Spec => []TypeOK
BY Invariant, PTL DEF IInv

\* Handler.mapping_refs is exact over every sequence of overlapping mappings,
\* drops, AML accesses and tables.
THEOREM CountsExact == Spec => []RefsExact
<1>1. IInv => RefsExact
  BY DEF IInv, Counted, RefsExact, Holders
<1> QED
  BY <1>1, Invariant, PTL

\* The bytes of a PhysicalMapping stay mapped as long as it lives.
THEOREM LiveMapped == Spec => []LiveBytesMapped
BY Invariant, InvLive, PTL

\* Handler and drivers never own a page together, and the handler leaves none of
\* its own behind.
THEOREM Owned == Spec => []PagesOwnedOnce
<1>1. IInv => PagesOwnedOnce
  BY DEF IInv, OwnedOnce, PagesOwnedOnce
<1> QED
  BY <1>1, Invariant, PTL

\* Handler::unmap finds its entry and its page.
THEOREM DropsSucceed == Spec => []DropNeverPanics
BY Invariant, PTL DEF IInv

=============================================================================
