---------------------------- MODULE PagingProofs ----------------------------
(***************************************************************************)
(* Proofs about Paging, for every memory map, heap and page table layout,  *)
(* on top of the invariant of the frame allocator.                         *)
(***************************************************************************)
EXTENDS Paging, FrameAllocatorProofs

-----------------------------------------------------------------------------
(* Pages.                                                                  *)

\* Quotients grow with the dividend.
LEMMA DivMonotone ==
  ASSUME NEW w \in Nat \ {0}, NEW a \in Nat, NEW b \in Nat, a <= b
  PROVE  a \div w <= b \div w
<1> DEFINE p == a \div w
           q == b \div w
           i == a % w
           j == b % w
<1>1. p \in Nat /\ i \in 0 .. (w - 1) /\ a = w * p + i
  BY DivMod, Zenon
<1>2. q \in Nat /\ j \in 0 .. (w - 1) /\ b = w * q + j
  BY DivMod, Zenon
<1> HIDE DEF p, q, i, j
<1>3. SUFFICES ASSUME p >= q + 1 PROVE FALSE
  BY <1>1, <1>2 DEF p, q
<1>4. w * p >= w * (q + 1)
  BY <1>1, <1>2, <1>3
<1> QED
  BY <1>1, <1>2, <1>4

HeapFirst == PageOf(HEAP_START)
HeapLast == PageOf(HEAP_START + HEAP_SIZE - 1)

\* The heap is a run of pages that contains each of its bytes.
LEMMA HeapFacts ==
  /\ HeapPages = HeapFirst .. HeapLast
  /\ HeapFirst \in Nat /\ HeapLast \in Nat /\ HeapFirst <= HeapLast
  /\ \A a \in HEAP_START .. (HEAP_START + HEAP_SIZE - 1) : PageOf(a) \in HeapPages
<1> DEFINE last == HEAP_START + HEAP_SIZE - 1
<1>1. PAGE_SIZE \in Nat \ {0} /\ HEAP_START \in Nat /\ last \in Nat /\ HEAP_START <= last
  BY PagingAssumption
<1> HIDE DEF last
<1>2. HeapFirst \in Nat /\ PageOf(last) \in Nat
  BY <1>1, DivMod DEF HeapFirst, PageOf
<1>3. HeapFirst <= PageOf(last)
  BY <1>1, DivMonotone DEF HeapFirst, PageOf
<1>4. ASSUME NEW a \in HEAP_START .. last
      PROVE  PageOf(a) \in HeapFirst .. PageOf(last)
  <2>1. a \in Nat /\ HEAP_START <= a /\ a <= last
    BY <1>1
  <2>2. PageOf(a) \in Nat
    BY <1>1, <2>1, DivMod DEF PageOf
  <2>3. HeapFirst <= PageOf(a) /\ PageOf(a) <= PageOf(last)
    BY <1>1, <2>1, DivMonotone DEF HeapFirst, PageOf
  <2> QED
    BY <1>2, <2>2, <2>3
<1>5. HeapPages = HeapFirst .. PageOf(last) /\ HeapLast = PageOf(last)
  BY DEF HeapPages, HeapFirst, HeapLast, last
<1> QED
  BY <1>2, <1>3, <1>4, <1>5 DEF last

\* Devices are identity mapped below the heap.
LEMMA PageFacts ==
  ASSUME memory_map \in MemoryMaps
  PROVE  /\ EndFrame \in Nat /\ EndFrame < HeapFirst
         /\ DevicePages \cap HeapPages = {}
         /\ Pages = DevicePages \cup HeapPages
         /\ DevicePages \subseteq Nat /\ HeapPages \subseteq Nat
         /\ DeviceFrames = DevicePages /\ UsableFrames \subseteq DevicePages
         /\ UsableFrames \subseteq Nat
         /\ None \notin Nat
<1>1. EndFrame \in Nat /\ EndFrame < HeapFirst
  BY MapFacts, PagingAssumption DEF EndFrame, HeapFirst, PageOf
<1> QED
  BY <1>1, HeapFacts, UsableFacts, PagingAssumption DEF DevicePages, Pages, DeviceFrames

\* The pages and frames are those of the memory map.
LEMMA PagesUnchanged ==
  ASSUME memory_map' = memory_map
  PROVE  /\ EndFrame' = EndFrame
         /\ DevicePages' = DevicePages
         /\ Pages' = Pages
         /\ AllTables' = AllTables
         /\ DeviceFrames' = DeviceFrames
         /\ UsableFrames' = UsableFrames
BY MapUnchanged DEF EndFrame, DevicePages, Pages, AllTables, DeviceFrames

\* mmap_dev goes on only for a frame that lies in the memory map.
LEMMA DeviceTypeBelow ==
  ASSUME memory_map \in MemoryMaps, NEW f \in Nat, NEW acpi \in BOOLEAN, DeviceTypeOK(f, acpi)
  PROVE  f < EndFrame
<1>1. get_frame_ty(f) # "None"
  BY DEF DeviceTypeOK
<1> QED
  BY <1>1, MapFacts DEF get_frame_ty, FrameTyMatches

-----------------------------------------------------------------------------
(* The inductive invariant.                                                *)

\* Before init returns nothing is mapped, and no device is before the heap is.
BootOK ==
  /\ phase \in {"bitmap", "tables"} =>
       /\ op = "idle" /\ ~ heap_ready
       /\ \A p \in Pages : mapping[p] = None
       /\ \A t \in AllTables : tables[t] = None
  /\ ~ heap_ready => taken = {} /\ \A p \in DevicePages : guards[p] = <<>>

\* map_range has mapped the heap pages before the one it is at, and no other;
\* mmap_dev is at a frame of the memory map.
ProgressOK ==
  /\ \A p \in HeapPages : mapping[p] # None <=> (heap_ready \/ (op = "heap" /\ p < target))
  /\ op = "idle" => target = None /\ frame = None
  /\ op = "heap" => /\ ~ heap_ready
                    /\ target \in HeapFirst .. (HeapLast + 1)
                    /\ frame # None => target \in HeapPages
  /\ op = "mmap" => /\ heap_ready
                    /\ target \in DevicePages /\ target < EndFrame /\ frame = target

\* A guard that does not free is of a marked frame; one that frees is of an
\* unmarked frame or of one that was allocated under it and not given back.
GuardFits(b, p) ==
  /\ ~ b => is_used(bitmap, p)
  /\ b /\ is_used(bitmap, p) => p \in taken /\ p \in owned

\* A device page is free, or it is mapped to its frame and has one guard.
DeviceFree(p) == mapping[p] = None /\ guards[p] = <<>>

DeviceHeld(p) ==
  /\ p < EndFrame
  /\ mapping[p] = p
  /\ \E b \in BOOLEAN : guards[p] = <<b>> /\ GuardFits(b, p)

DevicesOK == \A p \in DevicePages : DeviceFree(p) \/ DeviceHeld(p)

\* What FramesAccounted says, and that the frames of the heap are never lost.
Accounted ==
  /\ HeapFrames \cup InFlight \subseteq owned \ taken
  /\ owned \subseteq HeapFrames \cup TableFrames \cup InFlight
  /\ (HeapFrames \cup TableFrames \cup InFlight) \ owned \subseteq taken

PagingInv ==
  /\ PagingTypeOK
  /\ phase # "panicked" => IndInv
  /\ BootOK
  /\ ProgressOK
  /\ DevicesOK
  /\ Accounted
  /\ NoSharedFrame

-----------------------------------------------------------------------------
(* Steps of memory::init, panics, and what an allocation changes.          *)

\* The invariant holds when the boot loader hands over.
LEMMA PagingInitInv == PagingInit => PagingInv
<1> SUFFICES ASSUME PagingInit PROVE PagingInv
  OBVIOUS
<1>1. /\ Init /\ op = "idle" /\ target = None /\ frame = None /\ heap_ready = FALSE
      /\ taken = {}
      /\ mapping = [p \in Pages |-> None]
      /\ tables = [t \in AllTables |-> None]
      /\ guards = [p \in DevicePages |-> <<>>]
  BY DEF PagingInit
<1>2. IndInv /\ TypeOK /\ owned = {} /\ memory_map \in MemoryMaps
  BY <1>1, InitInv DEF IndInv, TypeOK, Init
<1>3. PagingTypeOK
  <2>1. <<>> \in Seq(BOOLEAN) /\ FALSE \in BOOLEAN
    OBVIOUS
  <2>2. guards \in [DevicePages -> Seq(BOOLEAN)]
    BY <1>1, <2>1, Zenon
  <2>3. heap_ready \in BOOLEAN
    BY <1>1, Zenon
  <2>4. op \in {"idle", "heap", "mmap"} /\ target \in Nat \cup {None} /\ frame \in Nat \cup {None}
        /\ taken \subseteq DevicePages
    BY <1>1
  <2>5. mapping \in [Pages -> Nat \cup {None}] /\ tables \in [AllTables -> Nat \cup {None}]
    BY <1>1
  <2> QED
    BY <1>2, <2>2, <2>3, <2>4, <2>5 DEF PagingTypeOK
<1>4. HeapFrames = {} /\ TableFrames = {} /\ InFlight = {}
  BY <1>1, <1>2, PageFacts DEF HeapFrames, TableFrames, InFlight
<1>5. BootOK /\ DevicesOK
  BY <1>1, <1>2, PageFacts DEF BootOK, DevicesOK, DeviceFree
<1>6. ProgressOK
  BY <1>1, <1>2, PageFacts DEF ProgressOK
<1>7. Accounted
  BY <1>1, <1>2, <1>4 DEF Accounted
<1>8. NoSharedFrame
  BY <1>1, <1>2, <1>4, PageFacts DEF NoSharedFrame
<1> QED
  BY <1>2, <1>3, <1>5, <1>6, <1>7, <1>8, Zenon DEF PagingInv

\* The steps of the frame allocator during init keep the invariant.
LEMMA MemoryInitStep ==
  ASSUME PagingInv, MemoryInit
  PROVE  PagingInv'
<1>1. /\ InitStep /\ UNCHANGED pagingVars /\ phase \in {"bitmap", "tables"}
      /\ memory_map' = memory_map /\ owned' = owned
  BY Zenon DEF MemoryInit, InitStep, AllocateBitmapFrame, CreateBitmapTable, BootstrapPanic,
         FinishInit, allocVars
<1>2. IndInv'
  BY <1>1, InitStepInv DEF PagingInv
<1>3. /\ op' = op /\ target' = target /\ frame' = frame /\ mapping' = mapping
      /\ tables' = tables /\ guards' = guards /\ heap_ready' = heap_ready /\ taken' = taken
  BY <1>1 DEF pagingVars
<1>4. PagingTypeOK'
  BY <1>1, <1>2, <1>3, PagesUnchanged DEF PagingInv, PagingTypeOK, IndInv
<1>5. BootOK' /\ ProgressOK'
  BY <1>1, <1>3, PagesUnchanged DEF PagingInv, BootOK, ProgressOK
<1>6. DevicesOK'
  <2>1. \A p \in DevicePages : mapping[p] = None /\ guards[p] = <<>>
    BY <1>1 DEF PagingInv, BootOK, Pages
  <2> QED
    BY <1>1, <1>3, <2>1, PagesUnchanged DEF DevicesOK, DeviceFree
<1>7. /\ HeapFrames' = HeapFrames /\ TableFrames' = TableFrames /\ InFlight' = InFlight
  BY <1>1, <1>3, PagesUnchanged DEF HeapFrames, TableFrames, InFlight
<1>8. Accounted'
  BY <1>1, <1>3, <1>7 DEF PagingInv, Accounted
<1>9. NoSharedFrame'
  BY <1>1, <1>3, <1>7, PagesUnchanged DEF PagingInv, NoSharedFrame
<1> QED
  BY <1>2, <1>4, <1>5, <1>6, <1>8, <1>9, Zenon DEF PagingInv

\* A panic, or no step at all.
LEMMA PanicStep ==
  ASSUME PagingInv, phase' \in {phase, "panicked"},
         UNCHANGED <<memory_map, bootVars, allocVars, pagingVars>>
  PROVE  PagingInv'
<1>1. /\ memory_map' = memory_map /\ page' = page /\ missing' = missing /\ next' = next
      /\ used' = used /\ boot_frames' = boot_frames
      /\ bitmap' = bitmap /\ next_usable' = next_usable /\ owned' = owned
  BY DEF bootVars, allocVars
<1>2. /\ op' = op /\ target' = target /\ frame' = frame /\ mapping' = mapping
      /\ tables' = tables /\ guards' = guards /\ heap_ready' = heap_ready /\ taken' = taken
  BY DEF pagingVars
<1>3. phase' # "panicked" => IndInv'
  BY <1>1, StutterInv DEF PagingInv, vars, bootVars, allocVars
<1>4. PagingTypeOK'
  BY <1>1, <1>2, PagesUnchanged, MapUnchanged DEF PagingInv, PagingTypeOK, TypeOK
<1>5. BootOK' /\ ProgressOK'
  BY <1>1, <1>2, PagesUnchanged DEF PagingInv, BootOK, ProgressOK
<1>6. DevicesOK'
  BY <1>1, <1>2, PagesUnchanged DEF PagingInv, DevicesOK, DeviceFree, DeviceHeld, GuardFits
<1>7. /\ HeapFrames' = HeapFrames /\ TableFrames' = TableFrames /\ InFlight' = InFlight
  BY <1>1, <1>2, PagesUnchanged DEF HeapFrames, TableFrames, InFlight
<1>8. Accounted'
  BY <1>1, <1>2, <1>7 DEF PagingInv, Accounted
<1>9. NoSharedFrame'
  BY <1>1, <1>2, <1>7, PagesUnchanged DEF PagingInv, NoSharedFrame
<1> QED
  BY <1>3, <1>4, <1>5, <1>6, <1>8, <1>9, Zenon DEF PagingInv

\* A frame that allocate_frame returns has no use yet, unless it was given back
\* while it had one; its mark is the only one that changes, and the history
\* records it if it is mapped for a device.
LEMMA AllocateFacts ==
  ASSUME PagingInv, phase = "ready", UNCHANGED <<memory_map, phase, bootVars>>,
         NEW f \in UsableFrames, TakeFrame(f)
  PROVE  /\ IndInv'
         /\ owned' = owned \cup {f}
         /\ f \in Nat /\ f # None
         /\ f \notin owned
         /\ \A p \in 0 .. (EndFrame - 1) : is_used(bitmap', p) <=> (p = f \/ is_used(bitmap, p))
         /\ taken \subseteq taken' /\ taken' \subseteq taken \cup {f}
         /\ taken' \subseteq DevicePages
         /\ f \in DevicePages
         /\ guards[f] # <<>> => f \in taken'
<1>1. IndInv /\ memory_map \in MemoryMaps /\ bitmap \in [MappedWords -> SUBSET Bits]
      /\ taken \subseteq DevicePages
  BY DEF PagingInv, PagingTypeOK, IndInv, TypeOK
<1>2. /\ allocate_frame(f)
      /\ taken' = taken \cup {p \in DevicePages : p = f /\ guards[p] # <<>>}
  BY DEF TakeFrame
<1>3. IndInv' /\ ~ is_used(bitmap, f)
  BY <1>1, <1>2, AllocateInv
<1>4. f \in 0 .. (EndFrame - 1) /\ f \in Nat /\ f # None /\ f \in DevicePages
  BY <1>1, UsableFacts, PageFacts
<1>5. f \notin owned
  BY <1>1, <1>3 DEF IndInv, LiveFramesMarked
<1>6. \A p \in 0 .. (EndFrame - 1) : is_used(mark_used(bitmap, f), p) <=> (p = f \/ is_used(bitmap, p))
  BY <1>1, <1>4, MarkUsedFacts
<1>7. bitmap' = mark_used(bitmap, f) /\ owned' = owned \cup {f}
  BY <1>2 DEF allocate_frame
<1>8. \A p \in 0 .. (EndFrame - 1) : is_used(bitmap', p) <=> (p = f \/ is_used(bitmap, p))
  BY <1>6, <1>7, Zenon
<1>9. /\ taken \subseteq taken' /\ taken' \subseteq taken \cup {f} /\ taken' \subseteq DevicePages
      /\ guards[f] # <<>> => f \in taken'
  BY <1>1, <1>2, <1>4
<1> QED
  BY <1>3, <1>4, <1>5, <1>7, <1>8, <1>9, Zenon

\* A device page whose entry, guard and frame a step leaves alone.
LEMMA EntryKept ==
  ASSUME NEW p, DeviceFree(p) \/ DeviceHeld(p), memory_map' = memory_map,
         mapping'[p] = mapping[p], guards'[p] = guards[p],
         is_used(bitmap', p) = is_used(bitmap, p), taken' = taken,
         p \in owned => p \in owned'
  PROVE  DeviceFree(p)' \/ DeviceHeld(p)'
<1>1. CASE DeviceFree(p)
  BY <1>1, Zenon DEF DeviceFree
<1>2. CASE DeviceHeld(p)
  <2>1. PICK b \in BOOLEAN : guards[p] = <<b>> /\ GuardFits(b, p)
    BY <1>2, Zenon DEF DeviceHeld
  <2>2. GuardFits(b, p)'
    BY <2>1 DEF GuardFits
  <2>3. EndFrame' = EndFrame
    BY PagesUnchanged
  <2> QED
    BY <1>2, <2>1, <2>2, <2>3, Zenon DEF DeviceHeld
<1> QED
  BY <1>1, <1>2

\* Device pages that a step does not touch keep their guards: no mark goes, and a
\* frame that is marked under a guard is recorded as allocated.
LEMMA DevicesKept ==
  ASSUME DevicesOK, memory_map \in MemoryMaps, memory_map' = memory_map, guards' = guards,
         \A p \in DevicePages : mapping'[p] = mapping[p],
         taken \subseteq taken', owned \subseteq owned',
         \A p \in 0 .. (EndFrame - 1) :
           /\ is_used(bitmap, p) => is_used(bitmap', p)
           /\ is_used(bitmap', p) /\ ~ is_used(bitmap, p) /\ guards[p] # <<>> =>
                p \in taken' /\ p \in owned'
  PROVE  DevicesOK'
<1> SUFFICES ASSUME NEW p \in DevicePages PROVE DeviceFree(p)' \/ DeviceHeld(p)'
  BY PagesUnchanged DEF DevicesOK
<1>1. CASE DeviceFree(p)
  BY <1>1 DEF DeviceFree
<1>2. CASE DeviceHeld(p)
  <2>1. p \in 0 .. (EndFrame - 1)
    BY <1>2, PageFacts DEF DeviceHeld, DevicePages, DeviceFrames
  <2>2. PICK b \in BOOLEAN : guards[p] = <<b>> /\ GuardFits(b, p)
    BY <1>2 DEF DeviceHeld
  <2>3. guards[p] # <<>>
    BY <2>2
  <2>4. GuardFits(b, p)'
    BY <2>1, <2>2, <2>3 DEF GuardFits
  <2>5. EndFrame' = EndFrame
    BY PagesUnchanged
  <2> QED
    BY <1>2, <2>2, <2>4, <2>5, Zenon DEF DeviceHeld
<1> QED
  BY <1>1, <1>2 DEF DevicesOK

-----------------------------------------------------------------------------
(* map_range, map_to and init_heap.                                        *)

\* The start of init_heap keeps the invariant.
LEMMA StartHeapStep ==
  ASSUME PagingInv, StartHeap
  PROVE  PagingInv'
<1>1. /\ phase = "ready" /\ op = "idle" /\ heap_ready = FALSE /\ frame = None
      /\ memory_map \in MemoryMaps
  BY DEF StartHeap, PagingInv, PagingTypeOK, TypeOK, ProgressOK
<1>2. /\ memory_map' = memory_map /\ phase' = phase /\ bitmap' = bitmap /\ owned' = owned
      /\ UNCHANGED vars
  BY DEF StartHeap, vars, bootVars, allocVars
<1>3. /\ op' = "heap" /\ target' = HeapFirst /\ frame' = frame /\ mapping' = mapping
      /\ tables' = tables /\ guards' = guards /\ heap_ready' = heap_ready /\ taken' = taken
  BY DEF StartHeap, HeapFirst
<1>4. IndInv'
  BY <1>1, <1>2, StutterInv DEF PagingInv
<1>5. PagingTypeOK'
  BY <1>2, <1>3, <1>4, HeapFacts, PagesUnchanged DEF PagingInv, PagingTypeOK, IndInv
<1>6. BootOK'
  BY <1>1, <1>2, <1>3, PagesUnchanged DEF PagingInv, BootOK
<1>7. ProgressOK'
  BY <1>1, <1>2, <1>3, HeapFacts, PagesUnchanged DEF PagingInv, ProgressOK
<1>8. DevicesOK'
  BY <1>1, <1>2, <1>3, DevicesKept DEF PagingInv
<1>9. HeapFrames' = HeapFrames /\ TableFrames' = TableFrames /\ InFlight' = {} /\ InFlight = {}
  BY <1>1, <1>2, <1>3, PagesUnchanged DEF HeapFrames, TableFrames, InFlight
<1>10. Accounted'
  BY <1>2, <1>3, <1>9 DEF PagingInv, Accounted
<1>11. NoSharedFrame'
  BY <1>2, <1>3, <1>9, PagesUnchanged DEF PagingInv, NoSharedFrame
<1> QED
  BY <1>4, <1>5, <1>6, <1>7, <1>8, <1>10, <1>11, Zenon DEF PagingInv

\* The allocation of a heap frame keeps the invariant.
LEMMA AllocateHeapFrameStep ==
  ASSUME PagingInv, AllocateHeapFrame
  PROVE  PagingInv'
<1>1. /\ phase = "ready" /\ op = "heap" /\ target \in HeapPages /\ frame = None
      /\ UNCHANGED <<memory_map, phase, bootVars>>
      /\ memory_map' = memory_map /\ phase' = phase /\ memory_map \in MemoryMaps
  BY DEF AllocateHeapFrame, PagingInv, PagingTypeOK, TypeOK
<1>2. PICK f \in UsableFrames : TakeFrame(f) /\ frame' = f
  BY DEF AllocateHeapFrame
<1>3. /\ op' = op /\ target' = target /\ mapping' = mapping
      /\ tables' = tables /\ guards' = guards /\ heap_ready' = heap_ready
  BY DEF AllocateHeapFrame
<1>4. /\ IndInv' /\ owned' = owned \cup {f} /\ f \in Nat /\ f # None /\ f \notin owned
      /\ \A p \in 0 .. (EndFrame - 1) : is_used(bitmap', p) <=> (p = f \/ is_used(bitmap, p))
      /\ taken \subseteq taken' /\ taken' \subseteq DevicePages /\ f \in DevicePages
      /\ guards[f] # <<>> => f \in taken'
  BY <1>1, <1>2, AllocateFacts
<1>14. ~ heap_ready /\ taken = {} /\ taken' = {} /\ \A p \in DevicePages : guards[p] = <<>>
  <2>1. ~ heap_ready /\ taken = {} /\ \A p \in DevicePages : guards[p] = <<>>
    BY <1>1 DEF PagingInv, BootOK, ProgressOK
  <2>2. taken' = taken \cup {p \in DevicePages : p = f /\ guards[p] # <<>>}
    BY <1>2 DEF TakeFrame
  <2> QED
    BY <2>1, <2>2
<1>5. PagingTypeOK'
  <2>1. frame' \in Nat \cup {None} /\ taken' \subseteq DevicePages
    BY <1>2, <1>4
  <2>2. op' = op /\ target' = target /\ mapping' = mapping /\ tables' = tables /\ guards' = guards
        /\ heap_ready' = heap_ready /\ DevicePages' = DevicePages /\ Pages' = Pages
        /\ AllTables' = AllTables
    BY <1>1, <1>3, PagesUnchanged
  <2>3. PagingTypeOK /\ TypeOK'
    BY <1>4, Zenon DEF PagingInv, IndInv
  <2> QED
    BY <2>1, <2>2, <2>3, Zenon DEF PagingTypeOK
<1>6. BootOK'
  BY <1>1, <1>3, <1>14, PagesUnchanged DEF BootOK
<1>7. ProgressOK'
  BY <1>1, <1>3, PagesUnchanged DEF PagingInv, ProgressOK
<1>8. DevicesOK'
  <2>1. DevicesOK
    BY Zenon DEF PagingInv
  <2>2. /\ memory_map \in MemoryMaps /\ memory_map' = memory_map /\ guards' = guards
        /\ \A p \in DevicePages : mapping'[p] = mapping[p]
        /\ taken \subseteq taken' /\ owned \subseteq owned'
    BY <1>1, <1>3, <1>4
  <2>3. ASSUME NEW p \in 0 .. (EndFrame - 1)
        PROVE  /\ is_used(bitmap, p) => is_used(bitmap', p)
               /\ is_used(bitmap', p) /\ ~ is_used(bitmap, p) /\ guards[p] # <<>> =>
                    p \in taken' /\ p \in owned'
    BY <1>4
  <2> QED
    BY <2>1, <2>2, <2>3, DevicesKept
<1>9. HeapFrames' = HeapFrames /\ TableFrames' = TableFrames /\ InFlight' = {f} /\ InFlight = {}
  <2>1. HeapFrames' = HeapFrames /\ TableFrames' = TableFrames
    BY <1>1, <1>3, PagesUnchanged DEF HeapFrames, TableFrames
  <2>2. InFlight' = {f} /\ InFlight = {}
    BY <1>1, <1>2, <1>3, <1>4 DEF InFlight
  <2> QED
    BY <2>1, <2>2
<1>10. owned = HeapFrames \cup TableFrames
  BY <1>9, <1>14 DEF PagingInv, Accounted
<1>11. Accounted'
  BY <1>4, <1>9, <1>10, <1>14 DEF Accounted
<1>12. NoSharedFrame'
  BY <1>1, <1>3, <1>4, <1>9, <1>10, <1>14, PagesUnchanged DEF PagingInv, NoSharedFrame
<1> QED
  BY <1>4, <1>5, <1>6, <1>7, <1>8, <1>11, <1>12, Zenon DEF PagingInv

\* The creation of a page table keeps the invariant.
LEMMA CreateTableStep ==
  ASSUME PagingInv, CreateTable
  PROVE  PagingInv'
<1>1. /\ phase = "ready" /\ frame # None
      /\ UNCHANGED <<memory_map, phase, bootVars>>
      /\ memory_map' = memory_map /\ phase' = phase /\ memory_map \in MemoryMaps
      /\ tables \in [AllTables -> Nat \cup {None}]
  BY DEF CreateTable, PagingInv, PagingTypeOK, TypeOK
<1>2. PICK t \in AllTables, f \in UsableFrames :
        /\ tables[t] = None /\ TakeFrame(f)
        /\ tables' = [tables EXCEPT ![t] = f]
  BY Zenon DEF CreateTable, MissingTables
<1>3. /\ op' = op /\ target' = target /\ frame' = frame /\ mapping' = mapping
      /\ guards' = guards /\ heap_ready' = heap_ready
  BY DEF CreateTable
<1>4. /\ IndInv' /\ owned' = owned \cup {f} /\ f \in Nat /\ f # None /\ f \notin owned
      /\ \A p \in 0 .. (EndFrame - 1) : is_used(bitmap', p) <=> (p = f \/ is_used(bitmap, p))
      /\ taken \subseteq taken' /\ taken' \subseteq taken \cup {f} /\ taken' \subseteq DevicePages
      /\ guards[f] # <<>> => f \in taken'
  BY <1>1, <1>2, AllocateFacts
<1>5. /\ tables' \in [AllTables -> Nat \cup {None}]
      /\ tables'[t] = f /\ \A u \in AllTables : u # t => tables'[u] = tables[u]
  BY <1>1, <1>2, <1>4
<1>6. PagingTypeOK'
  BY <1>1, <1>3, <1>4, <1>5, PagesUnchanged DEF PagingInv, PagingTypeOK, IndInv
<1>7. BootOK' /\ ProgressOK'
  <2>1. ~ heap_ready => taken' = {}
    <3>1. taken' = taken \cup {p \in DevicePages : p = f /\ guards[p] # <<>>}
      BY <1>2 DEF TakeFrame
    <3> QED
      BY <3>1 DEF PagingInv, BootOK
  <2>2. BootOK'
    BY <1>1, <1>3, <2>1, PagesUnchanged DEF PagingInv, BootOK
  <2>3. ProgressOK'
    BY <1>1, <1>3, PagesUnchanged DEF PagingInv, ProgressOK
  <2> QED
    BY <2>2, <2>3
<1>8. DevicesOK'
  <2>1. DevicesOK
    BY Zenon DEF PagingInv
  <2>2. /\ memory_map \in MemoryMaps /\ memory_map' = memory_map /\ guards' = guards
        /\ \A p \in DevicePages : mapping'[p] = mapping[p]
        /\ taken \subseteq taken' /\ owned \subseteq owned'
    BY <1>1, <1>3, <1>4
  <2>3. ASSUME NEW p \in 0 .. (EndFrame - 1)
        PROVE  /\ is_used(bitmap, p) => is_used(bitmap', p)
               /\ is_used(bitmap', p) /\ ~ is_used(bitmap, p) /\ guards[p] # <<>> =>
                    p \in taken' /\ p \in owned'
    BY <1>4
  <2> QED
    BY <2>1, <2>2, <2>3, DevicesKept
<1>9. HeapFrames' = HeapFrames /\ InFlight' = InFlight
  BY <1>1, <1>3, PagesUnchanged DEF HeapFrames, InFlight
<1>10. TableFrames' = TableFrames \cup {f}
  BY <1>1, <1>2, <1>4, <1>5, PagesUnchanged DEF TableFrames
<1>11. /\ f \notin HeapFrames \cup InFlight
       /\ f \in TableFrames => f \in taken
  BY <1>4 DEF PagingInv, Accounted
<1>12. Accounted'
  BY <1>4, <1>9, <1>10, <1>11 DEF PagingInv, Accounted
<1>13. NoSharedFrame'
  <2>1. \A u \in AllTables : tables[u] = f => f \in taken'
    BY <1>4, <1>11 DEF TableFrames
  <2>2. \A u, v \in AllTables : u # v /\ tables'[u] # None /\ tables'[u] = tables'[v] =>
                                  tables'[u] \in taken'
    BY <1>4, <1>5, <2>1 DEF PagingInv, NoSharedFrame
  <2>3. \A p, q \in HeapPages : p # q /\ mapping'[p] # None => mapping'[p] # mapping'[q]
    BY <1>3 DEF PagingInv, NoSharedFrame
  <2>4. /\ HeapFrames' \cap TableFrames' = {}
        /\ InFlight' \cap (HeapFrames' \cup TableFrames') = {}
    BY <1>9, <1>10, <1>11 DEF PagingInv, NoSharedFrame
  <2> QED
    BY <1>1, <2>2, <2>3, <2>4, PagesUnchanged DEF NoSharedFrame
<1> QED
  BY <1>4, <1>6, <1>7, <1>8, <1>12, <1>13, Zenon DEF PagingInv

\* The entry of a heap page keeps the invariant.
LEMMA SetHeapEntryStep ==
  ASSUME PagingInv, SetHeapEntry
  PROVE  PagingInv'
<1>1. /\ phase = "ready" /\ op = "heap" /\ frame # None /\ mapping[target] = None
      /\ memory_map \in MemoryMaps /\ frame \in Nat
      /\ mapping \in [Pages -> Nat \cup {None}]
  BY DEF SetHeapEntry, PagingInv, PagingTypeOK, TypeOK
<1>2. /\ memory_map' = memory_map /\ phase' = phase /\ bitmap' = bitmap /\ owned' = owned
      /\ UNCHANGED vars
  BY DEF SetHeapEntry, vars, bootVars, allocVars
<1>3. /\ op' = op /\ target' = target + 1 /\ frame' = None
      /\ mapping' = [mapping EXCEPT ![target] = frame]
      /\ tables' = tables /\ guards' = guards /\ heap_ready' = heap_ready /\ taken' = taken
  BY DEF SetHeapEntry
<1>4. /\ target \in HeapPages /\ target \in Pages /\ target \in Nat /\ heap_ready = FALSE
  BY <1>1, PageFacts DEF PagingInv, ProgressOK, PagingTypeOK
<1>5. /\ mapping' \in [Pages -> Nat \cup {None}]
      /\ mapping'[target] = frame /\ \A p \in Pages : p # target => mapping'[p] = mapping[p]
  BY <1>1, <1>3, <1>4
<1>6. IndInv'
  BY <1>1, <1>2, StutterInv DEF PagingInv
<1>7. PagingTypeOK'
  <2>1. target' \in Nat \cup {None} /\ frame' \in Nat \cup {None}
    BY <1>3, <1>4
  <2>2. op' = op /\ tables' = tables /\ guards' = guards /\ heap_ready' = heap_ready
    BY <1>3
  <2>3. taken' \subseteq DevicePages
    BY <1>3 DEF PagingInv, PagingTypeOK
  <2> QED
    BY <1>2, <1>5, <1>6, <2>1, <2>2, <2>3, PagesUnchanged DEF PagingInv, PagingTypeOK, IndInv
<1>8. BootOK'
  BY <1>1, <1>2, <1>3, PagesUnchanged DEF PagingInv, BootOK
<1>9. ProgressOK'
  <2>1. \A p \in HeapPages : mapping[p] # None <=> p < target
    BY <1>1, <1>4 DEF PagingInv, ProgressOK
  <2>2. \A p \in HeapPages : p \in Nat /\ p \in Pages /\ (p < target + 1 <=> (p < target \/ p = target))
    BY <1>1, <1>4, PageFacts
  <2>3. \A p \in HeapPages : mapping'[p] # None <=> p < target + 1
    BY <1>1, <1>5, <2>1, <2>2
  <2>4. target + 1 \in HeapFirst .. (HeapLast + 1)
    BY <1>4, HeapFacts
  <2> QED
    BY <1>1, <1>3, <1>4, <2>3, <2>4 DEF ProgressOK
<1>10. \A p \in DevicePages : mapping'[p] = mapping[p]
  BY <1>1, <1>4, <1>5, PageFacts
<1>11. DevicesOK'
  BY <1>1, <1>2, <1>3, <1>10, DevicesKept DEF PagingInv
<1>12. /\ TableFrames' = TableFrames /\ InFlight' = {} /\ InFlight = {frame}
  BY <1>1, <1>2, <1>3, PagesUnchanged DEF TableFrames, InFlight
<1>13. HeapPages \subseteq Pages
  BY <1>1, PageFacts
<1>14. HeapFrames' = HeapFrames \cup {frame}
  BY <1>1, <1>4, <1>5, <1>13 DEF HeapFrames
<1>15. Accounted'
  BY <1>2, <1>3, <1>12, <1>14 DEF PagingInv, Accounted
<1>16. NoSharedFrame'
  <2>1. frame \notin HeapFrames \cup TableFrames
    BY <1>12 DEF PagingInv, NoSharedFrame
  <2>2. \A p \in HeapPages : mapping[p] # frame
    BY <1>1, <2>1 DEF HeapFrames
  <2>3. \A p, q \in HeapPages : p # q /\ mapping'[p] # None => mapping'[p] # mapping'[q]
    BY <1>1, <1>5, <1>13, <2>2 DEF PagingInv, NoSharedFrame
  <2>4. \A t, u \in AllTables : t # u /\ tables[t] # None /\ tables[t] = tables[u] =>
                                  tables[t] \in taken
    BY DEF PagingInv, NoSharedFrame
  <2>5. /\ HeapFrames' \cap TableFrames' = {}
        /\ InFlight' \cap (HeapFrames' \cup TableFrames') = {}
    BY <1>12, <1>14, <2>1 DEF PagingInv, NoSharedFrame
  <2> QED
    BY <1>2, <1>3, <2>3, <2>4, <2>5, PagesUnchanged DEF NoSharedFrame
<1> QED
  BY <1>6, <1>7, <1>8, <1>9, <1>11, <1>15, <1>16, Zenon DEF PagingInv

\* The end of init_heap keeps the invariant.
LEMMA FinishHeapStep ==
  ASSUME PagingInv, FinishHeap
  PROVE  PagingInv'
<1>1. /\ phase = "ready" /\ op = "heap" /\ target \notin HeapPages /\ frame = None
      /\ memory_map \in MemoryMaps
  BY DEF FinishHeap, PagingInv, PagingTypeOK, TypeOK
<1>2. /\ memory_map' = memory_map /\ phase' = phase /\ bitmap' = bitmap /\ owned' = owned
      /\ UNCHANGED vars
  BY DEF FinishHeap, vars, bootVars, allocVars
<1>3. /\ op' = "idle" /\ target' = None /\ frame' = None /\ mapping' = mapping
      /\ tables' = tables /\ guards' = guards /\ heap_ready' = TRUE /\ taken' = taken
  BY DEF FinishHeap, Idle
<1>4. IndInv'
  BY <1>1, <1>2, StutterInv DEF PagingInv
<1>5. PagingTypeOK'
  <2>1. heap_ready' \in BOOLEAN
    BY <1>3
  <2>2. op' = "idle" /\ target' = None /\ frame' = None /\ mapping' = mapping
        /\ tables' = tables /\ guards' = guards /\ taken' = taken
    BY <1>3
  <2> QED
    BY <1>2, <1>4, <2>1, <2>2, PagesUnchanged DEF PagingInv, PagingTypeOK, IndInv
<1>6. BootOK'
  BY <1>1, <1>2, <1>3 DEF BootOK
<1>7. ProgressOK'
  <2>1. target \in HeapFirst .. (HeapLast + 1) /\ target \notin HeapFirst .. HeapLast
    BY <1>1, HeapFacts DEF PagingInv, ProgressOK
  <2>2. \A p \in HeapPages : p < target
    BY <2>1, HeapFacts
  <2>3. \A p \in HeapPages : mapping[p] # None
    BY <1>1, <2>2 DEF PagingInv, ProgressOK
  <2> QED
    BY <1>3, <2>3 DEF ProgressOK
<1>8. DevicesOK'
  BY <1>1, <1>2, <1>3, DevicesKept DEF PagingInv
<1>9. HeapFrames' = HeapFrames /\ TableFrames' = TableFrames /\ InFlight' = {} /\ InFlight = {}
  BY <1>1, <1>2, <1>3, PagesUnchanged DEF HeapFrames, TableFrames, InFlight
<1>10. Accounted'
  BY <1>2, <1>3, <1>9 DEF PagingInv, Accounted
<1>11. NoSharedFrame'
  BY <1>2, <1>3, <1>9, PagesUnchanged DEF PagingInv, NoSharedFrame
<1> QED
  BY <1>4, <1>5, <1>6, <1>7, <1>8, <1>10, <1>11, Zenon DEF PagingInv

-----------------------------------------------------------------------------
(* mmap_dev and unmap.                                                     *)

\* The start of mmap_dev keeps the invariant.
LEMMA MmapDevStep ==
  ASSUME PagingInv, MmapDev
  PROVE  PagingInv'
<1>1. /\ phase = "ready" /\ op = "idle" /\ heap_ready /\ frame = None
      /\ memory_map \in MemoryMaps
  BY DEF MmapDev, PagingInv, PagingTypeOK, TypeOK, ProgressOK
<1>2. /\ memory_map' = memory_map /\ phase' = phase /\ bitmap' = bitmap /\ owned' = owned
      /\ UNCHANGED vars
  BY DEF MmapDev, vars, bootVars, allocVars
<1>3. PICK f \in DeviceFrames, acpi \in BOOLEAN :
        DeviceTypeOK(f, acpi) /\ op' = "mmap" /\ target' = f /\ frame' = f
  BY DEF MmapDev
<1>4. /\ mapping' = mapping /\ tables' = tables /\ guards' = guards /\ heap_ready' = heap_ready
      /\ taken' = taken
  BY DEF MmapDev
<1>5. f \in Nat /\ f < EndFrame /\ f \in DevicePages
  <2>1. f \in Nat /\ f \in DevicePages
    BY <1>1, PageFacts
  <2> QED
    BY <1>1, <1>3, <2>1, DeviceTypeBelow
<1>6. IndInv'
  BY <1>1, <1>2, StutterInv DEF PagingInv
<1>7. PagingTypeOK'
  BY <1>2, <1>3, <1>4, <1>5, <1>6, PagesUnchanged DEF PagingInv, PagingTypeOK, IndInv
<1>8. BootOK'
  BY <1>1, <1>2, <1>4 DEF BootOK
<1>9. ProgressOK'
  BY <1>1, <1>2, <1>3, <1>4, <1>5, PagesUnchanged DEF PagingInv, ProgressOK
<1>10. DevicesOK'
  BY <1>1, <1>2, <1>4, DevicesKept DEF PagingInv
<1>11. HeapFrames' = HeapFrames /\ TableFrames' = TableFrames /\ InFlight' = {} /\ InFlight = {}
  BY <1>1, <1>2, <1>3, <1>4, PagesUnchanged DEF HeapFrames, TableFrames, InFlight
<1>12. Accounted'
  <2>1. Accounted
    BY ZenonT(30) DEF PagingInv
  <2> QED
    BY <1>2, <1>4, <1>11, <2>1 DEF Accounted
<1>13. NoSharedFrame'
  BY <1>2, <1>4, <1>11, PagesUnchanged DEF PagingInv, NoSharedFrame
<1> QED
  BY <1>6, <1>7, <1>8, <1>9, <1>10, <1>12, <1>13, ZenonT(30) DEF PagingInv

\* A sequence of one guard.
LEMMA OneGuard ==
  ASSUME NEW b \in BOOLEAN
  PROVE  /\ Append(<<>>, b) = <<b>> /\ <<b>> \in Seq(BOOLEAN) /\ <<b>> # <<>>
         /\ Head(<<b>>) = b /\ Tail(<<b>>) = <<>> /\ Len(<<b>>) = 1
OBVIOUS

\* The entry of a device page keeps the invariant.
LEMMA SetDeviceEntryStep ==
  ASSUME PagingInv, SetDeviceEntry
  PROVE  PagingInv'
<1>1. /\ phase = "ready" /\ op = "mmap" /\ frame = target /\ mapping[target] = None
      /\ memory_map \in MemoryMaps
      /\ mapping \in [Pages -> Nat \cup {None}] /\ guards \in [DevicePages -> Seq(BOOLEAN)]
      /\ target \in DevicePages /\ target < EndFrame /\ heap_ready
  <2>1. phase = "ready" /\ op = "mmap" /\ mapping[target] = None
    BY DEF SetDeviceEntry
  <2>2. ProgressOK /\ PagingTypeOK /\ TypeOK
    BY DEF PagingInv, PagingTypeOK
  <2>3. /\ memory_map \in MemoryMaps /\ mapping \in [Pages -> Nat \cup {None}]
        /\ guards \in [DevicePages -> Seq(BOOLEAN)]
    BY <2>2 DEF PagingTypeOK, TypeOK
  <2>4. frame = target /\ target \in DevicePages /\ target < EndFrame /\ heap_ready
    BY <2>1, <2>2 DEF ProgressOK
  <2> QED
    BY <2>1, <2>3, <2>4
<1>2. /\ memory_map' = memory_map /\ phase' = phase /\ bitmap' = bitmap /\ owned' = owned
      /\ UNCHANGED vars
  BY Zenon DEF SetDeviceEntry, vars, bootVars, allocVars
<1>3. /\ op' = "idle" /\ target' = None /\ frame' = None
      /\ mapping' = [mapping EXCEPT ![target] = target]
      /\ tables' = tables /\ heap_ready' = heap_ready /\ taken' = taken
  BY <1>1 DEF SetDeviceEntry, Idle
<1>4. /\ target \in Nat /\ target # None /\ target \in Pages /\ target \in DevicePages
      /\ target \notin HeapPages
      /\ HeapPages \subseteq Pages /\ DevicePages \subseteq Pages
  BY <1>1, PageFacts
<1> DEFINE b == ~ is_used(bitmap, target)
<1>5. b \in BOOLEAN
  OBVIOUS
<1>6. guards[target] = <<>>
  BY <1>1, <1>4, PageFacts DEF PagingInv, DevicesOK, DeviceFree, DeviceHeld
<1>7. guards' = [guards EXCEPT ![target] = <<b>>]
  <2>1. guards' = [guards EXCEPT ![target] = Append(guards[target], b)]
    BY <1>1 DEF SetDeviceEntry
  <2> HIDE DEF b
  <2>2. Append(guards[target], b) = <<b>>
    BY <1>5, <1>6, OneGuard
  <2> QED
    BY <2>1, <2>2
<1>8. /\ mapping' \in [Pages -> Nat \cup {None}] /\ mapping'[target] = target
      /\ \A p \in Pages : p # target => mapping'[p] = mapping[p]
  BY <1>1, <1>3, <1>4, SMTT(20)
<1>9. /\ guards' \in [DevicePages -> Seq(BOOLEAN)] /\ guards'[target] = <<b>>
      /\ \A p \in DevicePages : p # target => guards'[p] = guards[p]
  <2> HIDE DEF b
  <2>1. <<b>> \in Seq(BOOLEAN)
    BY <1>5, OneGuard
  <2> DEFINE g == <<b>>
  <2>2. g \in Seq(BOOLEAN) /\ guards' = [guards EXCEPT ![target] = g]
    BY <1>7, <2>1
  <2> HIDE DEF g
  <2>3. /\ guards' \in [DevicePages -> Seq(BOOLEAN)] /\ guards'[target] = g
        /\ \A p \in DevicePages : p # target => guards'[p] = guards[p]
    BY <1>1, <1>4, <2>2
  <2> QED
    BY <2>3 DEF g
<1>10. IndInv'
  BY <1>1, <1>2, StutterInv DEF PagingInv
<1>11. PagingTypeOK'
  <2>1. guards' \in [DevicePages -> Seq(BOOLEAN)]
    BY <1>9
  <2>2. op' = "idle" /\ target' = None /\ frame' = None /\ tables' = tables
        /\ heap_ready' = heap_ready /\ memory_map' = memory_map /\ taken' = taken
    BY <1>2, <1>3
  <2>3. mapping' \in [Pages -> Nat \cup {None}]
    BY <1>8
  <2> QED
    BY <1>10, <2>1, <2>2, <2>3, PagesUnchanged, SMTT(20) DEF PagingInv, PagingTypeOK, IndInv
<1>12. BootOK'
  BY <1>1, <1>2, <1>3 DEF BootOK
<1>13. ProgressOK'
  <2>1. \A p \in HeapPages : mapping'[p] = mapping[p]
    BY <1>4, <1>8
  <2> QED
    BY <1>1, <1>2, <1>3, <2>1, PagesUnchanged DEF PagingInv, ProgressOK
<1>14. DevicesOK'
  <2> SUFFICES ASSUME NEW p \in DevicePages PROVE DeviceFree(p)' \/ DeviceHeld(p)'
    BY <1>2, PagesUnchanged DEF DevicesOK
  <2>1. CASE p = target
    <3>1. EndFrame' = EndFrame /\ p < EndFrame /\ mapping'[p] = p
      BY <1>1, <1>2, <1>8, <2>1, PagesUnchanged
    <3>2. PICK c \in BOOLEAN : c = ~ is_used(bitmap, p) /\ guards'[p] = <<c>>
      BY <1>5, <1>9, <2>1, Zenon
    <3>3. GuardFits(c, p)'
      BY <1>2, <3>2, Zenon DEF GuardFits
    <3> QED
      BY <3>1, <3>2, <3>3, Zenon DEF DeviceHeld
  <2>2. CASE p # target
    <3>1. mapping'[p] = mapping[p] /\ guards'[p] = guards[p] /\ memory_map' = memory_map
          /\ bitmap' = bitmap /\ owned' = owned /\ taken' = taken
      BY <1>2, <1>3, <1>4, <1>8, <1>9, <2>2, Zenon
    <3>2. DeviceFree(p) \/ DeviceHeld(p)
      BY Zenon DEF PagingInv, DevicesOK
    <3> QED
      BY <3>1, <3>2, EntryKept
  <2> QED
    BY <2>1, <2>2
<1>15. /\ TableFrames' = TableFrames /\ InFlight' = {} /\ InFlight = {}
  BY <1>1, <1>2, <1>3, PagesUnchanged DEF TableFrames, InFlight
<1>16. \A p \in HeapPages : mapping'[p] = mapping[p]
  BY <1>4, <1>8
<1>17. HeapFrames' = HeapFrames
  BY <1>16 DEF HeapFrames
<1>18. Accounted'
  BY <1>2, <1>3, <1>15, <1>17, SMTT(20) DEF PagingInv, Accounted
<1>19. NoSharedFrame'
  <2>1. NoSharedFrame /\ AllTables' = AllTables /\ tables' = tables /\ taken' = taken
    BY <1>2, <1>3, PagesUnchanged, SMTT(20) DEF PagingInv
  <2> QED
    BY <1>15, <1>16, <1>17, <2>1 DEF NoSharedFrame
<1> QED
  BY <1>10, <1>11, <1>12, <1>13, <1>14, <1>18, <1>19, Zenon DEF PagingInv

\* Giving back a frame whose bit is clear changes nothing.
LEMMA DeviceFreeInv ==
  ASSUME IndInv, phase = "ready", UNCHANGED <<memory_map, phase, bootVars>>,
         NEW f \in 0 .. (EndFrame - 1), ~ is_used(bitmap, f),
         deallocate_frame(f)
  PROVE  /\ IndInv' /\ owned' = owned
         /\ \A p \in 0 .. (EndFrame - 1) : is_used(bitmap', p) = is_used(bitmap, p)
<1> USE MapUnchanged DEF IndInv
<1>1. /\ memory_map' = memory_map /\ phase' = phase /\ page' = page
      /\ missing' = missing /\ next' = next /\ used' = used /\ boot_frames' = boot_frames
  BY DEF bootVars
<1>2. /\ next_usable' = next_usable /\ bitmap' = mark_unused(bitmap, f)
      /\ owned' = owned \ {f} /\ f \notin owned
  BY DEF deallocate_frame, LiveFramesMarked
<1>3. owned' = owned
  BY <1>2
<1>4. /\ mark_unused(bitmap, f) \in [MappedWords -> SUBSET Bits]
      /\ \A g \in 0 .. (EndFrame - 1) :
           is_used(mark_unused(bitmap, f), g) <=> (g # f /\ is_used(bitmap, g))
  BY MarkUnusedFacts DEF TypeOK
<1>5. \A p \in 0 .. (EndFrame - 1) : is_used(bitmap', p) = is_used(bitmap, p)
  BY <1>2, <1>4 DEF is_used
<1>6. TypeOK' /\ PhaseOK'
  BY <1>1, <1>2, <1>3, <1>4 DEF TypeOK, PhaseOK
<1>7. boot_frames \cup owned \subseteq 0 .. (EndFrame - 1) /\ MarkedRegions \subseteq 0 .. (EndFrame - 1)
  <2>1. memory_map \in MemoryMaps /\ boot_frames \subseteq UsableFrames /\ owned \subseteq UsableFrames
    BY DEF TypeOK
  <2> QED
    BY <2>1, UsableFacts
<1>8. LiveFramesMarked'
  <2>1. \A g \in boot_frames \cup owned : is_used(bitmap, g)
    BY DEF LiveFramesMarked
  <2>2. \A g \in boot_frames \cup owned : is_used(bitmap', g)
    BY <1>5, <1>7, <2>1, SMTT(20)
  <2> QED
    BY <1>1, <1>3, <2>2 DEF LiveFramesMarked, is_used
<1>9. KernelFramesMarked'
  <2>1. \A g \in MarkedRegions : is_used(bitmap, g)
    BY DEF KernelFramesMarked
  <2>2. \A g \in MarkedRegions : is_used(bitmap', g)
    BY <1>5, <1>7, <2>1
  <2> QED
    BY <1>1, <2>2 DEF KernelFramesMarked, is_used
<1> QED
  BY <1>1, <1>3, <1>5, <1>6, <1>8, <1>9
     DEF BootPrefix, BootCount, UsedCountsExact, BootFramesNeverGranted

\* An outstanding guard belongs to a mapped page.
LEMMA HeldPage ==
  ASSUME PagingInv, NEW p \in DevicePages, guards[p] # <<>>
  PROVE  /\ DeviceHeld(p) /\ mapping[p] = p /\ p # None /\ p \in 0 .. (EndFrame - 1)
         /\ Head(guards[p]) \in BOOLEAN /\ GuardFits(Head(guards[p]), p)
         /\ Tail(guards[p]) = <<>> /\ Len(guards[p]) = 1
<1>1. DeviceHeld(p)
  BY DEF PagingInv, DevicesOK, DeviceFree
<1>2. memory_map \in MemoryMaps
  BY DEF PagingInv, PagingTypeOK, TypeOK
<1>3. p # None /\ p \in 0 .. (EndFrame - 1)
  BY <1>1, <1>2, PageFacts DEF DeviceHeld, DevicePages, DeviceFrames
<1>4. PICK b \in BOOLEAN : guards[p] = <<b>> /\ GuardFits(b, p)
  BY <1>1, Zenon DEF DeviceHeld
<1>5. Head(<<b>>) = b /\ Tail(<<b>>) = <<>> /\ Len(<<b>>) = 1
  BY <1>4, OneGuard
<1>6. Head(guards[p]) = b /\ Tail(guards[p]) = <<>> /\ Len(guards[p]) = 1
  BY <1>4, <1>5
<1>7. mapping[p] = p
  BY <1>1, Zenon DEF DeviceHeld
<1> QED
  BY <1>1, <1>3, <1>4, <1>6, <1>7, Zenon

\* What unmap does to the allocator: the guard's frame had no mark and nothing
\* changes, or the guard does not free, or the frame was allocated under the
\* guard and its owner loses it.
LEMMA UnmapFrees ==
  ASSUME PagingInv, NEW p \in DevicePages, Unmap(p)
  PROVE  /\ IndInv'
         /\ \/ owned' = owned
            \/ owned' = owned \ {p} /\ p \in taken
         /\ \A q \in 0 .. (EndFrame - 1) : q # p => is_used(bitmap', q) = is_used(bitmap, q)
         /\ is_used(bitmap, p) /\ ~ is_used(bitmap', p) => p \in taken
<1>1. /\ phase = "ready" /\ guards[p] # <<>> /\ memory_map \in MemoryMaps /\ IndInv
  BY DEF Unmap, PagingInv, PagingTypeOK, TypeOK
<1>2. /\ mapping[p] = p /\ p # None /\ p \in 0 .. (EndFrame - 1)
      /\ Head(guards[p]) \in BOOLEAN /\ GuardFits(Head(guards[p]), p)
  BY <1>1, HeldPage, Zenon
<1>3. /\ IF Head(guards[p]) THEN deallocate_frame(p) ELSE UNCHANGED allocVars
      /\ UNCHANGED <<memory_map, phase, bootVars>>
  BY <1>1, <1>2 DEF Unmap
<1>4. CASE ~ Head(guards[p])
  <2>1. UNCHANGED vars /\ bitmap' = bitmap /\ owned' = owned
    BY <1>3, <1>4 DEF vars, allocVars, bootVars
  <2> QED
    BY <1>1, <2>1, StutterInv
<1>5. CASE Head(guards[p]) /\ ~ is_used(bitmap, p)
  BY <1>1, <1>2, <1>3, <1>5, DeviceFreeInv
<1>6. CASE Head(guards[p]) /\ is_used(bitmap, p)
  <2>1. p \in taken /\ p \in owned /\ deallocate_frame(p)
    BY <1>2, <1>3, <1>6 DEF GuardFits
  <2>2. IndInv'
    BY <1>1, <1>3, <2>1, DeallocateInv
  <2>3. bitmap' = mark_unused(bitmap, p) /\ owned' = owned \ {p}
    BY <2>1 DEF deallocate_frame
  <2>4. \A q \in 0 .. (EndFrame - 1) :
          is_used(mark_unused(bitmap, p), q) <=> (q # p /\ is_used(bitmap, q))
    <3>1. bitmap \in [MappedWords -> SUBSET Bits]
      BY <1>1, Zenon DEF IndInv, TypeOK
    <3> QED
      BY <1>1, <1>2, <3>1, MarkUnusedFacts
  <2>5. \A q \in 0 .. (EndFrame - 1) : q # p => is_used(bitmap', q) = is_used(bitmap, q)
    BY <2>3, <2>4 DEF is_used
  <2> QED
    BY <2>1, <2>2, <2>3, <2>5
<1> QED
  BY <1>2, <1>4, <1>5, <1>6

\* unmap keeps the invariant.
LEMMA UnmapStep ==
  ASSUME PagingInv, NEW p \in DevicePages, Unmap(p)
  PROVE  PagingInv'
<1>1. /\ phase = "ready" /\ op = "idle" /\ guards[p] # <<>>
      /\ memory_map \in MemoryMaps
      /\ mapping \in [Pages -> Nat \cup {None}] /\ guards \in [DevicePages -> Seq(BOOLEAN)]
      /\ IndInv
  BY DEF Unmap, PagingInv, PagingTypeOK, TypeOK
<1>2. /\ DeviceHeld(p) /\ mapping[p] = p /\ p # None /\ Tail(guards[p]) = <<>>
  BY <1>1, HeldPage
<1>3. /\ mapping' = [mapping EXCEPT ![p] = None]
      /\ guards' = [guards EXCEPT ![p] = Tail(guards[p])]
      /\ UNCHANGED <<memory_map, phase, bootVars, op, target, frame, tables, heap_ready, taken>>
  BY <1>1, <1>2 DEF Unmap
<1>4. /\ memory_map' = memory_map /\ phase' = phase /\ op' = op /\ target' = target
      /\ frame' = frame /\ tables' = tables /\ heap_ready' = heap_ready /\ taken' = taken
  BY <1>3
<1>5. /\ IndInv'
      /\ owned' = owned \/ (owned' = owned \ {p} /\ p \in taken)
      /\ \A q \in 0 .. (EndFrame - 1) : q # p => is_used(bitmap', q) = is_used(bitmap, q)
  BY UnmapFrees
<1>6. /\ p \in Pages /\ p \notin HeapPages
      /\ HeapPages \subseteq Pages /\ DevicePages \subseteq Pages
  BY <1>1, PageFacts
<1>7. /\ mapping' \in [Pages -> Nat \cup {None}] /\ mapping'[p] = None
      /\ \A q \in Pages : q # p => mapping'[q] = mapping[q]
  BY <1>1, <1>3, <1>6
<1>8. /\ guards' \in [DevicePages -> Seq(BOOLEAN)] /\ guards'[p] = <<>>
      /\ \A q \in DevicePages : q # p => guards'[q] = guards[q]
  <2>1. guards' = [guards EXCEPT ![p] = <<>>]
    BY <1>2, <1>3, Zenon
  <2>2. <<>> \in Seq(BOOLEAN)
    OBVIOUS
  <2> QED
    BY <1>1, <2>1, <2>2
<1>9. PagingTypeOK'
  BY <1>4, <1>5, <1>7, <1>8, PagesUnchanged, SMTT(20) DEF PagingInv, PagingTypeOK, IndInv
<1>10. BootOK'
  <2>1. \A q \in DevicePages : guards[q] = <<>> => guards'[q] = <<>>
    BY <1>8
  <2> QED
    BY <1>1, <1>4, <2>1, PagesUnchanged DEF PagingInv, BootOK
<1>11. \A q \in HeapPages : mapping'[q] = mapping[q]
  BY <1>6, <1>7
<1>12. ProgressOK'
  BY <1>1, <1>4, <1>11, PagesUnchanged DEF PagingInv, ProgressOK
<1>13. DevicesOK'
  <2> SUFFICES ASSUME NEW q \in DevicePages PROVE DeviceFree(q)' \/ DeviceHeld(q)'
    BY <1>4, PagesUnchanged DEF DevicesOK
  <2>1. CASE q = p
    BY <1>7, <1>8, <2>1 DEF DeviceFree
  <2>2. CASE q # p /\ DeviceFree(q)
    BY <1>6, <1>7, <1>8, <2>2 DEF DeviceFree
  <2>3. CASE q # p /\ DeviceHeld(q)
    <3>1. mapping'[q] = mapping[q] /\ guards'[q] = guards[q]
      BY <1>6, <1>7, <1>8, <2>3
    <3>2. q \in 0 .. (EndFrame - 1)
      BY <1>1, <2>3, PageFacts DEF DeviceHeld, DevicePages, DeviceFrames
    <3>3. is_used(bitmap', q) = is_used(bitmap, q) /\ (q \in owned => q \in owned')
      BY <1>5, <2>3, <3>2
    <3> QED
      BY <1>4, <2>3, <3>1, <3>3, EntryKept
  <2> QED
    BY <2>1, <2>2, <2>3 DEF PagingInv, DevicesOK
<1>14. /\ HeapFrames' = HeapFrames /\ TableFrames' = TableFrames /\ InFlight' = InFlight
  BY <1>4, <1>11, PagesUnchanged DEF HeapFrames, TableFrames, InFlight
<1>15. Accounted'
  <2>1. Accounted
    BY Zenon DEF PagingInv
  <2>2. taken' = taken /\ (owned' = owned \/ (owned' = owned \ {p} /\ p \in taken))
    BY <1>4, <1>5
  <2> QED
    BY <1>14, <2>1, <2>2 DEF Accounted
<1>16. NoSharedFrame'
  <2>1. NoSharedFrame /\ AllTables' = AllTables
    BY <1>4, PagesUnchanged, Zenon DEF PagingInv
  <2> QED
    BY <1>4, <1>11, <1>14, <2>1 DEF NoSharedFrame
<1> QED
  BY <1>5, <1>9, <1>10, <1>12, <1>13, <1>15, <1>16, Zenon DEF PagingInv

-----------------------------------------------------------------------------
(* The theorems.                                                           *)

\* Every step keeps the invariant.
LEMMA PagingNextInv == PagingInv /\ [PagingNext]_allVars => PagingInv'
<1> SUFFICES ASSUME PagingInv, [PagingNext]_allVars PROVE PagingInv'
  OBVIOUS
<1>1. CASE MemoryInit
  BY <1>1, MemoryInitStep
<1>2. CASE HeapStep
  <2>1. CASE HeapFrameFails
    BY <2>1, PanicStep DEF HeapFrameFails, Panic
  <2> QED
    BY <1>2, <2>1, StartHeapStep, AllocateHeapFrameStep, SetHeapEntryStep, FinishHeapStep DEF HeapStep
<1>3. CASE MapToStep
  <2>1. CASE CreateTableFails \/ AlreadyMapped
    BY <2>1, PanicStep DEF CreateTableFails, AlreadyMapped, Panic
  <2> QED
    BY <1>3, <2>1, CreateTableStep DEF MapToStep
<1>4. CASE DeviceStep
  <2>1. CASE MmapDevRefused
    BY <2>1, PanicStep DEF MmapDevRefused, Panic
  <2> QED
    BY <1>4, <2>1, MmapDevStep, SetDeviceEntryStep, UnmapStep DEF DeviceStep
<1>5. CASE UNCHANGED allVars
  <2>1. phase' = phase /\ UNCHANGED <<memory_map, bootVars, allocVars, pagingVars>>
    BY <1>5 DEF allVars, vars
  <2> QED
    BY <2>1, PanicStep
<1> QED
  BY <1>1, <1>2, <1>3, <1>4, <1>5 DEF PagingNext, Stopped

\* The invariant above is one of memory::init, map_range, mmap_dev and unmap, for
\* every memory map, heap, page size and set of page tables.
THEOREM PagingInductive == PagingSpec => []PagingInv
BY PagingInitInv, PagingNextInv, PTL DEF PagingSpec

\* For every heap address, heap size and page size, aligned or not, the pages
\* init_heap maps contain every byte that it hands to the heap allocator.
THEOREM HeapIsCovered == PagingSpec => []HeapCovered
<1>1. PagingInv => HeapCovered
  <2> SUFFICES ASSUME PagingInv, heap_ready, NEW a \in HEAP_START .. (HEAP_START + HEAP_SIZE - 1)
               PROVE  PageOf(a) \in DOMAIN mapping /\ mapping[PageOf(a)] \in owned
    BY DEF HeapCovered
  <2>1. memory_map \in MemoryMaps /\ DOMAIN mapping = Pages
    BY DEF PagingInv, PagingTypeOK, TypeOK
  <2>2. PageOf(a) \in HeapPages
    BY HeapFacts
  <2>3. mapping[PageOf(a)] # None
    BY <2>2 DEF PagingInv, ProgressOK
  <2>4. mapping[PageOf(a)] \in HeapFrames
    BY <2>2, <2>3 DEF HeapFrames
  <2> QED
    BY <2>1, <2>2, <2>4, PageFacts DEF PagingInv, Accounted
<1> QED
  BY <1>1, PagingInductive, PTL

\* For every layout nothing leaks, and the frames of the heap and of the page
\* tables stay with their owner, except one that was allocated under a device
\* mapping and that unmap took away again.
THEOREM NothingLeaks == PagingSpec => []FramesAccounted
<1>1. PagingInv => FramesAccounted
  BY DEF PagingInv, Accounted, FramesAccounted
<1> QED
  BY <1>1, PagingInductive, PTL

\* For every layout, a frame of RAM backs one heap page or one page table, unless
\* it was allocated under a device mapping: the heap is never shared.
THEOREM OneUse == PagingSpec => []NoSharedFrame
<1>1. PagingInv => NoSharedFrame
  BY Zenon DEF PagingInv
<1> QED
  BY <1>1, PagingInductive, PTL

\* For every layout, a guard of mmap_dev is true of the bitmap when unmap acts on
\* it, or its frame was unmarked when it was mapped and has been allocated since.
THEOREM GuardsTrue == PagingSpec => []GuardsSound
<1>1. PagingInv => GuardsSound
  <2> SUFFICES ASSUME PagingInv, NEW p \in DevicePages
               PROVE  /\ Len(guards[p]) <= 1
                      /\ guards[p] # <<>> =>
                           /\ mapping[p] = p
                           /\ ~ Head(guards[p]) => is_used(bitmap, p)
                           /\ Head(guards[p]) /\ is_used(bitmap, p) => p \in taken \cap owned
    BY DEF GuardsSound
  <2>1. CASE guards[p] = <<>>
    <3>1. Len(guards[p]) = 0
      BY <2>1
    <3>2. Len(guards[p]) <= 1
      BY <3>1
    <3> QED
      BY <2>1, <3>2, Zenon
  <2>2. CASE guards[p] # <<>>
    <3>1. /\ mapping[p] = p /\ Len(guards[p]) = 1
          /\ GuardFits(Head(guards[p]), p)
      BY <2>2, HeldPage
    <3>2. Len(guards[p]) <= 1
      BY <3>1
    <3> QED
      BY <3>1, <3>2, Zenon DEF GuardFits
  <2> QED
    BY <2>1, <2>2
<1> QED
  BY <1>1, PagingInductive, PTL

\* Which marks a step of the kernel removes.
LEMMA MarksKept ==
  ASSUME PagingInv, [PagingNext]_allVars, phase = "ready",
         NEW f \in 0 .. (EndFrame - 1), is_used(bitmap, f), ~ is_used(bitmap', f)
  PROVE  f \in taken
<1>1. bitmap' # bitmap
  BY Zenon
<1>2. ASSUME NEW g \in UsableFrames, TakeFrame(g), UNCHANGED <<memory_map, phase, bootVars>>
      PROVE  FALSE
  BY <1>2, AllocateFacts
<1>3. CASE CreateTable
  <2>1. PICK g \in UsableFrames : TakeFrame(g) /\ UNCHANGED <<memory_map, phase, bootVars>>
    BY <1>3, Zenon DEF CreateTable
  <2> QED
    BY <1>2, <2>1
<1>4. CASE AllocateHeapFrame
  <2>1. PICK g \in UsableFrames : TakeFrame(g) /\ UNCHANGED <<memory_map, phase, bootVars>>
    BY <1>4, Zenon DEF AllocateHeapFrame
  <2> QED
    BY <1>2, <2>1
<1>5. ASSUME NEW p \in DevicePages, Unmap(p) PROVE f \in taken
  BY <1>5, UnmapFrees
<1>6. ~ MemoryInit
  BY Zenon DEF MemoryInit, InitStep, AllocateBitmapFrame, CreateBitmapTable, BootstrapPanic,
         FinishInit, allocVars
<1>7. ~ Panic
  BY <1>1 DEF Panic, allocVars
<1>8. ~ UNCHANGED vars
  BY <1>1 DEF vars, allocVars
<1>9. CASE HeapStep
  BY <1>4, <1>7, <1>8, <1>9 DEF HeapStep, StartHeap, HeapFrameFails, SetHeapEntry, FinishHeap
<1>10. CASE MapToStep
  BY <1>3, <1>7, <1>10 DEF MapToStep, CreateTableFails, AlreadyMapped
<1>11. CASE DeviceStep
  BY <1>5, <1>7, <1>8, <1>11 DEF DeviceStep, MmapDev, MmapDevRefused, SetDeviceEntry
<1>12. ~ UNCHANGED allVars
  BY <1>8 DEF allVars
<1> QED
  BY <1>6, <1>9, <1>10, <1>11, <1>12 DEF PagingNext, Stopped

\* For every layout, unmap takes no frame from the kernel, the bitmap or the heap,
\* and none from a page table that was not put under a device mapping.
THEOREM FreesNoOther == PagingSpec => OnlyTakenFreed
<1>1. PagingInv /\ [PagingNext]_allVars =>
        [phase = "ready" =>
           \A f \in 0 .. (EndFrame - 1) :
             is_used(bitmap, f) /\ ~ is_used(bitmap', f) => f \in taken]_allVars
  BY MarksKept
<1> QED
  BY <1>1, PagingInductive, PTL DEF PagingSpec, OnlyTakenFreed

-----------------------------------------------------------------------------
(* mmap_dev and unmap implement PageMappings.                              *)

\* Device pages are pages of PageMappings.
LEMMA DevicePagesKnown ==
  ASSUME memory_map \in MemoryMaps
  PROVE  DevicePages \subseteq AllFrames \cup {mm[Len(mm)].end : mm \in MemoryMaps}
<1> SUFFICES ASSUME NEW p \in DevicePages
             PROVE  p \in AllFrames \cup {mm[Len(mm)].end : mm \in MemoryMaps}
  OBVIOUS
<1>1. p = EndFrame \/ p \in 0 .. (EndFrame - 1)
  BY PageFacts DEF DevicePages, DeviceFrames
<1> QED
  BY <1>1 DEF AllFrames, EndFrame

\* A step that leaves the device pages and their guards alone is invisible.
LEMMA DevicesStutter ==
  ASSUME memory_map' = memory_map, guards' = guards,
         \A p \in DevicePages : mapping'[p] = mapping[p]
  PROVE  /\ {p \in DevicePages : mapping[p] # None}' = {p \in DevicePages : mapping[p] # None}
         /\ {p \in DevicePages : guards[p] # <<>>}' = {p \in DevicePages : guards[p] # <<>>}
BY PagesUnchanged

\* The mappings of devices start as in PageMappings.
LEMMA RefinePagingInit == PagingInit => Devices!Init
<1> SUFFICES ASSUME PagingInit PROVE Devices!Init
  OBVIOUS
<1>1. \A p \in DevicePages : mapping[p] = None /\ guards[p] = <<>>
  BY DEF PagingInit, Pages, DevicePages
<1> QED
  BY <1>1 DEF Devices!Init

\* The steps that write a level 1 entry.
LEMMA VisibleSteps ==
  ASSUME [PagingNext]_allVars
  PROVE  \/ SetDeviceEntry \/ SetHeapEntry \/ \E p \in DevicePages : Unmap(p)
         \/ (memory_map' = memory_map /\ guards' = guards /\ mapping' = mapping)
<1> DEFINE Same == memory_map' = memory_map /\ guards' = guards /\ mapping' = mapping
<1>1. Panic => Same
  BY DEF Panic, pagingVars
<1>2. MemoryInit => Same
  BY DEF MemoryInit, pagingVars, InitStep, AllocateBitmapFrame, CreateBitmapTable,
         BootstrapPanic, FinishInit
<1>3. HeapStep => SetHeapEntry \/ Same
  <2>1. StartHeap => Same
    BY DEF StartHeap, vars
  <2>2. AllocateHeapFrame => Same
    BY DEF AllocateHeapFrame
  <2>3. HeapFrameFails => Same
    BY <1>1 DEF HeapFrameFails
  <2>4. FinishHeap => Same
    BY DEF FinishHeap, vars
  <2> QED
    BY <2>1, <2>2, <2>3, <2>4 DEF HeapStep
<1>4. MapToStep => Same
  <2>1. CreateTable => Same
    BY DEF CreateTable
  <2> QED
    BY <1>1, <2>1 DEF MapToStep, CreateTableFails, AlreadyMapped
<1>5. DeviceStep => SetDeviceEntry \/ (\E p \in DevicePages : Unmap(p)) \/ Same
  <2>1. MmapDev => Same
    BY DEF MmapDev, vars
  <2> QED
    BY <1>1, <2>1 DEF DeviceStep, MmapDevRefused
<1>6. UNCHANGED allVars => Same
  BY SMTT(20) DEF allVars, vars, pagingVars
<1> QED
  BY <1>2, <1>3, <1>4, <1>5, <1>6 DEF PagingNext, Stopped

\* Every step is a step of PageMappings on the device pages, or a stutter.
LEMMA RefinePagingNext ==
  ASSUME PagingInv, [PagingNext]_allVars
  PROVE  [Devices!Next]_<< {p \in DevicePages : mapping[p] # None},
                           {p \in DevicePages : guards[p] # <<>>} >>
<1>0. /\ memory_map \in MemoryMaps /\ mapping \in [Pages -> Nat \cup {None}]
      /\ guards \in [DevicePages -> Seq(BOOLEAN)]
  BY SMTT(20) DEF PagingInv, PagingTypeOK, TypeOK
<1>1. CASE SetDeviceEntry
  <2>1. /\ mapping[target] = None /\ memory_map' = memory_map
        /\ mapping' = [mapping EXCEPT ![target] = target]
        /\ guards' = [guards EXCEPT ![target] = Append(guards[target], ~ is_used(bitmap, target))]
        /\ target \in DevicePages
    BY <1>1 DEF SetDeviceEntry, PagingInv, ProgressOK, vars
  <2>2. target \in DevicePages /\ target # None /\ DevicePages \subseteq Pages
    BY <1>0, <2>1, PageFacts
  <2>3. guards[target] = <<>>
    BY <1>0, <2>1, <2>2, PageFacts DEF PagingInv, DevicesOK, DeviceFree, DeviceHeld
  <2> DEFINE b == ~ is_used(bitmap, target)
             g == Append(guards[target], b)
  <2>4. b \in BOOLEAN
    OBVIOUS
  <2>5. g # <<>>
    <3> HIDE DEF b
    <3>1. Append(<<>>, b) = <<b>> /\ <<b>> # <<>>
      BY <2>4, OneGuard
    <3> QED
      BY <2>3, <3>1
  <2>6. guards' = [guards EXCEPT ![target] = g]
    BY <2>1
  <2> HIDE DEF g
  <2>7. /\ guards'[target] # <<>> /\ mapping'[target] # None
        /\ \A p \in DevicePages : p # target => guards'[p] = guards[p] /\ mapping'[p] = mapping[p]
    BY <1>0, <2>1, <2>2, <2>5, <2>6, SMTT(20)
  <2>8. /\ {p \in DevicePages : mapping[p] # None}' = {p \in DevicePages : mapping[p] # None} \cup {target}
        /\ {p \in DevicePages : guards[p] # <<>>}' = {p \in DevicePages : guards[p] # <<>>} \cup {target}
    BY <2>1, <2>2, <2>7, PagesUnchanged
  <2>9. PICK d \in DevicePages : d = target
    BY <2>2
  <2>10. Devices!Acquire(d)
    BY <2>1, <2>8, <2>9 DEF Devices!Acquire
  <2> QED
    BY <1>0, <2>10, DevicePagesKnown DEF Devices!Next
<1>2. ASSUME NEW p \in DevicePages, Unmap(p)
      PROVE  Devices!Next
  <2>1. guards[p] # <<>> /\ mapping[p] = p /\ p # None /\ Tail(guards[p]) = <<>>
    BY <1>2, HeldPage DEF Unmap
  <2>2. /\ memory_map' = memory_map /\ mapping' = [mapping EXCEPT ![p] = None]
        /\ guards' = [guards EXCEPT ![p] = <<>>]
    BY <1>2, <2>1 DEF Unmap
  <2>3. DevicePages \subseteq Pages
    BY <1>0, PageFacts
  <2>4. /\ guards'[p] = <<>> /\ mapping'[p] = None
        /\ \A q \in DevicePages : q # p => guards'[q] = guards[q] /\ mapping'[q] = mapping[q]
    BY <1>0, <1>2, <2>2, <2>3
  <2>5. /\ {q \in DevicePages : mapping[q] # None}' = {q \in DevicePages : mapping[q] # None} \ {p}
        /\ {q \in DevicePages : guards[q] # <<>>}' = {q \in DevicePages : guards[q] # <<>>} \ {p}
    BY <2>2, <2>4, PagesUnchanged
  <2>6. Devices!Release(p)
    BY <1>2, <2>1, <2>5 DEF Devices!Release
  <2> QED
    BY <1>0, <1>2, <2>6, DevicePagesKnown DEF Devices!Next
<1>3. CASE SetHeapEntry
  <2>1. /\ op = "heap" /\ frame # None /\ memory_map' = memory_map /\ guards' = guards
        /\ mapping' = [mapping EXCEPT ![target] = frame]
    BY <1>3 DEF SetHeapEntry, vars
  <2>2. \A p \in DevicePages : p # target /\ p \in Pages
    BY <1>0, <2>1, PageFacts DEF PagingInv, ProgressOK
  <2>3. \A p \in DevicePages : mapping'[p] = mapping[p]
    BY <1>0, <2>1, <2>2, SMTT(20)
  <2> QED
    BY <2>1, <2>3, DevicesStutter
<1>4. CASE memory_map' = memory_map /\ guards' = guards /\ mapping' = mapping
  BY <1>4, DevicesStutter
<1>5. \/ SetDeviceEntry \/ SetHeapEntry \/ \E p \in DevicePages : Unmap(p)
      \/ (memory_map' = memory_map /\ guards' = guards /\ mapping' = mapping)
  BY VisibleSteps
<1> QED
  BY <1>1, <1>2, <1>3, <1>4, <1>5

\* For every memory map, mmap_dev and unmap, interleaved with the allocations and
\* page tables they need, give a page to one holder at a time, and the holder's
\* guard always unmaps it.
THEOREM DevicesRefine == PagingSpec => ImplementsPageMappings
BY RefinePagingInit, RefinePagingNext, PagingInductive, PTL
   DEF PagingSpec, ImplementsPageMappings, Devices!Spec

=============================================================================
