------------------------------- MODULE Paging -------------------------------
(***************************************************************************)
(* The virtual memory operations of src/src/memory/mod.rs and init_heap of *)
(* src/src/allocator.rs, on top of the frame allocator: mmap_dev, unmap    *)
(* and map_range run one at a time under PAGING_CTX, and take frames for   *)
(* page tables and heap pages from the allocator one by one.               *)
(*                                                                         *)
(* Pages are page numbers, that is virtual addresses divided by the page   *)
(* size.  A device frame is mapped at the page with its own number.        *)
(* Every caller unwraps the Result it gets, so that an Err is a panic.     *)
(***************************************************************************)
EXTENDS FrameAllocator

CONSTANTS
  PAGE_SIZE,    \* 0x1000 in the code
  HEAP_START,   \* first address of the heap
  HEAP_SIZE,    \* bytes of the heap
  ENTRIES,      \* entries of a page table: 512 on x86_64
  BootTables,   \* the bootloader's page tables, which exist from the start
  None          \* no frame

ASSUME PagingAssumption ==
  /\ PAGE_SIZE \in Nat \ {0} /\ ENTRIES \in Nat \ {0}
  /\ HEAP_START \in Nat /\ HEAP_SIZE \in Nat \ {0}
  /\ None \notin Nat
  /\ \A mm \in MemoryMaps : mm[Len(mm)].end < HEAP_START \div PAGE_SIZE

VARIABLES
  op,        \* who holds PAGING_CTX: "idle", "heap" (map_range) or "mmap"
  target,    \* the page being mapped
  frame,     \* the frame to map it to, None before it is allocated
  mapping,   \* the level 1 entries: the frame of a page, or None
  tables,    \* the frame of each page table, None while it is missing
  guards,    \* unmap_frame of the outstanding UnmapGuards of each page
  heap_ready,\* allocator::INITIALIZED
  taken      \* history: the frames allocated while mapped for a device

pagingVars == <<op, target, frame, mapping, tables, guards, heap_ready, taken>>
allVars == <<vars, pagingVars>>

-----------------------------------------------------------------------------

PageOf(addr) == addr \div PAGE_SIZE

HeapPagesExclusive == PageOf(HEAP_START) .. (PageOf(HEAP_START + HEAP_SIZE - 1) - 1)

\* page_range of init_heap.
HeapPages == PageOf(HEAP_START) .. PageOf(HEAP_START + HEAP_SIZE - 1)

\* The frames a caller may pass to mmap_dev: any, as its documentation asks for
\* one that "is free and is usable" and only the type test of mmap_dev refuses
\* some.  One frame past the memory map stands for all that lie outside it.
DeviceFrames == 0 .. EndFrame

\* mmap_dev maps a frame at the page with its own number.
DevicePages == DeviceFrames

Pages == DevicePages \cup HeapPages

\* The level 3, 2 and 1 tables that lead to a page.  A table is named by its
\* level and the page number bits above it.
TablesOf(p) == << <<3, p \div (ENTRIES * ENTRIES * ENTRIES)>>,
                  <<2, p \div (ENTRIES * ENTRIES)>>,
                  <<1, p \div ENTRIES>> >>

TableSet(p) == {TablesOf(p)[i] : i \in 1 .. TABLE_LEVELS}

AllTables == UNION {TableSet(p) : p \in Pages} \ BootTables

MissingTables(p) ==
  {i \in 1 .. TABLE_LEVELS : /\ TablesOf(p)[i] \in AllTables
                            /\ tables[TablesOf(p)[i]] = None}

\* allocate_frame returns Some(f).  The allocator does not know which frames are
\* mapped for a device.
TakeFrame(f) ==
  /\ allocate_frame(f)
  /\ taken' = taken \cup {p \in DevicePages : p = f /\ guards[p] # <<>>}

Panic ==
  /\ phase' = "panicked"
  /\ UNCHANGED <<memory_map, bootVars, allocVars, pagingVars>>

Idle == op' = "idle" /\ target' = None /\ frame' = None

-----------------------------------------------------------------------------
(* map_to of the x86_64 crate, as mmap_dev and map_range use it.           *)

CreateTableUnlinked ==
  /\ phase = "ready" /\ frame # None
  /\ \E i \in MissingTables(target) :
       /\ \A j \in MissingTables(target) : i <= j
       /\ \E f \in UsableFrames : TakeFrame(f)
  /\ UNCHANGED <<memory_map, phase, bootVars, op, target, frame, mapping, tables, guards,
                 heap_ready>>

\* Create the first missing table on the way to the target.
CreateTable ==
  /\ phase = "ready" /\ frame # None
  /\ \E i \in MissingTables(target) :
       /\ \A j \in MissingTables(target) : i <= j
       /\ \E f \in UsableFrames :
            /\ TakeFrame(f)
            /\ tables' = [tables EXCEPT ![TablesOf(target)[i]] = f]
  /\ UNCHANGED <<memory_map, phase, bootVars, op, target, frame, mapping, guards, heap_ready>>

\* FrameAllocationFailed, returned to a caller that unwraps it.
CreateTableFails ==
  /\ phase = "ready" /\ frame # None
  /\ MissingTables(target) # {}
  /\ no_frame
  /\ Panic

SetDeviceEntryAlwaysFree ==
  /\ phase = "ready" /\ frame # None /\ op = "mmap"
  /\ MissingTables(target) = {}
  /\ mapping[target] = None
  /\ mapping' = [mapping EXCEPT ![target] = frame]
  /\ guards' = [guards EXCEPT ![target] = Append(@, TRUE)]
  /\ Idle
  /\ UNCHANGED <<vars, tables, heap_ready, taken>>

SetDeviceEntryOverwrite ==
  /\ phase = "ready" /\ frame # None /\ op = "mmap"
  /\ MissingTables(target) = {}
  /\ mapping' = [mapping EXCEPT ![target] = frame]
  /\ guards' = [guards EXCEPT ![target] = Append(@, ~ is_used(bitmap, frame))]
  /\ Idle
  /\ UNCHANGED <<vars, tables, heap_ready, taken>>

\* mmap_dev: the entry is written, and the guard remembers whether the
\* allocator counted the frame as unused.
SetDeviceEntry ==
  /\ phase = "ready" /\ frame # None /\ op = "mmap"
  /\ MissingTables(target) = {}
  /\ mapping[target] = None
  /\ mapping' = [mapping EXCEPT ![target] = frame]
  /\ guards' = [guards EXCEPT ![target] = Append(@, ~ is_used(bitmap, frame))]
  /\ Idle
  /\ UNCHANGED <<vars, tables, heap_ready, taken>>

\* PageAlreadyMapped, returned to a caller that unwraps it.
AlreadyMapped ==
  /\ phase = "ready" /\ frame # None
  /\ MissingTables(target) = {}
  /\ mapping[target] # None
  /\ Panic

-----------------------------------------------------------------------------
(* map_range and init_heap.                                                *)

StartHeap ==
  /\ phase = "ready" /\ op = "idle" /\ ~ heap_ready
  /\ op' = "heap"
  /\ target' = PageOf(HEAP_START)
  /\ UNCHANGED <<vars, frame, mapping, tables, guards, heap_ready, taken>>

AllocateHeapFrame ==
  /\ phase = "ready" /\ op = "heap" /\ target \in HeapPages /\ frame = None
  /\ \E f \in UsableFrames : TakeFrame(f) /\ frame' = f
  /\ UNCHANGED <<memory_map, phase, bootVars, op, target, mapping, tables, guards, heap_ready>>

HeapFrameRetry ==
  /\ phase = "ready" /\ op = "heap" /\ target \in HeapPages /\ frame = None
  /\ no_frame
  /\ UNCHANGED allVars

HeapFrameFails ==
  /\ phase = "ready" /\ op = "heap" /\ target \in HeapPages /\ frame = None
  /\ no_frame
  /\ Panic

SetHeapEntryKeepFrame ==
  /\ phase = "ready" /\ op = "heap" /\ frame # None
  /\ MissingTables(target) = {}
  /\ mapping[target] = None
  /\ mapping' = [mapping EXCEPT ![target] = frame]
  /\ target' = target + 1
  /\ UNCHANGED <<vars, op, frame, tables, guards, heap_ready, taken>>

SetHeapEntry ==
  /\ phase = "ready" /\ op = "heap" /\ frame # None
  /\ MissingTables(target) = {}
  /\ mapping[target] = None
  /\ mapping' = [mapping EXCEPT ![target] = frame]
  /\ target' = target + 1
  /\ frame' = None
  /\ UNCHANGED <<vars, op, tables, guards, heap_ready, taken>>

\* The range is exhausted: init_heap hands it to the heap allocator.
FinishHeap ==
  /\ phase = "ready" /\ op = "heap" /\ target \notin HeapPages /\ frame = None
  /\ heap_ready' = TRUE
  /\ Idle
  /\ UNCHANGED <<vars, mapping, tables, guards, taken>>

-----------------------------------------------------------------------------
(* mmap_dev and unmap.  Their callers come after init_heap.                *)

\* The region types mmap_dev accepts, by what get_frame_ty reports.
DeviceTypeOK(f, acpi) ==
  \/ get_frame_ty(f) \in {"Reserved", "FrameZero"}
  \/ get_frame_ty(f) = "KernelStack" /\ acpi

MmapDev ==
  /\ phase = "ready" /\ op = "idle" /\ heap_ready
  /\ \E f \in DeviceFrames, acpi \in BOOLEAN :
       /\ DeviceTypeOK(f, acpi)
       /\ op' = "mmap" /\ target' = f /\ frame' = f
  /\ UNCHANGED <<vars, mapping, tables, guards, heap_ready, taken>>

\* A frame without a type (an Err the caller unwraps), or the panic on a type
\* that no device has.
MmapDevRefused ==
  /\ phase = "ready" /\ op = "idle" /\ heap_ready
  /\ \E f \in DeviceFrames, acpi \in BOOLEAN : ~ DeviceTypeOK(f, acpi)
  /\ Panic

UnmapLeavesEntry(p) ==
  /\ phase = "ready" /\ op = "idle"
  /\ guards[p] # <<>> /\ mapping[p] # None
  /\ guards' = [guards EXCEPT ![p] = Tail(@)]
  /\ UNCHANGED <<vars, op, target, frame, mapping, tables, heap_ready, taken>>

\* unmap with a guard of page p: clear the entry, and give the frame back if
\* the guard says so; or PageNotMapped, returned to a caller that unwraps it.
Unmap(p) ==
  /\ phase = "ready" /\ op = "idle" /\ guards[p] # <<>>
  /\ IF mapping[p] = None THEN Panic
     ELSE /\ mapping' = [mapping EXCEPT ![p] = None]
          /\ guards' = [guards EXCEPT ![p] = Tail(@)]
          /\ IF Head(guards[p]) THEN deallocate_frame(mapping[p])
             ELSE UNCHANGED allocVars
          /\ UNCHANGED <<memory_map, phase, bootVars, op, target, frame, tables, heap_ready,
                         taken>>

-----------------------------------------------------------------------------

PagingInit ==
  /\ Init
  /\ op = "idle" /\ target = None /\ frame = None
  /\ mapping = [p \in Pages |-> None]
  /\ tables = [t \in AllTables |-> None]
  /\ guards = [p \in DevicePages |-> <<>>]
  /\ heap_ready = FALSE
  /\ taken = {}

MemoryInit == InitStep /\ UNCHANGED pagingVars

HeapStep ==
  StartHeap \/ AllocateHeapFrame \/ HeapFrameFails \/ SetHeapEntry \/ FinishHeap

\* The part of map_to that map_range and mmap_dev share.
MapToStep == CreateTable \/ CreateTableFails \/ AlreadyMapped

DeviceStep ==
  \/ MmapDev \/ MmapDevRefused \/ SetDeviceEntry
  \/ \E p \in DevicePages : Unmap(p)

Stopped == phase = "panicked" /\ UNCHANGED allVars

PagingNext == MemoryInit \/ HeapStep \/ MapToStep \/ DeviceStep \/ Stopped

PagingSpec == PagingInit /\ [][PagingNext]_allVars

\* The boot processor runs memory::init, init_heap and map_to, and waits for
\* nothing.
PagingFairSpec == PagingSpec /\ WF_allVars(MemoryInit \/ HeapStep \/ MapToStep)

-----------------------------------------------------------------------------
(* Properties.                                                             *)

PagingTypeOK ==
  /\ TypeOK
  /\ op \in {"idle", "heap", "mmap"}
  /\ target \in Nat \cup {None}
  /\ frame \in Nat \cup {None}
  /\ mapping \in [Pages -> Nat \cup {None}]
  /\ tables \in [AllTables -> Nat \cup {None}]
  /\ guards \in [DevicePages -> Seq(BOOLEAN)]
  /\ heap_ready \in BOOLEAN
  /\ taken \subseteq DevicePages

HeapFrames == {mapping[p] : p \in HeapPages} \ {None}
TableFrames == {tables[t] : t \in AllTables} \ {None}
InFlight == IF op = "heap" THEN {frame} \ {None} ELSE {}

\* When init_heap publishes the heap, every byte of it is in a mapped page: the
\* inclusive page range reaches the last byte and map_range skipped no page.
HeapCovered ==
  heap_ready =>
    \A a \in HEAP_START .. (HEAP_START + HEAP_SIZE - 1) :
      PageOf(a) \in DOMAIN mapping /\ mapping[PageOf(a)] \in owned

\* Nothing leaks: every frame taken from the allocator backs a heap page or a
\* page table, or is the one map_range has at hand, which is also all a failed
\* map_to loses.  And nothing in use is up for allocation, with one exception
\* mmap_dev leaves open: a frame it mapped while it was free, that was allocated
\* before unmap gave it back.
FramesAccounted ==
  LET inUse == HeapFrames \cup TableFrames \cup InFlight
  IN  owned \subseteq inUse /\ inUse \ owned \subseteq taken

\* A frame of RAM has one use: a heap page shares its frame with no other heap
\* page and no page table, whatever is mapped and unmapped meanwhile, and two
\* page tables share one only if it was allocated while mapped for a device.
NoSharedFrame ==
  /\ \A p, q \in HeapPages : p # q /\ mapping[p] # None => mapping[p] # mapping[q]
  /\ \A t, u \in AllTables : t # u /\ tables[t] # None /\ tables[t] = tables[u] =>
                               tables[t] \in taken
  /\ HeapFrames \cap TableFrames = {}
  /\ InFlight \cap (HeapFrames \cup TableFrames) = {}

\* A device page has at most one outstanding guard, and while it has one the page
\* is mapped to the device.  A guard that does not free is never wrong: its frame
\* is still marked.  A guard that frees goes stale in one way only: its frame was
\* unmarked when mmap_dev read the bit, and was allocated under the mapping.
GuardsSound ==
  \A p \in DevicePages :
    /\ Len(guards[p]) <= 1
    /\ guards[p] # <<>> =>
         /\ mapping[p] = p
         /\ ~ Head(guards[p]) => is_used(bitmap, p)
         /\ Head(guards[p]) /\ is_used(bitmap, p) => p \in taken \cap owned

\* unmap frees no frame of the kernel, the bitmap, its tables or the heap, and no
\* page table either unless it lies in a frame that was allocated while it was
\* mapped for a device: these are the only marks that are ever removed.
OnlyTakenFreed ==
  [][phase = "ready" =>
       \A f \in 0 .. (EndFrame - 1) :
         is_used(bitmap, f) /\ ~ is_used(bitmap', f) => f \in taken]_allVars

\* Boot ends, with a heap or in a panic: map_range runs out of pages to map or
\* out of frames.
HeapTerminates == <>(heap_ready \/ phase = "panicked")

Devices ==
  INSTANCE PageMappings
    WITH Page <- AllFrames \cup {mm[Len(mm)].end : mm \in MemoryMaps},
         mapped <- {p \in DevicePages : mapping[p] # None},
         guarded <- {p \in DevicePages : guards[p] # <<>>}

\* mmap_dev and unmap implement one holder per page, with guards that always
\* unmap what they were given for.
ImplementsPageMappings == Devices!Spec

-----------------------------------------------------------------------------
(* What the comments say and the code does not do.                         *)

\* "Check if the frame is already in use" (frame_allocator/mod.rs:96): the test
\* that mmap_dev builds a guard from reports every frame that backs a heap page
\* or a page table.
InUseReported ==
  phase = "ready" => \A f \in HeapFrames \cup TableFrames : is_used(bitmap, f)

=============================================================================
