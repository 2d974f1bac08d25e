--------------------------- MODULE FrameAllocator ---------------------------
(***************************************************************************)
(* The physical frame allocator of src/src/memory/frame_allocator:         *)
(* BootStrapAllocator (bootstrap.rs) hands out the frames that hold the    *)
(* allocation bitmap and the page tables that map it; GlobalFrameAllocator *)
(* (mod.rs) then serves frames from that bitmap for the rest of the run.   *)
(*                                                                         *)
(* Frames are frame numbers, that is physical addresses divided by 0x1000. *)
(* The memory map is handed over by the bootloader, which sorts it and     *)
(* drops empty regions; it is an input, chosen in Init and never changed.  *)
(* An iteration over its regions in order is therefore an iteration in     *)
(* ascending frame order.                                                  *)
(***************************************************************************)
EXTENDS Integers, FiniteSets, Sequences

CONSTANTS
  MemoryMaps,       \* the memory maps the bootloader may hand over
  WORDS_PER_FRAME,  \* u32 words in a frame: 0x1000 / 4 in the code
  BITS_PER_WORD     \* bits in a bitmap word: 32 in the code

\* The region types the code tells apart; "Kernel" stands for every other one.
RegionType == {"Usable", "Reserved", "AcpiReclaimable", "FrameZero",
               "KernelStack", "Kernel"}

Region == [start : Nat, end : Nat, type : RegionType]

\* Entries of BootStrapAllocator.used, and of the bootloader's memory map.
USED_SLOTS == 64

IsMemoryMap(mm) ==
  /\ mm \in Seq(Region)
  /\ Len(mm) \in 1 .. USED_SLOTS
  /\ \A b \in 1 .. Len(mm) : mm[b].start < mm[b].end
  /\ \A b, c \in 1 .. Len(mm) : b < c => mm[b].end <= mm[c].start

ASSUME MemoryMapsAssumption == \A mm \in MemoryMaps : IsMemoryMap(mm)

ASSUME WordsAssumption ==
  WORDS_PER_FRAME \in Nat \ {0} /\ BITS_PER_WORD \in Nat \ {0}

-----------------------------------------------------------------------------

VARIABLES
  memory_map,   \* the 'static memory map of the boot information
  phase,        \* where GlobalFrameAllocator::init is; "ready" once it returned
  page,         \* the loop variable over the pages of the bitmap
  missing,      \* page tables map_to still has to create for that page
  next,         \* BootStrapAllocator.next
  used,         \* BootStrapAllocator.used, for the regions that exist
  boot_frames,  \* frames the bootstrap allocator handed to the mapper
  bitmap,       \* GlobalFrameAllocator.bitmap: a word is its set of set bits
  next_usable,  \* GlobalFrameAllocator.next_usable
  owned         \* frames returned by allocate_frame and not given back

bootVars == <<page, missing, next, used, boot_frames>>
allocVars == <<bitmap, next_usable, owned>>
vars == <<memory_map, phase, bootVars, allocVars>>

Blocks == 1 .. Len(memory_map)

RegionFrames(b) == memory_map[b].start .. (memory_map[b].end - 1)

EndFrame == memory_map[Len(memory_map)].end

\* The frames of the usable regions, the ones both iterators run through.
UsableFrames ==
  UNION {RegionFrames(b) : b \in {c \in Blocks : memory_map[c].type = "Usable"}}

-----------------------------------------------------------------------------
(* The bitmap.                                                             *)

BITS_PER_FRAME == WORDS_PER_FRAME * BITS_PER_WORD

BitmapFramesFloor == EndFrame \div BITS_PER_FRAME

BitmapFrames == (EndFrame + BITS_PER_FRAME - 1) \div BITS_PER_FRAME

\* The words that are backed by a mapped frame once the bitmap is mapped, and
\* the words of the slice made over them.
MappedWords == 0 .. (BitmapFrames * WORDS_PER_FRAME - 1)
SliceWords == 0 .. EndFrame

Bits == 0 .. (BITS_PER_WORD - 1)

WordOf(idx) == idx \div BITS_PER_WORD
BitOf(idx) == idx % BITS_PER_WORD

is_used(bm, idx) == BitOf(idx) \in bm[WordOf(idx)]

mark_used_whole_word(bm, idx) == [bm EXCEPT ![WordOf(idx)] = {BitOf(idx)}]

mark_used(bm, idx) == [bm EXCEPT ![WordOf(idx)] = @ \cup {BitOf(idx)}]

mark_unused_whole_word(bm, idx) == [bm EXCEPT ![WordOf(idx)] = {}]

mark_unused(bm, idx) == [bm EXCEPT ![WordOf(idx)] = @ \ {BitOf(idx)}]

\* mark_used applied to every frame of a set, in whatever order.
MarkAll(bm, frames) ==
  [w \in DOMAIN bm |-> bm[w] \cup {BitOf(f) : f \in {g \in frames : WordOf(g) = w}}]

\* The type that get_frame_ty reports: that of the first region that passes
\* the test "starts at or after the frame, and ends after it".
FrameTyMatches(f) ==
  {b \in Blocks : memory_map[b].start >= f /\ f < memory_map[b].end}

get_frame_ty(f) ==
  IF FrameTyMatches(f) = {} THEN "None"
  ELSE memory_map[CHOOSE b \in FrameTyMatches(f) :
                    \A c \in FrameTyMatches(f) : b <= c].type

-----------------------------------------------------------------------------
(* BootStrapAllocator.                                                     *)

\* usable_frames().nth(n) is the usable frame with n usable frames before it.
UsableRank(f) == Cardinality({g \in UsableFrames : g < f})

BootstrapAllocateNoCount(f) ==
  /\ f \in UsableFrames
  /\ UsableRank(f) = next
  /\ next' = next + 1
  /\ boot_frames' = boot_frames \cup {f}
  /\ UNCHANGED used

\* BootStrapAllocator::allocate_frame returns Some(f).
BootstrapAllocate(f) ==
  /\ f \in UsableFrames
  /\ UsableRank(f) = next
  /\ next' = next + 1
  /\ boot_frames' = boot_frames \cup {f}
  /\ \E b \in Blocks :
       /\ f \in RegionFrames(b)
       /\ used' = [used EXCEPT ![b] = @ + 1]

\* BootStrapAllocator::allocate_frame returns None.
BootstrapExhausted == next >= Cardinality(UsableFrames)

\* Levels below the level 4 table, each of which map_to may have to create.
TABLE_LEVELS == 3

AllocateBitmapFrameInclusive ==
  /\ phase = "bitmap"
  /\ page <= BitmapFrames
  /\ \E f \in UsableFrames : BootstrapAllocate(f)
  /\ \E n \in 0 .. TABLE_LEVELS :
       /\ missing' = n
       /\ phase' = IF n = 0 THEN "bitmap" ELSE "tables"
       /\ page' = IF n = 0 THEN page + 1 ELSE page
  /\ UNCHANGED <<memory_map, allocVars>>

\* allocate_bitmap_frame: take the frame that backs a page of the bitmap, and
\* start mapping it; n of the page tables it needs do not exist yet.
AllocateBitmapFrame ==
  /\ phase = "bitmap"
  /\ page < BitmapFrames
  /\ \E f \in UsableFrames : BootstrapAllocate(f)
  /\ \E n \in 0 .. TABLE_LEVELS :
       /\ missing' = n
       /\ phase' = IF n = 0 THEN "bitmap" ELSE "tables"
       /\ page' = IF n = 0 THEN page + 1 ELSE page
  /\ UNCHANGED <<memory_map, allocVars>>

\* map_to creates a missing table in a frame of the same bootstrap allocator.
CreateBitmapTable ==
  /\ phase = "tables"
  /\ \E f \in UsableFrames : BootstrapAllocate(f)
  /\ missing' = missing - 1
  /\ phase' = IF missing = 1 THEN "bitmap" ELSE "tables"
  /\ page' = IF missing = 1 THEN page + 1 ELSE page
  /\ UNCHANGED <<memory_map, allocVars>>

BootstrapPanicRetry ==
  /\ \/ phase = "bitmap" /\ page < BitmapFrames
     \/ phase = "tables"
  /\ BootstrapExhausted
  /\ UNCHANGED vars

\* The expect calls of allocate_bitmap_frame: no frame left for the bitmap
\* page, or for one of its tables.
BootstrapPanic ==
  /\ \/ phase = "bitmap" /\ page < BitmapFrames
     \/ phase = "tables"
  /\ BootstrapExhausted
  /\ phase' = "panicked"
  /\ UNCHANGED <<memory_map, bootVars, allocVars>>

-----------------------------------------------------------------------------
(* GlobalFrameAllocator.                                                   *)

\* The regions whose frames init does not mark.
SkippedTypes == {"Usable", "Reserved", "AcpiReclaimable", "FrameZero"}

MarkedRegions ==
  UNION {RegionFrames(b) :
           b \in {c \in Blocks : memory_map[c].type \notin SkippedTypes}}

BootstrapMarksShort ==
  UNION {memory_map[b].start .. (memory_map[b].start + used[b] - 2) : b \in Blocks}

\* The frames start..(start + size) that init marks for the counts in used.
BootstrapMarks ==
  UNION {memory_map[b].start .. (memory_map[b].start + used[b] - 1) : b \in Blocks}

FinishInitUsableOnly ==
  /\ phase = "bitmap"
  /\ page = BitmapFrames
  /\ phase' = "ready"
  /\ \E garbage \in [MappedWords -> SUBSET Bits] :
       bitmap' = MarkAll(garbage, BootstrapMarks)
  /\ UNCHANGED <<memory_map, bootVars, next_usable, owned>>

\* The rest of init: the slice is made over frames that nobody has cleared, so
\* its first contents are arbitrary; init only ever sets bits in it.
FinishInit ==
  /\ phase = "bitmap"
  /\ page = BitmapFrames
  /\ phase' = "ready"
  /\ \E garbage \in [MappedWords -> SUBSET Bits] :
       bitmap' = MarkAll(garbage, BootstrapMarks \cup MarkedRegions)
  /\ UNCHANGED <<memory_map, bootVars, next_usable, owned>>

\* What recalculate_next_usable searches: the usable frames from next_usable
\* on whose bit is clear.
FreeFromNext ==
  {i \in UsableFrames : i >= next_usable /\ ~ is_used(bitmap, i)}

\* allocate_frame returns Some(f).
allocate_frame(f) ==
  /\ f \in FreeFromNext
  /\ \A g \in FreeFromNext : f <= g
  /\ next_usable' = f
  /\ bitmap' = mark_used(bitmap, f)
  /\ owned' = owned \cup {f}

\* allocate_frame returns None.
no_frame == FreeFromNext = {} /\ UNCHANGED allocVars

deallocate_frame(f) ==
  /\ bitmap' = mark_unused(bitmap, f)
  /\ owned' = owned \ {f}
  /\ UNCHANGED next_usable

Allocate ==
  /\ phase = "ready"
  /\ \/ \E f \in UsableFrames : allocate_frame(f)
     \/ no_frame
  /\ UNCHANGED <<memory_map, phase, bootVars>>

\* The caller of the unsafe deallocate_frame owns the frame it gives back.
Deallocate ==
  /\ phase = "ready"
  /\ \E f \in owned : deallocate_frame(f)
  /\ UNCHANGED <<memory_map, phase, bootVars>>

\* hlt_loop after a panic.
Halted == phase = "panicked" /\ UNCHANGED vars

-----------------------------------------------------------------------------

Init ==
  /\ memory_map \in MemoryMaps
  /\ phase = "bitmap"
  /\ page = 0
  /\ missing = 0
  /\ next = 0
  /\ used = [b \in Blocks |-> 0]
  /\ boot_frames = {}
  /\ bitmap = [w \in MappedWords |-> {}]   \* not mapped yet, read by nobody
  /\ next_usable = 0
  /\ owned = {}

InitStep == AllocateBitmapFrame \/ CreateBitmapTable \/ BootstrapPanic \/ FinishInit

Next == InitStep \/ Allocate \/ Deallocate \/ Halted

Spec == Init /\ [][Next]_vars

\* init runs on the boot processor, with nothing to wait for.
FairSpec == Spec /\ WF_vars(InitStep)

-----------------------------------------------------------------------------
(* Properties.                                                             *)

TypeOK ==
  /\ memory_map \in MemoryMaps
  /\ phase \in {"bitmap", "tables", "ready", "panicked"}
  /\ page \in 0 .. BitmapFrames
  /\ missing \in 0 .. TABLE_LEVELS
  /\ next \in Nat
  /\ used \in [Blocks -> Nat]
  /\ boot_frames \subseteq UsableFrames
  /\ bitmap \in [MappedWords -> SUBSET Bits]
  /\ next_usable \in Nat
  /\ owned \subseteq UsableFrames

\* The per-region counts of the bootstrap allocator say exactly which frames
\* it has handed out: in each region a run from the region's first frame. init
\* relies on this when it marks start..(start + size) instead of the frames.
UsedCountsExact ==
  \A b \in Blocks :
    boot_frames \cap RegionFrames(b)
      = memory_map[b].start .. (memory_map[b].start + used[b] - 1)

\* Whatever the uninitialized bitmap held, every frame that backs the bitmap or
\* its page tables, and every frame a caller of allocate_frame still owns, has
\* its bit set, so that no later allocate_frame can return it a second time.
LiveFramesMarked ==
  phase = "ready" => \A f \in boot_frames \cup owned : is_used(bitmap, f)

\* No caller of allocate_frame is ever given a frame the bootstrap allocator
\* had already put under the bitmap or its page tables.
BootFramesNeverGranted == owned \cap boot_frames = {}

\* The frames of the kernel, its stack and every other region init marks stay
\* marked whatever is allocated and given back: mmap_dev reads these bits to
\* decide whether unmapping may free the frame.
KernelFramesMarked ==
  phase = "ready" => \A f \in MarkedRegions : is_used(bitmap, f)

\* Every bit the kernel may touch is in a word of a mapped bitmap frame and
\* inside the slice: those of the frames below the end of the memory map, which
\* init and the allocator use, and those of the frames that get_frame_ty gives
\* a type, which mmap_dev looks up after its test.
BitsMapped ==
  \A f \in 0 .. EndFrame :
    f < EndFrame \/ get_frame_ty(f) # "None" =>
      WordOf(f) \in MappedWords /\ WordOf(f) \in SliceWords

\* init ends, with an allocator or in a panic.
InitTerminates == <>(phase \in {"ready", "panicked"})

\* The frames that allocate_frame could still hand out to somebody.
Free ==
  IF phase = "ready" THEN {f \in UsableFrames : ~ is_used(bitmap, f)}
  ELSE UsableFrames \ boot_frames

AllFrames == UNION {0 .. (mm[Len(mm)].end - 1) : mm \in MemoryMaps}

Ownership ==
  INSTANCE FrameOwnership
    WITH Frame <- AllFrames, free <- Free, kept <- boot_frames, granted <- owned

\* The allocator implements exclusive ownership of frames: bootstrap and global
\* allocation only move free frames, and the uninitialized bitmap loses frames
\* but never shares one.
ImplementsOwnership == Ownership!Spec

-----------------------------------------------------------------------------
(* What the comments say and the code does not do.                         *)

\* "Get the `MemoryRegionType` of a frame" (mod.rs:122): the type get_frame_ty
\* reports for a frame is the type of the region the frame lies in.
FrameTypeCorrect ==
  \A b \in Blocks : \A f \in RegionFrames(b) : get_frame_ty(f) = memory_map[b].type

\* "Retuns true and sets `self.next_usable` to the index of the next usable
\* frame if ther's one available otherwise returns false" (mod.rs:134): the
\* search fails only when no usable frame is free.
NoneOnlyWhenExhausted ==
  phase = "ready" /\ FreeFromNext = {} => Free = {}

=============================================================================
