# A verification of Capucho OS

Capucho OS is a small x86_64 kernel in Rust. It boots on one processor from
BIOS, sets up memory, finds the ACPI tables, hands the interrupts over from the
8259 PICs to the APICs, lists PCI devices and powers off. This directory holds
TLA+ models of the parts that have state worth checking, TLC configurations for
small instances, and proofs checked by TLAPS.

## The system

| part | state | operations | talks to |
|---|---|---|---|
| bootstrap allocator (`memory/frame_allocator/bootstrap.rs`) | `next`, `used[64]` | `allocate_frame`, `allocate_bitmap_frame` | memory map, page tables |
| global allocator (`memory/frame_allocator/mod.rs`) | `bitmap`, `next_usable` | `init`, `allocate_frame`, `deallocate_frame`, `get_frame_ty`, `frame_in_use` | bootstrap allocator |
| paging context (`memory/mod.rs`) | page tables, allocator, outstanding `UnmapGuard`s | `init`, `map_range`, `mmap_dev`, `unmap` | global allocator |
| heap (`allocator.rs`) | `INITIALIZED` | `init_heap` | `map_range` |
| ACPI memory handler (`acpi.rs`, `acpi/handlers.rs`) | `mapping_refs` | `map`, `unmap`, `map_physical_region`, `unmap_physical_region`, AML `read_*`/`write_*` | `mmap_dev`, `unmap` |
| ACPI power (`acpi.rs`) | ports | `enable`, `set_sleep_state` | `sleep` |
| interrupts (`interrupts/mod.rs`) | IDT, `PICS`, `KEYBOARD` | five handlers | controller, console, paging context |
| controller (`interrupts/controller.rs`) | `Pics` or `Apic` | `init`, `notify_end_of_interrupt`, `apic_handover` | PICs, local APIC |
| APIC (`apic.rs`) | I/O APIC redirection entries | `apic_init`, `get_entry`, `set_entry` | controller, `mmap_dev` |
| consoles (`vga_buffer.rs`, `serial.rs`, `logger.rs`) | `WRITER`, `SERIAL1` | `_print`, `log` | everyone |
| PCI, AHCI (`pci.rs`, `ahci.rs`) | device registers | configuration reads and writes, port selection | `kernel_main`, AML |
| boot (`main.rs`, `lib.rs`) | – | `kernel_main`, `init`, `sleep`, `hlt_loop`, `panic` | all of them |

What makes it hard: the allocator's bitmap lies in memory that nobody clears;
the mapper takes frames from the allocator in the middle of the allocator's own
set-up; ACPI mappings overlap and are dropped in any order; guards carry a fact
about a frame from `mmap_dev` to a later `unmap`; handlers share spin locks with
the code they interrupt; and the interrupt controller changes under way.

## The modules

**`FrameAllocator`** models both allocators. Frames are frame numbers. The memory
map is a variable chosen in `Init` and never changed: it is sorted, its regions
are disjoint and not empty (what the bootloader hands over). `init` runs in
steps: `AllocateBitmapFrame` (the frame for a page of the bitmap),
`CreateBitmapTable` (a page table that `map_to` creates for it),
`BootstrapPanic`, and `FinishInit`, which marks frames in a bitmap with
*arbitrary* contents. `Allocate` and `Deallocate` are the trait functions. The
variable `owned`, which the code does not have, records who was given what.
**`FrameOwnership`** is the abstract specification: a frame is free, kept by the
boot code, or owned by one caller.

**`Paging`** extends it with the page tables. `map_range` and `mmap_dev` hold
`PAGING_CTX` while they run; each frame they take, each table and each entry is a
step (`AllocateHeapFrame`, `CreateTable`, `SetHeapEntry`, `SetDeviceEntry`).
Tables are named by level and address bits, with `ENTRIES` per table. Every
caller unwraps the `Result`, so an error is a panic. `mmap_dev` is called with any
frame (`DeviceFrames`): its documentation asks for one that "is free and is usable",
and only its own type test refuses some. The history variable `taken` holds the frames
that were allocated while mapped for a device, which nothing in the code prevents. A
table is a name for a frame: what two tables in one frame would do to each other's
entries is not modelled. **`PageMappings`** is what
`mmap_dev` and `unmap` promise their callers: one holder for each page.

**`AcpiHandler`** models `LockedHandler` on top of `PageMappings`: a loop over
frames takes a step for each frame. Slots hold the `PhysicalMapping`s that the
`acpi` crate keeps; `pins` counts the maps that the code never undoes (definition
blocks and AML memory accesses).

**`Interrupts`** models the processor: each program (`kernel_main`, the handlers,
the panic handler) is the sequence of its steps that touch the interrupt flag, a
lock or a controller. A stack of contexts replaces threads: a handler runs to its
`iret` before what it interrupted goes on. `loaded` records which of the GDT (with
the stack of the double fault handler), the IDT and the vectors of the PICs `init`
has set up; an exception before that resets the machine. Breakpoints, page faults,
double faults and panics are tried at the steps of `kernel_main`, double faults in
the timer handler too. The PICs, the local APIC, the timer and the keyboard
controller are external, and modelled from how the kernel uses them.

**`IoApic`** models the other half of `apic_init`: the `mmap_dev` calls, the
override of a line (`get_interrupt_source`, which uses its number and neither its
polarity nor its trigger), the choice of the I/O APIC
(`get_interrupt_ioapic`), the bounds check, the setters on the bits of an entry, and
the two register writes of `set_redir_entry` as two steps. An entry is the set of
its bits.

**`VgaBuffer`** models `Writer` byte by byte; `new_line` copies one row in a step.
The reference it is compared with lays out the whole text at once.

**`PciConfig`** models configuration mechanism 1 of `pci.rs` and the six accesses of
the AML handler; a register is four bytes. **`PciScan`** puts the AML interpreter,
`brute_force_find` and the choice of the SATA controller in the order of
`kernel_main`. **`Ahci`** adds the mapping of the ABAR, frame by frame, and
the loop over the ports. The three extend each other: what AML wrote is what the
scan reads.

**`AcpiPower`** models `Acpi::enable` with its polls, against firmware that
switches the two power management blocks one at a time, late or never, and
`set_sleep_state` with its two writes. **`Platform`** puts `IoApic` and `AcpiPower` in
the order of `kernel_main`: `enable`, `apic_init`, the shutdown, each after the one
before has returned, while firmware and hardware act at any time.

The modules named `MC...` hold the small instances, the ones named `...Proofs` the
theorems. Definitions named after another one with a suffix (`mark_used_whole_word`
before `mark_used`) are variants with a plausible mistake in them; no specification
uses them, and each is there to show that a property would notice.

How the modules fit together: `Paging` extends `FrameAllocator`, so that page tables
and heap pages come from the real allocator. `AcpiHandler` uses `PageMappings`, and
`PagingProofs` proves that `mmap_dev` and `unmap` implement `PageMappings` for every
layout. `IoApic` and `Ahci` see of `mmap_dev` only that it refuses a page that
is mapped already, which `PageMappings` says as well. How long the `sleep` of
`AcpiPower` takes is in `Interrupts`.

## What is checked

| run | shows |
|---|---|
| `frame_allocator` | whatever the uninitialized bitmap held: counts are exact (`UsedCountsExact`), frames in use are marked (`LiveFramesMarked`, `KernelFramesMarked`), boot frames are never handed out (`BootFramesNeverGranted`), every lookup is in mapped memory (`BitsMapped`), `init` ends (`InitTerminates`), and the allocator implements `FrameOwnership` |
| `paging` | the heap is covered to its last byte (`HeapCovered`), no frame taken is lost, even by a failure, and frames in use are not up for allocation (`FramesAccounted`), no frame has two uses (`NoSharedFrame`), a guard is right about its frame (`GuardsSound`), `unmap` frees nothing in use (`OnlyTakenFreed`), the last four up to frames in `taken`; boot ends (`HeapTerminates`), and `mmap_dev`/`unmap` implement `PageMappings` |
| `acpi_handler` | counts agree with live mappings (`RefsExact`), live bytes stay mapped (`LiveBytesMapped`), handler and drivers do not touch each other's pages (`PagesOwnedOnce`), and no drop panics (`DropNeverPanics`) |
| `interrupts` | nobody waits for a lock (`NeverSpins`), interrupts are on only when the tables are loaded and the PICs have their vectors (`InterruptsHaveHandlers`), lines are in service exactly while they are handled (`InServiceExact`), a key has a request (`KeyHasRequest`), `kernel_main` ends (`MainEnds`) and keys are read (`KeyRead`) |
| `vga` | the screen shows the last lines of the text, wrapped, with boxes for unprintable bytes (`ScreenShowsText`); no write leaves the buffer (`TypeOK`) |
| `sata` | reads through AML are exact (`ReadsExact`), writes stay in the register they name (`WritesAimed`), the scan finds each function once and in order (`ScanExact`), `kernel_main` goes on with the last AHCI controller (`ChoosesLastAhci`), and every port register it reads is mapped (`PortsMapped`) |
| `platform` | `enable` returns only when both blocks are switched (`EnabledMeansBoth`), it gives up only when an answer came after its last look (`TimeoutMeansLate`); the timer and the keyboard get their vectors on the pins of their overrides (`RoutedWhenDone`), and between two register writes too every other pin is as firmware left it (`NoStrayPin`); sleep types stay within their bits (`PowerTypeOK`), and a machine with `\_S5` powers off unless the kernel has panicked before (`ShutsDown`) |

Five runs show where the code differs from what it says of itself:

- `frame_type`: `get_frame_ty` tests `start_addr() >= addr`, so it reports the
  type of a *later* region for every frame but the first of its region. `Paging`
  models the function as it is: `mmap_dev` therefore refuses some device frames
  and accepts some others.
- `next_usable`: the search for a free frame never goes back below
  `next_usable`, so a frame given back there is not found again. The only usable
  frames given back are those of the next run.
- `stale_guard`: `mmap_dev` records that a frame is free and does not mark it, so a
  page table may be put there while it is mapped; `unmap` then clears its mark, and
  `frame_in_use` reports the frame of a live table as free. It takes a usable frame
  that passes the type test, which only the first run's defect makes possible. What
  the `paging` run says of the other frames holds all the same.
- `sleep`: `sleep` counts `hlt` instructions, and any interrupt ends one.
- `io_apic_selection`: `get_interrupt_ioapic` starts from the first listed I/O APIC
  whatever its base is; when that one has the higher base, it is returned for lines
  it does not have.

Some behaviours are in the models as they are in the code, without a statement in
the repository that they contradict. The properties are stated around them:

- `read_pci_u16` and `write_pci_u16` shift by `(offset % 2) * 16`, so that at the
  upper half of a register they reach the lower half; `write_pci_u8` and
  `write_pci_u16` clear the other bytes of the register. `ReadsExact` leaves
  the upper half out, and `WritesAimed` is about whole registers.
- `redir_entry` panics on the last pin, and the global interrupt number is used as
  pin number on every I/O APIC. `set_vector` adds bits and `set_masked(false)` flips
  the mask. `RoutedWhenDone` is about returns, and about entries as after reset.
- `port_slice_mut` takes the first `port_count` ports, implemented or not.
- `get_sleep_state` takes the second sleep type from the upper byte of the first
  item; `set_sleep_state` overwrites the control register, `SCI_EN` included.
- `enable` does not look again after its last sleep.
- `read` and `write` of the AML handler map the frame of the first byte only: an access
  that straddles two frames reaches a page they have not mapped.

### Bounds

- `frame_allocator`: five memory maps of up to 8 frames, words of 2 bits and
  frames of 2 words, so that two bitmap pages are needed, the last one partly
  used. The maps have usable memory before and after a kernel region, a hole, a
  first region that is too small for a page and its tables, and too little memory
  altogether. All initial bitmaps are tried.
- `paging`: two maps of 10 frames, a heap of two pages under tables of its own, and
  device pages under three level 1 tables of four entries, so that `mmap_dev` creates
  tables after other frames were mapped and unmapped. Two tables in one frame and
  a guard that has gone stale both occur.
- `acpi_handler`: five frames of four bytes, three live mappings, five requests
  that end on, before and across page boundaries (one of size 0); at most
  `MaxPins = 2` maps of a frame that are never undone.
- `interrupts`: two polls of two `hlt` each instead of 300 of 10: the loop has the
  same shape, and one interrupted sleep and one that times out both occur. `halts`
  counts the `hlt`s of `Acpi::enable` until it returns; `ticks`, which only the `sleep`
  run reads, counts the timer interrupts since its last poll up to `SLEEP_MS`. The
  proofs hold for every number of polls and every length of the sleep.
  `Faulting` names the programs in which a double fault is tried: `kernel_main` and
  the timer handler; the keyboard handler prints, and see below for faults there.
- `vga`: three rows of two columns and up to `MaxText = 6` bytes: lines wrap, a full
  line meets a newline, and the first line leaves the screen.
- `platform`: one or two I/O APICs of 4 and 8 pins; overrides that move
  the timer, put it on the last pin (the panic), and move the keyboard as well;
  two devices in one frame. `BootEntry` holds masked entries without a vector.
  `POLLS = 3`, every combination of SMI port, second block and `\_S5` (absent, one type,
  two types). The type each block obeys is part of the platform, and packed into the
  first item of `\_S5` the way `get_sleep_state` expects it.
- `sata`: `BUSES = 2` of 256, all 32 devices and 8 functions; four machines with
  functions at first and last addresses, none, one and two AHCI controllers, one of
  them no endpoint. `SPACE = 16` bytes of configuration space, with the
  registers of vendor, command, class and header type; AML reaches offsets 0 to 7
  (`AmlOffsets`) with bytes 0 and 255 and the words of `Words`. Controllers whose
  registers start inside a frame, fill two frames, or have gaps between ports;
  one frame is taken before (`Taken`).

### Fairness

`InitTerminates` and `HeapTerminates` assume that the processor keeps running
`init`, `init_heap` and `map_to`, which wait for nothing. `MainEnds` and
`KeyRead` assume that the processor executes instructions, takes an interrupt
that is possible again and again, and that the timer is periodic with a period
longer than its handler, so that interrupted code gets on: strong fairness on
the steps of the bottom context, and `TicksSpaced` for the keyboard, which has the
lower priority on the PIC. `ShutsDown` assumes that `kernel_main` runs, that the SATA
part in between returns, and that the machine powers off when both blocks have been told to; firmware that switches blocks
gets no fairness, since `enable` has its timeout. Callers of allocate, map and unmap,
and keys, get none either.

## What is proved

`FrameAllocatorProofs` proves, for every memory map and every frame and word size:

- `TypeCorrect`, `CountsExact`, `LiveMarked`, `BootNeverGranted`, `KernelMarked`,
  `LookupsMapped`: the invariants of the `frame_allocator` run;
- `Refinement`: the allocator implements `FrameOwnership`.

Assumptions: `MemoryMapsAssumption` (the map is sorted, disjoint, not empty, at
most 64 regions) and `WordsAssumption` (sizes are positive). The inductive
invariant `IndInv` adds three facts to the properties. `BootPrefix`: the usable
frames below one that the bootstrap allocator has handed out are handed out too.
`BootCount`: `next` is the number of frames handed out. With both, `nth(next)`
yields a new frame, the least one left (lemma `PrefixByCount`), so that in each
region the frames handed out are a run from its start, which is what makes marking
`start..(start + size)` right. `PhaseOK` says that `owned` is empty before `init`
returns and that a page table is only missing for a page of the bitmap.
`PartsInjective` and `WordMapped` carry the bit
arithmetic: two frames never share a bit, and the ceiling division leaves no frame
without a word.

`PagingProofs` proves, for every memory map, heap, page size and set of page tables,
the safety properties of the `paging` run (`HeapIsCovered`, `NothingLeaks`, `OneUse`,
`GuardsTrue`, `FreesNoOther`) and `DevicesRefine`: `mmap_dev` and `unmap` implement `PageMappings`. Beyond the assumptions of the allocator it needs
`PagingAssumption`: sizes are positive and the heap lies above the memory map. The
inductive invariant `PagingInv` contains `IndInv` of the allocator until a
panic, so that its proof about frames is used and not repeated. `ProgressOK` says how
far `map_range` has come, and `Accounted` that what is in use was taken and, outside
`taken`, still is. `DevicesOK` carries `GuardsTrue`: a device page is free, or it has
one guard, and the guard says what the bitmap says *now* unless its frame is in `taken`.
It is kept because only an allocation marks a frame, which puts a mapped one into
`taken`, and only an `unmap` with a freeing guard removes a mark (`UnmapFrees`,
`MarksKept`). `BootOK` says that no device is mapped before the heap is ready, so that
heap frames are never in `taken`.

`AcpiHandlerProofs` proves the five invariants of the `acpi_handler` run for every
finite set of slots, page size and set of requests (`AcpiAssumption`: the pages of a
request exist). The invariant counts, for each page, live mappings, maps that are
never undone, and the share of the loop in progress (`Counted`); `OpOK` says
that a loop runs from the first to the last page of its mapping, which is where the
two roundings of `map_physical_region` and `unmap_physical_region` have to agree.

`AhciProofs` proves the five properties of the `sata` run for every machine, every
size of configuration space, up to 256 buses and every controller
(`PciAssumption`: addresses have their widths and a function that exists has a vendor;
`ScanAssumption`: the buses that are scanned include all functions;
`AhciAssumption`: the registers reach to the end of the last implemented port).
`PortExact` carries the arithmetic of the address word: shifts that do not overlap are
undone by the divisions of the host bridge. `ScanInv` contains `Chosen`, the choice
among the results seen so far, and `RankFacts` says that the loops reach each address
once. `HbaOK` says which frames are mapped; `PortFacts` turns the number of
implemented ports into a bound on the last byte that the slice reaches.

`PlatformProofs` holds the proofs about `IoApic`, `AcpiPower` and `Platform`. `LinesRouted` and
`PinsSafe` state `RoutedWhenDone` and `NoStrayPin` for any number of I/O APICs, pins
and overrides, for behaviours that start with `IsaOnFirst` (the first listed I/O APIC
has both lines) and `ResetEntry` (entries masked and without a vector);
`io_apic_selection` shows that the first condition is needed. The invariant gives
every entry its value at every step: the lower half, written first, already is
all that changes. The three invariants of `AcpiPower` are proved for every number of
polls and every platform (`PowerAssumption`). `Freshness` is the fact that makes
`TimeoutMeansLate` inductive: at a poll, what is not yet seen was not yet answered
when the poll began. `PartsCompose` shows that every behaviour of `Platform` is one of
`IoApic` and one of `AcpiPower`, so that these theorems hold of `kernel_main`.

`VgaBufferProofs` proves, for every screen size and every text (`VgaAssumption`), that
no byte is put past the last column (`WriterInBounds`) and that between two bytes the
screen shows the text (`ScreenCorrect`). The reference lays out the whole text at once,
and the writer sees one byte at a time; `LaidOut` is what connects them: where
paragraphs begin, that lines grow with the text, and that the bytes of the last line
stand before the cursor. It is shown to survive an appended byte (`AppendLaidOut`),
with the line and column of the new byte (`AppendColumn`), so that no induction over
the text is needed. `ScreenInv` adds the screen in the middle of `new_line`: rows above
the one being copied show their new line, the others still their old one.

`InterruptProgramsProofs` and `InterruptsProofs` prove the four invariants of the
`interrupts` run for every number of polls, every length of the sleep and every choice
of programs that may fault (`SleepAssumption`):

- `LocksNeverSpin`: nobody ever waits for a lock;
- `HandlersInPlace`: with interrupts on, the tables are loaded and the PICs have their
  vectors;
- `ServiceExact`: a line is in service exactly while its handler owes the end of
  interrupt, across the handover;
- `KeyRequested`: a key in the controller has a request or a handler about to read it.

A program is a concatenation of shorter ones. The first module computes its
steps once (`MainCode`, `TimerCode`, ...), and from then on reasons about places: `Off` (inside
`without_interrupts`), `Holds` (between a lock and its unlock), `Serves` and `Reads` (what
a handler still owes). For each kind of step a lemma (`AtLock`, `AtPopf`, ...) says at
which places it stands and what moving past it changes. None of the four properties is
inductive, since each depends on what interrupted contexts will do later. `IInv` says
that the places determine the rest of the state:

- `Nested`: `kernel_main` or its panic handler is at the bottom, a handler or exception
  above it, and only a double fault above a handler; a context has a saved flag exactly
  inside `without_interrupts`;
- `Flags`: handlers run with interrupts off and interrupted code that had them on;
- `Phases`: how far `kernel_main` has come tells which tables are loaded and how far the
  handover is; before the `sti` of `init` nothing can turn interrupts on;
- `LocksHeld`: a lock is held by the context between its lock and its unlock; `WRITER`
  and `SERIAL1` are held by the running context only. A panic leaves `PICS` or
  `PAGING_CTX` taken, which the panic handler does not take again;
- `Devices`, `InService`, `Request`: the controllers, and the last two properties in
  terms of places.

No lock is waited for because an interrupt comes only when the flag is set, and then
`kernel_main` holds none of the locks that handlers take, `PICS` included (`Ready`). The
steps of an interrupt (`DeliverSteps`) and of an exception (`TrapSteps`) carry the
argument; the other families (`MoveSteps`, `LockSteps`, `SetupSteps`, `FlagSteps`,
`DeviceSteps`) move one context.

Only model-checked: liveness (`InitTerminates`, `HeapTerminates`, `MainEnds`, `KeyRead`,
`ShutsDown`), which needs fairness and is out of the prover's reach.

## Not modelled

- The buddy allocator, `map_to`, the AML interpreter and the ACPI and PCI header
  parsers are libraries; `map_to` and the header checks are modelled by their effect.
- A fault or panic inside a print routine: the handler would wait for the lock its
  own context holds. Formatting is assumed not to fault.
- An edge of the keyboard line that falls before `init_pics` or in the handover is
  lost in the code and in the model (`missed`); the key properties exclude it.
- Spurious interrupts and lines of the second PIC: no modelled step leads there.
- The locks of the heap and of the ACPI handler: no interrupt handler allocates or
  maps, so they are never contended.
- The AML handler's port accesses, the UART, the accessors of single bit fields of
  the AHCI registers, of `RedirEntry` (beyond vector and mask) and `Debug` output: one
  expression each, without state of the kernel.
- `get_port` and the iterator over redirection entries, which nothing calls.
