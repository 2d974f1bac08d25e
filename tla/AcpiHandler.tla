----------------------------- MODULE AcpiHandler ----------------------------
(***************************************************************************)
(* LockedHandler of src/src/acpi.rs and src/src/acpi/handlers.rs: the      *)
(* reference-counted identity mappings that the acpi and aml crates ask    *)
(* for, and bios_get_acpi, which maps the definition blocks for good.      *)
(*                                                                         *)
(* The acpi crate holds any number of PhysicalMappings and drops them in   *)
(* any order.  They may overlap, so a frame is mapped on its first use and *)
(* unmapped on its last.  Mappings of the drivers (apic.rs, main.rs) come  *)
(* from the same mmap_dev, whose promise is module PageMappings.           *)
(***************************************************************************)
EXTENDS Integers, FiniteSets

CONSTANTS
  Frame,      \* frames that firmware and devices may lie in
  PAGE_SIZE,  \* 0x1000 in the code
  Request,    \* [address, size] of the regions the acpi crate may ask for
  Table,      \* [address, size] of the DSDT and SSDTs
  Address,    \* addresses AML code may access
  Slot,       \* names for PhysicalMappings that are live at once
  MaxPins     \* bound: how often map is called without an unmap to match

Area == [address : Nat, size : Nat]

PageOf(addr) == addr \div PAGE_SIZE

ASSUME AcpiAssumption ==
  /\ Frame \subseteq Nat /\ PAGE_SIZE \in Nat \ {0} /\ MaxPins \in Nat
  /\ IsFiniteSet(Slot)
  /\ Request \subseteq Area /\ Table \subseteq Area /\ Address \subseteq Nat
  /\ \A r \in Request \cup Table : PageOf(r.address) .. PageOf(r.address + r.size) \subseteq Frame
  /\ \A a \in Address : PageOf(a) \in Frame

VARIABLES
  mapped,        \* PageMappings: device pages that are mapped
  guarded,       \* PageMappings: pages with an outstanding UnmapGuard
  mapping_refs,  \* Handler.mapping_refs: the count of a frame, 0 without entry
  live,          \* the PhysicalMapping in each slot, or NoMapping
  op,            \* the loop in progress: what it does, and the frames left
  pins,          \* ghost: calls of map that nothing undoes, for each frame
  drivers,       \* ghost: the frames mapped by drivers
  panic          \* the message of the panic, "" while the kernel runs

pageVars == <<mapped, guarded>>
vars == <<pageVars, mapping_refs, live, op, pins, drivers, panic>>

PageTable == INSTANCE PageMappings WITH Page <- Frame

\* PhysicalMapping of the acpi crate: physical_start and mapped_length count
\* whole pages, address and size are what was asked for.
Mapping == [physical_start : Nat, mapped_length : Nat, address : Nat, size : Nat]

NoMapping == [physical_start |-> 0, mapped_length |-> 0, address |-> 0, size |-> 0]

Idle == [kind |-> "idle", at |-> 0, end |-> 0, slot |-> 0, mapping |-> NoMapping]

Running == panic = ""

-----------------------------------------------------------------------------
(* Handler.                                                                *)

HandlerMapUncounted(f) ==
  /\ IF mapping_refs[f] > 0
     THEN UNCHANGED <<mapping_refs, pageVars>>
     ELSE /\ PageTable!Acquire(f)
          /\ mapping_refs' = [mapping_refs EXCEPT ![f] = 1]

\* Handler::map when it returns.
HandlerMap(f) ==
  /\ IF mapping_refs[f] > 0
     THEN mapping_refs' = [mapping_refs EXCEPT ![f] = @ + 1] /\ UNCHANGED pageVars
     ELSE /\ PageTable!Acquire(f)
          /\ mapping_refs' = [mapping_refs EXCEPT ![f] = 1]

HandlerUnmapEarly(f) ==
  IF mapping_refs[f] = 0
  THEN panic' = "Trying to unmap non mapped frame" /\ UNCHANGED <<mapping_refs, pageVars>>
  ELSE /\ mapping_refs' = [mapping_refs EXCEPT ![f] = @ - 1]
       /\ IF f \in mapped THEN PageTable!Release(f) ELSE UNCHANGED pageVars
       /\ UNCHANGED panic

HandlerUnmapKeepsPage(f) ==
  IF mapping_refs[f] = 0
  THEN panic' = "Trying to unmap non mapped frame" /\ UNCHANGED <<mapping_refs, pageVars>>
  ELSE mapping_refs' = [mapping_refs EXCEPT ![f] = @ - 1] /\ UNCHANGED <<panic, pageVars>>

\* Handler::unmap, with its two expects.
HandlerUnmap(f) ==
  IF mapping_refs[f] = 0
  THEN panic' = "Trying to unmap non mapped frame" /\ UNCHANGED <<mapping_refs, pageVars>>
  ELSE /\ mapping_refs' = [mapping_refs EXCEPT ![f] = @ - 1]
       /\ IF mapping_refs[f] > 1 THEN UNCHANGED <<panic, pageVars>>
          ELSE IF f \in mapped THEN PageTable!Release(f) /\ UNCHANGED panic
          ELSE panic' = "Failed to unmap" /\ UNCHANGED pageVars

-----------------------------------------------------------------------------
(* The loops over the frames of an area: each frame is one step, since     *)
(* every one of them locks the handler anew and may panic on its own.      *)

MappingOfSwapped(r) ==
  LET start == PageOf(r.address) * PAGE_SIZE
      end == PageOf(r.address + r.size) * PAGE_SIZE
  IN  [physical_start |-> start, mapped_length |-> start + PAGE_SIZE - end,
       address |-> r.address, size |-> r.size]

\* The mapping that map_physical_region returns: it covers the frames from the
\* one of the first byte to the one of the byte after the last.
MappingOf(r) ==
  LET start == PageOf(r.address) * PAGE_SIZE
      end == PageOf(r.address + r.size) * PAGE_SIZE
  IN  [physical_start |-> start, mapped_length |-> end + PAGE_SIZE - start,
       address |-> r.address, size |-> r.size]

StartMap(s, r) ==
  /\ Running /\ op = Idle /\ live[s] = NoMapping
  /\ op' = [kind |-> "map", at |-> PageOf(r.address), end |-> PageOf(r.address + r.size),
            slot |-> s, mapping |-> MappingOf(r)]
  /\ UNCHANGED <<pageVars, mapping_refs, live, pins, drivers, panic>>

\* Frames that are mapped and never unmapped.
StartPin(first, last) ==
  /\ Running /\ op = Idle
  /\ \A f \in first .. last : pins[f] < MaxPins
  /\ op' = [Idle EXCEPT !.kind = "pin", !.at = first, !.end = last]
  /\ UNCHANGED <<pageVars, mapping_refs, live, pins, drivers, panic>>

\* bios_get_acpi maps a definition block.
StartTable(t) == StartPin(PageOf(t.address), PageOf(t.address + t.size))

\* LockedHandler::read and write map the frame of the address they access.
StartAccess(a) == StartPin(PageOf(a), PageOf(a))

MapNextFrame ==
  /\ Running /\ op.kind \in {"map", "pin"} /\ op.at <= op.end
  /\ HandlerMap(op.at)
  /\ op' = [op EXCEPT !.at = @ + 1]
  /\ pins' = IF op.kind = "pin" THEN [pins EXCEPT ![op.at] = @ + 1] ELSE pins
  /\ UNCHANGED <<live, drivers, panic>>

\* The expect of Handler::map: mmap_dev can refuse any frame it is asked for,
\* for its type, for want of a frame for a page table, or as already mapped.
MapNextFrameFails ==
  /\ Running /\ op.kind \in {"map", "pin"} /\ op.at <= op.end
  /\ mapping_refs[op.at] = 0
  /\ panic' = "Failed to identity map"
  /\ UNCHANGED <<pageVars, mapping_refs, live, op, pins, drivers>>

FinishMap ==
  /\ Running /\ op.kind = "map" /\ op.at > op.end
  /\ live' = [live EXCEPT ![op.slot] = op.mapping]
  /\ op' = Idle
  /\ UNCHANGED <<pageVars, mapping_refs, pins, drivers, panic>>

FinishPin ==
  /\ Running /\ op.kind = "pin" /\ op.at > op.end
  /\ op' = Idle
  /\ UNCHANGED <<pageVars, mapping_refs, live, pins, drivers, panic>>

LastPageShort(m) == PageOf(m.physical_start + m.mapped_length) - 2

\* unmap_physical_region: the last page of Page::range(start, end).
LastPage(m) == PageOf(m.physical_start + m.mapped_length) - 1

\* A PhysicalMapping is dropped.
StartUnmap(s) ==
  /\ Running /\ op = Idle /\ live[s] # NoMapping
  /\ op' = [kind |-> "unmap", at |-> PageOf(live[s].physical_start), end |-> LastPage(live[s]),
            slot |-> s, mapping |-> live[s]]
  /\ live' = [live EXCEPT ![s] = NoMapping]
  /\ UNCHANGED <<pageVars, mapping_refs, pins, drivers, panic>>

UnmapNextPage ==
  /\ Running /\ op.kind = "unmap" /\ op.at <= op.end
  /\ HandlerUnmap(op.at)
  /\ op' = [op EXCEPT !.at = @ + 1]
  /\ UNCHANGED <<live, pins, drivers>>

FinishUnmap ==
  /\ Running /\ op.kind = "unmap" /\ op.at > op.end
  /\ op' = Idle
  /\ UNCHANGED <<pageVars, mapping_refs, live, pins, drivers, panic>>

\* A driver maps a frame for itself, and drops the guard.
DriverMmap(f) ==
  /\ Running /\ op = Idle
  /\ PageTable!Acquire(f)
  /\ drivers' = drivers \cup {f}
  /\ UNCHANGED <<mapping_refs, live, op, pins, panic>>

DriverMmapFails(f) ==
  /\ Running /\ op = Idle
  /\ panic' = "Failed to mmap"
  /\ UNCHANGED <<pageVars, mapping_refs, live, op, pins, drivers>>

Halted == ~ Running /\ UNCHANGED vars

-----------------------------------------------------------------------------

Init ==
  /\ PageTable!Init
  /\ mapping_refs = [f \in Frame |-> 0]
  /\ live = [s \in Slot |-> NoMapping]
  /\ op = Idle
  /\ pins = [f \in Frame |-> 0]
  /\ drivers = {}
  /\ panic = ""

LoopStep ==
  \/ MapNextFrame \/ MapNextFrameFails
  \/ FinishMap \/ FinishPin \/ UnmapNextPage \/ FinishUnmap

Next ==
  \/ \E s \in Slot : StartUnmap(s) \/ \E r \in Request : StartMap(s, r)
  \/ \E t \in Table : StartTable(t)
  \/ \E a \in Address : StartAccess(a)
  \/ LoopStep
  \/ \E f \in Frame : DriverMmap(f) \/ DriverMmapFails(f)
  \/ Halted

Spec == Init /\ [][Next]_vars

-----------------------------------------------------------------------------
(* Properties.                                                             *)

\* The frames a mapping refers to, by the bytes it was asked for plus one.
Spans(m, f) ==
  m.mapped_length > 0 /\ f \in PageOf(m.physical_start) .. LastPage(m)

\* What the loop in progress has already mapped, or not yet unmapped.
LoopRefs(f) ==
  CASE op.kind = "map" /\ f \in PageOf(op.mapping.physical_start) .. (op.at - 1) -> 1
    [] op.kind = "unmap" /\ f \in op.at .. op.end -> 1
    [] OTHER -> 0

TypeOK ==
  /\ mapped \subseteq Frame /\ guarded \subseteq Frame
  /\ mapping_refs \in [Frame -> Nat]
  /\ live \in [Slot -> Mapping]
  /\ op.kind \in {"idle", "map", "pin", "unmap"} /\ op.at \in Nat /\ op.end \in Int
  /\ op.mapping \in Mapping
  /\ pins \in [Frame -> Nat]
  /\ drivers \subseteq Frame
  /\ panic \in {"", "Failed to identity map", "Trying to unmap non mapped frame",
                "Failed to unmap", "Failed to mmap"}

\* The count of a frame is the number of live mappings that span it, plus the
\* maps that are never undone, plus the share of the loop in progress: mapping
\* and unmapping of overlapping areas agree on the frames, to the page.
RefsExact ==
  Running =>
    \A f \in Frame :
      mapping_refs[f]
        = Cardinality({s \in Slot : Spans(live[s], f)}) + pins[f] + LoopRefs(f)

\* Every byte of a live mapping is in a mapped page, whichever mappings that
\* overlap it were made and dropped before.
LiveBytesMapped ==
  \A s \in Slot :
    live[s] # NoMapping =>
      \A a \in live[s].address .. (live[s].address + live[s].size - 1) :
        PageOf(a) \in mapped

\* A mapped page belongs either to the handler, with a count, or to a driver:
\* the handler never unmaps a driver's page and leaves none of its own behind.
PagesOwnedOnce ==
  Running =>
    /\ mapped = drivers \cup {f \in Frame : mapping_refs[f] > 0}
    /\ drivers \cap {f \in Frame : mapping_refs[f] > 0} = {}

\* Dropping mappings never panics: Handler::unmap finds the entry and memory::
\* unmap finds the page.
DropNeverPanics ==
  panic \notin {"Trying to unmap non mapped frame", "Failed to unmap"}

=============================================================================
