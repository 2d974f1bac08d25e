------------------------------- MODULE IoApic -------------------------------
(***************************************************************************)
(* The I/O APIC half of apic_init (src/src/apic.rs): the I/O APICs that    *)
(* the firmware lists are mapped, then the timer and the keyboard line are *)
(* given their vectors.  An access to a register through the index and     *)
(* data window is one step: interrupts are off and no handler uses the     *)
(* window.                                                                 *)
(***************************************************************************)
EXTENDS Integers, Sequences

CONSTANTS
  Firmware,   \* what firmware may report: I/O APICs and overrides
  LapicFrame, \* frame of the local APIC
  BootEntry   \* what the redirection entries may hold at boot

VARIABLES
  info,      \* the platform description: [io_apics, overrides]
  boot,      \* ghost: what every entry held at boot
  redir,     \* for each I/O APIC its redirection entries
  mapped,    \* the frames identity mapped by mmap_dev so far
  line,      \* the ISA line apic_init is at: 0 for the timer, 1 for the keyboard
  entry,     \* the local variable entry of apic_init
  pc

vars == <<info, boot, redir, mapped, line, entry, pc>>

-----------------------------------------------------------------------------
(* RedirEntry: an entry is the set of its bits that are set.               *)

MASKED == 16

\* The bits of a byte.
ByteBits(n) == {b \in 0 .. 7 : (n \div 2^b) % 2 = 1}

VectorBits(e) == e \cap 0 .. 7

SetVector(e, v) == e \cup ByteBits(v)

\* The bit is flipped, and then set if the entry is to be masked.
SetMasked(e, on) ==
  (IF MASKED \in e THEN e \ {MASKED} ELSE e \cup {MASKED}) \cup (IF on THEN {MASKED} ELSE {})

-----------------------------------------------------------------------------

IoApics == 1 .. Len(info.io_apics)

\* The I/O APIC's version register holds the index of its last entry.
redir_entry_count(a) == info.io_apics[a].entries - 1

-----------------------------------------------------------------------------

\* The interrupt of an ISA line: that of its first override, or the same number.
GsiOf(isa) ==
  LET hits == {k \in 1 .. Len(info.overrides) : info.overrides[k].isa = isa}
  IN  IF hits = {} THEN isa
      ELSE info.overrides[CHOOSE k \in hits : \A j \in hits : k <= j].gsi

\* The interrupt number is kept in a byte.
get_interrupt_source(isa) == GsiOf(isa) % 256

Base(a) == info.io_apics[a].base % 256

\* The loop keeps the first I/O APIC, unless one that starts at or below the
\* vector starts above it; of those it ends with the first of the highest base.
get_interrupt_ioapic(vector) ==
  LET better == {a \in IoApics : Base(a) <= vector /\ Base(a) > Base(1)}
      highest == {a \in better : \A b \in better : Base(b) <= Base(a)}
  IN  IF better = {} THEN 1 ELSE CHOOSE a \in highest : \A b \in highest : a <= b

\* mmap_dev for the local APIC and then each I/O APIC; a frame that is mapped
\* already is a panic.
MapDevice ==
  /\ pc = "map"
  /\ LET frames == <<LapicFrame>> \o [a \in IoApics |-> info.io_apics[a].frame]
         frame == frames[Len(mapped) + 1]
     IN  IF \E k \in 1 .. Len(mapped) : mapped[k] = frame
         THEN pc' = "panic" /\ UNCHANGED mapped
         ELSE /\ mapped' = Append(mapped, frame)
              /\ pc' = IF Len(mapped') = Len(frames) THEN "get" ELSE pc
  /\ UNCHANGED <<info, boot, redir, line, entry>>

ConfigureNoVector(e) == SetMasked(e, FALSE)

\* set_vector(32 + line) and set_masked(false).
Configure(e) == SetMasked(SetVector(e, 32 + line), FALSE)

\* The bounds check of redir_entry.
OutOfBounds(a, vector) == vector >= redir_entry_count(a)

GetEntryLow ==
  /\ pc = "get"
  /\ LET vector == get_interrupt_source(line)
         a == get_interrupt_ioapic(vector)
     IN  IF OutOfBounds(a, vector) THEN pc' = "panic" /\ UNCHANGED entry
         ELSE pc' = "low" /\ entry' = Configure(redir[a][vector] \cap 0 .. 31)
  /\ UNCHANGED <<info, boot, redir, mapped, line>>

\* get_entry and the setters.
GetEntry ==
  /\ pc = "get"
  /\ LET vector == get_interrupt_source(line)
         a == get_interrupt_ioapic(vector)
     IN  IF OutOfBounds(a, vector) THEN pc' = "panic" /\ UNCHANGED entry
         ELSE pc' = "low" /\ entry' = Configure(redir[a][vector])
  /\ UNCHANGED <<info, boot, redir, mapped, line>>

\* Half of set_redir_entry: the bits of one register of the entry.
SetHalf(bits) ==
  LET vector == get_interrupt_source(line)
      a == get_interrupt_ioapic(vector)
  IN  redir' = [redir EXCEPT ![a][vector] = (@ \ bits) \cup (entry \cap bits)]

SetEntryLow ==
  /\ pc = "low"
  /\ SetHalf(0 .. 31)
  /\ pc' = "high"
  /\ UNCHANGED <<info, boot, mapped, line, entry>>

SetEntryHigh ==
  /\ pc = "high"
  /\ SetHalf(32 .. 63)
  /\ IF line = 0 THEN line' = 1 /\ pc' = "get" ELSE pc' = "done" /\ UNCHANGED line
  /\ UNCHANGED <<info, boot, mapped, entry>>

\* apic_init has returned or panicked.
Stopped == pc \in {"done", "panic"} /\ UNCHANGED vars

Init ==
  /\ info \in Firmware
  /\ boot \in BootEntry
  /\ redir = [a \in IoApics |-> [p \in 0 .. info.io_apics[a].entries - 1 |-> boot]]
  /\ mapped = <<>> /\ line = 0 /\ entry = {} /\ pc = "map"

Next == MapDevice \/ GetEntry \/ SetEntryLow \/ SetEntryHigh \/ Stopped

Spec == Init /\ [][Next]_vars

-----------------------------------------------------------------------------
(* Properties.  Pin p of I/O APIC a is wired to interrupt base + p.        *)

Wired(a, p, isa) == info.io_apics[a].base + p = GsiOf(isa)

\* When apic_init returns, the pins of the timer and of the keyboard deliver
\* vectors 32 and 33, on whichever pin of the first I/O APIC an override has put
\* them.  All else in their entries, destination, trigger and polarity, is what
\* it was at boot: apic_init does not look at what an override says of the two.
RoutedWhenDone ==
  pc = "done" =>
    \A isa \in {0, 1} : \E a \in IoApics :
      \E p \in DOMAIN redir[a] :
        Wired(a, p, isa) /\ redir[a][p] = (boot \ {MASKED}) \cup ByteBits(32 + isa)

\* Even between the two writes of an entry, a pin that can deliver delivers the
\* vector of the handler of its line to a processor the firmware chose, and
\* every other pin is as the firmware left it.
NoStrayPin ==
  \A a \in IoApics : \A p \in DOMAIN redir[a] :
    redir[a][p] # boot =>
      \E isa \in 0 .. line :
        /\ Wired(a, p, isa)
        /\ VectorBits(redir[a][p]) = ByteBits(32 + isa)
        /\ redir[a][p] \cap 32 .. 63 = boot \cap 32 .. 63

-----------------------------------------------------------------------------
(* What the code says and does not do.                                     *)

\* "Returns the index, if it exists, of the io apic that handles the specified
\* interrupt vector" (get_interrupt_ioapic): the pins of the I/O APIC it returns
\* for the line apic_init is at include the one of that line.
SelectsOwner ==
  pc = "get" =>
    LET a == get_interrupt_ioapic(get_interrupt_source(line))
    IN  \E p \in DOMAIN redir[a] : Wired(a, p, line)

=============================================================================
