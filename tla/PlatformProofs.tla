--------------------------- MODULE PlatformProofs ---------------------------
(***************************************************************************)
(* Proofs about what the kernel does with the platform that the firmware   *)
(* describes.  IoApic is proved for every description in which the two ISA *)
(* lines are on the first I/O APIC, and every entry that firmware leaves   *)
(* masked and without a vector: apic_init routes the timer and the         *)
(* keyboard and leaves every other pin alone.  AcpiPower is proved for     *)
(* every number of polls and every platform.  Both hold of kernel_main,    *)
(* whose steps are steps of the two.                                       *)
(***************************************************************************)
EXTENDS Platform, TLAPS

-----------------------------------------------------------------------------
(* The I/O APIC half of apic_init.                                         *)

\* The first listed I/O APIC starts at interrupt 0, the others above the two
\* lines, whose interrupts differ.
IsaOnFirst ==
  /\ Len(info.io_apics) \in Nat \ {0} /\ info.io_apics[1].base = 0
  /\ \A isa \in {0, 1} : GsiOf(isa) \in 0 .. 255
  /\ GsiOf(0) # GsiOf(1)
  /\ \A a \in IoApics : /\ info.io_apics[a].entries \in Nat
                        /\ info.io_apics[a].base \in 0 .. 255
                        /\ a # 1 => \A isa \in {0, 1} : GsiOf(isa) < info.io_apics[a].base

\* An entry as after reset, but for destination, trigger and polarity.
ResetEntry == MASKED \in boot /\ boot \subseteq 0 .. 63 /\ boot \cap 0 .. 7 = {}

\* What apic_init writes for a line.
Routed(isa) == (boot \ {MASKED}) \cup ByteBits(32 + isa)

\* The line has its entry: the lower half, which is written first, is all of it.
IsRouted(isa) == isa < line \/ pc = "done" \/ (isa = line /\ pc = "high")

Pin(a, p) ==
  IF a = 1 /\ \E isa \in {0, 1} : p = GsiOf(isa) /\ IsRouted(isa)
  THEN Routed(IF p = GsiOf(0) THEN 0 ELSE 1)
  ELSE boot

Pins(a) == 0 .. info.io_apics[a].entries - 1

IInv ==
  /\ IsaOnFirst
  /\ ResetEntry
  /\ line \in {0, 1} /\ pc \in {"map", "get", "low", "high", "done", "panic"}
  /\ pc = "map" => line = 0
  /\ pc = "done" => line = 1
  /\ pc \in {"low", "high"} =>
       \A isa \in {0, 1} : isa = line => entry = Routed(isa) /\ GsiOf(isa) \in Pins(1)
  /\ \A isa \in {0, 1} : IsRouted(isa) => GsiOf(isa) \in Pins(1)
  /\ redir = [a \in IoApics |-> [p \in Pins(a) |-> Pin(a, p)]]

-----------------------------------------------------------------------------
(* The entries.                                                            *)

\* A byte has eight bits.
LEMMA ByteFacts == \A n : ByteBits(n) \subseteq 0 .. 7
BY Zenon DEF ByteBits

\* set_vector and set_masked(false) on an entry as after reset.
LEMMA ConfigureFacts ==
  ASSUME ResetEntry
  PROVE  Configure(boot) = Routed(line)
<1>1. MASKED \notin ByteBits(32 + line)
  BY ByteFacts DEF MASKED
<1> QED
  BY <1>1 DEF ResetEntry, Configure, SetMasked, SetVector, Routed

\* The two writes of set_redir_entry.
LEMMA HalfFacts ==
  ASSUME ResetEntry, NEW isa \in {0, 1}
  PROVE  /\ (boot \ (0 .. 31)) \cup (Routed(isa) \cap 0 .. 31) = Routed(isa)
         /\ (Routed(isa) \ (32 .. 63)) \cup (Routed(isa) \cap 32 .. 63) = Routed(isa)
<1>1. ByteBits(32 + isa) \subseteq 0 .. 31 /\ MASKED \in 0 .. 31
  BY ByteFacts DEF MASKED
<1> QED
  BY <1>1 DEF Routed

\* What NoStrayPin and RoutedWhenDone ask of the entry of a line.
LEMMA RoutedFacts ==
  ASSUME ResetEntry, NEW isa \in {0, 1}
  PROVE  /\ VectorBits(Routed(isa)) = ByteBits(32 + isa)
         /\ Routed(isa) \cap 32 .. 63 = boot \cap 32 .. 63
<1>1. ByteBits(32 + isa) \subseteq 0 .. 7 /\ boot \cap 0 .. 7 = {}
  BY ByteFacts DEF ResetEntry
<1>2. VectorBits(Routed(isa)) = ByteBits(32 + isa)
  BY <1>1 DEF Routed, VectorBits
<1>3. \A b \in 32 .. 63 : b \notin 0 .. 7 /\ b # MASKED
  BY DEF MASKED
<1> QED
  BY <1>1, <1>2, <1>3, Zenon DEF Routed

-----------------------------------------------------------------------------
(* The choice of the I/O APIC.                                             *)

\* With both lines on the first I/O APIC, get_interrupt_source and
\* get_interrupt_ioapic find the line there.
LEMMA SelectFacts ==
  ASSUME IsaOnFirst, NEW isa \in {0, 1}
  PROVE  /\ get_interrupt_source(isa) = GsiOf(isa)
         /\ get_interrupt_ioapic(GsiOf(isa)) = 1
         /\ 1 \in IoApics
<1> DEFINE g == GsiOf(isa)
<1>1. g \in 0 .. 255
  BY ZenonT(30) DEF IsaOnFirst
<1> HIDE DEF g
<1>2. g % 256 = g
  BY <1>1
<1>3. 1 \in IoApics
  <2>1. Len(info.io_apics) \in Nat \ {0}
    BY ZenonT(30) DEF IsaOnFirst
  <2> QED
    BY <2>1 DEF IoApics
<1>4. ASSUME NEW a \in IoApics, Base(a) <= g, Base(a) > Base(1)
      PROVE  FALSE
  <2> DEFINE b == info.io_apics[a].base
  <2>1. b \in 0 .. 255
    BY <1>4, ZenonT(30) DEF IsaOnFirst
  <2>2. a # 1 => g < b
    BY <1>4, ZenonT(30) DEF IsaOnFirst, g
  <2>3. info.io_apics[1].base = 0
    BY ZenonT(30) DEF IsaOnFirst
  <2>4. Base(1) = 0
    BY <2>3 DEF Base
  <2>5. Base(a) = b % 256
    BY Zenon DEF Base
  <2> HIDE DEF b
  <2>6. b % 256 = b
    BY <2>1
  <2>7. a # 1
    BY <1>4, <2>4, <2>5, <2>6, SMTT(20)
  <2> QED
    BY <1>1, <1>4, <2>1, <2>2, <2>5, <2>6, <2>7, SMTT(20)
<1>5. {a \in IoApics : Base(a) <= g /\ Base(a) > Base(1)} = {}
  BY <1>4, Zenon
<1>6. get_interrupt_ioapic(g) = 1
  BY <1>5, Zenon DEF get_interrupt_ioapic
<1> QED
  BY <1>2, <1>3, <1>6 DEF g, get_interrupt_source

-----------------------------------------------------------------------------
(* The steps.                                                              *)

\* The description and the boot entry never change.
LEMMA Fixed ==
  ASSUME IInv, UNCHANGED <<info, boot>>
  PROVE  /\ IsaOnFirst' /\ ResetEntry'
         /\ \A isa \in {0, 1} : GsiOf(isa)' = GsiOf(isa) /\ Routed(isa)' = Routed(isa)
         /\ IoApics' = IoApics /\ \A a : Pins(a)' = Pins(a)
<1>1. info' = info /\ boot' = boot /\ IsaOnFirst /\ ResetEntry
  BY DEF IInv
<1>2. ASSUME NEW isa PROVE GsiOf(isa)' = GsiOf(isa)
  BY <1>1 DEF GsiOf
<1>3. IoApics' = IoApics /\ \A a : Pins(a)' = Pins(a)
  BY <1>1 DEF IoApics, Pins
<1>4. \A isa \in {0, 1} : GsiOf(isa)' = GsiOf(isa) /\ Routed(isa)' = Routed(isa)
  BY <1>1, <1>2, ZenonT(30) DEF Routed
<1>5. IsaOnFirst'
  <2>1. /\ Len(info.io_apics)' \in Nat \ {0}
        /\ info.io_apics[1].base' = 0
    BY <1>1, ZenonT(30) DEF IsaOnFirst
  <2>2. /\ \A isa \in {0, 1} : GsiOf(isa)' \in 0 .. 255
        /\ GsiOf(0)' # GsiOf(1)'
    <3>1. GsiOf(0)' = GsiOf(0) /\ GsiOf(1)' = GsiOf(1)
      BY <1>2
    <3> QED
      BY <1>1, <1>2, <3>1, ZenonT(30) DEF IsaOnFirst
  <2>3. \A a \in IoApics' : /\ info.io_apics[a].entries' \in Nat
                            /\ info.io_apics[a].base' \in 0 .. 255
    BY <1>1, <1>3, ZenonT(30) DEF IsaOnFirst
  <2>4. ASSUME NEW a \in IoApics', a # 1, NEW isa \in {0, 1}
        PROVE  GsiOf(isa)' < info.io_apics[a].base'
    <3>1. a \in IoApics /\ GsiOf(isa)' = GsiOf(isa)
      BY <1>2, <1>3, <2>4
    <3>2. GsiOf(isa) < info.io_apics[a].base
      BY <1>1, <2>4, <3>1, ZenonT(30) DEF IsaOnFirst
    <3> QED
      BY <1>1, <3>1, <3>2, Zenon
  <2> QED
    BY <2>1, <2>2, <2>3, <2>4, ZenonT(30) DEF IsaOnFirst
<1> QED
  BY <1>1, <1>3, <1>4, <1>5, Zenon DEF ResetEntry

\* A step that routes no line.
LEMMA SamePins ==
  ASSUME IInv, UNCHANGED <<info, boot, redir>>,
         \A isa \in {0, 1} : IsRouted(isa)' <=> IsRouted(isa)
  PROVE  /\ \A isa \in {0, 1} : IsRouted(isa)' => GsiOf(isa)' \in Pins(1)'
         /\ redir' = [a \in IoApics' |-> [p \in Pins(a)' |-> Pin(a, p)']]
<1>1. /\ \A isa \in {0, 1} : GsiOf(isa)' = GsiOf(isa) /\ Routed(isa)' = Routed(isa)
      /\ IoApics' = IoApics /\ \A a : Pins(a)' = Pins(a)
  BY Fixed, Zenon
<1>2. \A a, p : Pin(a, p)' = Pin(a, p)
  BY <1>1, Zenon DEF Pin
<1> QED
  BY <1>1, <1>2, Zenon DEF IInv

\* Mapping a device and reading an entry keep the invariant.
LEMMA GetInv ==
  ASSUME IInv, MapDevice \/ GetEntry
  PROVE  IInv'
<1>1. /\ UNCHANGED <<info, boot, redir>> /\ line' = line /\ line \in {0, 1}
      /\ pc \in {"map", "get"} /\ pc' \in {"map", "get", "low", "panic"}
      /\ pc' = "map" => line = 0
  BY DEF IInv, MapDevice, GetEntry
<1>2. \A isa \in {0, 1} : IsRouted(isa)' <=> IsRouted(isa)
  BY <1>1 DEF IsRouted
<1>3. /\ \A isa \in {0, 1} : IsRouted(isa)' => GsiOf(isa)' \in Pins(1)'
      /\ redir' = [a \in IoApics' |-> [p \in Pins(a)' |-> Pin(a, p)']]
  BY <1>1, <1>2, SamePins
<1>4. /\ IsaOnFirst' /\ ResetEntry' /\ Pins(1)' = Pins(1)
      /\ \A isa \in {0, 1} : Routed(isa)' = Routed(isa) /\ GsiOf(isa)' = GsiOf(isa)
  BY <1>1, Fixed, Zenon
<1>5. pc' = "low" => entry' = Routed(line) /\ GsiOf(line) \in Pins(1)
  <2> SUFFICES ASSUME pc' = "low" PROVE entry' = Routed(line) /\ GsiOf(line) \in Pins(1)
    OBVIOUS
  <2> DEFINE g == GsiOf(line)
  <2>1. /\ get_interrupt_source(line) = g /\ get_interrupt_ioapic(g) = 1 /\ 1 \in IoApics
    BY <1>1, SelectFacts DEF IInv
  <2>2. pc = "get" /\ ~ OutOfBounds(1, g) /\ entry' = Configure(redir[1][g])
    BY <2>1 DEF MapDevice, GetEntry
  <2>3. g \in 0 .. 255 /\ info.io_apics[1].entries \in Nat
    BY <1>1, <2>1, ZenonT(30) DEF IInv, IsaOnFirst
  <2>4. g \in Pins(1)
    BY <2>2, <2>3 DEF OutOfBounds, redir_entry_count, Pins
  <2>5. redir[1][g] = Pin(1, g)
    BY <2>1, <2>4 DEF IInv
  <2>6. \A isa \in {0, 1} : GsiOf(isa) = g => isa = line
    BY <1>1 DEF IInv, IsaOnFirst
  <2>7. ~ IsRouted(line)
    BY <1>1, <2>2 DEF IsRouted
  <2>8. Pin(1, g) = boot
    BY <2>6, <2>7, Zenon DEF Pin
  <2> QED
    BY <2>2, <2>4, <2>5, <2>8, ConfigureFacts DEF IInv
<1> QED
  BY <1>1, <1>3, <1>4, <1>5 DEF IInv

\* Either half of set_redir_entry leaves the line routed.
LEMMA HalfInv ==
  ASSUME IInv, SetEntryLow \/ SetEntryHigh
  PROVE  IInv'
<1> DEFINE g == GsiOf(line)
<1>1. /\ info' = info /\ boot' = boot /\ entry' = entry /\ line \in {0, 1}
      /\ entry = Routed(line) /\ g \in Pins(1) /\ IsaOnFirst /\ ResetEntry
      /\ \/ pc = "low" /\ pc' = "high" /\ line' = line
         \/ pc = "high" /\ line = 0 /\ line' = 1 /\ pc' = "get"
         \/ pc = "high" /\ line = 1 /\ line' = 1 /\ pc' = "done"
  BY DEF IInv, SetEntryLow, SetEntryHigh
<1>2. /\ IsaOnFirst' /\ ResetEntry'
      /\ \A isa \in {0, 1} : GsiOf(isa)' = GsiOf(isa) /\ Routed(isa)' = Routed(isa)
      /\ IoApics' = IoApics /\ \A a : Pins(a)' = Pins(a)
  BY <1>1, Fixed
<1>3. \A isa \in {0, 1} : IsRouted(isa)' <=> (IsRouted(isa) \/ isa = line)
  BY <1>1 DEF IsRouted
<1>4. /\ get_interrupt_source(line) = g /\ get_interrupt_ioapic(g) = 1 /\ 1 \in IoApics
  BY <1>1, SelectFacts, SMTT(20)
<1>5. \A isa \in {0, 1} : GsiOf(isa) = g <=> isa = line
  BY <1>1 DEF IsaOnFirst
<1>6. redir = [a \in IoApics |-> [p \in Pins(a) |-> Pin(a, p)]]
  BY DEF IInv
<1>7. redir' = [redir EXCEPT ![1][g] = Routed(line)]
  <2>1. CASE SetEntryLow
    <3>1. redir' = [redir EXCEPT ![1][g] = (@ \ (0 .. 31)) \cup (entry \cap 0 .. 31)]
      BY <1>4, <2>1 DEF SetEntryLow, SetHalf
    <3>2. ~ IsRouted(line)
      BY <1>1, <2>1 DEF SetEntryLow, IsRouted
    <3>3. redir[1][g] = boot
      BY <1>1, <1>4, <1>5, <1>6, <3>2 DEF Pin
    <3> QED
      BY <1>1, <3>1, <3>3, HalfFacts, Zenon
  <2>2. CASE SetEntryHigh
    <3>1. redir' = [redir EXCEPT ![1][g] = (@ \ (32 .. 63)) \cup (entry \cap 32 .. 63)]
      BY <1>4, <2>2 DEF SetEntryHigh, SetHalf
    <3>2. IsRouted(line)
      BY <1>1, <2>2 DEF SetEntryHigh, IsRouted
    <3>3. redir[1][g] = Routed(line)
      BY <1>1, <1>4, <1>5, <1>6, <3>2 DEF Pin
    <3> QED
      BY <1>1, <3>1, <3>3, HalfFacts, ZenonT(30)
  <2> QED
    BY <2>1, <2>2
<1>8. ASSUME NEW a \in IoApics, NEW p \in Pins(a)
      PROVE  Pin(a, p)' = IF a = 1 /\ p = g THEN Routed(line) ELSE Pin(a, p)
  <2>1. CASE a = 1 /\ p = g
    BY <1>1, <1>2, <1>3, <1>5, <2>1 DEF Pin
  <2>2. CASE a # 1
    BY <1>1, <2>2 DEF Pin
  <2>3. CASE a = 1 /\ p # g
    <3>1. \A isa \in {0, 1} : p = GsiOf(isa) => (IsRouted(isa)' <=> IsRouted(isa))
      BY <1>3, <1>5, <2>3, Zenon
    <3> QED
      BY <1>1, <1>2, <2>3, <3>1, Zenon DEF Pin
  <2> QED
    BY <2>1, <2>2, <2>3
<1>9. redir' = [a \in IoApics' |-> [p \in Pins(a)' |-> Pin(a, p)']]
  <2> DEFINE new == [a \in IoApics |-> [p \in Pins(a) |-> IF a = 1 /\ p = g THEN Routed(line)
                                                         ELSE Pin(a, p)]]
  <2>1. redir' = new
    BY <1>1, <1>4, <1>6, <1>7
  <2> QED
    BY <1>2, <1>8, <2>1
<1>10. \A isa \in {0, 1} : IsRouted(isa)' => GsiOf(isa)' \in Pins(1)'
  BY <1>1, <1>2, <1>3 DEF IInv
<1>11. pc' \in {"low", "high"} =>
         \A isa \in {0, 1} : isa = line' => entry' = Routed(isa)' /\ GsiOf(isa)' \in Pins(1)'
  BY <1>1, <1>2
<1> QED
  BY <1>1, <1>2, <1>9, <1>10, <1>11 DEF IInv

\* The invariant of apic_init holds when it starts.
LEMMA InitInv ==
  ASSUME Init, IsaOnFirst, ResetEntry
  PROVE  IInv
<1>1. /\ line = 0 /\ pc = "map"
      /\ redir = [a \in IoApics |-> [p \in 0 .. info.io_apics[a].entries - 1 |-> boot]]
  BY DEF Init
<1>2. \A isa \in {0, 1} : ~ IsRouted(isa)
  BY <1>1 DEF IsRouted
<1>3. \A a, p : Pin(a, p) = boot
  BY <1>2, Zenon DEF Pin
<1>4. redir = [a \in IoApics |-> [p \in Pins(a) |-> Pin(a, p)]]
  BY <1>1, <1>3, Zenon DEF Pins
<1> QED
  BY <1>1, <1>2, <1>4, Zenon DEF IInv

\* Every step of apic_init keeps its invariant.
LEMMA NextInv ==
  ASSUME IInv, [Next]_vars
  PROVE  IInv'
<1>1. CASE MapDevice \/ GetEntry
  BY <1>1, GetInv
<1>2. CASE SetEntryLow \/ SetEntryHigh
  BY <1>2, HalfInv
<1>3. CASE UNCHANGED vars
  <2>1. UNCHANGED <<info, boot, redir>> /\ entry' = entry /\ line' = line /\ pc' = pc
    BY <1>3 DEF vars
  <2>2. \A isa \in {0, 1} : IsRouted(isa)' <=> IsRouted(isa)
    BY <2>1, Zenon DEF IsRouted
  <2> QED
    BY <2>1, <2>2, Fixed, SamePins DEF IInv
<1> QED
  BY <1>1, <1>2, <1>3 DEF Next, Stopped

-----------------------------------------------------------------------------
(* The theorems.                                                           *)

\* The invariant of apic_init holds in every state.
LEMMA Inductive == Spec /\ IsaOnFirst /\ ResetEntry => []IInv
<1>1. Init /\ IsaOnFirst /\ ResetEntry => IInv
  BY InitInv
<1>2. IInv /\ [Next]_vars => IInv'
  BY NextInv
<1> QED
  BY <1>1, <1>2, PTL DEF Spec

\* When apic_init returns, the timer and the keyboard are routed through their
\* overrides, for every number of I/O APICs and pins, if both lines are on the
\* first I/O APIC and their entries are as after reset.
THEOREM LinesRouted == Spec /\ IsaOnFirst /\ ResetEntry => []RoutedWhenDone
<1>1. IInv => RoutedWhenDone
  <2> SUFFICES ASSUME IInv, pc = "done", NEW isa \in {0, 1}
               PROVE  \E a \in IoApics : \E p \in DOMAIN redir[a] :
                        Wired(a, p, isa) /\ redir[a][p] = Routed(isa)
    BY DEF RoutedWhenDone, Routed
  <2> DEFINE g == GsiOf(isa)
  <2>1. 1 \in IoApics /\ g \in 0 .. 255 /\ info.io_apics[1].base = 0 /\ g \in Pins(1)
    BY SelectFacts, ZenonT(30) DEF IInv, IsaOnFirst, IsRouted
  <2>2. Wired(1, g, isa)
    BY <2>1 DEF Wired
  <2>3. Pin(1, g) = Routed(isa)
    BY DEF IInv, IsaOnFirst, Pin, IsRouted
  <2>4. g \in DOMAIN redir[1] /\ redir[1][g] = Routed(isa)
    BY <2>1, <2>3 DEF IInv
  <2> QED
    BY <2>1, <2>2, <2>4
<1> QED
  BY <1>1, Inductive, PTL

\* At every moment of apic_init, between the writes of the two halves of an entry
\* too, a pin is as the firmware left it or delivers the vector of its line.
THEOREM PinsSafe == Spec /\ IsaOnFirst /\ ResetEntry => []NoStrayPin
<1>1. IInv => NoStrayPin
  <2> SUFFICES ASSUME IInv, NEW a \in IoApics, NEW p \in DOMAIN redir[a], redir[a][p] # boot
               PROVE  \E isa \in 0 .. line :
                        /\ Wired(a, p, isa)
                        /\ VectorBits(redir[a][p]) = ByteBits(32 + isa)
                        /\ redir[a][p] \cap 32 .. 63 = boot \cap 32 .. 63
    BY DEF NoStrayPin
  <2>1. p \in Pins(a) /\ redir[a][p] = Pin(a, p)
    BY DEF IInv
  <2>2. PICK isa \in {0, 1} : a = 1 /\ p = GsiOf(isa) /\ IsRouted(isa)
    BY <2>1, SMTT(20) DEF Pin
  <2>3. redir[a][p] = Routed(isa)
    BY <2>1, <2>2 DEF Pin, IInv, IsaOnFirst
  <2>4. isa \in 0 .. line
    BY <2>2 DEF IsRouted, IInv
  <2>5. Wired(a, p, isa)
    <3>1. GsiOf(isa) \in 0 .. 255 /\ info.io_apics[1].base = 0
      BY ZenonT(30) DEF IInv, IsaOnFirst
    <3> QED
      BY <2>2, <3>1 DEF Wired
  <2>6. /\ VectorBits(Routed(isa)) = ByteBits(32 + isa)
        /\ Routed(isa) \cap 32 .. 63 = boot \cap 32 .. 63
    BY RoutedFacts DEF IInv
  <2> QED
    BY <2>3, <2>4, <2>5, <2>6, Zenon
<1> QED
  BY <1>1, Inductive, PTL

-----------------------------------------------------------------------------
(* Acpi::enable and Acpi::set_sleep_state.                                 *)

Polling == {"poll_a", "poll_b", "sleep"}

\* Nothing is written to the control blocks before enable returns true.
NotSlept ==
  stage \in Polling \cup {"enable", "panic_enable", "enabled", "panic_shutdown"} => slept = {}

\* Only a platform with an SMI command is polled, and all polls are used up
\* when enable gives up.
AskedOK ==
  /\ asked => platform.smi
  /\ stage = "enable" => ~ asked
  /\ stage \in Polling => platform.smi
  /\ stage = "panic_enable" /\ platform.smi => polls = POLLS
  /\ stage \in {"poll_b", "sleep"} => polls < POLLS

\* The first half of the condition still holds when the second is evaluated.
FirstHalf == stage = "poll_b" => "a" \in sci

\* The second block is read and written only where there is one.
SecondBlock == stage \in {"poll_b", "write_b"} => "b" \in Blocks

\* As long as enable runs, a platform that is ready has become so after the last
\* poll that found it not ready.
Freshness ==
  /\ stage \in Polling \cup {"enable", "panic_enable"} /\ sci # Blocks => answered = POLLS + 1
  /\ stage = "sleep" => answered >= polls
  /\ stage = "poll_a" => answered >= polls - 1
  /\ stage = "enable" => answered = POLLS + 1

PowerInv ==
  /\ PowerTypeOK
  /\ NotSlept
  /\ AskedOK
  /\ FirstHalf
  /\ SecondBlock
  /\ Freshness
  /\ EnabledMeansBoth
  /\ TimeoutMeansLate

-----------------------------------------------------------------------------

\* Every platform has a first block, and a second exactly with PM1b.
LEMMA PlatformFacts ==
  ASSUME platform \in Platforms
  PROVE  /\ platform.smi \in BOOLEAN /\ platform.pm1b \in BOOLEAN /\ platform.s5 \in Int
         /\ Blocks \subseteq {"a", "b"} /\ "a" \in Blocks
         /\ platform.pm1b <=> "b" \in Blocks
<1>1. platform.smi \in BOOLEAN /\ platform.pm1b \in BOOLEAN /\ platform.s5 \in Int
  BY PowerAssumption
<1> QED
  BY <1>1 DEF Blocks

\* get_sleep_state cuts each type to three bits.
LEMMA SleepTypeFacts ==
  ASSUME platform \in Platforms, NEW b \in {"a", "b"}
  PROVE  SleepTypes[b] \in 0 .. 7
<1>1. platform.s5 \in Int
  BY PlatformFacts
<1>2. \A n \in Int : n % 8 \in 0 .. 7
  OBVIOUS
<1>3. platform.s5 \div 256 \in Int
  BY <1>1
<1>4. SleepTypes.a \in 0 .. 7 /\ SleepTypes.b \in 0 .. 7
  <2> DEFINE q == platform.s5 \div 256
  <2>1. SleepTypes.a = platform.s5 % 8 /\ SleepTypes.b = q % 8
    BY DEF SleepTypes
  <2> HIDE DEF q
  <2> QED
    BY <1>1, <1>2, <1>3, <2>1 DEF q
<1> QED
  BY <1>4

\* The invariant of AcpiPower holds before enable.
LEMMA PowerInitInv == PowerInit => PowerInv
<1> SUFFICES ASSUME PowerInit PROVE PowerInv
  OBVIOUS
<1>1. /\ POLLS \in Nat \ {0} /\ platform \in Platforms
      /\ stage = "enable" /\ polls = 0 /\ sci = {} /\ slept = {} /\ power = "on"
      /\ answered = POLLS + 1
  BY PowerAssumption DEF PowerInit
<1>2. asked = FALSE /\ asked \in BOOLEAN
  BY Zenon DEF PowerInit
<1>3. PowerTypeOK
  BY <1>1, <1>2 DEF PowerTypeOK
<1>4. NotSlept /\ FirstHalf /\ SecondBlock /\ Freshness /\ EnabledMeansBoth /\ TimeoutMeansLate
  BY <1>1 DEF NotSlept, FirstHalf, SecondBlock, Freshness, EnabledMeansBoth, TimeoutMeansLate
<1>5. AskedOK
  BY <1>1, <1>2 DEF AskedOK, Polling
<1> QED
  BY <1>3, <1>4, <1>5 DEF PowerInv

\* The write of the SMI command keeps the invariant.
LEMMA EnableInv ==
  ASSUME PowerInv, Enable
  PROVE  PowerInv'
<1>1. /\ POLLS \in Nat \ {0} /\ platform' = platform /\ Blocks' = Blocks
      /\ stage = "enable" /\ polls' = polls /\ sci' = sci /\ slept' = slept /\ power' = power
      /\ answered' = answered
  BY PowerAssumption DEF Enable, Blocks
<1>2. /\ stage' = IF platform.smi THEN "poll_a" ELSE "panic_enable"
      /\ asked' \in BOOLEAN /\ (asked' => platform.smi)
  BY Zenon DEF Enable, PowerInv, PowerTypeOK, AskedOK
<1>3. /\ stage' \in {"poll_a", "panic_enable"}
      /\ stage' = "poll_a" => platform.smi
      /\ stage' = "panic_enable" => ~ platform.smi
  BY <1>2
<1>4. PowerTypeOK'
  BY <1>1, <1>2, <1>3 DEF PowerInv, PowerTypeOK
<1>5. NotSlept' /\ FirstHalf' /\ SecondBlock' /\ EnabledMeansBoth' /\ TimeoutMeansLate'
  BY <1>1, <1>3
     DEF PowerInv, NotSlept, FirstHalf, SecondBlock, EnabledMeansBoth, TimeoutMeansLate, Polling
<1>6. Freshness'
  BY <1>1, <1>3 DEF PowerInv, PowerTypeOK, Freshness, Polling
<1>7. AskedOK'
  BY <1>1, <1>2, <1>3 DEF AskedOK, Polling
<1> QED
  BY <1>4, <1>5, <1>6, <1>7 DEF PowerInv

\* Both halves of a poll keep the invariant.
LEMMA PollInv ==
  ASSUME PowerInv, PollA \/ PollB
  PROVE  PowerInv'
<1>1. /\ POLLS \in Nat \ {0} /\ platform' = platform /\ Blocks' = Blocks
      /\ platform \in Platforms /\ polls \in 0 .. POLLS /\ sci \subseteq Blocks
  BY PowerAssumption DEF PollA, PollB, Blocks, PowerInv, PowerTypeOK
<1>2. /\ Blocks \subseteq {"a", "b"} /\ "a" \in Blocks /\ (platform.pm1b <=> "b" \in Blocks)
  BY <1>1, PlatformFacts
<1>3. CASE PollA
  <2> USE DEF PollA
  <2>1. PowerTypeOK' /\ NotSlept' /\ AskedOK' /\ FirstHalf' /\ SecondBlock'
    BY <1>1, <1>2, <1>3 DEF PowerInv, PowerTypeOK, NotSlept, AskedOK, FirstHalf, SecondBlock,
                            Polling
  <2>2. EnabledMeansBoth'
    BY <1>1, <1>2, <1>3, Zenon DEF PowerInv, EnabledMeansBoth
  <2>3. Freshness' /\ TimeoutMeansLate'
    BY <1>1, <1>2, <1>3 DEF PowerInv, PowerTypeOK, Freshness, TimeoutMeansLate, Polling
  <2> QED
    BY <2>1, <2>2, <2>3 DEF PowerInv
<1>4. CASE PollB
  <2> USE DEF PollB
  <2>1. PowerTypeOK' /\ NotSlept' /\ AskedOK' /\ FirstHalf' /\ SecondBlock'
    BY <1>1, <1>4 DEF PowerInv, PowerTypeOK, NotSlept, AskedOK, FirstHalf, SecondBlock, Polling
  <2>2. EnabledMeansBoth'
    BY <1>1, <1>2, <1>4, Zenon DEF PowerInv, EnabledMeansBoth, FirstHalf
  <2>3. Freshness' /\ TimeoutMeansLate'
    BY <1>1, <1>2, <1>4 DEF PowerInv, PowerTypeOK, SecondBlock, AskedOK, Freshness,
                            TimeoutMeansLate, Polling
  <2> QED
    BY <2>1, <2>2, <2>3 DEF PowerInv
<1> QED
  BY <1>3, <1>4

\* The end of a sleep keeps the invariant.
LEMMA SleepInv ==
  ASSUME PowerInv, Sleep
  PROVE  PowerInv'
<1>1. POLLS \in Nat \ {0} /\ platform' = platform /\ Blocks' = Blocks
  BY PowerAssumption DEF Sleep, Blocks
<1> QED
  BY <1>1 DEF Sleep, PowerInv, PowerTypeOK, NotSlept, AskedOK, FirstHalf, SecondBlock, Freshness,
              EnabledMeansBoth, TimeoutMeansLate, Polling

\* get_sleep_state and unreachable!() keep the invariant.
LEMMA ShutdownInv ==
  ASSUME PowerInv, GetSleepState \/ Unreachable
  PROVE  PowerInv'
<1>1. POLLS \in Nat \ {0} /\ platform' = platform /\ Blocks' = Blocks
  BY PowerAssumption DEF GetSleepState, Unreachable, Blocks
<1> QED
  BY <1>1 DEF GetSleepState, Unreachable, PowerInv, PowerTypeOK, NotSlept, AskedOK, FirstHalf,
              SecondBlock, Freshness, EnabledMeansBoth, TimeoutMeansLate, Polling

\* The writes of set_sleep_state keep the invariant.
LEMMA WriteInv ==
  ASSUME PowerInv, WriteA \/ WriteB
  PROVE  PowerInv'
<1>1. /\ POLLS \in Nat \ {0} /\ platform' = platform /\ Blocks' = Blocks
      /\ platform \in Platforms /\ slept \subseteq Blocks \X (0 .. 7)
  BY PowerAssumption DEF WriteA, WriteB, Blocks, PowerInv, PowerTypeOK
<1>2. "a" \in Blocks /\ (platform.pm1b <=> "b" \in Blocks)
  BY <1>1, PlatformFacts
<1>3. SleepTypes["a"] \in 0 .. 7 /\ SleepTypes["b"] \in 0 .. 7
  BY <1>1, SleepTypeFacts
<1>4. ASSUME NEW b \in Blocks, WriteControl(b)
      PROVE slept' \subseteq Blocks \X (0 .. 7) /\ sci' \subseteq sci
  <2>1. SleepTypes[b] \in 0 .. 7
    BY <1>1, SleepTypeFacts, PlatformFacts
  <2> QED
    BY <1>1, <1>4, <2>1 DEF WriteControl
<1>5. slept' \subseteq Blocks \X (0 .. 7) /\ sci' \subseteq sci
  <2>1. CASE WriteA
    BY <1>2, <1>4, <2>1 DEF WriteA
  <2>2. CASE WriteB
    BY <1>4, <2>2 DEF WriteB, PowerInv, SecondBlock
  <2> QED
    BY <2>1, <2>2
<1>6. /\ stage' \in {"write_b", "unreachable"} /\ (stage' = "write_b" => "b" \in Blocks)
      /\ UNCHANGED <<platform, polls, asked, power, answered>>
  BY <1>2 DEF WriteA, WriteB
<1>7. PowerTypeOK'
  BY <1>1, <1>5, <1>6 DEF PowerInv, PowerTypeOK
<1> QED
  BY <1>1, <1>6, <1>7 DEF PowerInv, NotSlept, AskedOK, FirstHalf, SecondBlock, Freshness,
     EnabledMeansBoth, TimeoutMeansLate, Polling

\* An answer of the firmware keeps the invariant.
LEMMA SwitchInv ==
  ASSUME PowerInv, NEW b \in Blocks, SwitchBlock(b)
  PROVE  PowerInv'
<1>1. /\ POLLS \in Nat \ {0} /\ platform' = platform /\ Blocks' = Blocks
      /\ stage' = stage /\ polls' = polls /\ asked' = asked /\ slept' = slept /\ power' = power
      /\ asked /\ b \notin sci /\ sci' = sci \cup {b}
      /\ answered' = IF sci' = Blocks THEN polls ELSE answered
  BY PowerAssumption DEF SwitchBlock, Blocks
<1>2. sci # Blocks /\ sci \subseteq Blocks /\ polls \in 0 .. POLLS /\ answered \in 0 .. (POLLS + 1)
  BY <1>1 DEF PowerInv, PowerTypeOK
<1>3. PowerTypeOK' /\ NotSlept' /\ AskedOK' /\ FirstHalf' /\ SecondBlock'
  BY <1>1, <1>2 DEF PowerInv, PowerTypeOK, NotSlept, AskedOK, FirstHalf, SecondBlock
<1>4. EnabledMeansBoth'
  BY <1>1, <1>2 DEF PowerInv, EnabledMeansBoth
<1>5. Freshness' /\ TimeoutMeansLate'
  BY <1>1, <1>2 DEF PowerInv, Freshness, TimeoutMeansLate, AskedOK, Polling
<1> QED
  BY <1>3, <1>4, <1>5 DEF PowerInv

\* So do power off and a machine that has stopped.
LEMMA StutterInv ==
  ASSUME PowerInv, UNCHANGED <<platform, stage, polls, asked, sci, slept, answered>>,
         power' \in {"on", "off"}
  PROVE  PowerInv'
<1>1. Blocks' = Blocks
  BY DEF Blocks
<1> QED
  BY <1>1 DEF PowerInv, PowerTypeOK, NotSlept, AskedOK, FirstHalf, SecondBlock, Freshness,
     EnabledMeansBoth, TimeoutMeansLate

\* Every step of AcpiPower keeps its invariant.
LEMMA PowerNextInv == PowerInv /\ [PowerNext]_powerVars => PowerInv'
<1> SUFFICES ASSUME PowerInv, [PowerNext]_powerVars PROVE PowerInv'
  OBVIOUS
<1>1. CASE KernelStep
  BY <1>1, EnableInv, PollInv, SleepInv, ShutdownInv, WriteInv DEF KernelStep, EnableStep, ShutdownStep
<1>2. CASE \E b \in Blocks : SwitchBlock(b)
  BY <1>2, SwitchInv
<1>3. CASE PowerOff
  BY <1>3, StutterInv DEF PowerOff
<1>4. CASE UNCHANGED powerVars
  <2>1. power' \in {"on", "off"}
    BY <1>4 DEF powerVars, PowerInv, PowerTypeOK
  <2> QED
    BY <1>4, <2>1, StutterInv DEF powerVars
<1> QED
  BY <1>1, <1>2, <1>3, <1>4 DEF PowerNext, PowerStopped

\* The invariant above holds throughout enable and the shutdown.
THEOREM PowerInductive == PowerSpec => []PowerInv
BY PowerInitInv, PowerNextInv, PTL DEF PowerSpec

\* For every platform and number of polls the state of enable and of the shutdown
\* keeps its type: the sleep types never reach beyond their three bits.
THEOREM PowerTypeCorrect == PowerSpec => []PowerTypeOK
<1>1. PowerInv => PowerTypeOK
  BY DEF PowerInv
<1> QED
  BY <1>1, PowerInductive, PTL

\* For every platform and number of polls, enable returns true only when every
\* control block is in ACPI mode, however the firmware's writes fall between the
\* two reads.
THEOREM BothEnabled == PowerSpec => []EnabledMeansBoth
<1>1. PowerInv => EnabledMeansBoth
  BY DEF PowerInv
<1> QED
  BY <1>1, PowerInductive, PTL

\* For every number of polls, an answer that comes before the last poll begins is
\* never missed.
THEOREM OnlyLateAnswersLost == PowerSpec => []TimeoutMeansLate
<1>1. PowerInv => TimeoutMeansLate
  BY DEF PowerInv
<1> QED
  BY <1>1, PowerInductive, PTL

-----------------------------------------------------------------------------
(* kernel_main                                                             *)

\* Every behaviour of kernel_main is one of apic_init and one of enable and the
\* shutdown, so that what is proved of each of them holds of the kernel.
THEOREM PartsCompose == PlatformSpec => Spec /\ PowerSpec
<1>1. PlatformInit => Init /\ PowerInit
  BY DEF PlatformInit
<1>2. ASSUME [PlatformNext]_platformVars
      PROVE  [Next]_vars /\ [PowerNext]_powerVars
  <2>1. CASE KernelMain
    <3>1. CASE EnableFirst
      BY <2>1, <3>1 DEF KernelMain, EnableFirst, PowerNext, KernelStep
    <3>2. CASE ThenApic
      BY <3>2 DEF ThenApic, ApicStep, Next
    <3>3. CASE ThenShutdown
      BY <2>1, <3>3 DEF KernelMain, ThenShutdown, PowerNext, KernelStep
    <3> QED
      BY <2>1, <3>1, <3>2, <3>3 DEF KernelMain
  <2>2. CASE Hardware
    BY <2>2 DEF Hardware, PowerNext
  <2>3. CASE UNCHANGED platformVars
    BY <2>3 DEF platformVars
  <2> QED
    BY <1>2, <2>1, <2>2, <2>3 DEF PlatformNext, PlatformHalted
<1> QED
  BY <1>1, <1>2, PTL DEF PlatformSpec, Spec, PowerSpec

=============================================================================
