----------------------------- MODULE PciConfig ------------------------------
(***************************************************************************)
(* PCI configuration space as src/src/pci.rs and the AML handler of        *)
(* src/src/acpi/handlers.rs reach it: a 32-bit register selected by an     *)
(* address word.  A register is four bytes, the least significant first.   *)
(* The write of the address port and the access to the data port are one   *)
(* step: only kernel_main uses the ports.                                  *)
(***************************************************************************)
EXTENDS Integers

CONSTANTS
  SPACE,      \* bytes of configuration space that the ports reach: 256
  Byte,       \* bytes that the interpreter writes, 0 and Ones among them
  Ones,       \* the byte 0xFF, which a function that does not exist answers
  Words,      \* the 32-bit values that the interpreter writes
  Asked,      \* functions, present or not, that the interpreter reaches
  AmlOffsets, \* bound: offsets at which it does
  Boot        \* the machines: each maps its function addresses to their bytes

Offset == 0 .. SPACE - 1
Lane == 0 .. 3

Address == [bus : 0 .. 255, device : 0 .. 31, function : 0 .. 7]

\* A function that exists has a vendor other than 0xFFFF.
ASSUME PciAssumption ==
  /\ SPACE \in Nat /\ SPACE >= 16 /\ SPACE % 4 = 0
  /\ Byte \subseteq Nat /\ {0, Ones} \subseteq Byte
  /\ Words \subseteq [Lane -> Byte] /\ AmlOffsets \subseteq Offset /\ Asked \subseteq Address
  /\ \A m \in Boot : /\ DOMAIN m \subseteq Address
                      /\ m \in [DOMAIN m -> [Offset -> Nat]]
                      /\ \A f \in DOMAIN m : m[f][0] # Ones \/ m[f][1] # Ones

VARIABLES
  config,  \* the configuration spaces
  last     \* ghost: the last call of the AML interpreter and its result

vars == <<config, last>>

Present == DOMAIN config

-----------------------------------------------------------------------------
(* pci.rs                                                                  *)

ConfigAddressOverlap(f) == f.function * SPACE + f.device * SPACE * 4 + f.bus * SPACE * 256

\* From<PciAddress>: the shifts by 8, 11 and 16 count in units of SPACE.  The
\* enable bit is always set.
ConfigAddress(f) == f.function * SPACE + f.device * SPACE * 8 + f.bus * SPACE * 256

\* The host bridge: the function and the offset that an address word selects.
Selected(word) ==
  [f |-> [bus |-> (word \div (SPACE * 256)) % 256,
          device |-> (word \div (SPACE * 8)) % 32,
          function |-> (word \div SPACE) % 8],
   offset |-> word % SPACE]

Port(f, offset) == Selected(ConfigAddress(f) + (offset % SPACE))

\* pci::read, for an offset that passes its check.
Read(f, offset) ==
  LET port == Port(f, offset)
  IN  [i \in Lane |-> IF port.f \in Present THEN config[port.f][port.offset + i] ELSE Ones]

Aligned(offset) == offset % 4 = 0

\* The command register; the bytes that identify a function ignore writes.
Writable(offset) == offset \in 4 .. 7

\* pci::write
Write(f, offset, value) ==
  LET port == Port(f, offset)
  IN  config' = IF port.f \notin Present THEN config
                ELSE [config EXCEPT ![port.f] =
                        [o \in Offset |->
                           IF Writable(o) /\ o - port.offset \in Lane
                           THEN value[o - port.offset] ELSE @[o]]]

-----------------------------------------------------------------------------
(* The AML handler.                                                        *)

Register(offset) == offset - (offset % 4)

\* A value shifted left by some bytes, in an otherwise zero register.
Shifted(value, lane, size) ==
  [i \in Lane |-> IF i - lane \in 0 .. size - 1 THEN value[i - lane] ELSE 0]

Call(op, f, offset, value) ==
  last' = [op |-> op, f |-> f, offset |-> offset, value |-> value]

read_pci_u8(f, offset) ==
  /\ Call("read8", f, offset, [i \in {0} |-> Read(f, Register(offset))[offset % 4]])
  /\ UNCHANGED config

\* The shift is by (offset % 2) * 16 bits.
read_pci_u16(f, offset) ==
  /\ Call("read16", f, offset,
          [i \in {0, 1} |-> Read(f, Register(offset))[(offset % 2) * 2 + i]])
  /\ UNCHANGED config

\* pci::read and pci::write panic for an offset that is not aligned.
Panic == last' = [op |-> "panic"] /\ UNCHANGED config

read_pci_u32(f, offset) ==
  IF Aligned(offset) THEN Call("read32", f, offset, Read(f, offset)) /\ UNCHANGED config
  ELSE Panic

write_pci_u8(f, offset, value) ==
  /\ Write(f, Register(offset), Shifted(value, offset % 4, 1))
  /\ Call("write8", f, offset, value)

write_pci_u16(f, offset, value) ==
  /\ Write(f, Register(offset), Shifted(value, (offset % 2) * 2, 2))
  /\ Call("write16", f, offset, value)

write_pci_u32_low_half(f, offset, value) ==
  IF Aligned(offset) THEN Write(f, offset, Shifted(value, 0, 2)) /\ Call("write32", f, offset, value)
  ELSE Panic

write_pci_u32(f, offset, value) ==
  IF Aligned(offset) THEN Write(f, offset, value) /\ Call("write32", f, offset, value)
  ELSE Panic

\* Any access of the interpreter to a field in configuration space.
AmlCall ==
  \E f \in Asked, offset \in AmlOffsets :
    \/ read_pci_u8(f, offset)
    \/ read_pci_u16(f, offset)
    \/ read_pci_u32(f, offset)
    \/ \E value \in [{0} -> Byte] : write_pci_u8(f, offset, value)
    \/ \E value \in [{0, 1} -> Byte] : write_pci_u16(f, offset, value)
    \/ \E value \in Words : write_pci_u32(f, offset, value)

-----------------------------------------------------------------------------
(* Properties.                                                             *)

\* What a function that is asked for a byte really holds.
Held(f, offset) == IF f \in Present THEN config[f][offset] ELSE Ones

Exact == \A i \in DOMAIN last.value : last.value[i] = Held(last.f, last.offset + i)

\* A read gives what the function at that bus, device and function number holds
\* at that offset, and all ones when there is none: for every byte, for every
\* register and for the lower half of a register.
ReadsExact ==
  \/ last.op \notin {"read8", "read16", "read32"}
  \/ last.op = "read16" /\ ~ Aligned(last.offset)
  \/ Exact

\* A write reaches only the register that contains its offset, of the function
\* it names, and a write of a whole register leaves there what was written.
WritesAimed ==
  [][/\ \A f \in Present, o \in Offset :
          config'[f][o] # config[f][o] =>
            f = last'.f /\ Register(o) = Register(last'.offset)
     /\ (last'.op = "write32" /\ last'.f \in Present /\ Writable(last'.offset)) => Exact']_vars

=============================================================================
