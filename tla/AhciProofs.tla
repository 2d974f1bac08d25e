----------------------------- MODULE AhciProofs -----------------------------
(***************************************************************************)
(* Proofs about PciConfig, PciScan and Ahci: for every machine, size of    *)
(* configuration space, number of buses, frame size and controller.        *)
(***************************************************************************)
EXTENDS Ahci, FiniteSetTheorems, TLAPS

-----------------------------------------------------------------------------
(* The address word.                                                       *)

\* Quotient and remainder by a positive number.
LEMMA Division ==
  ASSUME NEW d \in Nat \ {0}, NEW x \in Nat
  PROVE  /\ x = d * (x \div d) + (x % d)
         /\ x % d \in 0 .. (d - 1)
         /\ x \div d \in Nat
OBVIOUS

\* Quotient and remainder are the only ones.
LEMMA Euclid ==
  ASSUME NEW d \in Nat \ {0}, NEW q \in Nat, NEW r \in 0 .. (d - 1), NEW x \in Nat,
         x = d * q + r
  PROVE  x \div d = q /\ x % d = r
<1> DEFINE p == x \div d
           s == x % d
<1>1. p \in Nat /\ s \in 0 .. (d - 1) /\ x = d * p + s
  BY Division, Zenon
<1> HIDE DEF p, s
<1>2. ~ (p >= q + 1)
  <2> SUFFICES ASSUME p >= q + 1 PROVE FALSE
    OBVIOUS
  <2>1. d * p >= d * (q + 1)
    BY <1>1
  <2> QED
    BY <1>1, <2>1
<1>3. ~ (q >= p + 1)
  <2> SUFFICES ASSUME q >= p + 1 PROVE FALSE
    OBVIOUS
  <2>1. d * q >= d * (p + 1)
    BY <1>1
  <2> QED
    BY <1>1, <2>1
<1>4. p = q
  BY <1>1, <1>2, <1>3
<1>5. s = r
  BY <1>1, <1>4
<1> QED
  BY <1>4, <1>5 DEF p, s

\* The host bridge selects the function and offset that the address word was
\* made from.
LEMMA PortExact ==
  ASSUME NEW f \in Address, NEW o \in Offset
  PROVE  Port(f, o).f = f /\ Port(f, o).offset = o
<1> DEFINE b == f.bus
           dv == f.device
           fn == f.function
<1>1. /\ b \in 0 .. 255 /\ dv \in 0 .. 31 /\ fn \in 0 .. 7
      /\ f = [bus |-> b, device |-> dv, function |-> fn]
  BY DEF Address
<1>2. SPACE \in Nat \ {0} /\ o \in Nat /\ o < SPACE
  BY PciAssumption DEF Offset
<1> DEFINE w == fn * SPACE + dv * SPACE * 8 + b * SPACE * 256 + (o % SPACE)
<1>3. Port(f, o) = Selected(w)
  BY DEF Port, ConfigAddress
<1> HIDE DEF b, dv, fn
<1>4. o % SPACE = o
  <2>1. o = SPACE * 0 + o /\ o \in 0 .. (SPACE - 1)
    BY <1>2
  <2> QED
    BY <1>2, <2>1, Euclid
<1> DEFINE n == fn + 8 * dv + 256 * b
           m == dv + 32 * b
           lo == fn + 8 * dv
<1>5. /\ n \in Nat /\ m \in Nat /\ lo \in 0 .. 255 /\ lo \in Nat
      /\ n = 8 * m + fn /\ m = 32 * b + dv
  BY <1>1
<1>6. /\ w \in Nat
      /\ w = SPACE * n + o
      /\ w = (SPACE * 8) * m + (SPACE * fn + o)
      /\ w = (SPACE * 256) * b + (SPACE * lo + o)
  BY <1>1, <1>2, <1>4
<1>7. /\ SPACE * 8 \in Nat \ {0} /\ SPACE * 256 \in Nat \ {0}
      /\ SPACE * fn + o \in 0 .. (SPACE * 8 - 1)
      /\ SPACE * lo + o \in 0 .. (SPACE * 256 - 1)
  <2>1. SPACE * fn \in Nat /\ SPACE * fn <= SPACE * 7
    BY <1>1, <1>2
  <2>2. SPACE * lo \in Nat /\ SPACE * lo <= SPACE * 255
    BY <1>2, <1>5
  <2> HIDE DEF lo
  <2> QED
    BY <1>2, <2>1, <2>2
<1> HIDE DEF w, n, m, lo
<1>8. w \div SPACE = n /\ w % SPACE = o
  <2>1. o \in 0 .. (SPACE - 1)
    BY <1>2
  <2> DEFINE d == SPACE
  <2>2. d \in Nat \ {0} /\ o \in 0 .. (d - 1) /\ n \in Nat /\ w \in Nat /\ w = d * n + o
    BY <1>2, <1>5, <1>6, <2>1
  <2> HIDE DEF d
  <2>3. w \div d = n /\ w % d = o
    BY <2>2, Euclid, Zenon
  <2> QED
    BY <2>3 DEF d
<1>9. w \div (SPACE * 8) = m
  <2> DEFINE d == SPACE * 8
             r == SPACE * fn + o
  <2>1. d \in Nat \ {0} /\ r \in 0 .. (d - 1) /\ m \in Nat /\ w \in Nat /\ w = d * m + r
    BY <1>5, <1>6, <1>7
  <2> HIDE DEF d, r
  <2>2. w \div d = m
    BY <2>1, Euclid, Zenon
  <2> QED
    BY <2>2 DEF d
<1>10. w \div (SPACE * 256) = b
  <2>1. b \in Nat
    BY <1>1
  <2> QED
    BY <1>2, <1>6, <1>7, <2>1, Euclid
<1>11. n % 8 = fn /\ m % 32 = dv /\ b % 256 = b
  <2>1. fn \in 0 .. (8 - 1) /\ dv \in 0 .. (32 - 1) /\ b \in 0 .. (256 - 1) /\ b \in Nat
        /\ b = 256 * 0 + b
    BY <1>1
  <2>2. n % 8 = fn
    BY <1>5, <2>1, Euclid
  <2>3. m % 32 = dv
    BY <1>5, <2>1, Euclid
  <2>4. b % 256 = b
    BY <2>1
  <2> QED
    BY <2>2, <2>3, <2>4
<1>12. Selected(w) = [f |-> [bus |-> b, device |-> dv, function |-> fn], offset |-> o]
  BY <1>8, <1>9, <1>10, <1>11 DEF Selected
<1> QED
  BY <1>1, <1>3, <1>12

-----------------------------------------------------------------------------
(* Configuration space.                                                    *)

\* The machine keeps its functions, and what identifies them.
ConfigOK ==
  /\ Present \subseteq Address
  /\ config \in [Present -> [Offset -> Nat]]
  /\ \A f \in Present : config[f][0] # Ones \/ config[f][1] # Ones
  /\ \A f \in Present : f.bus < BUSES

\* The offsets of a configuration space, and the bytes it holds.
LEMMA SpaceFacts ==
  /\ SPACE \in Nat /\ SPACE >= 16 /\ SPACE % 4 = 0
  /\ Byte \subseteq Nat /\ 0 \in Byte /\ Ones \in Byte
  /\ {0, 1, 8, 12} \subseteq Offset /\ Offset \subseteq Nat
BY PciAssumption DEF Offset

\* pci::read gives the bytes of the function.
LEMMA ReadFacts ==
  ASSUME NEW f \in Address, NEW o \in Offset
  PROVE  Read(f, o) = [i \in Lane |-> Held(f, o + i)]
BY PortExact, Zenon DEF Read, Held

\* The register that an offset is in.
LEMMA RegisterFacts ==
  ASSUME NEW o \in Offset
  PROVE  /\ Register(o) \in Offset
         /\ o % 4 \in Lane /\ o = Register(o) + (o % 4)
         /\ \A p \in Offset : p - Register(o) \in Lane => Register(p) = Register(o)
         /\ \A i \in Lane : Register(o) + i \in Offset
         /\ Aligned(o) => Register(o) = o /\ o % 2 = 0
<1>1. SPACE \in Nat /\ SPACE % 4 = 0 /\ o \in Nat /\ o < SPACE
  BY PciAssumption DEF Offset
<1>2. o % 4 \in Lane /\ o = Register(o) + (o % 4) /\ Register(o) \in Nat /\ Register(o) % 4 = 0
  BY <1>1 DEF Register, Lane
<1>3. \A p \in Offset : p - Register(o) \in Lane => Register(p) = Register(o)
  BY <1>1, <1>2 DEF Register, Lane, Offset
<1>4. \A i \in Lane : Register(o) + i \in Offset
  <2>1. PICK r \in Nat : r = Register(o)
    BY <1>2
  <2>2. r < SPACE /\ r % 4 = 0
    <3>1. Register(o) < SPACE
      BY <1>1 DEF Register
    <3>2. Register(o) % 4 = 0
      BY <1>2
    <3> QED
      BY <2>1, <3>1, <3>2
  <2>3. r + 3 < SPACE
    BY <1>1, <2>2
  <2> QED
    BY <1>1, <2>1, <2>3 DEF Lane, Offset
<1>5. Register(o) \in Offset
  BY <1>1, <1>2 DEF Lane, Offset
<1>6. Aligned(o) => Register(o) = o /\ o % 2 = 0
  BY <1>1 DEF Aligned, Register
<1> QED
  BY <1>2, <1>3, <1>4, <1>5, <1>6

\* pci::write changes writable bytes of one register of one function.
LEMMA WriteFacts ==
  ASSUME ConfigOK, NEW f \in Address, NEW o \in Offset, NEW value \in [Lane -> Nat],
         Write(f, o, value)
  PROVE  /\ DOMAIN config' = DOMAIN config
         /\ \A g \in Present, p \in Offset :
              config'[g][p] = IF g = f /\ Writable(p) /\ p - o \in Lane THEN value[p - o]
                              ELSE config[g][p]
         /\ ConfigOK'
<1> DEFINE bytes == [p \in Offset |-> IF Writable(p) /\ p - o \in Lane THEN value[p - o]
                                      ELSE config[f][p]]
<1>1. config' = IF f \notin Present THEN config ELSE [config EXCEPT ![f] = bytes]
  BY PortExact, Zenon DEF Write
<1>2. config \in [Present -> [Offset -> Nat]]
  BY DEF ConfigOK
<1>3. f \in Present => bytes \in [Offset -> Nat]
  BY <1>2
<1> HIDE DEF bytes
<1>4. config' \in [Present -> [Offset -> Nat]] /\ DOMAIN config' = DOMAIN config
  BY <1>1, <1>2, <1>3 DEF Present
<1>5. \A g \in Present : config'[g] = IF g = f THEN bytes ELSE config[g]
  BY <1>1, <1>2
<1>6. \A g \in Present, p \in Offset :
        config'[g][p] = IF g = f /\ Writable(p) /\ p - o \in Lane THEN value[p - o]
                        ELSE config[g][p]
  BY <1>5, Zenon DEF bytes
<1>7. \A g \in Present : config'[g][0] = config[g][0] /\ config'[g][1] = config[g][1]
  BY <1>6, SpaceFacts DEF Writable
<1>8. Present' = Present
  BY <1>4 DEF Present
<1>9. ConfigOK'
  BY <1>4, <1>7, <1>8 DEF ConfigOK
<1> QED
  BY <1>4, <1>6, <1>9

\* A value shifted into its lanes of the register.
LEMMA ShiftedType ==
  ASSUME NEW n \in {1, 2}, NEW value \in [0 .. (n - 1) -> Byte], NEW lane \in Lane
  PROVE  Shifted(value, lane, n) \in [Lane -> Nat]
BY SpaceFacts, Zenon DEF Shifted, Lane

-----------------------------------------------------------------------------
(* The calls of the AML interpreter.                                       *)

AimedStep ==
  /\ \A f \in Present, o \in Offset :
       config'[f][o] # config[f][o] => f = last'.f /\ Register(o) = Register(last'.offset)
  /\ (last'.op = "write32" /\ last'.f \in Present /\ Writable(last'.offset)) => Exact'

\* A read of the AML interpreter returns the bytes of its function and leaves every
\* space alone.
LEMMA AmlReads ==
  ASSUME ConfigOK, NEW f \in Address, NEW o \in Offset,
         read_pci_u8(f, o) \/ read_pci_u16(f, o) \/ read_pci_u32(f, o)
  PROVE  ConfigOK' /\ ReadsExact' /\ AimedStep
<1>1. config' = config /\ last'.op # "write32"
  BY DEF read_pci_u8, read_pci_u16, read_pci_u32, Call, Panic
<1>2. ConfigOK' /\ AimedStep
  BY <1>1 DEF ConfigOK, Present, AimedStep
<1>3. \A g, p : Held(g, p)' = Held(g, p)
  BY <1>1 DEF Held, Present
<1> DEFINE r == Register(o)
<1>4. /\ r \in Offset /\ o % 4 \in Lane /\ o = r + (o % 4)
      /\ Aligned(o) => r = o /\ o % 2 = 0
  BY RegisterFacts, Zenon
<1>5. \A i \in Lane : Read(f, r)[i] = Held(f, r + i)
  <2> HIDE DEF r
  <2> QED
    BY <1>4, ReadFacts
<1>6. CASE read_pci_u8(f, o)
  <2>1. last' = [op |-> "read8", f |-> f, offset |-> o, value |-> [i \in {0} |-> Read(f, r)[o % 4]]]
    BY <1>6 DEF read_pci_u8, Call
  <2>2. Read(f, r)[o % 4] = Held(f, o)
    BY <1>4, <1>5
  <2>3. o + 0 = o
    BY SpaceFacts
  <2> HIDE DEF r
  <2>4. Exact'
    BY <1>3, <2>1, <2>2, <2>3 DEF Exact
  <2> QED
    BY <1>2, <2>4 DEF ReadsExact
<1>7. CASE read_pci_u16(f, o)
  <2>1. last' = [op |-> "read16", f |-> f, offset |-> o,
                 value |-> [i \in {0, 1} |-> Read(f, r)[(o % 2) * 2 + i]]]
    BY <1>7 DEF read_pci_u16, Call
  <2>2. CASE Aligned(o)
    <3>1. \A i \in {0, 1} : i \in Lane /\ (o % 2) * 2 + i = i
      BY <1>4, <2>2 DEF Lane
    <3>2. \A i \in {0, 1} : Read(f, r)[(o % 2) * 2 + i] = Held(f, o + i)
      BY <1>4, <1>5, <2>2, <3>1
    <3> HIDE DEF r
    <3>3. Exact'
      BY <1>3, <2>1, <3>2 DEF Exact
    <3> QED
      BY <1>2, <3>3 DEF ReadsExact
  <2>3. CASE ~ Aligned(o)
    <3>1. last'.op = "read16" /\ last'.offset = o
      BY <2>1
    <3> QED
      BY <1>2, <2>3, <3>1 DEF ReadsExact, Aligned
  <2> QED
    BY <2>2, <2>3
<1>8. CASE read_pci_u32(f, o)
  <2>1. CASE Aligned(o)
    <3>1. last' = [op |-> "read32", f |-> f, offset |-> o, value |-> [i \in Lane |-> Held(f, o + i)]]
      BY <1>8, <2>1, ReadFacts DEF read_pci_u32, Call
    <3>2. Exact'
      BY <1>3, <3>1 DEF Exact
    <3> QED
      BY <1>2, <3>2 DEF ReadsExact
  <2>2. CASE ~ Aligned(o)
    <3>1. last'.op = "panic"
      BY <1>8, <2>2 DEF read_pci_u32, Panic
    <3> QED
      BY <1>2, <3>1 DEF ReadsExact
  <2> QED
    BY <2>1, <2>2
<1> QED
  BY <1>6, <1>7, <1>8

\* A write of the AML interpreter changes its function and no other.
LEMMA AmlWrites ==
  ASSUME ConfigOK, NEW f \in Address, NEW o \in Offset, NEW value, NEW bytes \in [Lane -> Nat],
         NEW op \in {"write8", "write16", "write32"},
         Write(f, Register(o), bytes), Call(op, f, o, value),
         op = "write32" => Aligned(o) /\ value = bytes
  PROVE  ConfigOK' /\ ReadsExact' /\ AimedStep
<1> DEFINE r == Register(o)
<1>1. /\ r \in Offset /\ (Aligned(o) => r = o)
      /\ \A p \in Offset : p - r \in Lane => Register(p) = r
  BY RegisterFacts, Zenon
<1>2. Write(f, r, bytes)
  OBVIOUS
<1> HIDE DEF r
<1>3. /\ DOMAIN config' = DOMAIN config /\ ConfigOK'
      /\ \A g \in Present, p \in Offset :
           config'[g][p] = IF g = f /\ Writable(p) /\ p - r \in Lane THEN bytes[p - r]
                           ELSE config[g][p]
  BY <1>1, <1>2, WriteFacts
<1>4. last' = [op |-> op, f |-> f, offset |-> o, value |-> value]
  BY DEF Call
<1>5. last'.op = op /\ last'.f = f /\ last'.offset = o /\ last'.value = value
  BY <1>4
<1>6. ReadsExact'
  BY <1>5 DEF ReadsExact
<1>7. \A g \in Present, p \in Offset :
        config'[g][p] # config[g][p] => g = last'.f /\ Register(p) = Register(last'.offset)
  <2> SUFFICES ASSUME NEW g \in Present, NEW p \in Offset, config'[g][p] # config[g][p]
               PROVE  g = f /\ Register(p) = r
    BY <1>5 DEF r
  <2>1. g = f /\ p - r \in Lane
    BY <1>3
  <2> QED
    BY <1>1, <2>1
<1>8. ASSUME last'.op = "write32", last'.f \in Present, Writable(last'.offset)
      PROVE  Exact'
  <2>1. Aligned(o) /\ value = bytes /\ r = o /\ f \in Present /\ Writable(o)
    BY <1>1, <1>5, <1>8
  <2>2. \A i \in Lane : o + i \in Offset /\ Writable(o + i) /\ (o + i) - o = i
    BY <2>1, SpaceFacts DEF Aligned, Writable, Lane, Offset
  <2>3. ASSUME NEW i \in Lane
        PROVE  config'[f][o + i] = bytes[i]
    <3>1. o + i \in Offset /\ Writable(o + i) /\ (o + i) - r = i
      BY <2>1, <2>2
    <3> DEFINE p == o + i
    <3>2. p \in Offset /\ Writable(p) /\ p - r = i
      BY <3>1
    <3> HIDE DEF p
    <3>3. config'[f][p] = bytes[i]
      BY <1>3, <2>1, <3>2
    <3> QED
      BY <3>3 DEF p
  <2>4. f \in Present' /\ DOMAIN value = Lane
    BY <1>3, <2>1 DEF Present
  <2> QED
    BY <1>5, <2>1, <2>3, <2>4 DEF Exact, Held
<1> QED
  BY <1>3, <1>6, <1>7, <1>8 DEF AimedStep

\* Every call of the interpreter reads what is there and writes where it should.
LEMMA AmlFacts ==
  ASSUME ConfigOK, AmlCall
  PROVE  ConfigOK' /\ ReadsExact' /\ AimedStep /\ DOMAIN config' = DOMAIN config
<1>1. PICK f \in Asked, o \in AmlOffsets :
        \/ read_pci_u8(f, o) \/ read_pci_u16(f, o) \/ read_pci_u32(f, o)
        \/ \E value \in [{0} -> Byte] : write_pci_u8(f, o, value)
        \/ \E value \in [{0, 1} -> Byte] : write_pci_u16(f, o, value)
        \/ \E value \in Words : write_pci_u32(f, o, value)
  BY Zenon DEF AmlCall
<1>2. f \in Address /\ o \in Offset
  BY PciAssumption
<1>3. o % 4 \in Lane /\ (o % 2) * 2 \in Lane
  BY <1>2, SpaceFacts DEF Lane
<1>4. CASE read_pci_u8(f, o) \/ read_pci_u16(f, o) \/ read_pci_u32(f, o)
  <2>1. config' = config
    BY <1>4 DEF read_pci_u8, read_pci_u16, read_pci_u32, Panic
  <2> QED
    BY <1>2, <1>4, <2>1, AmlReads
<1>5. ASSUME NEW value, NEW bytes \in [Lane -> Nat], NEW op \in {"write8", "write16", "write32"},
             Write(f, Register(o), bytes), Call(op, f, o, value),
             op = "write32" => Aligned(o) /\ value = bytes
      PROVE  ConfigOK' /\ ReadsExact' /\ AimedStep /\ DOMAIN config' = DOMAIN config
  <2>1. Register(o) \in Offset
    BY <1>2, RegisterFacts
  <2>2. DOMAIN config' = DOMAIN config
    BY <1>2, <1>5, <2>1, WriteFacts
  <2> QED
    BY <1>2, <1>5, <2>2, AmlWrites
<1>6. CASE \E value \in [{0} -> Byte] : write_pci_u8(f, o, value)
  <2>1. PICK value \in [{0} -> Byte] : write_pci_u8(f, o, value)
    BY <1>6
  <2> DEFINE bytes == Shifted(value, o % 4, 1)
  <2>2. Write(f, Register(o), bytes) /\ Call("write8", f, o, value)
    BY <2>1 DEF write_pci_u8
  <2>3. bytes \in [Lane -> Nat]
    <3>1. {0} = 0 .. (1 - 1)
      OBVIOUS
    <3> QED
      BY <1>3, <3>1, ShiftedType
  <2> HIDE DEF bytes
  <2> QED
    BY <1>5, <2>2, <2>3
<1>7. CASE \E value \in [{0, 1} -> Byte] : write_pci_u16(f, o, value)
  <2>1. PICK value \in [{0, 1} -> Byte] : write_pci_u16(f, o, value)
    BY <1>7
  <2> DEFINE bytes == Shifted(value, (o % 2) * 2, 2)
  <2>2. Write(f, Register(o), bytes) /\ Call("write16", f, o, value)
    BY <2>1 DEF write_pci_u16
  <2>3. bytes \in [Lane -> Nat]
    <3>1. {0, 1} = 0 .. (2 - 1)
      OBVIOUS
    <3> QED
      BY <1>3, <3>1, ShiftedType
  <2> HIDE DEF bytes
  <2> QED
    BY <1>5, <2>2, <2>3
<1>8. CASE \E value \in Words : write_pci_u32(f, o, value)
  <2>1. PICK value \in Words : write_pci_u32(f, o, value)
    BY <1>8
  <2>2. CASE Aligned(o)
    <3>1. Write(f, o, value) /\ Call("write32", f, o, value)
      BY <2>1, <2>2 DEF write_pci_u32
    <3>2. Register(o) = o
      BY <1>2, <2>2, RegisterFacts
    <3>3. value \in [Lane -> Nat]
      BY PciAssumption
    <3> QED
      BY <1>5, <2>2, <3>1, <3>2, <3>3
  <2>3. CASE ~ Aligned(o)
    <3>1. config' = config /\ last'.op = "panic"
      BY <2>1, <2>3 DEF write_pci_u32, Panic
    <3> QED
      BY <3>1 DEF ConfigOK, Present, ReadsExact, AimedStep
  <2> QED
    BY <2>2, <2>3
<1> QED
  BY <1>1, <1>4, <1>6, <1>7, <1>8

-----------------------------------------------------------------------------
(* The scan.                                                               *)

\* The loop variables, and what is not yet set when they run.
LoopOK ==
  /\ results \in Seq(Address) /\ k \in 0 .. Len(results)
  /\ bus \in 0 .. BUSES /\ device \in 0 .. 31 /\ function \in 0 .. 7
  /\ pc = "aml" => bus = 0 /\ device = 0 /\ function = 0 /\ results = <<>>
  /\ pc = "scan" => bus < BUSES
  /\ pc \in {"aml", "scan"} => k = 0 /\ sata_controller = <<>>
  /\ pc \notin {"aml", "scan"} => bus = BUSES /\ device = 0 /\ function = 0

\* The choice among the first k results: the last AHCI controller so far.
Chosen ==
  \/ sata_controller = <<>> /\ \A i \in 1 .. k : results[i] \notin AhciFunctions
  \/ \E i \in 1 .. k : /\ sata_controller = << results[i] >>
                       /\ results[i] \in AhciFunctions /\ config[results[i]][14] % 128 = 0
                       /\ \A j \in (i + 1) .. k : results[j] \notin AhciFunctions

ScanInv ==
  /\ ConfigOK
  /\ LoopOK
  /\ ReadsExact
  /\ ScanExact
  /\ pc = "choose" => Chosen
  /\ ChoosesLastAhci

\* The loops visit the addresses in the order of their ranks.
LEMMA RankFacts ==
  /\ \A f \in Address : Rank(f) \in Nat
  /\ \A f, g \in Address : Rank(f) = Rank(g) => f = g
  /\ \A f \in Address : f.bus < BUSES => Rank(f) < BUSES * 256
<1>1. \A f \in Address : f.bus \in 0 .. 255 /\ f.device \in 0 .. 31 /\ f.function \in 0 .. 7
  BY DEF Address
<1>2. ASSUME NEW f \in Address, NEW g \in Address, Rank(f) = Rank(g)
      PROVE  f = g
  <2> DEFINE a == f.bus
             b == f.device
             c == f.function
             x == g.bus
             y == g.device
             z == g.function
  <2>1. /\ a \in 0 .. 255 /\ b \in 0 .. 31 /\ c \in 0 .. 7
        /\ x \in 0 .. 255 /\ y \in 0 .. 31 /\ z \in 0 .. 7
        /\ a * 256 + b * 8 + c = x * 256 + y * 8 + z
    BY <1>1, <1>2 DEF Rank
  <2> HIDE DEF a, b, c, x, y, z
  <2>2. a = x /\ b = y /\ c = z
    BY <2>1
  <2> QED
    BY <2>2 DEF a, b, c, x, y, z, Address
<1>3. ASSUME NEW f \in Address, f.bus < BUSES
      PROVE  Rank(f) < BUSES * 256
  <2> DEFINE a == f.bus
             b == f.device
             c == f.function
  <2>1. a \in 0 .. 255 /\ b \in 0 .. 31 /\ c \in 0 .. 7 /\ a < BUSES /\ BUSES \in Nat
    BY <1>1, <1>3, ScanAssumption
  <2>2. Rank(f) = a * 256 + b * 8 + c
    BY DEF Rank
  <2> HIDE DEF a, b, c
  <2> QED
    BY <2>1, <2>2
<1>4. ASSUME NEW f \in Address
      PROVE  Rank(f) \in Nat
  <2>1. f.bus \in Nat /\ f.device \in Nat /\ f.function \in Nat
    BY <1>1
  <2> QED
    BY <2>1 DEF Rank
<1> QED
  BY <1>2, <1>3, <1>4

\* One round of the innermost loop goes to the next rank.
LEMMA NextAddress ==
  ASSUME LoopOK, Probe
  PROVE  /\ bus' \in 0 .. BUSES /\ device' \in 0 .. 31 /\ function' \in 0 .. 7
         /\ Rank(Here)' = Rank(Here) + 1
         /\ bus' = BUSES => device' = 0 /\ function' = 0
<1>1. /\ bus \in 0 .. BUSES /\ bus < BUSES /\ device \in 0 .. 31 /\ function \in 0 .. 7
      /\ BUSES \in Nat
  BY ScanAssumption DEF LoopOK, Probe
<1>2. function' = IF function = 7 THEN 0 ELSE function + 1
  BY <1>1 DEF Probe
<1>3. device' = IF function = 7 THEN (IF device = 31 THEN 0 ELSE device + 1) ELSE device
  BY <1>1 DEF Probe
<1>4. bus' = IF function = 7 /\ device = 31 THEN bus + 1 ELSE bus
  BY DEF Probe
<1>5. /\ Rank(Here) = bus * 256 + device * 8 + function
      /\ Rank(Here)' = bus' * 256 + device' * 8 + function'
  BY DEF Rank, Here
<1> QED
  BY <1>1, <1>2, <1>3, <1>4, <1>5

\* function_exists tells whether there is a function at the address.
LEMMA ExistsFacts ==
  ASSUME ConfigOK, NEW f \in Address
  PROVE  function_exists(Read(f, 0)) <=> f \in Present
<1>1. Read(f, 0) = [i \in Lane |-> Held(f, 0 + i)]
  BY ReadFacts, SpaceFacts
<1>2. Read(f, 0)[0] = Held(f, 0) /\ Read(f, 0)[1] = Held(f, 1)
  BY <1>1 DEF Lane
<1> QED
  BY <1>2 DEF function_exists, Held, ConfigOK

\* A probe of the scan keeps the invariant.
LEMMA ProbeInv ==
  ASSUME ScanInv, Probe
  PROVE  ScanInv'
<1>1. /\ pc = "scan" /\ config' = config /\ last' = last /\ k' = k
      /\ sata_controller' = sata_controller /\ pc' \in {"scan", "choose"}
      /\ pc' = IF bus' = BUSES THEN "choose" ELSE "scan"
  BY DEF Probe
<1>2. /\ ConfigOK /\ LoopOK /\ ReadsExact /\ ScanExact
      /\ results \in Seq(Address) /\ k = 0 /\ sata_controller = <<>>
      /\ bus \in 0 .. 255 /\ device \in 0 .. 31 /\ function \in 0 .. 7
  BY <1>1, ScanAssumption DEF ScanInv, LoopOK
<1>3. Here \in Address
  BY <1>2 DEF Here, Address
<1>4. results' = IF Here \in Present THEN Append(results, Here) ELSE results
  BY <1>2, <1>3, ExistsFacts DEF Probe
<1>5. /\ bus' \in 0 .. BUSES /\ device' \in 0 .. 31 /\ function' \in 0 .. 7
      /\ Rank(Here)' = Rank(Here) + 1
      /\ bus' = BUSES => device' = 0 /\ function' = 0
  BY <1>2, NextAddress
<1>6. results' \in Seq(Address) /\ Len(results') \in Nat
  BY <1>2, <1>3, <1>4
<1>7. LoopOK'
  <2>1. bus' # BUSES => bus' < BUSES
    BY <1>5, ScanAssumption
  <2> QED
    BY <1>1, <1>2, <1>5, <1>6, <2>1 DEF LoopOK
<1>8. ConfigOK' /\ ReadsExact' /\ Present' = Present
  BY <1>1, <1>2 DEF ConfigOK, ReadsExact, Exact, Held, Present
<1>9. ScanExact'
  <2> DEFINE h == Rank(Here)
             old == {f \in Present : Rank(f) < h}
  <2>1. /\ h \in Nat /\ Present \subseteq Address
        /\ \A i, j \in 1 .. Len(results) : i < j => Rank(results[i]) < Rank(results[j])
        /\ {results[i] : i \in 1 .. Len(results)} = old
    BY <1>2, <1>3, RankFacts DEF ScanExact, ConfigOK
  <2>2. {f \in Present : Rank(f) < h + 1} = old \cup (IF Here \in Present THEN {Here} ELSE {})
    <3>1. \A f \in Present : Rank(f) < h + 1 <=> (Rank(f) < h \/ f = Here)
      <4> SUFFICES ASSUME NEW f \in Present
                   PROVE  Rank(f) < h + 1 <=> (Rank(f) < h \/ f = Here)
        OBVIOUS
      <4>1. f \in Address /\ Rank(f) \in Nat
        BY <2>1, RankFacts
      <4>2. Rank(f) = h <=> f = Here
        BY <1>3, <4>1, RankFacts
      <4> HIDE DEF h
      <4> QED
        BY <2>1, <4>1, <4>2
    <3> QED
      BY <3>1
  <2>3. /\ \A i, j \in 1 .. Len(results') : i < j => Rank(results'[i]) < Rank(results'[j])
        /\ {results'[i] : i \in 1 .. Len(results')} = {f \in Present : Rank(f) < h + 1}
    <3>1. CASE Here \notin Present
      BY <1>4, <2>1, <2>2, <3>1
    <3>2. CASE Here \in Present
      <4> DEFINE n == Len(results)
      <4>1. /\ n \in Nat /\ Len(results') = n + 1 /\ results'[n + 1] = Here
            /\ \A i \in 1 .. n : results'[i] = results[i] /\ results[i] \in Address
        BY <1>2, <1>3, <1>4, <3>2
      <4>2. \A i \in 1 .. n : Rank(results[i]) < h /\ results[i] \in old
        BY <2>1
      <4> HIDE DEF n, h, old
      <4>3. {results'[i] : i \in 1 .. (n + 1)} = {results[i] : i \in 1 .. n} \cup {Here}
        BY <4>1
      <4>4. \A i, j \in 1 .. (n + 1) : i < j => Rank(results'[i]) < Rank(results'[j])
        <5> SUFFICES ASSUME NEW i \in 1 .. (n + 1), NEW j \in 1 .. (n + 1), i < j
                     PROVE  Rank(results'[i]) < Rank(results'[j])
          OBVIOUS
        <5>1. CASE j = n + 1
          <6>1. i \in 1 .. n /\ results'[j] = Here
            BY <4>1, <5>1
          <6> QED
            BY <4>1, <4>2, <6>1 DEF h
        <5>2. CASE j # n + 1
          <6>1. i \in 1 .. n /\ j \in 1 .. n
            BY <4>1, <5>2
          <6> QED
            BY <2>1, <4>1, <6>1 DEF n
        <5> QED
          BY <5>1, <5>2
      <4> QED
        BY <2>1, <2>2, <3>2, <4>1, <4>3, <4>4 DEF n
    <3> QED
      BY <3>1, <3>2
  <2>4. \A f : Rank(f)' = Rank(f)
    BY DEF Rank
  <2> QED
    BY <1>5, <1>8, <2>3, <2>4, Zenon DEF ScanExact, Rank
<1>10. pc' = "choose" => Chosen'
  BY <1>1, <1>2 DEF Chosen
<1>11. ChoosesLastAhci'
  BY <1>1 DEF ChoosesLastAhci
<1> QED
  BY <1>7, <1>8, <1>9, <1>10, <1>11 DEF ScanInv

-----------------------------------------------------------------------------
(* The choice of the controller.                                           *)

\* The registers the scan reads tell an AHCI controller and an end point.
LEMMA ClassFacts ==
  ASSUME ConfigOK, NEW f \in Present
  PROVE  /\ IsAhci(Read(f, 8)) <=> f \in AhciFunctions
         /\ IsEndpoint(Read(f, 12)) <=> config[f][14] % 128 = 0
<1>1. f \in Address
  BY DEF ConfigOK
<1>2. Read(f, 8) = [i \in Lane |-> Held(f, 8 + i)] /\ Read(f, 12) = [i \in Lane |-> Held(f, 12 + i)]
  BY <1>1, ReadFacts, SpaceFacts
<1>3. Read(f, 8) = [i \in Lane |-> config[f][8 + i]]
  BY <1>2 DEF Held
<1>4. Read(f, 12)[2] = config[f][14]
  BY <1>2 DEF Held, Lane
<1> QED
  BY <1>3, <1>4 DEF AhciFunctions, IsEndpoint

\* A result is a function of the machine; at the end every function is a result.
LEMMA ResultFacts ==
  ASSUME ScanInv
  PROVE  /\ \A i \in 1 .. Len(results) : results[i] \in Present
         /\ pc \notin {"aml", "scan"} =>
              \A f \in Present : \E i \in 1 .. Len(results) : f = results[i]
<1>1. {results[i] : i \in 1 .. Len(results)} = {f \in Present : Rank(f) < Rank(Here)}
  BY DEF ScanInv, ScanExact
<1>2. ASSUME pc \notin {"aml", "scan"}, NEW f \in Present
      PROVE  Rank(f) < Rank(Here)
  <2>1. bus = BUSES /\ device = 0 /\ function = 0
    BY <1>2 DEF ScanInv, LoopOK
  <2>2. Rank(Here) = BUSES * 256
    BY <2>1, ScanAssumption DEF Rank, Here
  <2> QED
    BY <2>2, RankFacts DEF ScanInv, ConfigOK
<1> QED
  BY <1>1, <1>2

\* A step of kernel_main that leaves the machine and the results alone.
LEMMA MoveOn ==
  ASSUME ScanInv, UNCHANGED <<config, last, bus, device, function, results>>,
         pc \notin {"aml", "scan"}, pc' \notin {"aml", "scan"}, k' \in 0 .. Len(results)
  PROVE  ConfigOK' /\ LoopOK' /\ ReadsExact' /\ ScanExact'
<1>1. ConfigOK' /\ ReadsExact' /\ Present' = Present
  BY DEF ScanInv, ConfigOK, ReadsExact, Exact, Held, Present
<1>2. LoopOK'
  BY DEF ScanInv, LoopOK
<1>3. ScanExact'
  BY <1>1 DEF ScanInv, ScanExact, Rank, Here
<1> QED
  BY <1>1, <1>2, <1>3

\* So does the choice of a controller among those found.
LEMMA ChooseInv ==
  ASSUME ScanInv, Choose
  PROVE  ScanInv'
<1> DEFINE f == results[k + 1]
<1>1. /\ pc = "choose" /\ k < Len(results) /\ k' = k + 1
      /\ UNCHANGED <<config, last, bus, device, function, results>>
      /\ IF ~ IsAhci(Read(f, 8)) THEN UNCHANGED <<sata_controller, pc>>
         ELSE IF IsEndpoint(Read(f, 12)) THEN sata_controller' = <<f>> /\ UNCHANGED pc
         ELSE pc' = "no_controller" /\ UNCHANGED sata_controller
  BY DEF Choose
<1>2. k \in Nat /\ k + 1 \in 1 .. Len(results) /\ Len(results) \in Nat /\ ConfigOK /\ Chosen
  BY <1>1 DEF ScanInv, LoopOK
<1>3. f \in Present
  BY <1>2, ResultFacts
<1>4. /\ IsAhci(Read(f, 8)) <=> f \in AhciFunctions
      /\ IsEndpoint(Read(f, 12)) <=> config[f][14] % 128 = 0
  BY <1>2, <1>3, ClassFacts
<1>5. AhciFunctions' = AhciFunctions /\ config' = config /\ results' = results
  BY <1>1 DEF AhciFunctions, Present, IsAhci
<1>6. pc' \in {"choose", "no_controller"}
  BY <1>1
<1>7. ConfigOK' /\ LoopOK' /\ ReadsExact' /\ ScanExact'
  <2>1. k' \in 0 .. Len(results)
    BY <1>1, <1>2
  <2> QED
    BY <1>1, <1>6, <2>1, MoveOn
<1>8. pc' = "choose" => Chosen'
  <2>1. CASE f \notin AhciFunctions
    <3>1. sata_controller' = sata_controller
      BY <1>1, <1>4, <2>1
    <3>2. CASE sata_controller = <<>> /\ \A i \in 1 .. k : results[i] \notin AhciFunctions
      <4>1. \A i \in 1 .. (k + 1) : results[i] \notin AhciFunctions
        BY <1>2, <2>1, <3>2
      <4> QED
        BY <1>1, <1>5, <3>1, <3>2, <4>1 DEF Chosen
    <3>3. CASE \E i \in 1 .. k :
                 /\ sata_controller = << results[i] >>
                 /\ results[i] \in AhciFunctions /\ config[results[i]][14] % 128 = 0
                 /\ \A j \in (i + 1) .. k : results[j] \notin AhciFunctions
      <4>1. PICK i \in 1 .. k :
                 /\ sata_controller = << results[i] >>
                 /\ results[i] \in AhciFunctions /\ config[results[i]][14] % 128 = 0
                 /\ \A j \in (i + 1) .. k : results[j] \notin AhciFunctions
        BY <3>3
      <4>2. i \in 1 .. (k + 1) /\ \A j \in (i + 1) .. (k + 1) : results[j] \notin AhciFunctions
        BY <1>2, <2>1, <4>1
      <4> QED
        BY <1>1, <1>5, <3>1, <4>1, <4>2 DEF Chosen
    <3> QED
      BY <1>2, <3>2, <3>3 DEF Chosen
  <2>2. CASE f \in AhciFunctions /\ config[f][14] % 128 = 0
    <3>1. sata_controller' = <<f>>
      BY <1>1, <1>4, <2>2
    <3>2. k + 1 \in 1 .. (k + 1) /\ \A j \in (k + 1 + 1) .. (k + 1) : FALSE
      BY <1>2
    <3> QED
      BY <1>1, <1>5, <2>2, <3>1, <3>2 DEF Chosen
  <2>3. CASE f \in AhciFunctions /\ config[f][14] % 128 # 0
    BY <1>1, <1>4, <2>3
  <2> QED
    BY <2>1, <2>2, <2>3
<1>9. ChoosesLastAhci'
  <2>1. pc' = "no_controller" => f \in AhciFunctions /\ config[f][14] % 128 # 0
    BY <1>1, <1>4
  <2> QED
    BY <1>5, <1>6, <2>1 DEF ChoosesLastAhci
<1> QED
  BY <1>7, <1>8, <1>9 DEF ScanInv

\* So does its end, with a controller or without one.
LEMMA ExpectInv ==
  ASSUME ScanInv, Expect
  PROVE  ScanInv'
<1>1. /\ pc = "choose" /\ k = Len(results) /\ k' = k /\ sata_controller' = sata_controller
      /\ UNCHANGED <<config, last, bus, device, function, results>>
      /\ pc' = IF sata_controller = <<>> THEN "no_controller" ELSE "found"
  BY DEF Expect
<1>2. Chosen /\ k \in 0 .. Len(results) /\ Len(results) \in Nat
  BY <1>1 DEF ScanInv, LoopOK
<1>3. AhciFunctions' = AhciFunctions /\ config' = config
  BY <1>1 DEF AhciFunctions, Present, IsAhci
<1>4. AhciFunctions \subseteq Present /\ \A g : Rank(g)' = Rank(g)
  BY DEF AhciFunctions, Rank
<1>5. \A g \in Present : \E j \in 1 .. k : g = results[j]
  BY <1>1, ResultFacts
<1>6. ConfigOK' /\ LoopOK' /\ ReadsExact' /\ ScanExact'
  BY <1>1, <1>2, MoveOn
<1>7. CASE sata_controller = <<>>
  <2>1. \A i \in 1 .. k : results[i] \notin AhciFunctions
    BY <1>2, <1>7 DEF Chosen
  <2>2. AhciFunctions = {}
    BY <1>4, <1>5, <2>1
  <2> QED
    BY <1>1, <1>3, <1>6, <1>7, <2>2 DEF ScanInv, ChoosesLastAhci
<1>8. CASE sata_controller # <<>>
  <2>1. PICK i \in 1 .. k :
          /\ sata_controller = << results[i] >>
          /\ results[i] \in AhciFunctions /\ config[results[i]][14] % 128 = 0
          /\ \A j \in (i + 1) .. k : results[j] \notin AhciFunctions
    BY <1>2, <1>8 DEF Chosen
  <2>2. ASSUME NEW g \in AhciFunctions PROVE Rank(g) <= Rank(results[i])
    <3>1. PICK j \in 1 .. k : g = results[j]
      BY <1>4, <1>5
    <3>2. j <= i
      BY <1>2, <2>1, <2>2, <3>1
    <3>3. CASE j = i
      <4>1. Rank(g) \in Nat
        BY <1>4, RankFacts DEF ScanInv, ConfigOK
      <4> QED
        BY <3>1, <3>3, <4>1
    <3>4. CASE j < i
      <4>1. Rank(g) \in Nat /\ Rank(results[i]) \in Nat
        BY <1>4, <2>1, RankFacts DEF ScanInv, ConfigOK
      <4>2. Rank(results[j]) < Rank(results[i])
        BY <1>1, <3>4 DEF ScanInv, ScanExact
      <4> QED
        BY <3>1, <4>1, <4>2
    <3> QED
      BY <1>2, <3>2, <3>3, <3>4
  <2>3. ChoosesLastAhci'
    BY <1>1, <1>3, <1>4, <1>8, <2>1, <2>2 DEF ChoosesLastAhci
  <2> QED
    BY <1>1, <1>6, <1>8, <2>3 DEF ScanInv
<1> QED
  BY <1>7, <1>8

-----------------------------------------------------------------------------
(* The registers of the controller.                                        *)

Frames == FrameOf(hba.abar) .. LastFrame

\* The frames before index are mapped; ports are read when all of them are.
HbaOK ==
  /\ hba \in Controllers /\ index \in Nat
  /\ pc = "map" => /\ FrameOf(hba.abar) <= index
                   /\ FrameOf(hba.abar) .. (index - 1) \subseteq mapped
  /\ pc \in {"ports", "done"} => /\ Frames \subseteq mapped
                                 /\ touched \subseteq 0 .. (port_count - 1)
  /\ pc \notin {"ports", "done"} => touched = {}

\* The frame of an address grows with the address.
LEMMA FrameFacts ==
  ASSUME NEW a \in Nat, NEW b \in Nat, a <= b
  PROVE  FrameOf(a) \in Nat /\ FrameOf(b) \in Nat /\ FrameOf(a) <= FrameOf(b)
<1>1. FRAME \in Nat \ {0}
  BY AhciAssumption
<1> DEFINE p == a \div FRAME
           q == b \div FRAME
           i == a % FRAME
           j == b % FRAME
<1>2. p \in Nat /\ i \in 0 .. (FRAME - 1) /\ a = FRAME * p + i
  BY <1>1, Division, Zenon
<1>3. q \in Nat /\ j \in 0 .. (FRAME - 1) /\ b = FRAME * q + j
  BY <1>1, Division, Zenon
<1> HIDE DEF p, q, i, j
<1>4. SUFFICES ASSUME p >= q + 1 PROVE FALSE
  BY <1>2, <1>3 DEF p, q, FrameOf
<1>5. FRAME * p >= FRAME * (q + 1)
  BY <1>1, <1>2, <1>3, <1>4
<1> QED
  BY <1>1, <1>2, <1>3, <1>5

\* The slice of the first port_count ports ends before the registers do.
LEMMA PortFacts ==
  ASSUME hba \in Controllers
  PROVE  /\ hba.abar \in Nat /\ hba.size \in Nat \ {0} /\ port_count \in Nat
         /\ \A p \in 0 .. (port_count - 1) :
              p < PORTS /\ PORTS_OFFSET + (p + 1) * PORT_SIZE <= hba.size
<1> DEFINE S == hba.port_implemented
<1>1. /\ hba.abar \in Nat /\ hba.size \in Nat \ {0}
      /\ \A q \in S : q \in 0 .. 31 /\ 256 + (q + 1) * 128 <= hba.size
  BY AhciAssumption DEF PORTS, PORTS_OFFSET, PORT_SIZE
<1>2. IsFiniteSet(0 .. 31) /\ S \subseteq 0 .. 31
  <2>1. 0 \in Int /\ 31 \in Int
    OBVIOUS
  <2>2. IsFiniteSet(0 .. 31)
    BY <2>1, FS_Interval, Zenon
  <2> QED
    BY <1>1, <2>2, Zenon
<1>3. IsFiniteSet(S) /\ port_count = Cardinality(S) /\ port_count \in Nat
  BY <1>2, FS_Subset, FS_CardinalityType, Zenon DEF port_count
<1>4. ASSUME NEW p \in 0 .. (port_count - 1)
      PROVE  p < PORTS /\ PORTS_OFFSET + (p + 1) * PORT_SIZE <= hba.size
  <2>1. p \in Nat /\ p < port_count
    BY <1>3
  <2>2. \E q \in S : q >= p
    <3> SUFFICES ASSUME \A q \in S : q < p PROVE FALSE
      BY <1>1, <2>1
    <3>1. S \subseteq 0 .. (p - 1)
      BY <1>1, <2>1
    <3>2. IsFiniteSet(0 .. (p - 1)) /\ Cardinality(0 .. (p - 1)) = p
      <4> DEFINE m == p - 1
      <4>1. 0 \in Int /\ m \in Int /\ (0 > m <=> p = 0) /\ m - 0 + 1 = p
        BY <2>1
      <4> HIDE DEF m
      <4>2. IsFiniteSet(0 .. m) /\ Cardinality(0 .. m) = IF 0 > m THEN 0 ELSE m - 0 + 1
        BY <4>1, FS_Interval, Zenon
      <4>3. IsFiniteSet(0 .. m) /\ Cardinality(0 .. m) = p
        BY <4>1, <4>2, Zenon
      <4> QED
        BY <4>3 DEF m
    <3>3. Cardinality(S) <= p
      BY <3>1, <3>2, FS_Subset
    <3> QED
      BY <1>3, <2>1, <3>3
  <2>3. PICK q \in S : q >= p
    BY <2>2
  <2>4. q \in 0 .. 31 /\ 256 + (q + 1) * 128 <= hba.size
    BY <1>1
  <2> QED
    BY <1>1, <2>1, <2>3, <2>4 DEF PORTS, PORTS_OFFSET, PORT_SIZE
<1> QED
  BY <1>1, <1>3, <1>4

\* Whatever is behind the ABAR, the ports that are read are mapped.
LEMMA PortsFollow == HbaOK => PortsMapped
<1> SUFFICES ASSUME HbaOK, NEW p \in touched, NEW b \in PortBytes(p)
             PROVE  p < PORTS /\ b < hba.size /\ FrameOf(hba.abar + b) \in mapped
  <2>1. ASSUME HbaOK, NEW p \in touched PROVE p < PORTS
    <3>1. hba \in Controllers /\ p \in 0 .. (port_count - 1)
      BY <2>1, Zenon DEF HbaOK
    <3> QED
      BY <3>1, PortFacts, Zenon
  <2> QED
    BY <2>1 DEF PortsMapped
<1>1. /\ hba \in Controllers /\ Frames \subseteq mapped /\ p \in 0 .. (port_count - 1)
  BY DEF HbaOK
<1>2. /\ hba.abar \in Nat /\ hba.size \in Nat \ {0} /\ port_count \in Nat
      /\ p < PORTS /\ PORTS_OFFSET + (p + 1) * PORT_SIZE <= hba.size
  BY <1>1, PortFacts
<1>3. b \in Nat /\ b < hba.size
  BY <1>1, <1>2 DEF PortBytes, PORTS_OFFSET, PORT_SIZE
<1> DEFINE x == hba.abar
           y == hba.abar + b
           z == hba.abar + hba.size - 1
<1>4. x \in Nat /\ y \in Nat /\ z \in Nat /\ x <= y /\ y <= z
  BY <1>2, <1>3
<1>5. Frames = FrameOf(x) .. FrameOf(z)
  BY DEF Frames, LastFrame
<1> HIDE DEF x, y, z
<1>6. FrameOf(y) \in FrameOf(x) .. FrameOf(z)
  BY <1>4, FrameFacts
<1>7. FrameOf(y) \in mapped
  BY <1>1, <1>5, <1>6
<1> QED
  BY <1>2, <1>3, <1>7 DEF y

\* Reading the BAR, mapping its frames and reading the ports keep the invariant.
LEMMA HbaStepInv ==
  ASSUME HbaOK, ReadBar \/ MapFrame \/ ReadPort
  PROVE  HbaOK'
<1>1. /\ hba' = hba /\ hba \in Controllers /\ index \in Nat
      /\ FrameOf(hba.abar) \in Nat /\ LastFrame \in Nat
      /\ port_count \in Nat
  <2>1. hba' = hba /\ hba \in Controllers /\ index \in Nat
    BY DEF HbaOK, ReadBar, MapFrame, ReadPort
  <2> DEFINE x == hba.abar
             z == hba.abar + hba.size - 1
  <2>2. x \in Nat /\ z \in Nat /\ x <= z /\ port_count \in Nat
    BY <2>1, PortFacts
  <2> HIDE DEF x, z
  <2>3. FrameOf(x) \in Nat /\ FrameOf(z) \in Nat
    BY <2>2, FrameFacts
  <2> QED
    BY <2>1, <2>2, <2>3 DEF x, z, LastFrame
<1>2. Frames' = Frames /\ port_count' = port_count /\ LastFrame' = LastFrame
  BY <1>1 DEF Frames, port_count, LastFrame, FrameOf
<1>3. FrameOf(hba.abar)' = FrameOf(hba.abar)
  BY <1>1 DEF FrameOf
<1>4. CASE ReadBar
  <2>1. /\ pc = "found" /\ mapped' = mapped /\ touched' = touched
        /\ \/ pc' = "map" /\ index' = FrameOf(hba.abar)
           \/ pc' = "panic" /\ index' = index
    BY <1>4 DEF ReadBar
  <2>2. touched = {}
    BY <2>1 DEF HbaOK
  <2>3. pc' = "map" => FrameOf(hba.abar) .. (index' - 1) = {} /\ FrameOf(hba.abar) <= index'
    BY <1>1, <2>1
  <2> QED
    BY <1>1, <1>3, <2>1, <2>2, <2>3 DEF HbaOK
<1>5. CASE MapFrame
  <2>1. /\ pc = "map" /\ touched' = touched
        /\ \/ index > LastFrame /\ pc' = "ports" /\ index' = 0 /\ mapped' = mapped
           \/ pc' = "panic" /\ index' = index /\ mapped' = mapped
           \/ mapped' = mapped \cup {index} /\ index' = index + 1 /\ pc' = pc
    BY <1>5 DEF MapFrame
  <2>2. /\ touched = {} /\ FrameOf(hba.abar) <= index
        /\ FrameOf(hba.abar) .. (index - 1) \subseteq mapped
    BY <2>1 DEF HbaOK
  <2>3. pc' = "ports" => Frames \subseteq mapped
    BY <1>1, <2>1, <2>2 DEF Frames
  <2>4. pc' = "map" => /\ index' = index + 1 /\ FrameOf(hba.abar) <= index'
                       /\ FrameOf(hba.abar) .. (index' - 1) \subseteq mapped'
    BY <1>1, <2>1, <2>2
  <2>5. index' \in Nat
    BY <1>1, <2>1
  <2> QED
    BY <1>1, <1>2, <1>3, <2>1, <2>2, <2>3, <2>4, <2>5 DEF HbaOK
<1>6. CASE ReadPort
  <2>1. /\ pc = "ports" /\ mapped' = mapped
        /\ \/ index < port_count /\ touched' = touched \cup {index} /\ index' = index + 1 /\ pc' = pc
           \/ pc' = "done" /\ touched' = touched /\ index' = index
    BY <1>6 DEF ReadPort
  <2>2. touched \subseteq 0 .. (port_count - 1) /\ Frames \subseteq mapped
    BY <2>1 DEF HbaOK
  <2>3. touched' \subseteq 0 .. (port_count - 1) /\ index' \in Nat
    <3>1. CASE index < port_count /\ touched' = touched \cup {index} /\ index' = index + 1
      <4>1. index \in 0 .. (port_count - 1)
        BY <1>1, <3>1
      <4>2. touched' \subseteq 0 .. (port_count - 1)
        BY <2>2, <3>1, <4>1, Zenon
      <4> QED
        BY <1>1, <3>1, <4>2
    <3>2. CASE touched' = touched /\ index' = index
      BY <1>1, <2>2, <3>2, Zenon
    <3> QED
      BY <2>1, <3>1, <3>2, Zenon
  <2> QED
    BY <1>1, <1>2, <2>1, <2>2, <2>3 DEF HbaOK
<1> QED
  BY <1>4, <1>5, <1>6

-----------------------------------------------------------------------------
(* kernel_main as a whole.                                                 *)

IInv == ScanInv /\ HbaOK

\* An access of the interpreter, and the start of the scan.
LEMMA AmlInv ==
  ASSUME ScanInv, AmlStep \/ StartScan
  PROVE  ScanInv' /\ AimedStep
<1>1. /\ pc = "aml" /\ pc' \in {"aml", "scan"} /\ ConfigOK
      /\ UNCHANGED <<bus, device, function, results, k, sata_controller>>
      /\ bus = 0 /\ results = <<>>
  BY DEF ScanInv, LoopOK, AmlStep, StartScan, scanVars
<1>2. ConfigOK' /\ ReadsExact' /\ AimedStep /\ Present' = Present
  <2>1. CASE AmlStep
    BY <1>1, <2>1, AmlFacts DEF AmlStep, Present
  <2>2. CASE StartScan
    <3>1. config' = config /\ last' = [op |-> "none"]
      BY <2>2 DEF StartScan
    <3> QED
      BY <1>1, <3>1 DEF ConfigOK, Present, ReadsExact, AimedStep
  <2> QED
    BY <2>1, <2>2
<1>3. LoopOK'
  BY <1>1, ScanAssumption DEF ScanInv, LoopOK
<1>4. ScanExact'
  BY <1>1, <1>2 DEF ScanInv, ScanExact, Rank, Here
<1>5. ChoosesLastAhci' /\ pc' # "choose"
  BY <1>1 DEF ChoosesLastAhci
<1> QED
  BY <1>2, <1>3, <1>4, <1>5 DEF ScanInv

\* After the scan the configuration spaces stay as they are.
LEMMA HbaScanInv ==
  ASSUME ScanInv, ReadBar \/ MapFrame \/ ReadPort
  PROVE  ScanInv'
<1>1. /\ UNCHANGED <<config, last, bus, device, function, results>> /\ k' = k
      /\ pc \in {"found", "map", "ports"} /\ pc' \in {"map", "ports", "done", "panic"}
  BY DEF ReadBar, MapFrame, ReadPort, found, vars
<1>2. k' \in 0 .. Len(results)
  BY <1>1 DEF ScanInv, LoopOK
<1>3. ConfigOK' /\ LoopOK' /\ ReadsExact' /\ ScanExact'
  BY <1>1, <1>2, MoveOn
<1>4. ChoosesLastAhci' /\ pc' # "choose"
  BY <1>1 DEF ChoosesLastAhci
<1> QED
  BY <1>3, <1>4 DEF ScanInv

\* The scan leaves the registers of the controller alone.
LEMMA ScanHbaInv ==
  ASSUME HbaOK, ScanStep, UNCHANGED hbaVars
  PROVE  HbaOK'
<1>1. /\ pc \in {"aml", "scan", "choose"}
      /\ pc' \in {"aml", "scan", "choose", "found", "no_controller"}
  BY DEF ScanStep, AmlStep, StartScan, Probe, Choose, Expect, scanVars
<1>2. UNCHANGED <<hba, mapped, index, touched>>
  BY DEF hbaVars
<1> QED
  BY <1>1, <1>2 DEF HbaOK

\* The invariant holds at boot.
LEMMA InitInv == Init => IInv
<1> SUFFICES ASSUME Init PROVE IInv
  OBVIOUS
<1>1. /\ config \in Boot /\ last = [op |-> "none"]
      /\ bus = 0 /\ device = 0 /\ function = 0
      /\ results = <<>> /\ k = 0 /\ sata_controller = <<>> /\ pc = "aml"
      /\ hba \in Controllers /\ index = 0 /\ touched = {}
  BY DEF Init, ScanInit
<1>2. ConfigOK
  BY <1>1, PciAssumption, ScanAssumption DEF ConfigOK, Present
<1>3. LoopOK
  <2>1. results \in Seq(Address) /\ Len(results) = 0
    BY <1>1
  <2> QED
    BY <1>1, <2>1, ScanAssumption DEF LoopOK
<1>4. ReadsExact /\ ChoosesLastAhci /\ HbaOK
  BY <1>1 DEF ReadsExact, ChoosesLastAhci, HbaOK
<1>5. ScanExact
  <2>1. Rank(Here) = 0 /\ Len(results) = 0
    BY <1>1 DEF Rank, Here
  <2>2. \A f \in Present : ~ (Rank(f) < 0)
    BY <1>2, RankFacts DEF ConfigOK
  <2> QED
    BY <2>1, <2>2 DEF ScanExact
<1> QED
  BY <1>1, <1>2, <1>3, <1>4, <1>5 DEF IInv, ScanInv

\* Every step keeps the invariant.
LEMMA NextInv ==
  ASSUME IInv, [Next]_allVars
  PROVE  IInv' /\ [AimedStep]_vars
<1>1. ScanInv /\ HbaOK
  BY DEF IInv
<1>2. CASE ScanStep /\ UNCHANGED hbaVars
  <2>1. CASE AmlStep \/ StartScan
    BY <1>1, <1>2, <2>1, AmlInv, ScanHbaInv DEF IInv
  <2>2. CASE Probe
    BY <1>1, <1>2, <2>2, ProbeInv, ScanHbaInv DEF IInv, vars, Probe
  <2>3. CASE Choose
    BY <1>1, <1>2, <2>3, ChooseInv, ScanHbaInv DEF IInv, vars, Choose
  <2>4. CASE Expect
    BY <1>1, <1>2, <2>4, ExpectInv, ScanHbaInv DEF IInv, vars, Expect
  <2> QED
    BY <1>2, <2>1, <2>2, <2>3, <2>4 DEF ScanStep
<1>3. CASE ReadBar \/ MapFrame \/ ReadPort
  <2>1. UNCHANGED vars
    BY <1>3 DEF ReadBar, MapFrame, ReadPort, found
  <2> QED
    BY <1>1, <1>3, <2>1, HbaScanInv, HbaStepInv DEF IInv
<1>4. CASE UNCHANGED allVars
  <2>1. /\ UNCHANGED vars /\ UNCHANGED <<config, last>>
        /\ UNCHANGED <<bus, device, function, results, k, sata_controller, pc>>
        /\ UNCHANGED <<hba, mapped, index, touched>>
    BY <1>4 DEF allVars, vars, scanVars, hbaVars
  <2>2. ConfigOK' /\ LoopOK' /\ ReadsExact'
    BY <1>1, <2>1 DEF ScanInv, ConfigOK, LoopOK, ReadsExact, Exact, Held, Present
  <2>3. ScanExact' /\ ChoosesLastAhci' /\ (pc' = "choose" => Chosen')
    <3>0. ScanExact /\ ChoosesLastAhci /\ (pc = "choose" => Chosen)
      BY <1>1, Zenon DEF ScanInv
    <3>1. ScanExact'
      <4>1. Rank(Here)' = Rank(Here) /\ Present' = Present /\ results' = results
        BY <2>1, Zenon DEF Rank, Here, Present
      <4> QED
        BY <3>0, <4>1 DEF ScanExact, Rank
    <3>2. AhciFunctions' = AhciFunctions
      BY <2>1, Zenon DEF AhciFunctions, Present, IsAhci
    <3>3. ChoosesLastAhci'
      BY <2>1, <3>0, <3>2, Zenon DEF ChoosesLastAhci, Rank
    <3>4. pc' = "choose" => Chosen'
      BY <2>1, <3>0, <3>2 DEF Chosen
    <3> QED
      BY <3>1, <3>3, <3>4
  <2>4. HbaOK'
    BY <1>1, <2>1 DEF HbaOK, Frames, port_count, LastFrame, FrameOf
  <2> QED
    BY <2>1, <2>2, <2>3, <2>4 DEF IInv, ScanInv
<1> QED
  BY <1>2, <1>3, <1>4 DEF Next, Stopped

-----------------------------------------------------------------------------
(* The theorems.                                                           *)

\* The invariant holds in every state.
LEMMA Inductive == Spec => []IInv
<1>1. IInv /\ [Next]_allVars => IInv'
  BY NextInv
<1> QED
  BY <1>1, InitInv, PTL DEF Spec

\* read_pci_u8 and read_pci_u32, and read_pci_u16 at an aligned offset, give the
\* interpreter what the function it names holds, in configuration spaces of any
\* size and contents.
THEOREM ReadsCorrect == Spec => []ReadsExact
<1>1. IInv => ReadsExact
  BY DEF IInv, ScanInv
<1> QED
  BY <1>1, Inductive, PTL

\* The writes of the AML handler change nothing but the register they name.
THEOREM WritesStayAimed == Spec => WritesAimed
<1>1. IInv /\ [Next]_allVars => [AimedStep]_vars
  BY NextInv
<1> QED
  BY <1>1, Inductive, PTL DEF Spec, WritesAimed, AimedStep

\* brute_force_find returns every function of every machine, each once, in the
\* order of the addresses, whichever of the 256 buses it scans.
THEOREM ScanComplete == Spec => []ScanExact
<1>1. IInv => ScanExact
  BY DEF IInv, ScanInv
<1> QED
  BY <1>1, Inductive, PTL

\* kernel_main goes on with the last AHCI controller, on every machine.
THEOREM ControllerChosen == Spec => []ChoosesLastAhci
<1>1. IInv => ChoosesLastAhci
  BY DEF IInv, ScanInv
<1> QED
  BY <1>1, Inductive, PTL

\* The ports that port_slice_mut hands out are mapped, wherever the registers
\* lie and however long they are.
THEOREM RegistersMapped == Spec => []PortsMapped
<1>1. IInv => PortsMapped
  BY PortsFollow DEF IInv
<1> QED
  BY <1>1, Inductive, PTL

=============================================================================
