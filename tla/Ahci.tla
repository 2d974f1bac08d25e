-------------------------------- MODULE Ahci --------------------------------
(***************************************************************************)
(* kernel_main from the start of ACPI to the SATA ports (src/src/main.rs): *)
(* after PciScan the registers behind the ABAR of the controller that was  *)
(* found are identity mapped frame by frame, then the ports of             *)
(* port_slice_mut (src/src/ahci.rs) are read.                              *)
(***************************************************************************)
EXTENDS PciScan, FiniteSets

CONSTANTS
  FRAME,       \* bytes of a frame: 0x1000
  Controllers, \* controllers: kind of ABAR, its address and size, implemented ports
  Taken        \* frames that were identity mapped before

PORTS == 32            \* length of HBAMemoryRegisters::ports
PORTS_OFFSET == 256    \* offset of HBAMemoryRegisters::ports
PORT_SIZE == 128       \* bytes of HBAPortRegisters

\* The registers of a controller reach to the end of its last port.
ASSUME AhciAssumption ==
  /\ FRAME \in Nat \ {0}
  /\ \A c \in Controllers :
       /\ c.abar \in Nat /\ c.size \in Nat \ {0}
       /\ \A p \in c.port_implemented :
            p \in 0 .. PORTS - 1 /\ PORTS_OFFSET + (p + 1) * PORT_SIZE <= c.size

VARIABLES
  hba,      \* the controller
  mapped,   \* frames that are identity mapped
  index,    \* the loop variable: a frame, then a port
  touched   \* ghost: the ports that have been read

hbaVars == <<hba, mapped, index, touched>>
allVars == <<vars, scanVars, hbaVars>>

\* Everything of PciScan but pc.
found == <<vars, bus, device, function, results, k, sata_controller>>

FrameOf(addr) == addr \div FRAME

\* bar(5): the controller must have an ABAR, in memory space.
ReadBar ==
  /\ pc = "found"
  /\ IF hba.bar = "memory" THEN pc' = "map" /\ index' = FrameOf(hba.abar)
     ELSE pc' = "panic" /\ UNCHANGED index
  /\ UNCHANGED <<found, hba, mapped, touched>>

LastFrameExclusive == FrameOf(hba.abar + hba.size - 1) - 1

\* The last frame of the inclusive range over the ABAR.
LastFrame == FrameOf(hba.abar + hba.size - 1)

\* mmap_dev of one frame; a frame that is mapped already is a panic.
MapFrame ==
  /\ pc = "map"
  /\ IF index > LastFrame THEN pc' = "ports" /\ index' = 0 /\ UNCHANGED mapped
     ELSE IF index \in mapped THEN pc' = "panic" /\ UNCHANGED <<index, mapped>>
     ELSE mapped' = mapped \cup {index} /\ index' = index + 1 /\ UNCHANGED pc
  /\ UNCHANGED <<found, hba, touched>>

port_count == Cardinality(hba.port_implemented)

\* port_slice_mut has the first port_count elements of the array.
ReadPort ==
  /\ pc = "ports"
  /\ IF index < port_count
     THEN touched' = touched \cup {index} /\ index' = index + 1 /\ UNCHANGED pc
     ELSE pc' = "done" /\ UNCHANGED <<touched, index>>
  /\ UNCHANGED <<found, hba, mapped>>

\* The loop over the ports is over, or something panicked.
Stopped ==
  /\ pc \in {"done", "panic", "no_controller"} \/ last.op = "panic"
  /\ UNCHANGED allVars

Init ==
  /\ ScanInit
  /\ hba \in Controllers
  /\ mapped = Taken /\ index = 0 /\ touched = {}

Next ==
  \/ ScanStep /\ UNCHANGED hbaVars
  \/ ReadBar \/ MapFrame \/ ReadPort
  \/ Stopped

Spec == Init /\ [][Next]_allVars

-----------------------------------------------------------------------------
(* Properties.                                                             *)

PortBytes(p) == PORTS_OFFSET + p * PORT_SIZE .. PORTS_OFFSET + (p + 1) * PORT_SIZE - 1

\* Every register that the loop over the ports reads belongs to the controller
\* and lies in a frame that was mapped before, for every number of ports, also
\* when the registers fill more than one frame; the slice stays in the array.
PortsMapped ==
  \A p \in touched :
    /\ p < PORTS
    /\ \A b \in PortBytes(p) : b < hba.size /\ FrameOf(hba.abar + b) \in mapped

=============================================================================
