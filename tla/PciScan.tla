------------------------------ MODULE PciScan -------------------------------
(***************************************************************************)
(* kernel_main up to the SATA controller (src/src/main.rs): the AML        *)
(* interpreter runs, then brute_force_find of src/src/pci.rs visits every  *)
(* address, then the controller is chosen among the functions found.       *)
(***************************************************************************)
EXTENDS PciConfig, Sequences

CONSTANT BUSES   \* bound: buses that are scanned, 256 in the code

ASSUME ScanAssumption ==
  BUSES \in 1 .. 256 /\ \A m \in Boot : \A f \in DOMAIN m : f.bus < BUSES

VARIABLES
  bus, device, function,  \* the loop variables of brute_force_find
  results,                \* the functions found
  k,                      \* how many of them kernel_main has looked at
  sata_controller,        \* its choice so far, a sequence of length 0 or 1
  pc                      \* where kernel_main is

scanVars == <<bus, device, function, results, k, sata_controller, pc>>

Here == [bus |-> bus, device |-> device, function |-> function]

function_exists_low_byte(register) == register[0] # Ones

\* function_exists: the vendor is the low half of the first register.
function_exists(register) == register[0] # Ones \/ register[1] # Ones

\* A region access of the interpreter, which runs before the devices are looked for.
AmlStep == pc = "aml" /\ last.op # "panic" /\ AmlCall /\ UNCHANGED scanVars

StartScan ==
  /\ pc = "aml" /\ last.op # "panic"
  /\ pc' = "scan"
  /\ last' = [op |-> "none"]
  /\ UNCHANGED <<config, bus, device, function, results, k, sata_controller>>

\* The three loops of brute_force_find, one address a step.
Probe ==
  /\ pc = "scan"
  /\ results' = IF function_exists(Read(Here, 0)) THEN Append(results, Here) ELSE results
  /\ function' = (function + 1) % 8
  /\ device' = IF function = 7 THEN (device + 1) % 32 ELSE device
  /\ bus' = IF function = 7 /\ device = 31 THEN bus + 1 ELSE bus
  /\ pc' = IF bus' = BUSES THEN "choose" ELSE "scan"
  /\ UNCHANGED <<config, last, k, sata_controller>>

\* Class, subclass and interface of a SATA controller with an AHCI interface.
IsAhci(register) == register[3] = 1 /\ register[2] = 6 /\ register[1] = 1

\* EndpointHeader::from_header: the header type, without its multifunction bit.
IsEndpoint(register) == register[2] % 128 = 0

ChooseAny ==
  /\ pc = "choose" /\ k < Len(results)
  /\ k' = k + 1
  /\ sata_controller' = <<results[k + 1]>>
  /\ UNCHANGED <<config, last, bus, device, function, results, pc>>

\* One round of the loop of kernel_main over the results.
Choose ==
  /\ pc = "choose" /\ k < Len(results)
  /\ LET f == results[k + 1]
     IN  IF ~ IsAhci(Read(f, 8)) THEN UNCHANGED <<sata_controller, pc>>
         ELSE IF IsEndpoint(Read(f, 12)) THEN sata_controller' = <<f>> /\ UNCHANGED pc
         ELSE pc' = "no_controller" /\ UNCHANGED sata_controller
  /\ k' = k + 1
  /\ UNCHANGED <<config, last, bus, device, function, results>>

\* The expect after the loop.
Expect ==
  /\ pc = "choose" /\ k = Len(results)
  /\ pc' = IF sata_controller = <<>> THEN "no_controller" ELSE "found"
  /\ UNCHANGED <<config, last, bus, device, function, results, k, sata_controller>>

ScanInit ==
  /\ config \in Boot
  /\ last = [op |-> "none"]
  /\ bus = 0 /\ device = 0 /\ function = 0
  /\ results = <<>> /\ k = 0 /\ sata_controller = <<>>
  /\ pc = "aml"

ScanStep == AmlStep \/ StartScan \/ Probe \/ Choose \/ Expect

-----------------------------------------------------------------------------
(* Properties.                                                             *)

\* The order in which the loops reach an address.
Rank(f) == f.bus * 256 + f.device * 8 + f.function

\* At every point of the scan the results are the functions of the machine at
\* the addresses passed so far, each once and in the order of the addresses.
ScanExact ==
  /\ \A i, j \in 1 .. Len(results) : i < j => Rank(results[i]) < Rank(results[j])
  /\ {results[i] : i \in 1 .. Len(results)} = {f \in Present : Rank(f) < Rank(Here)}

AhciFunctions == {f \in Present : IsAhci([i \in Lane |-> config[f][8 + i]])}

\* kernel_main goes on with the AHCI controller of the highest address; it
\* panics only when there is none, or when one is not an endpoint.
ChoosesLastAhci ==
  /\ pc = "found" => \E f \in AhciFunctions :
                       /\ sata_controller = <<f>>
                       /\ config[f][14] % 128 = 0
                       /\ \A g \in AhciFunctions : Rank(g) <= Rank(f)
  /\ pc = "no_controller" =>
       AhciFunctions = {} \/ \E f \in AhciFunctions : config[f][14] % 128 # 0

=============================================================================
