------------------------------- MODULE MCAhci -------------------------------
(***************************************************************************)
(* Machines with functions at the first and last addresses of a bus and a  *)
(* device, with no, one and two AHCI controllers; the registers of the     *)
(* controller take part of a frame, or two frames with a port in the       *)
(* second.                                                                 *)
(***************************************************************************)
EXTENDS Ahci

At(b, d, f) == [bus |-> b, device |-> d, function |-> f]

\* A function whose vendor has the low byte 0xFF, its class and header type.
Header(class, type) ==
  [o \in Offset |-> CASE o = 0 -> 255
                      [] o = 1 -> 16
                      [] o = 2 -> 17
                      [] o \in 9 .. 11 -> class[o - 8]
                      [] o = 14 -> type
                      [] OTHER -> 0]

SataClass == <<1, 6, 1>>
BridgeClass == <<0, 4, 6>>

\* A bridge, a function at the last address, and the given ones.
Machine(ahci) ==
  [f \in {At(0, 0, 0), At(BUSES - 1, 31, 7)} \cup DOMAIN ahci |->
     IF f \in DOMAIN ahci THEN Header(SataClass, ahci[f]) ELSE Header(BridgeClass, 1)]

MCBoot ==
  { Machine([f \in {} |-> 0]),
    Machine([f \in {At(0, 31, 2)} |-> 0]),
    Machine([f \in {At(0, 31, 7), At(1, 0, 0)} |-> 128]),
    Machine([f \in {At(0, 31, 7), At(1, 0, 0)} |-> IF f.bus = 0 THEN 0 ELSE 1]) }

\* The interpreter reaches a controller of the second machine and, there, one of
\* the function numbers that nothing answers.
MCAsked == {At(0, 31, 2), At(0, 31, 4)}

MCWords == {[i \in Lane |-> 255], [i \in Lane |-> IF i = 3 THEN 255 ELSE 0]}

Controller(abar, size, ports) ==
  [bar |-> "memory", abar |-> abar, size |-> size, port_implemented |-> ports]

MCControllers ==
  { Controller(7 * 4096 + 3072, 1024, 0 .. 5), Controller(6 * 4096 + 1024, 1024, {1, 4}),
    Controller(8192, 8192, 0 .. 31), Controller(16384, 8192, {0, 31}),
    [Controller(0, 1024, {0}) EXCEPT !.bar = "io"] }

=============================================================================
