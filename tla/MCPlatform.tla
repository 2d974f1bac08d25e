----------------------------- MODULE MCPlatform -----------------------------
(***************************************************************************)
(* Firmware descriptions of one and two small I/O APICs, and platforms     *)
(* with one or two power management blocks, with and without an SMI port,  *)
(* without S5, with one sleep type and with two that differ.               *)
(***************************************************************************)
EXTENDS Platform

Device(base, entries, frame) == [base |-> base, entries |-> entries, frame |-> frame]
Override(isa, gsi) == [isa |-> isa, gsi |-> gsi]
Description(io_apics, overrides) == [io_apics |-> io_apics, overrides |-> overrides]

First == Device(0, 4, 1)
Second == Device(4, 8, 2)

\* The lists of overrides: none, the usual one for the timer with one for a line
\* apic_init does not touch, the timer on the last pin, and the keyboard moved.
Overrides == { <<>>, <<Override(9, 3), Override(0, 2)>>, <<Override(0, 3)>>,
               <<Override(0, 2), Override(1, 0)>> }

\* The first listed I/O APIC starts at 0 and has both lines; in the last
\* description the two share a frame.
MCFirmware ==
  {Description(<<First>>, o) : o \in Overrides}
    \cup {Description(<<First, Second>>, o) : o \in Overrides}
    \cup {Description(<<First, [Second EXCEPT !.frame = 1]>>, <<>>)}

\* The same two I/O APICs, listed the other way round.
MCDescending == {Description(<<Second, First>>, <<>>)}

\* Masked, as after reset, with or without a destination, polarity and trigger.
MCBootEntry == {{MASKED}, {MASKED, 56}, {MASKED, 13, 15, 57}}

\* Firmware packs the types of both blocks into the first item of its package.
Power(smi, pm1b, s5, a, b) ==
  [smi |-> smi, pm1b |-> pm1b, s5 |-> s5, types |-> [a |-> a, b |-> b]]

MCPlatforms ==
  UNION {{Power(smi, pm1b, -1, 0, 0), Power(smi, pm1b, 5, 5, 0),
          Power(smi, pm1b, 5 + 7 * 256, 5, 7)} : smi \in BOOLEAN, pm1b \in BOOLEAN}

=============================================================================
