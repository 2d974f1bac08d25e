----------------------------- MODULE AcpiPower ------------------------------
(***************************************************************************)
(* Acpi::enable and Acpi::set_sleep_state of src/src/acpi.rs as            *)
(* kernel_main uses them: the firmware is asked to switch the power        *)
(* management blocks PM1a and PM1b to ACPI mode and answers some time      *)
(* later or never; at the end both blocks are told to enter S5.            *)
(***************************************************************************)
EXTENDS Integers

CONSTANTS
  POLLS,      \* polls of enable before it gives up: 300 in the code
  Platforms   \* smi: there is an SMI command port and a command for it;
              \* pm1b: there is a second block; s5: the first item of \_S5, or
              \* -1; types: the sleep type of S5 that each block obeys

ASSUME PowerAssumption ==
  /\ POLLS \in Nat \ {0}
  /\ Platforms \subseteq [smi : BOOLEAN, pm1b : BOOLEAN, s5 : Int,
                           types : [{"a", "b"} -> 0 .. 7]]

VARIABLES
  platform,  \* what the firmware reports, and what the hardware obeys
  stage,     \* what kernel_main does next
  polls,     \* polls of enable that are over
  asked,     \* the enable command was written to the SMI command port
  sci,       \* blocks with SCI_EN set
  slept,     \* blocks that were written with SLP_EN, and the sleep type
  power,     \* "on" or "off"
  answered   \* ghost: polls that were over when the last block switched

powerVars == <<platform, stage, polls, asked, sci, slept, power, answered>>

Blocks == IF platform.pm1b THEN {"a", "b"} ELSE {"a"}

-----------------------------------------------------------------------------
(* kernel_main                                                             *)

Enable ==
  /\ stage = "enable"
  /\ IF platform.smi THEN asked' = TRUE /\ stage' = "poll_a"
     ELSE stage' = "panic_enable" /\ UNCHANGED asked
  /\ UNCHANGED <<platform, polls, sci, slept, power, answered>>

PollAOneLess ==
  /\ stage = "poll_a"
  /\ stage' = IF polls = POLLS - 1 THEN "panic_enable"
              ELSE IF "a" \notin sci THEN "sleep"
              ELSE IF platform.pm1b THEN "poll_b" ELSE "enabled"
  /\ UNCHANGED <<platform, polls, asked, sci, slept, power, answered>>

PollAOnly ==
  /\ stage = "poll_a"
  /\ stage' = IF polls = POLLS THEN "panic_enable"
              ELSE IF "a" \notin sci THEN "sleep" ELSE "enabled"
  /\ UNCHANGED <<platform, polls, asked, sci, slept, power, answered>>

\* The head of the loop, and the first half of its condition.
PollA ==
  /\ stage = "poll_a"
  /\ stage' = IF polls = POLLS THEN "panic_enable"
              ELSE IF "a" \notin sci THEN "sleep"
              ELSE IF platform.pm1b THEN "poll_b" ELSE "enabled"
  /\ UNCHANGED <<platform, polls, asked, sci, slept, power, answered>>

PollB ==
  /\ stage = "poll_b"
  /\ stage' = IF "b" \in sci THEN "enabled" ELSE "sleep"
  /\ UNCHANGED <<platform, polls, asked, sci, slept, power, answered>>

\* sleep(10) returns: see Interrupts.
Sleep ==
  /\ stage = "sleep"
  /\ stage' = "poll_a"
  /\ polls' = polls + 1
  /\ UNCHANGED <<platform, asked, sci, slept, power, answered>>

SleepTypesUnmasked == [a |-> platform.s5, b |-> platform.s5 \div 256]

\* get_sleep_state: the two sleep types in the first item of the package.
SleepTypes == [a |-> platform.s5 % 8, b |-> (platform.s5 \div 256) % 8]

GetSleepState ==
  /\ stage = "enabled"
  /\ stage' = IF platform.s5 < 0 THEN "panic_shutdown" ELSE "write_a"
  /\ UNCHANGED <<platform, polls, asked, sci, slept, power, answered>>

\* The word that is written has no SCI_EN.
WriteControl(b) ==
  /\ slept' = slept \cup {<<b, SleepTypes[b]>>}
  /\ sci' = sci \ {b}

WriteAOnly ==
  /\ stage = "write_a"
  /\ WriteControl("a")
  /\ stage' = "unreachable"
  /\ UNCHANGED <<platform, polls, asked, power, answered>>

WriteA ==
  /\ stage = "write_a"
  /\ WriteControl("a")
  /\ stage' = IF platform.pm1b THEN "write_b" ELSE "unreachable"
  /\ UNCHANGED <<platform, polls, asked, power, answered>>

WriteB ==
  /\ stage = "write_b"
  /\ WriteControl("b")
  /\ stage' = "unreachable"
  /\ UNCHANGED <<platform, polls, asked, power, answered>>

\* set_sleep_state returned: kernel_main runs into unreachable!().
Unreachable ==
  /\ stage = "unreachable"
  /\ stage' = "panic_unreachable"
  /\ UNCHANGED <<platform, polls, asked, sci, slept, power, answered>>

\* Acpi::enable, and the end of kernel_main.
EnableStep == Enable \/ PollA \/ PollB \/ Sleep

ShutdownStep == GetSleepState \/ WriteA \/ WriteB \/ Unreachable

KernelStep == power = "on" /\ (EnableStep \/ ShutdownStep)

-----------------------------------------------------------------------------
(* The platform, external to the kernel.                                   *)

SwitchBlock(b) ==
  /\ asked /\ power = "on" /\ slept = {} /\ b \in Blocks \ sci
  /\ sci' = sci \cup {b}
  /\ answered' = IF sci' = Blocks THEN polls ELSE answered
  /\ UNCHANGED <<platform, stage, polls, asked, slept, power>>

\* The machine enters S5 when every block was given the type it obeys.
PowerOff ==
  /\ power = "on" /\ slept = {<<b, platform.types[b]>> : b \in Blocks}
  /\ power' = "off"
  /\ UNCHANGED <<platform, stage, polls, asked, sci, slept, answered>>

PowerHalted == power = "off" \/ stage \in {"panic_enable", "panic_shutdown", "panic_unreachable"}

PowerStopped == PowerHalted /\ UNCHANGED powerVars

PowerInit ==
  /\ platform \in Platforms
  /\ stage = "enable" /\ polls = 0 /\ asked = FALSE
  /\ sci = {} /\ slept = {} /\ power = "on" /\ answered = POLLS + 1

PowerNext == KernelStep \/ (\E b \in Blocks : SwitchBlock(b)) \/ PowerOff \/ PowerStopped

PowerSpec == PowerInit /\ [][PowerNext]_powerVars

-----------------------------------------------------------------------------
(* Properties.                                                             *)

PowerTypeOK ==
  /\ platform \in Platforms
  /\ stage \in {"enable", "poll_a", "poll_b", "sleep", "enabled", "write_a", "write_b",
             "unreachable", "panic_enable", "panic_shutdown", "panic_unreachable"}
  /\ polls \in 0 .. POLLS
  /\ asked \in BOOLEAN
  /\ sci \subseteq Blocks
  /\ slept \subseteq Blocks \X (0 .. 7)
  /\ power \in {"on", "off"}
  /\ answered \in 0 .. POLLS + 1

\* enable returns true only when both blocks are in ACPI mode, though it reads
\* them one after the other while the firmware switches them.
EnabledMeansBoth == stage \in {"enabled", "panic_shutdown", "write_a"} => sci = Blocks

\* enable gives up only if the firmware had not finished when the last poll
\* began: an answer that arrives during a sleep is seen, and one that is later
\* than the last poll is the only one that is not.
TimeoutMeansLate == (stage = "panic_enable" /\ platform.smi) => answered >= POLLS - 1

=============================================================================
