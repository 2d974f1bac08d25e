------------------------------ MODULE Platform ------------------------------
(***************************************************************************)
(* kernel_main (src/src/main.rs) on the platform that the firmware         *)
(* describes: ACPI is enabled, apic_init runs, and the machine is shut     *)
(* down, each after the one before has returned.  What lies between        *)
(* apic_init and the shutdown, and may panic too, is in PciScan and Ahci.  *)
(***************************************************************************)
EXTENDS IoApic, AcpiPower

platformVars == <<vars, powerVars>>

ApicStep == MapDevice \/ GetEntry \/ SetEntryLow \/ SetEntryHigh

EnableFirst == EnableStep /\ UNCHANGED vars

\* apic_init is called when enable has returned true.
ThenApic == stage = "enabled" /\ ApicStep /\ UNCHANGED powerVars

\* The shutdown begins when apic_init has returned.
ThenShutdown == pc = "done" /\ ShutdownStep /\ UNCHANGED vars

KernelMain == power = "on" /\ (EnableFirst \/ ThenApic \/ ThenShutdown)

\* The platform acts by itself.
Hardware == ((\E b \in Blocks : SwitchBlock(b)) \/ PowerOff) /\ UNCHANGED vars

\* The machine is off, or a panic has halted the kernel.
PlatformHalted == (PowerHalted \/ pc = "panic") /\ UNCHANGED platformVars

PlatformInit == Init /\ PowerInit

PlatformNext == KernelMain \/ Hardware \/ PlatformHalted

PlatformSpec == PlatformInit /\ [][PlatformNext]_platformVars

\* The processor runs, and the machine obeys a complete request to power off;
\* the firmware need not answer.
PlatformFairSpec ==
  /\ PlatformSpec
  /\ WF_platformVars(KernelMain)
  /\ WF_platformVars(PowerOff /\ UNCHANGED vars)

-----------------------------------------------------------------------------
(* Properties.                                                             *)

\* The kernel ends with the machine off, even though it panics in unreachable!()
\* while the request takes effect, or it reports that ACPI could not be enabled,
\* that there is no S5, or that apic_init could not map or route a device.
ShutsDown ==
  <>(power = "off" \/ stage \in {"panic_enable", "panic_shutdown"} \/ pc = "panic")

=============================================================================
