----------------------------- MODULE Interrupts -----------------------------
(***************************************************************************)
(* The boot processor of the kernel: kernel_main and its panic path, the   *)
(* interrupt and exception handlers of src/src/interrupts/mod.rs, the      *)
(* spin locks they share, and the interrupt controllers that decide which  *)
(* handler runs next.                                                      *)
(*                                                                         *)
(* Each program is the sequence of its steps that touch the interrupt      *)
(* flag, a lock, or a controller.  Interrupt and exception gates clear the *)
(* interrupt flag; handlers run on top of what they interrupted, so that a *)
(* handler that spins on a lock held below it spins for ever.              *)
(***************************************************************************)
EXTENDS Integers, Sequences

CONSTANTS
  SLEEP_MS,   \* argument of the sleep calls in Acpi::enable: 10 in the code
  POLLS,      \* polls of Acpi::enable before it gives up: 300 in the code
  Faulting    \* bound: programs in which a double fault is tried

ASSUME SleepAssumption ==
  /\ SLEEP_MS \in Nat \ {0} /\ POLLS \in Nat \ {0}
  /\ Faulting \subseteq {"main", "timer", "keyboard"}

Lock == {"PICS", "WRITER", "SERIAL1", "KEYBOARD", "PAGING_CTX"}

\* The two interrupt lines with a handler: vectors 32 and 33.
Timer == 0
Keyboard == 1
Irq == {Timer, Keyboard}

-----------------------------------------------------------------------------
(* The programs.                                                           *)

Step(action, arg) == << <<action, arg>> >>

WithoutInterrupts(body) == Step("cli", 0) \o body \o Step("popf", 0)

Locked(l, body) == Step("lock", l) \o body \o Step("unlock", l)

VgaPrintInterruptible == Locked("WRITER", <<>>)

\* vga_buffer::_print
VgaPrint == WithoutInterrupts(Locked("WRITER", <<>>))

\* Logger::log prints to the serial port in several sections.
SerialPrint == WithoutInterrupts(Locked("SERIAL1", <<>>))
Log == SerialPrint \o SerialPrint

\* map_range, mmap_dev and unmap: the lock is taken with interrupts on.
PagingCall == Locked("PAGING_CTX", Step("work", 0))

HandoverNoMask == Step("set_apic", 0) \o Step("enable_lapic", 0) \o Step("work", 0)

\* InterruptController::apic_handover
Handover == Step("set_apic", 0) \o Step("enable_lapic", 0) \o Step("mask_pics", 0)

ApicInitTimerOnly ==
  WithoutInterrupts(PagingCall \o Locked("PICS", Handover) \o PagingCall
                      \o Step("route", Timer))

\* apic_init
ApicInit ==
  WithoutInterrupts(PagingCall \o Locked("PICS", Handover) \o PagingCall
                      \o Step("route", Timer) \o Step("route", Keyboard))

\* The body of the loop in Acpi::enable: a look at the port, then sleep, which
\* is a loop around one hlt.
EnableLoop == Step("poll", 0) \o Step("hlt", 0)

KernelInitEarlySti ==
  Step("load", "gdt") \o Step("load", "idt") \o Step("sti", 0)
    \o Locked("PICS", Step("init_pics", 0)) \o PagingCall

\* init, as far as it touches interrupts and locks: the descriptor tables, with
\* the stack of the double fault handler, the PICs, interrupts, memory.
KernelInit ==
  Step("load", "gdt") \o Step("load", "idt")
    \o Locked("PICS", Step("init_pics", 0)) \o Step("sti", 0) \o PagingCall

\* kernel_main: the boot messages, init, bios_get_acpi, enable (which ends in a
\* panic when no poll succeeds), apic_init, the drivers and the shutdown.
MainStart == VgaPrint \o KernelInit \o Log \o PagingCall \o EnableLoop
MainEnd == Step("enabled", 0) \o Log \o ApicInit \o PagingCall \o Log
             \o Step("work", 0) \o Step("off", 0)

Main == MainStart \o Step("panic", 0) \o MainEnd

EnabledPc == Len(MainStart) + 2

TimerHandlerNoEoi == Locked("PICS", <<>>) \o Step("iret", 0)

\* timer_interrupt_handler
TimerHandler == Locked("PICS", Step("eoi", Timer)) \o Step("iret", 0)

KeyboardHandlerNoRead ==
  Locked("KEYBOARD",
         Step("maybe_skip", Len(VgaPrint)) \o VgaPrint
           \o Locked("PICS", Step("eoi", Keyboard)))
    \o Step("iret", 0)

\* keyboard_interrupt_handler: not every scancode completes a key to print.
KeyboardHandler ==
  Locked("KEYBOARD",
         Step("read_port", 0) \o Step("maybe_skip", Len(VgaPrint)) \o VgaPrint
           \o Locked("PICS", Step("eoi", Keyboard)))
    \o Step("iret", 0)

\* breakpoint_handler
BreakpointHandler == VgaPrint \o Step("iret", 0)

\* page_fault_handler: translates the address if it can have the mapper.
PageFaultHandler ==
  VgaPrint \o Step("try_lock", "PAGING_CTX") \o VgaPrint \o Step("unlock", "PAGING_CTX")
    \o Step("hlt_loop", 0)

\* The panic handler of main.rs.
PanicHandler == VgaPrint \o Log \o Step("hlt_loop", 0)

\* double_fault_handler panics.
DoubleFaultHandler == PanicHandler

\* A fault that finds no handler resets the machine.
TripleFault == Step("off", 0)

Program ==
  [main |-> Main, timer |-> TimerHandler, keyboard |-> KeyboardHandler,
   breakpoint |-> BreakpointHandler, page_fault |-> PageFaultHandler,
   double_fault |-> DoubleFaultHandler, panic |-> PanicHandler, reset |-> TripleFault]

-----------------------------------------------------------------------------

VARIABLES
  stack,       \* the contexts, the running one last
  iflag,       \* the interrupt flag of the processor
  loaded,      \* what init has set up: "gdt", "idt", and "pics" for the vectors
  locks,       \* for each lock the stack depth of its holder, 0 when free
  controller,  \* PICS: the variant of InterruptController
  pic,         \* the 8259 pair: requests, in-service lines, mask
  lapic,       \* the local APIC: requests, in-service lines, software enable
  routed,      \* lines whose I/O APIC entry has its vector and is unmasked
  kbd_full,    \* the keyboard controller holds a byte that nobody has read
  missed,      \* ghost: a keyboard edge was lost with interrupts off
  halts,       \* the loops of Acpi::enable and sleep: the hlts that have ended
  ticks        \* ghost: timer interrupts in Acpi::enable since its last poll, capped

deviceVars == <<pic, lapic, routed>>
sleepVars == <<halts, ticks>>
vars == <<stack, iflag, loaded, locks, controller, deviceVars, kbd_full, missed, sleepVars>>

Depth == Len(stack)
Top == stack[Depth]
Instr == Program[Top.prog][Top.pc]
Op == Instr[1]
Arg == Instr[2]

Context(prog) == [prog |-> prog, pc |-> 1, saved |-> <<>>, iret_if |-> iflag]

Goto(pc) == stack' = [stack EXCEPT ![Depth].pc = pc]
Continue == Goto(Top.pc + 1)

-----------------------------------------------------------------------------
(* Steps of the running program.                                           *)

Cli ==
  /\ Op = "cli"
  /\ stack' = [stack EXCEPT ![Depth].pc = @ + 1, ![Depth].saved = Append(@, iflag)]
  /\ iflag' = FALSE
  /\ UNCHANGED <<loaded, locks, controller, deviceVars, kbd_full, missed, sleepVars>>

\* The end of without_interrupts: interrupts are enabled only if they were.
Popf ==
  /\ Op = "popf"
  /\ stack' = [stack EXCEPT ![Depth].pc = @ + 1, ![Depth].saved = SubSeq(@, 1, Len(@) - 1)]
  /\ iflag' = Top.saved[Len(Top.saved)]
  /\ UNCHANGED <<loaded, locks, controller, deviceVars, kbd_full, missed, sleepVars>>

Sti ==
  /\ Op = "sti"
  /\ Continue
  /\ iflag' = TRUE
  /\ UNCHANGED <<loaded, locks, controller, deviceVars, kbd_full, missed, sleepVars>>

\* spin::Mutex::lock: take the lock, or go round the spin loop.
TakeLock ==
  /\ Op = "lock"
  /\ IF locks[Arg] = 0 THEN Continue /\ locks' = [locks EXCEPT ![Arg] = Depth]
     ELSE UNCHANGED <<stack, locks>>
  /\ UNCHANGED <<loaded, iflag, controller, deviceVars, kbd_full, missed, sleepVars>>

\* try_lock, past the print and the unlock when it fails.
TryLock ==
  /\ Op = "try_lock"
  /\ IF locks[Arg] = 0 THEN Continue /\ locks' = [locks EXCEPT ![Arg] = Depth]
     ELSE Goto(Top.pc + Len(VgaPrint) + 2) /\ UNCHANGED locks
  /\ UNCHANGED <<loaded, iflag, controller, deviceVars, kbd_full, missed, sleepVars>>

Unlock ==
  /\ Op = "unlock"
  /\ Continue
  /\ locks' = [locks EXCEPT ![Arg] = 0]
  /\ UNCHANGED <<loaded, iflag, controller, deviceVars, kbd_full, missed, sleepVars>>

Work ==
  /\ Op \in {"work", "enabled"}
  /\ Continue
  /\ UNCHANGED <<loaded, iflag, locks, controller, deviceVars, kbd_full, missed, sleepVars>>

\* Acpi::enable reads the control registers: enabled, or another round.
Poll ==
  /\ Op = "poll"
  /\ \/ Continue /\ UNCHANGED halts
     \/ Goto(EnabledPc) /\ halts' = 0
  /\ ticks' = 0
  /\ UNCHANGED <<loaded, iflag, locks, controller, deviceVars, kbd_full, missed>>

\* A byte that completes no key is not printed.
MaybeSkip ==
  /\ Op = "maybe_skip"
  /\ Continue \/ Goto(Top.pc + Arg + 1)
  /\ UNCHANGED <<loaded, iflag, locks, controller, deviceVars, kbd_full, missed, sleepVars>>

ReadPort ==
  /\ Op = "read_port"
  /\ Continue
  /\ kbd_full' = FALSE
  /\ UNCHANGED <<loaded, iflag, locks, controller, deviceVars, missed, sleepVars>>

Iret ==
  /\ Op = "iret"
  /\ stack' = SubSeq(stack, 1, Depth - 1)
  /\ iflag' = Top.iret_if
  /\ UNCHANGED <<loaded, locks, controller, deviceVars, kbd_full, missed, sleepVars>>

\* main panics: nothing is unwound, and the locks it holds stay held.
EnterPanic == stack' = [stack EXCEPT ![Depth] = Context("panic")]

ExplicitPanic ==
  /\ Op = "panic"
  /\ EnterPanic
  /\ UNCHANGED <<loaded, iflag, locks, controller, deviceVars, kbd_full, missed, sleepVars>>

-----------------------------------------------------------------------------
(* InterruptController and the I/O APIC.                                   *)

\* gdt::init and init_idt
Load ==
  /\ Op = "load"
  /\ Continue
  /\ loaded' = loaded \cup {Arg}
  /\ UNCHANGED <<iflag, locks, controller, deviceVars, kbd_full, missed, sleepVars>>

\* The initialization words give the PICs their vectors and reset their edge
\* detection.
InitPics ==
  /\ Op = "init_pics"
  /\ Continue
  /\ loaded' = loaded \cup {"pics"}
  /\ pic' = [pic EXCEPT !.irr = {}, !.isr = {}]
  /\ missed' = (missed \/ Keyboard \in pic.irr)
  /\ UNCHANGED <<iflag, locks, controller, lapic, routed, kbd_full, sleepVars>>

\* The line in service with the highest priority: on the PIC the lowest line,
\* on the local APIC the highest vector.
PicInService == CHOOSE i \in pic.isr : \A j \in pic.isr : i <= j
LapicInService == CHOOSE i \in lapic.isr : \A j \in lapic.isr : i >= j

\* notify_end_of_interrupt: the command goes to the current controller.
Eoi ==
  /\ Op = "eoi"
  /\ Continue
  /\ IF controller = "Pics"
     THEN /\ pic' = [pic EXCEPT !.isr = IF @ = {} THEN @ ELSE @ \ {PicInService}]
          /\ UNCHANGED lapic
     ELSE /\ lapic' = [lapic EXCEPT !.isr = IF @ = {} THEN @ ELSE @ \ {LapicInService}]
          /\ UNCHANGED pic
  /\ UNCHANGED <<loaded, iflag, locks, controller, routed, kbd_full, missed, sleepVars>>

SetApic ==
  /\ Op = "set_apic"
  /\ Continue
  /\ controller' = "Apic"
  /\ UNCHANGED <<loaded, iflag, locks, deviceVars, kbd_full, missed, sleepVars>>

EnableLapic ==
  /\ Op = "enable_lapic"
  /\ Continue
  /\ lapic' = [lapic EXCEPT !.enabled = TRUE]
  /\ UNCHANGED <<loaded, iflag, locks, controller, pic, routed, kbd_full, missed, sleepVars>>

\* A request that waits in the PIC is never delivered once the PIC is masked.
MaskPics ==
  /\ Op = "mask_pics"
  /\ Continue
  /\ pic' = [pic EXCEPT !.masked = TRUE]
  /\ missed' = (missed \/ Keyboard \in pic.irr)
  /\ UNCHANGED <<loaded, iflag, locks, controller, lapic, routed, kbd_full, sleepVars>>

\* get_entry, set_vector, set_masked(false) and set_entry for one line.
Route ==
  /\ Op = "route"
  /\ Continue
  /\ routed' = routed \cup {Arg}
  /\ UNCHANGED <<loaded, iflag, locks, controller, pic, lapic, kbd_full, missed, sleepVars>>

CpuStep ==
  \/ Cli \/ Popf \/ Sti \/ TakeLock \/ TryLock \/ Unlock \/ Work \/ Poll \/ MaybeSkip
  \/ ReadPort \/ Iret \/ ExplicitPanic \/ Load \/ InitPics \/ Eoi \/ SetApic \/ EnableLapic
  \/ MaskPics \/ Route

-----------------------------------------------------------------------------
(* The hardware, external to the kernel.                                   *)

\* The machine is off, or the processor is halted with interrupts off.
Dead == Op = "off" \/ (Op = "hlt_loop" /\ ~ iflag)

\* What devices do then no longer matters.
Latch(irq) ==
  /\ ~ Dead
  /\ pic' = [pic EXCEPT !.irr = @ \cup {irq}]
  /\ lapic' = [lapic EXCEPT !.irr = IF irq \in routed /\ lapic.enabled THEN @ \cup {irq} ELSE @]
  /\ UNCHANGED routed

\* A period of the PIT has passed.
RaiseTimer ==
  /\ Latch(Timer)
  /\ UNCHANGED <<loaded, stack, iflag, locks, controller, kbd_full, missed, sleepVars>>

\* The keyboard controller signals a byte once the one before it was read.
PressKey ==
  /\ ~ kbd_full
  /\ kbd_full' = TRUE
  /\ Latch(Keyboard)
  /\ missed' = (missed \/ (/\ pic.masked /\ ~ iflag
                           /\ ~ (Keyboard \in routed /\ lapic.enabled)))
  /\ UNCHANGED <<loaded, stack, iflag, locks, controller, sleepVars>>

\* After the n-th hlt: another one, another poll, or the end of Acpi::enable.
AfterHalt(n) ==
  IF n % SLEEP_MS # 0 THEN Top.pc
  ELSE IF n < POLLS * SLEEP_MS THEN Top.pc - 1 ELSE Top.pc + 1

\* The processor takes an interrupt between two instructions; it ends a hlt.
Enter(irq) ==
  /\ iflag /\ Op # "off"
  /\ stack' = Append(IF Op = "hlt" THEN [stack EXCEPT ![Depth].pc = AfterHalt(halts + 1)] ELSE stack,
                     Context(IF irq = Timer THEN "timer" ELSE "keyboard"))
  /\ halts' = IF Op = "hlt" THEN halts + 1 ELSE halts
  /\ iflag' = FALSE
  /\ ticks' = IF irq = Timer /\ Op \in {"hlt", "poll"} /\ ticks < SLEEP_MS THEN ticks + 1 ELSE ticks
  /\ UNCHANGED <<loaded, locks, controller, routed, kbd_full, missed>>

DeliverPic(irq) ==
  /\ ~ pic.masked /\ irq \in pic.irr
  /\ \A j \in pic.isr \cup (pic.irr \ {irq}) : irq < j
  /\ Enter(irq)
  /\ pic' = [pic EXCEPT !.irr = @ \ {irq}, !.isr = @ \cup {irq}]
  /\ UNCHANGED lapic

\* Both vectors are of one priority class: one in service holds the other back.
DeliverLapic(irq) ==
  /\ irq \in lapic.irr /\ lapic.isr = {}
  /\ \A j \in lapic.irr : j <= irq
  /\ Enter(irq)
  /\ lapic' = [lapic EXCEPT !.irr = @ \ {irq}, !.isr = @ \cup {irq}]
  /\ UNCHANGED pic

Deliver == \E irq \in Irq : DeliverPic(irq) \/ DeliverLapic(irq)

\* kernel_main faults, hits a breakpoint or panics, and a handler may fault.  The
\* print routines do none of these themselves.
MayTrap(programs) ==
  /\ Top.prog \in programs /\ Op \notin {"hlt", "off"}
  /\ locks["WRITER"] = 0 /\ locks["SERIAL1"] = 0

\* Without tables the exception resets the machine.
Exception(handler) ==
  /\ stack' = Append(stack, Context(IF {"gdt", "idt"} \subseteq loaded THEN handler ELSE "reset"))
  /\ iflag' = FALSE
  /\ UNCHANGED <<loaded, locks, controller, deviceVars, kbd_full, missed, sleepVars>>

MainTraps == MayTrap({"main"}) /\ \E h \in {"breakpoint", "page_fault"} : Exception(h)

\* An exception without a handler of its own, or one that finds the stack full:
\* the double fault handler runs on the stack that gdt::init gave it.
DoubleFault == MayTrap(Faulting) /\ Exception("double_fault")

MainPanics ==
  /\ MayTrap({"main"})
  /\ EnterPanic
  /\ UNCHANGED <<loaded, iflag, locks, controller, deviceVars, kbd_full, missed, sleepVars>>

Stopped == Dead /\ UNCHANGED vars

-----------------------------------------------------------------------------

Init ==
  /\ stack = <<[prog |-> "main", pc |-> 1, saved |-> <<>>, iret_if |-> FALSE]>>
  /\ iflag = FALSE
  /\ loaded = {}
  /\ locks = [l \in Lock |-> 0]
  /\ controller = "Pics"
  /\ pic = [irr |-> {}, isr |-> {}, masked |-> FALSE]
  /\ lapic = [irr |-> {}, isr |-> {}, enabled |-> FALSE]
  /\ routed = {}
  /\ kbd_full = FALSE
  /\ missed = FALSE
  /\ halts = 0
  /\ ticks = 0

Next ==
  \/ CpuStep
  \/ Deliver
  \/ RaiseTimer \/ PressKey
  \/ MainTraps \/ DoubleFault \/ MainPanics
  \/ Stopped

\* The processor never pauses, and takes an interrupt that stays possible; the
\* PIT is periodic.  A tick is much longer than its handler, so that main runs
\* between ticks.
Fairness ==
  /\ WF_vars(CpuStep)
  /\ SF_vars(Depth = 1 /\ CpuStep)
  /\ \A irq \in Irq : SF_vars(DeliverPic(irq)) /\ SF_vars(DeliverLapic(irq))
  /\ WF_vars(RaiseTimer)

Spec == Init /\ [][Next]_vars

FairSpec == Spec /\ Fairness

-----------------------------------------------------------------------------
(* Properties.                                                             *)

\* Nobody ever waits for a lock: on one processor the holder could not run, so
\* a handler that meets a lock held by the code it interrupted hangs the kernel.
NeverSpins == Op = "lock" => locks[Arg] = 0

\* The contexts of a handler that have not reached their end of interrupt.
Serving(irq) ==
  \E d \in 1 .. Depth :
    LET c == stack[d]
        program == Program[c.prog]
    IN  \E k \in c.pc .. Len(program) : program[k] = <<"eoi", irq>>

\* A line is in service only in the controller that PICS names, and exactly
\* while its handler still has to signal the end of interrupt: no line is left
\* in service by the handover from the PICs to the APIC.
InServiceExact ==
  LET current == IF controller = "Pics" THEN pic.isr ELSE lapic.isr
      other == IF controller = "Pics" THEN lapic.isr ELSE pic.isr
  IN  other = {} /\ current = {irq \in Irq : Serving(irq)}

\* A byte in the keyboard controller has a request that will be delivered, or a
\* handler about to read it, unless its edge came while neither controller was
\* listening, before init_pics or during the handover.
KeyHasRequest ==
  kbd_full =>
    \/ missed
    \/ Keyboard \in pic.irr /\ ~ pic.masked
    \/ Keyboard \in lapic.irr
    \/ \E d \in 1 .. Depth : /\ stack[d].prog = "keyboard"
                             /\ \E k \in stack[d].pc .. Len(Program.keyboard) :
                                  Program.keyboard[k][1] = "read_port"

\* Interrupts are on only when the tables are loaded and the PICs have their
\* vectors: an interrupt before init_idt resets the machine, and one before the
\* vectors are set is taken for an exception.
InterruptsHaveHandlers == iflag => loaded = {"gdt", "idt", "pics"}

\* kernel_main ends: the sleeps of Acpi::enable return, no lock hangs it, and it
\* powers off or stops in a reported fault or panic; a fault before init resets
\* the machine.
MainEnds == <>[](\/ Op = "off"
                 \/ \E d \in 1 .. Depth : /\ stack[d].prog \in {"panic", "page_fault", "double_fault"}
                                          /\ Program[stack[d].prog][stack[d].pc][1] = "hlt_loop")

\* The timer has the higher priority on the PIC, but a period is much longer
\* than a handler: time and again no tick is waiting when interrupts are on.
TicksSpaced ==
  \/ <>[](~ iflag)
  \/ []<>(iflag /\ Timer \notin lapic.irr /\ (pic.masked \/ Timer \notin pic.irr))

\* A byte from the keyboard is read in the end, unless its edge was missed or
\* the processor has stopped.
KeyRead == TicksSpaced => (kbd_full ~> (~ kbd_full \/ missed \/ Dead))

-----------------------------------------------------------------------------
(* What the code says and does not do.                                     *)

\* "pub fn sleep(miliseconds: u64)" over "Setup the pit for 1ms tick" (lib.rs):
\* after sleep(SLEEP_MS) at least that many timer ticks have passed.
SleepTakesTicks ==
  Depth = 1 /\ Top.prog = "main" /\ Op \in {"poll", "panic"} /\ halts > 0 => ticks >= SLEEP_MS

=============================================================================
