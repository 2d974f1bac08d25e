-------------------------- MODULE InterruptsProofs --------------------------
(***************************************************************************)
(* The safety of Interrupts for every length of the sleep, every number of *)
(* polls and every set of programs that may fault.  The invariant IInv     *)
(* ties the place of each context in its program to the interrupt flag,    *)
(* the locks, the lines in service and the set-up of the controllers.      *)
(* Here are the steps that set up the controllers, change the flag, begin  *)
(* or end a handler, and those of the devices; the theorems follow.        *)
(***************************************************************************)
EXTENDS InterruptProgramsProofs

-----------------------------------------------------------------------------
(* Steps that set up interrupts, and the read of the port.                 *)

\* The steps that set the tables and the controllers up, and the read of the
\* keyboard, keep the invariant.
LEMMA SetupSteps ==
  ASSUME IInv, Load \/ InitPics \/ SetApic \/ EnableLapic \/ MaskPics \/ Route \/ Sti \/ ReadPort
  PROVE  IInv'
\* keyboard_interrupt_handler reads the scancode.
<1>ReadPortStep. ASSUME ReadPort
                 PROVE  IInv'
  <2> USE <1>ReadPortStep
  <2>1. Top \in Contexts /\ Top.prog = "keyboard" /\ Top.pc = 2
    BY Running, Zenon DEF Points, ReadPort
  <2>2. PICK e : Moves(e) /\ e.pc = Top.pc + 1
    BY <2>1, Goes DEF ReadPort, Continue, IInv
  <2>3. Advances(e) /\ e \in Contexts /\ e.prog = Top.prog /\ e.saved = Top.saved
    BY <2>2 DEF Moves, Advances
  <2>4. /\ InRange(e) /\ SamePhase(Top, e) /\ (Off(e) <=> Off(Top))
        /\ SameLocks(Top, e) /\ Serves(e) = Serves(Top)
    BY <2>1, <2>2, <2>3, AtRead
  <2>5. /\ kbd_full' = FALSE
        /\ UNCHANGED <<iflag, loaded, locks, controller, pic, lapic, routed, missed>>
    BY DEF ReadPort, deviceVars
  <2>6. Nested' /\ stack' \in Seq(Contexts) /\ Depth' \in 1 .. 3
    BY <2>3, <2>4, Saved, KeptNested
  <2>7. TypeOK'
    BY <2>5, <2>6, Zenon DEF IInv, TypeOK
  <2>8. Flags' /\ (MayEnable' <=> MayEnable)
    <3>1. Ready => Ready'
      BY <2>5 DEF Ready
    <3> QED
      BY <2>2, <2>4, <2>5, <3>1, KeptFlags
  <2>9. Phases'
    BY <2>3, <2>4, <2>5, <2>8, KeptPhases
  <2>10. LocksHeld'
    BY <2>3, <2>4, <2>5, KeptLocks, SMTT(20)
  <2>11. InService'
    <3>1. Depth \in 1 .. 3 /\ Depth' = Depth
      BY <2>3, SMTT(20) DEF IInv, TypeOK, Advances
    <3>2. \A d \in 1 .. Depth : Serves(stack'[d]) = Serves(stack[d])
      BY <2>3, <2>4, <3>1, SMTT(20) DEF Advances, Top
    <3> QED
      BY <2>5, <3>1, <3>2 DEF IInv, InService
  <2>12. Devices' /\ Request'
    BY <2>5 DEF IInv, Devices, Request
  <2> QED
    BY <2>6, <2>7, <2>8, <2>9, <2>10, <2>11, <2>12 DEF IInv
\* A step of init or apic_init, which runs in main.
<1>SetupMoves. ASSUME NEW e, Moves(e), Top.prog = "main", InRange(e), Off(e) <=> Off(Top),
                      SameLocks(Top, e), iflag' = iflag, locks' = locks
               PROVE  /\ Nested' /\ Flags' /\ LocksHeld'
                      /\ stack' \in Seq(Contexts) /\ Depth' = 1 /\ Depth = 1
                      /\ stack'[1] = e /\ stack[1] = Top
                      /\ MayEnable' <=> MayEnable
  <2> USE <1>SetupMoves
  <2>1. Advances(e) /\ e.prog = Top.prog /\ e.saved = Top.saved
    BY DEF Moves
  <2>2. Depth = 1 /\ Top = stack[1]
    BY Levels
  <2>3. Nested' /\ stack' \in Seq(Contexts) /\ Depth' \in 1 .. 3
    BY <2>1, Saved, KeptNested
  <2>4. Flags' /\ (MayEnable' <=> MayEnable)
    BY <2>2, KeptFlags
  <2>5. LocksHeld'
    BY <2>1, KeptLocks
  <2> QED
    BY <2>1, <2>2, <2>3, <2>4, <2>5 DEF Advances
\* gdt::init and init_idt load their tables.
<1>LoadStep. ASSUME Load
             PROVE  IInv'
  <2> USE <1>LoadStep
  <2> DEFINE x == Arg
  <2>1. /\ Top \in Contexts /\ Top.prog = "main"
        /\ (x = "gdt" /\ Top.pc = 5) \/ (x = "idt" /\ Top.pc = 6)
    BY Running, Zenon DEF Points, Load
  <2>2. /\ loaded' = loaded \cup {x}
        /\ UNCHANGED <<iflag, locks, controller, pic, lapic, routed, kbd_full, missed>>
    BY DEF Load, deviceVars
  <2>3. PICK e : Moves(e) /\ e.pc = Top.pc + 1
    BY <2>1, Goes DEF Load, Continue, IInv
  <2> HIDE DEF x
  <2>4. Advances(e) /\ e \in Contexts /\ e.prog = Top.prog
    BY <2>3 DEF Moves, Advances
  <2>5. InRange(e) /\ (Off(e) <=> Off(Top)) /\ SameLocks(Top, e) /\ SameService(Top, e)
    BY <2>1, <2>3, <2>4, AtSetup, SMTT(20)
  <2>6. /\ Nested' /\ Flags' /\ LocksHeld' /\ stack' \in Seq(Contexts) /\ Depth' = 1
        /\ stack'[1] = e /\ stack[1] = Top /\ (MayEnable' <=> MayEnable)
    BY <2>1, <2>2, <2>3, <2>5, <1>SetupMoves
  <2>7. TypeOK'
    <3>1. loaded' \subseteq {"gdt", "idt", "pics"}
      BY <2>1, <2>2, Zenon DEF IInv, TypeOK
    <3> QED
      BY <2>2, <2>6, <3>1 DEF IInv, TypeOK
  <2>8. Phases'
    BY <2>1, <2>2, <2>3, <2>6 DEF IInv, Phases
  <2>9. InService' /\ Devices' /\ Request'
    BY <2>2, <2>4, <2>5, KeptService
  <2> QED
    BY <2>6, <2>7, <2>8, <2>9, SMTT(20) DEF IInv
\* init_pics gives the PICs their vectors.
<1>InitPicsStep. ASSUME InitPics
                 PROVE  IInv'
  <2> USE <1>InitPicsStep
  <2>1. Top \in Contexts /\ Top.prog = "main" /\ Top.pc = 8
    BY Running DEF Points, InitPics
  <2>2. /\ loaded' = loaded \cup {"pics"} /\ pic' = [pic EXCEPT !.irr = {}, !.isr = {}]
        /\ missed' = (missed \/ Keyboard \in pic.irr)
        /\ UNCHANGED <<iflag, locks, controller, lapic, routed, kbd_full>>
    BY DEF InitPics
  <2>3. PICK e : Moves(e) /\ e.pc = Top.pc + 1
    BY <2>1, Goes DEF InitPics, Continue, IInv
  <2>4. Advances(e) /\ e \in Contexts /\ e.prog = Top.prog
    BY <2>3 DEF Moves, Advances
  <2>5. InRange(e) /\ (Off(e) <=> Off(Top)) /\ SameLocks(Top, e)
    BY <2>1, <2>3, <2>4, AtSetup
  <2>6. /\ Nested' /\ Flags' /\ LocksHeld' /\ stack' \in Seq(Contexts) /\ Depth' = 1 /\ Depth = 1
        /\ stack'[1] = e /\ stack[1] = Top /\ (MayEnable' <=> MayEnable)
    BY <2>1, <2>2, <2>3, <2>5, <1>SetupMoves
  <2>7. /\ pic' \in [irr : SUBSET Irq, isr : SUBSET Irq, masked : BOOLEAN]
        /\ pic'.irr = {} /\ pic'.isr = {} /\ pic'.masked = pic.masked
    BY <2>2, Zenon DEF IInv, TypeOK
  <2>8. missed' \in BOOLEAN /\ (missed = TRUE \/ Keyboard \in pic.irr => missed' = TRUE)
    BY <2>2, Zenon DEF IInv, TypeOK
  <2>9. TypeOK'
    BY <2>1, <2>2, <2>6, <2>7, <2>8 DEF IInv, TypeOK
  <2>10. Phases'
    BY <2>1, <2>2, <2>3, <2>6, <2>7 DEF IInv, Phases
  <2>11. InService'
    BY <2>2, <2>6, <2>7 DEF IInv, InService
  <2>12. Devices'
    BY <2>2, <2>7 DEF IInv, Devices
  <2>13. Request'
    BY <2>2, <2>6, <2>7, <2>8 DEF IInv, Request
  <2> QED
    BY <2>6, <2>9, <2>10, <2>11, <2>12, <2>13 DEF IInv
\* apic_init replaces the controller in PICS.
<1>SetApicStep. ASSUME SetApic
                PROVE  IInv'
  <2> USE <1>SetApicStep
  <2>1. Top \in Contexts /\ Top.prog = "main" /\ Top.pc = 42
    BY Running DEF Points, SetApic
  <2>2. /\ controller' = "Apic"
        /\ UNCHANGED <<loaded, iflag, locks, pic, lapic, routed, kbd_full, missed>>
    BY DEF SetApic, deviceVars
  <2>3. PICK e : Moves(e) /\ e.pc = Top.pc + 1
    BY <2>1, Goes DEF SetApic, Continue, IInv
  <2>4. Advances(e) /\ e \in Contexts /\ e.prog = Top.prog
    BY <2>3 DEF Moves, Advances
  <2>5. InRange(e) /\ (Off(e) <=> Off(Top)) /\ SameLocks(Top, e)
    BY <2>1, <2>3, <2>4, AtSetup, SMTT(20)
  <2>6. /\ Nested' /\ Flags' /\ LocksHeld' /\ stack' \in Seq(Contexts) /\ Depth' = 1 /\ Depth = 1
        /\ stack'[1] = e /\ stack[1] = Top /\ (MayEnable' <=> MayEnable)
    BY <2>1, <2>2, <2>3, <2>5, <1>SetupMoves
  <2>7. TypeOK'
    BY <2>2, <2>6, SMTT(20) DEF IInv, TypeOK
  <2>8. Phases'
    BY <2>1, <2>2, <2>3, <2>6, SMTT(20) DEF IInv, Phases
  <2>9. InService'
    BY <2>2, <2>6 DEF IInv, InService
  <2>10. Devices' /\ Request'
    BY <2>2, <2>6 DEF IInv, Devices, Request
  <2> QED
    BY <2>6, <2>7, <2>8, <2>9, <2>10, SMTT(20) DEF IInv
\* apic_init enables the local APIC.
<1>EnableLapicStep. ASSUME EnableLapic
                    PROVE  IInv'
  <2> USE <1>EnableLapicStep
  <2>1. Top \in Contexts /\ Top.prog = "main" /\ Top.pc = 43
    BY Running DEF Points, EnableLapic
  <2>2. /\ lapic' = [lapic EXCEPT !.enabled = TRUE]
        /\ UNCHANGED <<loaded, iflag, locks, controller, pic, routed, kbd_full, missed>>
    BY DEF EnableLapic
  <2>3. PICK e : Moves(e) /\ e.pc = Top.pc + 1
    BY <2>1, Goes DEF EnableLapic, Continue, IInv
  <2>4. Advances(e) /\ e \in Contexts /\ e.prog = Top.prog
    BY <2>3 DEF Moves, Advances
  <2>5. InRange(e) /\ (Off(e) <=> Off(Top)) /\ SameLocks(Top, e)
    BY <2>1, <2>3, <2>4, AtSetup
  <2>6. /\ Nested' /\ Flags' /\ LocksHeld' /\ stack' \in Seq(Contexts) /\ Depth' = 1 /\ Depth = 1
        /\ stack'[1] = e /\ stack[1] = Top /\ (MayEnable' <=> MayEnable)
    BY <2>1, <2>2, <2>3, <2>5, <1>SetupMoves
  <2>7. /\ lapic' \in [irr : SUBSET Irq, isr : SUBSET Irq, enabled : BOOLEAN]
        /\ lapic'.irr = lapic.irr /\ lapic'.isr = lapic.isr /\ lapic'.enabled = TRUE
    BY <2>2, Zenon DEF IInv, TypeOK
  <2>8. TypeOK'
    BY <2>2, <2>6, <2>7, Zenon DEF IInv, TypeOK
  <2>9. Phases'
    BY <2>1, <2>2, <2>3, <2>6, <2>7 DEF IInv, Phases
  <2>10. InService'
    BY <2>2, <2>6, <2>7 DEF IInv, InService
  <2>11. Devices' /\ Request'
    BY <2>1, <2>2, <2>6, <2>7 DEF IInv, Devices, Request, Phases
  <2> QED
    BY <2>6, <2>8, <2>9, <2>10, <2>11 DEF IInv
\* apic_init masks the PICs.
<1>MaskPicsStep. ASSUME MaskPics
                 PROVE  IInv'
  <2> USE <1>MaskPicsStep
  <2>1. Top \in Contexts /\ Top.prog = "main" /\ Top.pc = 44
    BY Running DEF Points, MaskPics
  <2>2. /\ pic' = [pic EXCEPT !.masked = TRUE] /\ missed' = (missed \/ Keyboard \in pic.irr)
        /\ UNCHANGED <<loaded, iflag, locks, controller, lapic, routed, kbd_full>>
    BY DEF MaskPics
  <2>3. PICK e : Moves(e) /\ e.pc = Top.pc + 1
    BY <2>1, Goes DEF MaskPics, Continue, IInv
  <2>4. Advances(e) /\ e \in Contexts /\ e.prog = Top.prog
    BY <2>3 DEF Moves, Advances
  <2>5. InRange(e) /\ (Off(e) <=> Off(Top)) /\ SameLocks(Top, e)
    BY <2>1, <2>3, <2>4, AtSetup
  <2>6. /\ Nested' /\ Flags' /\ LocksHeld' /\ stack' \in Seq(Contexts) /\ Depth' = 1 /\ Depth = 1
        /\ stack'[1] = e /\ stack[1] = Top /\ (MayEnable' <=> MayEnable)
    BY <2>1, <2>2, <2>3, <2>5, <1>SetupMoves
  <2>7. /\ pic' \in [irr : SUBSET Irq, isr : SUBSET Irq, masked : BOOLEAN]
        /\ pic'.irr = pic.irr /\ pic'.isr = pic.isr /\ pic'.masked = TRUE
    BY <2>2, Zenon DEF IInv, TypeOK
  <2>8. missed' \in BOOLEAN /\ (missed = TRUE \/ Keyboard \in pic.irr => missed' = TRUE)
    BY <2>2, Zenon DEF IInv, TypeOK
  <2>9. TypeOK'
    BY <2>2, <2>6, <2>7, <2>8, Zenon DEF IInv, TypeOK
  <2>10. Phases'
    BY <2>1, <2>2, <2>3, <2>6, <2>7 DEF IInv, Phases
  <2>11. InService'
    BY <2>2, <2>6, <2>7 DEF IInv, InService
  <2>12. Devices'
    BY <2>1, <2>2, <2>6, <2>7 DEF IInv, Devices, Phases
  <2>13. Request'
    BY <2>2, <2>6, <2>7, <2>8 DEF IInv, Request
  <2> QED
    BY <2>6, <2>9, <2>10, <2>11, <2>12, <2>13 DEF IInv
\* apic_init routes a line in the I/O APIC.
<1>RouteStep. ASSUME Route
              PROVE  IInv'
  <2> USE <1>RouteStep
  <2> DEFINE x == Arg
  <2>1. /\ Top \in Contexts /\ Top.prog = "main"
        /\ (x = Timer /\ Top.pc = 49) \/ (x = Keyboard /\ Top.pc = 50)
    BY Running, Zenon DEF Points, Route
  <2>2. /\ routed' = routed \cup {x}
        /\ UNCHANGED <<loaded, iflag, locks, controller, pic, lapic, kbd_full, missed>>
    BY DEF Route
  <2>3. PICK e : Moves(e) /\ e.pc = Top.pc + 1
    BY <2>1, Goes DEF Route, Continue, IInv
  <2> HIDE DEF x
  <2>4. Advances(e) /\ e \in Contexts /\ e.prog = Top.prog
    BY <2>3 DEF Moves, Advances
  <2>5. InRange(e) /\ (Off(e) <=> Off(Top)) /\ SameLocks(Top, e) /\ SameService(Top, e)
    BY <2>1, <2>3, <2>4, AtSetup, SMTT(20)
  <2>6. /\ Nested' /\ Flags' /\ LocksHeld' /\ stack' \in Seq(Contexts) /\ Depth' = 1
        /\ stack'[1] = e /\ stack[1] = Top /\ (MayEnable' <=> MayEnable)
    BY <2>1, <2>2, <2>3, <2>5, <1>SetupMoves
  <2>7. TypeOK'
    BY <2>1, <2>2, <2>6, SMTT(20) DEF IInv, TypeOK, Irq
  <2>8. Phases'
    BY <2>1, <2>2, <2>3, <2>6 DEF IInv, Phases
  <2>9. InService' /\ Devices' /\ Request'
    BY <2>2, <2>4, <2>5, KeptService
  <2> QED
    BY <2>6, <2>7, <2>8, <2>9, SMTT(20) DEF IInv
\* init turns interrupts on, when all is ready.
<1>StiStep. ASSUME Sti
            PROVE  IInv'
  <2> USE <1>StiStep
  <2>1. Top \in Contexts /\ Top.prog = "main" /\ Top.pc = 10
    BY Running, Zenon DEF Points, Sti
  <2>2. /\ iflag' = TRUE
        /\ UNCHANGED <<loaded, locks, controller, pic, lapic, routed, kbd_full, missed>>
    BY DEF Sti, deviceVars
  <2>3. PICK e : Moves(e) /\ e.pc = Top.pc + 1
    BY <2>1, Goes DEF Sti, Continue, IInv
  <2>4. Advances(e) /\ e \in Contexts /\ e.prog = Top.prog /\ e.saved = Top.saved
    BY <2>3 DEF Moves, Advances
  <2>5. InRange(e) /\ (Off(e) <=> Off(Top)) /\ SameLocks(Top, e) /\ SameService(Top, e)
    BY <2>1, <2>3, <2>4, AtSetup
  <2>6. Depth = 1 /\ Depth' = 1 /\ stack[1] = Top /\ stack'[1] = e
    BY <2>1, <2>4, Levels DEF Advances
  <2>7. ~ Off(e)
    BY <2>1, <2>3, <2>4 DEF Off, Panics
  <2>8. Nested' /\ stack' \in Seq(Contexts) /\ Depth' \in 1 .. 3
    BY <2>4, <2>5, Saved, KeptNested
  <2>9. TypeOK'
    BY <2>2, <2>8 DEF IInv, TypeOK
  <2>10. Flags'
    BY <2>1, <2>4, <2>6, <2>7, SMTT(20) DEF Flags, MayEnable
  <2>11. Phases'
    BY <2>1, <2>2, <2>3, <2>6 DEF IInv, Phases
  <2>12. LocksHeld'
    BY <2>2, <2>4, <2>5, KeptLocks
  <2>13. InService' /\ Devices' /\ Request'
    BY <2>2, <2>4, <2>5, KeptService
  <2> QED
    BY <2>8, <2>9, <2>10, <2>11, <2>12, <2>13, SMTT(20) DEF IInv
<1> QED
  BY <1>ReadPortStep, <1>LoadStep, <1>InitPicsStep, <1>SetApicStep, <1>EnableLapicStep,
     <1>MaskPicsStep, <1>RouteStep, <1>StiStep, Zenon

-----------------------------------------------------------------------------
(* without_interrupts, and the end of a handler.                           *)

\* without_interrupts, the return of a handler and its end of interrupt keep the
\* invariant.
LEMMA FlagSteps ==
  ASSUME IInv, Cli \/ Popf \/ Iret \/ Eoi
  PROVE  IInv'
\* A step of without_interrupts changes the place and the saved flags.
<1>Edited. ASSUME NEW c \in Contexts, NEW v \in SavedFlags
           PROVE  /\ Past(c, v) \in Contexts /\ Past(c, v).prog = c.prog
                  /\ Past(c, v).iret_if = c.iret_if
                  /\ Past(c, v).pc = c.pc + 1 /\ Past(c, v).saved = v
  <2> USE <1>Edited
  <2>1. PICK e : e = [c EXCEPT !.pc = @ + 1, !.saved = v]
    OBVIOUS
  <2>2. e = [prog |-> c.prog, pc |-> c.pc + 1, saved |-> v, iret_if |-> c.iret_if]
    BY <2>1, Zenon DEF Contexts
  <2>3. e \in Contexts
    BY <2>2 DEF Contexts
  <2>4. Past(c, v) = e
    BY <2>1, Zenon DEF Past
  <2> QED
    BY <2>2, <2>3, <2>4
\* without_interrupts saves the flag and turns interrupts off.
<1>CliStep. ASSUME Cli
            PROVE  IInv'
  <2> USE <1>CliStep
  <2> DEFINE v == Append(Top.saved, iflag)
             e == Past(Top, v)
  <2>1. Top \in Contexts /\ CliAt(Top)
    BY Running DEF Points, Cli
  <2>2. /\ iflag' = FALSE
        /\ UNCHANGED <<loaded, locks, controller, pic, lapic, routed, kbd_full, missed>>
    BY DEF Cli, deviceVars
  <2>3. Depth \in 1 .. 3 /\ iflag \in BOOLEAN
    BY DEF IInv, TypeOK
  <2>4. /\ e \in Contexts /\ e.prog = Top.prog /\ e.iret_if = Top.iret_if
        /\ e.pc = Top.pc + 1 /\ e.saved = v
    <3>1. v \in SavedFlags
      BY <2>1, <2>3 DEF Contexts, SavedFlags
    <3> HIDE DEF v
    <3> QED
      BY <2>1, <3>1, <1>Edited, Zenon
  <2>5. stack' = [stack EXCEPT ![Depth] = e]
    BY Zenon DEF Cli, Top, Past
  <2> HIDE DEF e
  <2>7. Advances(e)
    BY <2>4, <2>5, Replaced, Zenon DEF IInv
  <2>8. /\ InRange(e) /\ SamePhase(Top, e) /\ ~ Off(Top) /\ Off(e)
        /\ SameLocks(Top, e) /\ SameService(Top, e)
    BY <2>1, <2>4, AtCli
  <2>9. Len(e.saved) = 1 /\ e.saved[1] = iflag
    <3>1. Len(Top.saved) = 0 /\ Top.saved \in Seq(BOOLEAN)
      BY <2>1, <2>8, Saved, SMTT(20) DEF Contexts, SavedFlags
    <3> QED
      BY <2>4, <3>1
  <2>10. Nested' /\ Depth' \in 1 .. 3
    BY <2>4, <2>7, <2>8, <2>9, KeptNested, SMTT(20)
  <2>11. TypeOK'
    BY <2>2, <2>7, <2>10, ZenonT(30) DEF IInv, TypeOK, Advances
  <2>12. Depth' = Depth /\ Depth \in 1 .. 3
    BY <2>3, <2>7 DEF Advances
  <2>13. MayEnable' <=> MayEnable
    <3>1. CASE Depth = 1
      BY <2>2, <2>7, <2>8, <2>9, <2>12, <3>1 DEF MayEnable, BaseIf, Advances, Top
    <3>2. CASE Depth # 1
      <4>1. stack'[1] = stack[1] /\ stack'[2].iret_if = stack[2].iret_if
        BY <2>4, <2>7, <2>12, <3>2, SMTT(20) DEF Advances, Top
      <4> QED
        BY <2>12, <3>2, <4>1 DEF MayEnable, BaseIf
    <3> QED
      BY <3>1, <3>2
  <2>14. Flags'
    <3>1. \A d \in 1 .. Depth : /\ stack'[d].prog = stack[d].prog
                                /\ stack'[d].iret_if = stack[d].iret_if
      BY <2>4, <2>7, <2>12, SMTT(20) DEF Advances, Top
    <3>2. \A d \in 2 .. Depth : Off(stack'[d]) => stack'[d].saved[1] = FALSE
      BY <2>7, <2>9, <2>12 DEF Advances, IInv, Flags
    <3>3. Off(stack'[1]) => BaseIf' = FALSE
      <4>1. CASE Depth = 1
        BY <2>2, <2>12, <4>1 DEF BaseIf
      <4>2. CASE Depth # 1
        BY <2>7, <2>12, <3>1, <4>2 DEF BaseIf, Advances, IInv, Flags
      <4> QED
        BY <4>1, <4>2, ZenonT(30)
    <3>4. Depth > 1 => BaseIf' = BaseIf
      BY <2>12, <3>1 DEF BaseIf
    <3>5. Ready' <=> Ready
      BY <2>2 DEF Ready
    <3> QED
      BY <2>2, <2>12, <2>13, <3>1, <3>2, <3>3, <3>4, <3>5, SMTT(20) DEF IInv, Flags
  <2>15. Phases'
    BY <2>2, <2>4, <2>7, <2>8, <2>13, KeptPhases
  <2>16. LocksHeld'
    BY <2>2, <2>4, <2>7, <2>8, KeptLocks
  <2>17. InService' /\ Devices' /\ Request'
    BY <2>2, <2>7, <2>8, KeptService
  <2> QED
    BY <2>10, <2>11, <2>14, <2>15, <2>16, <2>17 DEF IInv
\* without_interrupts restores the flag it saved.
<1>PopfStep. ASSUME Popf
             PROVE  IInv'
  <2> USE <1>PopfStep
  <2> DEFINE v == SubSeq(Top.saved, 1, Len(Top.saved) - 1)
             e == Past(Top, v)
  <2>1. Top \in Contexts /\ PopfAt(Top)
    BY Running DEF Points, Popf
  <2>2. UNCHANGED <<loaded, locks, controller, pic, lapic, routed, kbd_full, missed>>
    BY DEF Popf, deviceVars
  <2>3. Depth \in 1 .. 3
    BY DEF IInv, TypeOK
  <2>4. Off(Top) /\ Len(Top.saved) = 1 /\ Top.saved \in Seq(BOOLEAN)
    <3>1. Off(Top)
      BY <2>1 DEF PopfAt, Off, Panics
    <3> QED
      BY <2>1, <3>1, Saved DEF Contexts, SavedFlags
  <2>5. v \in SavedFlags /\ Len(v) = 0
    BY <2>4, Popped DEF SavedFlags
  <2>6. /\ e \in Contexts /\ e.prog = Top.prog /\ e.iret_if = Top.iret_if
        /\ e.pc = Top.pc + 1 /\ Len(e.saved) = 0
    <3> HIDE DEF v
    <3> QED
      BY <2>1, <2>5, <1>Edited, Zenon
  <2>7. stack' = [stack EXCEPT ![Depth] = e]
    BY Zenon DEF Popf, Top, Past
  <2>8. iflag' = Top.saved[1] /\ iflag' \in BOOLEAN
    BY <2>4 DEF Popf
  <2> HIDE DEF e
  <2>10. Advances(e)
    BY <2>6, <2>7, Replaced, ZenonT(30) DEF IInv
  <2>11. /\ InRange(e) /\ SamePhase(Top, e) /\ ~ Off(e)
         /\ SameLocks(Top, e) /\ SameService(Top, e)
    BY <2>1, <2>6, AtPopf
  <2>12. Nested' /\ Depth' \in 1 .. 3
    BY <2>6, <2>10, <2>11, KeptNested, SMTT(20)
  <2>13. TypeOK'
    BY <2>2, <2>8, <2>10, <2>12 DEF IInv, TypeOK, Advances
  <2>14. Depth' = Depth /\ Depth \in 1 .. 3
    BY <2>3, <2>10 DEF Advances
  <2>15. Depth > 1 => iflag' = FALSE
    BY <2>4, <2>8, <2>14 DEF IInv, Flags, Top
  <2>16. MayEnable' <=> MayEnable
    <3>1. CASE Depth = 1
      <4>1. BaseIf = FALSE
        BY <2>4, <3>1, SMTT(20) DEF IInv, Flags, Top
      <4> QED
        BY <2>4, <2>8, <2>10, <2>11, <2>14, <3>1, <4>1, ZenonT(30)
           DEF MayEnable, BaseIf, Advances, Top
    <3>2. CASE Depth # 1
      <4>1. stack'[1] = stack[1] /\ stack'[2].iret_if = stack[2].iret_if
        BY <2>6, <2>10, <2>14, <3>2, SMTT(20) DEF Advances, Top
      <4> QED
        BY <2>14, <3>2, <4>1 DEF MayEnable, BaseIf
    <3> QED
      BY <3>1, <3>2, SMTT(20)
  <2>17. Flags'
    <3>1. \A d \in 1 .. Depth : /\ stack'[d].prog = stack[d].prog
                                /\ stack'[d].iret_if = stack[d].iret_if
      BY <2>6, <2>10, <2>14, SMTT(20) DEF Advances, Top
    <3>2. \A d \in 2 .. Depth : Off(stack'[d]) => stack'[d].saved[1] = FALSE
      BY <2>10, <2>11, <2>14, SMTT(20) DEF Advances, IInv, Flags
    <3>3. Off(stack'[1]) => BaseIf' = FALSE
      BY <2>10, <2>11, <2>14, <3>1 DEF BaseIf, Advances, IInv, Flags
    <3>4. Depth > 1 => BaseIf' = BaseIf
      BY <2>14, <3>1 DEF BaseIf
    <3>5. Ready' <=> Ready
      BY <2>2, SMTT(20) DEF Ready
    <3> QED
      BY <2>14, <2>15, <2>16, <3>1, <3>2, <3>3, <3>4, <3>5, SMTT(20) DEF IInv, Flags
  <2>18. Phases'
    BY <2>2, <2>6, <2>10, <2>11, <2>16, KeptPhases, SMTT(20)
  <2>19. LocksHeld'
    BY <2>2, <2>6, <2>10, <2>11, KeptLocks, Zenon
  <2>20. InService' /\ Devices' /\ Request'
    BY <2>2, <2>10, <2>11, KeptService
  <2> QED
    BY <2>12, <2>13, <2>17, <2>18, <2>19, <2>20 DEF IInv
\* A handler returns to what it interrupted.
<1>IretStep. ASSUME Iret
             PROVE  IInv'
  <2> USE <1>IretStep
  <2>1. Top \in Contexts /\ IretAt(Top)
    BY Running, Zenon DEF Points, Iret
  <2>2. UNCHANGED <<loaded, locks, controller, pic, lapic, routed, kbd_full, missed>>
    BY DEF Iret, deviceVars
  <2>3. Depth = 2 /\ Top = stack[2]
    BY <2>1, Levels, SMTT(20) DEF IretAt, Handlers
  <2>4. ~ Off(stack[2]) /\ Serves(stack[2]) = {} /\ ~ Reads(stack[2])
    BY <2>1, <2>3, SMTT(20) DEF IretAt, Off, Serves, Reads, Panics
  <2>5. \A l \in Lock : ~ Holds(stack[2], l)
    BY <2>1, <2>3 DEF IretAt, Holds, Lock, Panics
  <2>6. stack' \in Seq(Contexts) /\ Depth' = 1 /\ stack'[1] = stack[1]
    <3>1. stack \in Seq(Contexts) /\ Len(stack) = 2 /\ stack' = SubSeq(stack, 1, Len(stack) - 1)
      BY <2>3 DEF IInv, TypeOK, Depth, Iret
    <3> QED
      BY <3>1, Popped DEF Depth
  <2>7. iflag' = stack[2].iret_if /\ iflag' \in BOOLEAN
    BY <2>1, <2>3 DEF Iret, Contexts
  <2>8. TypeOK'
    BY <2>2, <2>6, <2>7, SMTT(20) DEF IInv, TypeOK
  <2>9. Nested'
    BY <2>3, <2>6 DEF IInv, Nested
  <2>10. BaseIf' = BaseIf /\ (MayEnable' <=> MayEnable)
    BY <2>3, <2>6, <2>7, SMTT(20) DEF BaseIf, MayEnable
  <2>11. Flags'
    <3>1. Ready' <=> Ready
      BY <2>2, SMTT(20) DEF Ready
    <3> QED
      BY <2>6, <2>10, <3>1 DEF IInv, Flags
  <2>12. Phases'
    BY <2>2, <2>6, <2>10, SMTT(20) DEF IInv, Phases
  <2>13. LocksHeld'
    BY <2>2, <2>3, <2>5, <2>6, SMTT(20) DEF IInv, LocksHeld, TypeOK
  <2>14. InService' /\ Devices' /\ Request'
    BY <2>2, <2>3, <2>4, <2>6 DEF IInv, InService, Devices, Request
  <2> QED
    BY <2>8, <2>9, <2>11, <2>12, <2>13, <2>14, SMTT(20) DEF IInv
\* notify_end_of_interrupt ends the service of its line.
<1>EoiStep. ASSUME Eoi
            PROVE  IInv'
  <2> USE <1>EoiStep
  <2> DEFINE x == Arg
  <2>1. Top \in Contexts /\ EoiAt(Top, x)
    BY Running DEF Points, Eoi
  <2>2. UNCHANGED <<loaded, iflag, locks, controller, routed, kbd_full, missed>>
    BY DEF Eoi
  <2>3. PICK e : Moves(e) /\ e.pc = Top.pc + 1
    BY <2>1, Goes DEF Eoi, Continue, IInv, EoiAt
  <2> HIDE DEF x
  <2>4. Advances(e) /\ e \in Contexts /\ e.prog = Top.prog /\ e.saved = Top.saved
    BY <2>3 DEF Moves, Advances
  <2>5. /\ InRange(e) /\ SamePhase(Top, e) /\ (Off(e) <=> Off(Top)) /\ SameLocks(Top, e)
        /\ Serves(Top) = {x} /\ Serves(e) = {} /\ (Reads(e) <=> Reads(Top))
    BY <2>1, <2>3, <2>4, AtEoi
  <2>6. Depth = 2 /\ Top = stack[2] /\ Depth' = 2 /\ stack'[2] = e
    BY <2>1, <2>4, Levels DEF EoiAt, Handlers, Advances
  <2>7. /\ pic' \in [irr : SUBSET Irq, isr : SUBSET Irq, masked : BOOLEAN]
        /\ lapic' \in [irr : SUBSET Irq, isr : SUBSET Irq, enabled : BOOLEAN]
        /\ pic'.irr = pic.irr /\ pic'.masked = pic.masked
        /\ lapic'.irr = lapic.irr /\ lapic'.enabled = lapic.enabled
    BY DEF Eoi, IInv, TypeOK
  <2>8. pic'.isr = {} /\ lapic'.isr = {}
    <3>1. CASE controller = "Pics"
      <4>1. pic.isr = {x} /\ lapic.isr = {}
        BY <2>5, <2>6, <3>1 DEF IInv, InService
      <4>2. PicInService = x
        BY <2>1, <4>1 DEF PicInService, EoiAt, Timer, Keyboard
      <4>3. pic'.isr = IF pic.isr = {} THEN pic.isr ELSE pic.isr \ {PicInService}
        BY <3>1 DEF Eoi, IInv, TypeOK
      <4> QED
        BY <3>1, <4>1, <4>2, <4>3, SMTT(20) DEF Eoi
    <3>2. CASE controller # "Pics"
      <4>1. lapic.isr = {x} /\ pic.isr = {}
        BY <2>5, <2>6, <3>2 DEF IInv, InService
      <4>2. LapicInService = x
        BY <2>1, <4>1 DEF LapicInService, EoiAt, Timer, Keyboard
      <4>3. lapic'.isr = IF lapic.isr = {} THEN lapic.isr ELSE lapic.isr \ {LapicInService}
        BY <3>2 DEF Eoi, IInv, TypeOK
      <4> QED
        BY <3>2, <4>1, <4>2, <4>3, SMTT(20) DEF Eoi
    <3> QED
      BY <3>1, <3>2
  <2>9. Nested' /\ stack' \in Seq(Contexts) /\ Depth' \in 1 .. 3
    BY <2>4, <2>5, Saved, KeptNested
  <2>10. TypeOK'
    BY <2>2, <2>7, <2>9, SMTT(20) DEF IInv, TypeOK
  <2>11. Flags' /\ (MayEnable' <=> MayEnable)
    <3>1. Ready => Ready'
      BY <2>2, <2>7, SMTT(20) DEF Ready
    <3> QED
      BY <2>2, <2>3, <2>5, <3>1, KeptFlags, SMTT(20)
  <2>12. Phases'
    BY <2>2, <2>4, <2>5, <2>7, <2>11, KeptPhases
  <2>13. LocksHeld'
    BY <2>2, <2>4, <2>5, KeptLocks, SMTT(20)
  <2>14. InService'
    BY <2>5, <2>6, <2>8, ZenonT(30) DEF InService
  <2>15. Devices' /\ Request'
    BY <2>2, <2>5, <2>6, <2>7, SMTT(20) DEF IInv, Devices, Request
  <2> QED
    BY <2>9, <2>10, <2>11, <2>12, <2>13, <2>14, <2>15 DEF IInv
<1> QED
  BY <1>CliStep, <1>PopfStep, <1>IretStep, <1>EoiStep, Zenon

-----------------------------------------------------------------------------
(* Panics and exceptions.                                                  *)

\* The context at the bottom.
LEMMA Base ==
  ASSUME IInv
  PROVE  /\ stack[1] \in Contexts /\ InProgram(stack[1]) /\ InRange(stack[1])
         /\ stack[1].prog \in {"main", "panic"}
<1>1. stack \in Seq(Contexts) /\ Depth \in 1 .. 3
  BY DEF IInv, TypeOK
<1>2. 1 \in 1 .. Depth
  BY <1>1
<1>3. stack[1] \in Contexts
  BY <1>1, <1>2 DEF Depth
<1>4. InProgram(stack[1]) /\ stack[1].prog \in {"main", "panic"}
  BY <1>2 DEF IInv, Nested
<1> QED
  BY <1>3, <1>4, ProgramPoints, Zenon DEF Points

\* While interrupts are on in main, or in its panic handler, the tables are
\* loaded, PICS is free, and the handover to the APIC is not half done.
LEMMA BaseReady ==
  ASSUME IInv, BaseIf = TRUE
  PROVE  Ready
<1>1. CASE stack[1].prog = "panic"
  BY <1>1 DEF IInv, Flags, MayEnable
<1>2. CASE stack[1].prog = "main"
  <2> DEFINE pc == stack[1].pc
  <2>1. ~ Off(stack[1]) /\ MayEnable
    BY SMTT(20) DEF IInv, Flags, MayEnable
  <2>2. pc \in 1 .. 64 /\ ~ pc <= 10
    BY <1>2, <2>1, Base, ZenonT(30) DEF InRange, IInv, Phases
  <2>3. ~ pc \in 38 .. 51
    BY <1>2, <2>1 DEF Off
  <2> HIDE DEF pc
  <2>4. pc > 8 /\ (pc > 42 => pc > 50)
    BY <2>2, <2>3
  <2>5. loaded = {"gdt", "idt", "pics"}
    <3>1. "gdt" \in loaded /\ "idt" \in loaded /\ "pics" \in loaded
      BY <1>2, <2>2, <2>4 DEF IInv, Phases, pc
    <3> QED
      BY <3>1, Zenon DEF IInv, TypeOK
  <2>6. locks["PICS"] # 1
    <3>1. SUFFICES ASSUME locks["PICS"] = 1 PROVE FALSE
      OBVIOUS
    <3>2. 1 \in 1 .. Depth /\ "PICS" \in Lock
      BY SMTT(20) DEF IInv, TypeOK, Lock
    <3>3. Holds(stack[1], "PICS")
      BY <1>2, <3>1, <3>2, SMTT(20) DEF IInv, LocksHeld
    <3> QED
      BY <1>2, <2>2, <2>3, <3>3 DEF Holds, pc
  <2>7. controller = "Apic" => pic.masked /\ lapic.enabled /\ Keyboard \in routed
    BY <1>2, <2>2, <2>4 DEF IInv, Phases, pc
  <2> QED
    BY <2>5, <2>6, <2>7 DEF Ready
<1> QED
  BY <1>1, <1>2, Base

\* A context at its first step.
LEMMA Fresh ==
  ASSUME NEW c \in Contexts, c.pc = 1
  PROVE  InProgram(c) /\ ~ Off(c) /\ \A l \in Lock : ~ Holds(c, l)
<1>1. InRange(c)
  BY DEF InRange, Contexts
<1>2. InProgram(c)
  BY <1>1, Within
<1>3. ~ Off(c)
  BY DEF Off, Panics
<1>4. \A l \in Lock : ~ Holds(c, l)
  BY DEF Holds, Lock, Panics
<1> QED
  BY <1>2, <1>3, <1>4

\* A new context is well formed.
LEMMA NewContext ==
  ASSUME IInv, NEW p \in Programs
  PROVE  /\ Context(p) \in Contexts /\ Context(p).prog = p /\ Context(p).pc = 1
         /\ Len(Context(p).saved) = 0 /\ Context(p).iret_if = iflag
<1>1. iflag \in BOOLEAN
  BY DEF IInv, TypeOK
<1>2. <<>> \in SavedFlags
  BY DEF SavedFlags
<1>3. Context(p) \in Contexts
  BY <1>1, <1>2 DEF Context, Contexts
<1> QED
  BY <1>3 DEF Context

\* Panics and exceptions keep the invariant.
LEMMA TrapSteps ==
  ASSUME IInv, ExplicitPanic \/ MainPanics \/ MainTraps \/ DoubleFault
  PROVE  IInv'
\* main enters its panic handler, which never returns: the locks of main stay
\* taken, and no print lock is among them.
<1>PanicStep. ASSUME EnterPanic, Top.prog = "main",
                     ~ Holds(Top, "WRITER"), ~ Holds(Top, "SERIAL1"), UNCHANGED quietVars
              PROVE  IInv'
  <2> USE <1>PanicStep
  <2> DEFINE e == Context("panic")
  <2> USE DEF quietVars, deviceVars
  <2>1. /\ e \in Contexts /\ e.prog = "panic" /\ e.pc = 1 /\ Len(e.saved) = 0
    BY NewContext DEF Programs
  <2>2. stack' = [stack EXCEPT ![Depth] = e]
    BY DEF EnterPanic
  <2> HIDE DEF e
  <2>3. Advances(e)
    BY <2>1, <2>2, Replaced, Zenon DEF IInv
  <2>4. Depth = 1 /\ Top = stack[1]
    BY Levels
  <2>5. stack' \in Seq(Contexts) /\ Depth' = 1 /\ stack'[1] = e
    BY <2>3, <2>4 DEF Advances
  <2>6. InProgram(e) /\ ~ Off(e) /\ \A l \in Lock : ~ Holds(e, l)
    BY <2>1, Fresh
  <2>7. TypeOK'
    BY <2>5, SMTT(20) DEF IInv, TypeOK
  <2>8. Nested'
    BY <2>1, <2>5, <2>6, SMTT(20) DEF Nested
  <2>9. Flags'
    <3>1. BaseIf' = BaseIf
      BY <2>4, <2>5, SMTT(20) DEF BaseIf
    <3>2. MayEnable' => Ready
      BY <2>5, <2>6, <3>1, BaseReady, ZenonT(30) DEF MayEnable
    <3>3. Ready => Ready'
      BY DEF Ready
    <3> QED
      BY <2>5, <2>6, <3>2, <3>3 DEF Flags
  <2>10. Phases'
    BY <2>1, <2>5 DEF Phases
  <2>11. LocksHeld'
    <3>1. \A l \in Lock : locks[l] <= 1
      BY <2>4, SMTT(20) DEF IInv, LocksHeld
    <3>2. \A l \in Lock : Holds(Top, l) => l \in {"PICS", "PAGING_CTX"}
      BY SMTT(20) DEF Holds, Lock
    <3>3. \A l \in Lock : locks[l] = 1 => l \in {"PICS", "PAGING_CTX"}
      BY <2>4, <3>2, SMTT(20) DEF IInv, LocksHeld
    <3> QED
      BY <2>1, <2>5, <2>6, <3>1, <3>3 DEF LocksHeld
  <2>12. InService' /\ Devices' /\ Request'
    BY <2>4, <2>5 DEF IInv, InService, Devices, Request
  <2> QED
    BY <2>7, <2>8, <2>9, <2>10, <2>11, <2>12 DEF IInv
\* Acpi::enable gives up and panics.
<1>ExplicitPanicStep. ASSUME ExplicitPanic
                      PROVE  IInv'
  <2> USE <1>ExplicitPanicStep
  <2>1. Top \in Contexts /\ Top.prog = "main" /\ Top.pc = 27
    BY Running, ZenonT(30) DEF Points, ExplicitPanic
  <2>2. ~ Holds(Top, "WRITER") /\ ~ Holds(Top, "SERIAL1")
    BY <2>1 DEF Holds, Panics
  <2> QED
    BY <2>1, <2>2, <1>PanicStep, SMTT(20) DEF ExplicitPanic, quietVars
\* A trap finds the print locks free.
<1>Traps. ASSUME NEW P, MayTrap(P)
          PROVE  Top.prog \in P /\ ~ Holds(Top, "WRITER") /\ ~ Holds(Top, "SERIAL1")
  <2> USE <1>Traps
  <2>1. Depth \in 1 .. Depth /\ "WRITER" \in Lock /\ "SERIAL1" \in Lock
    BY DEF IInv, TypeOK, Lock
  <2>2. \A l \in Lock : Holds(Top, l) => locks[l] = Depth
    BY <2>1 DEF IInv, LocksHeld, Top
  <2> QED
    BY <2>1, <2>2 DEF MayTrap
\* Any other panic of main.
<1>MainPanicsStep. ASSUME MainPanics
                   PROVE  IInv'
  <2> USE <1>MainPanicsStep
  <2>1. Top.prog = "main" /\ ~ Holds(Top, "WRITER") /\ ~ Holds(Top, "SERIAL1")
    BY <1>Traps DEF MainPanics
  <2> QED
    BY <2>1, <1>PanicStep DEF MainPanics, quietVars
\* An exception of main or of a handler, outside the print routines.
<1>ExceptionStep. ASSUME NEW h, Exception(h), ~ Holds(Top, "WRITER"), ~ Holds(Top, "SERIAL1"),
                         \/ Top.prog = "main" /\ h \in {"breakpoint", "page_fault", "double_fault"}
                         \/ Top.prog \in Handlers /\ h = "double_fault"
                  PROVE  IInv'
  <2> USE <1>ExceptionStep
  <2> DEFINE p == IF {"gdt", "idt"} \subseteq loaded THEN h ELSE "reset"
             c == Context(p)
  <2>1. /\ p \in Exceptions /\ p \in Programs
        /\ (Top.prog \in Handlers => p \in {"double_fault", "reset"})
    BY DEF Exceptions, Programs, Handlers
  <2>2. /\ stack' = Append(stack, c) /\ iflag' = FALSE
        /\ UNCHANGED <<loaded, locks, controller, pic, lapic, routed, kbd_full, missed>>
    BY DEF Exception, deviceVars
  <2> HIDE DEF p
  <2>3. c \in Contexts /\ c.prog = p /\ c.pc = 1 /\ Len(c.saved) = 0 /\ c.iret_if = iflag
    BY <2>1, NewContext
  <2> HIDE DEF c
  <2>4. InProgram(c) /\ ~ Off(c) /\ \A l \in Lock : ~ Holds(c, l)
    BY <2>3, Fresh
  <2>5. Serves(c) = {} /\ ~ Reads(c)
    BY <2>1, <2>3 DEF Serves, Reads, Exceptions
  <2>6. Depth \in 1 .. 2 /\ (Depth = 1 <=> Top.prog = "main")
    BY Levels DEF Handlers
  <2>7. /\ stack' \in Seq(Contexts) /\ Depth' = Depth + 1 /\ stack'[Depth + 1] = c
        /\ \A d \in 1 .. Depth : stack'[d] = stack[d]
    <3>1. stack \in Seq(Contexts)
      BY DEF IInv, TypeOK
    <3> QED
      BY <2>2, <2>3, <3>1, Pushed DEF Depth
  <2>8. stack'[1] = stack[1] /\ (Depth = 1 => stack'[2] = c) /\ (Depth = 2 => stack'[2] = stack[2])
    BY <2>6, <2>7, SMTT(20)
  <2>9. TypeOK'
    <3>1. Depth' \in 1 .. 3
      BY <2>6, <2>7
    <3> QED
      BY <2>2, <2>7, <3>1, Zenon DEF IInv, TypeOK
  <2>10. Nested'
    BY <2>1, <2>3, <2>4, <2>6, <2>7, SMTT(20) DEF IInv, Nested, Top
  <2>11. BaseIf' = BaseIf /\ (MayEnable' <=> MayEnable)
    BY <2>3, <2>6, <2>7, <2>8, SMTT(20) DEF BaseIf, MayEnable
  <2>12. Flags'
    <3>1. Ready' <=> Ready
      BY <2>2 DEF Ready
    <3>2. \A d \in 2 .. Depth' : Off(stack'[d]) => stack'[d].saved[1] = FALSE
      BY <2>4, <2>6, <2>7 DEF IInv, Flags
    <3>3. Depth' > 1 /\ stack'[2].prog \in Handlers => BaseIf' = TRUE
      BY <2>1, <2>3, <2>6, <2>7, <2>8, <2>11, SMTT(20) DEF IInv, Flags, Handlers, Exceptions
    <3> QED
      BY <2>2, <2>8, <2>11, <3>1, <3>2, <3>3, ZenonT(30) DEF IInv, Flags
  <2>13. Phases'
    BY <2>2, <2>8, <2>11, SMTT(20) DEF IInv, Phases
  <2>14. LocksHeld'
    <3>1. \A l \in Lock : locks'[l] <= Depth'
      BY <2>2, <2>6, <2>7 DEF IInv, LocksHeld, TypeOK
    <3>0. \A d \in 1 .. Depth' : d \in 1 .. Depth \/ d = Depth + 1
      BY <2>6, <2>7
    <3>2. \A l \in Lock : \A d \in 1 .. Depth' : Holds(stack'[d], l) => locks'[l] = d
      <4> TAKE l \in Lock
      <4> TAKE d \in 1 .. Depth'
      <4>1. CASE d \in 1 .. Depth
        BY <2>2, <2>7, <4>1, Zenon DEF IInv, LocksHeld
      <4>2. CASE d = Depth + 1
        BY <2>4, <2>7, <4>2, Zenon
      <4> QED
        BY <3>0, <4>1, <4>2
    <3>3. \A l \in Lock : \A d \in 1 .. Depth' :
           locks'[l] = d => \/ Holds(stack'[d], l)
                            \/ d = 1 /\ stack'[1].prog = "panic" /\ l \in {"PICS", "PAGING_CTX"}
      <4> TAKE l \in Lock
      <4> TAKE d \in 1 .. Depth'
      <4>1. CASE d \in 1 .. Depth
        BY <2>2, <2>7, <2>8, <4>1, ZenonT(30) DEF IInv, LocksHeld
      <4>2. CASE d = Depth + 1
        <5>1. locks[l] <= Depth /\ locks[l] \in Nat
          BY SMTT(20) DEF IInv, LocksHeld, TypeOK
        <5> QED
          BY <2>2, <2>6, <4>2, <5>1, SMTT(20)
      <4> QED
        BY <3>0, <4>1, <4>2
    <3>4. \A d \in 1 .. Depth' :
           d < Depth' => ~ Holds(stack'[d], "WRITER") /\ ~ Holds(stack'[d], "SERIAL1")
      BY <2>6, <2>7, SMTT(20) DEF IInv, LocksHeld, Top
    <3> QED
      BY <3>1, <3>2, <3>3, <3>4, SMTT(20) DEF LocksHeld
  <2>15. InService'
    <3>1. Serves(stack'[2]) = IF Depth > 1 THEN Serves(stack[2]) ELSE {}
      <4>1. CASE Depth = 1
        BY <2>5, <2>8, <4>1
      <4>2. CASE Depth = 2
        BY <2>8, <4>2
      <4> QED
        BY <2>6, <4>1, <4>2, SMTT(20)
    <3>2. Depth' > 1
      BY <2>6, <2>7, SMTT(20)
    <3> QED
      BY <2>2, <3>1, <3>2, SMTT(20) DEF IInv, InService
  <2>16. Devices'
    BY <2>2, SMTT(20) DEF IInv, Devices
  <2>17. Request'
    <3>1. Depth > 1 /\ Reads(stack[2]) => Depth' > 1 /\ Reads(stack'[2])
      BY <2>6, <2>7, <2>8
    <3> QED
      BY <2>2, <3>1, Zenon DEF IInv, Request
  <2> QED
    BY <2>9, <2>10, <2>12, <2>13, <2>14, <2>15, <2>16, <2>17 DEF IInv
\* A breakpoint or a page fault of main.
<1>MainTrapsStep. ASSUME MainTraps
                  PROVE  IInv'
  <2> USE <1>MainTrapsStep
  <2>1. Top.prog = "main" /\ ~ Holds(Top, "WRITER") /\ ~ Holds(Top, "SERIAL1")
    BY <1>Traps DEF MainTraps
  <2>2. PICK h \in {"breakpoint", "page_fault"} : Exception(h)
    BY DEF MainTraps
  <2> QED
    BY <2>1, <2>2, <1>ExceptionStep
\* A double fault of main or of a handler.
<1>DoubleFaultStep. ASSUME DoubleFault
                    PROVE  IInv'
  <2> USE <1>DoubleFaultStep
  <2>1. Top.prog \in Faulting /\ ~ Holds(Top, "WRITER") /\ ~ Holds(Top, "SERIAL1")
    BY <1>Traps DEF DoubleFault
  <2>2. Top.prog = "main" \/ Top.prog \in Handlers
    BY <2>1, SleepAssumption, Zenon DEF Handlers
  <2> QED
    BY <2>1, <2>2, <1>ExceptionStep DEF DoubleFault
<1> QED
  BY <1>ExplicitPanicStep, <1>MainPanicsStep, <1>MainTrapsStep, <1>DoubleFaultStep, Zenon

-----------------------------------------------------------------------------
(* Interrupts and devices.                                                 *)

\* What an interrupt leaves below its handler: main or its panic handler, past the
\* hlt if it was at one.
Below(s) ==
  /\ s \in Seq(Contexts) /\ Len(s) = 1
  /\ s[1].prog = stack[1].prog /\ s[1].saved = stack[1].saved /\ InRange(s[1])
  /\ SamePhase(stack[1], s[1]) /\ (Off(s[1]) <=> Off(stack[1])) /\ SameLocks(stack[1], s[1])

\* The stack once an interrupt is taken: main or its panic handler below, past the
\* hlt if it was at one, and the handler at its first step above.
Entered ==
  /\ stack' \in Seq(Contexts) /\ Depth' = 2
  /\ stack'[1].prog = stack[1].prog /\ stack'[1].saved = stack[1].saved
  /\ InProgram(stack'[1]) /\ SamePhase(stack[1], stack'[1])
  /\ (Off(stack'[1]) <=> Off(stack[1])) /\ SameLocks(stack[1], stack'[1])
  /\ stack'[2].prog \in Handlers /\ InProgram(stack'[2]) /\ ~ Off(stack'[2])
  /\ Len(stack'[2].saved) = 0 /\ stack'[2].iret_if = TRUE
  /\ \A l \in Lock : ~ Holds(stack'[2], l)

\* What both controllers' deliveries share.
Delivered(irq) ==
  /\ Depth = 1 /\ Ready /\ Depth' = 2 /\ stack' \in Seq(Contexts) /\ iflag' = FALSE
  /\ Nested' /\ Flags' /\ Phases' /\ LocksHeld'
  /\ UNCHANGED <<loaded, locks, controller, routed, kbd_full, missed>>
  /\ Serves(stack'[2]) = {irq} /\ (irq = Keyboard => Reads(stack'[2]))

\* The interrupts that the controllers deliver keep the invariant.
LEMMA DeliverSteps ==
  ASSUME IInv, Deliver
  PROVE  IInv'
\* An interrupt ends a hlt, which only the sleep of main executes.
<1>Halted. ASSUME Op = "hlt"
           PROVE  Depth = 1 /\ Below([stack EXCEPT ![Depth].pc = AfterHalt(halts + 1)])
  <2> USE <1>Halted
  <2> DEFINE n == AfterHalt(halts + 1)
             e == [Top EXCEPT !.pc = n]
  <2>1. Top \in Contexts /\ Top.prog = "main" /\ Top.pc = 26
    BY Running, Zenon DEF Points
  <2>2. Depth = 1 /\ Top = stack[1]
    BY <2>1, Levels
  <2>3. n \in {25, 26, 27}
    BY <2>1 DEF AfterHalt
  <2> HIDE DEF n
  <2>4. /\ e \in Contexts /\ e.prog = Top.prog /\ e.saved = Top.saved /\ e.pc = n
    BY <2>1, <2>3 DEF Contexts
  <2>5. [stack EXCEPT ![Depth].pc = n] = [stack EXCEPT ![Len(stack)] = e]
    BY DEF Top, Depth
  <2> HIDE DEF e
  <2>6. /\ InRange(e) /\ SamePhase(Top, e) /\ (Off(e) <=> Off(Top)) /\ SameLocks(Top, e)
    BY <2>1, <2>3, <2>4, AtLoop
  <2>7. PICK s : s = [stack EXCEPT ![Len(stack)] = e]
    BY Zenon
  <2>8. Rewritten(stack, s, e)
    <3>1. stack \in Seq(Contexts) /\ Len(stack) > 0
      BY <2>2 DEF IInv, TypeOK, Depth
    <3> QED
      BY <2>4, <2>7, <3>1, Updated, Zenon
  <2>9. s \in Seq(Contexts) /\ Len(s) = 1 /\ s[1] = e
    BY <2>2, <2>8, Zenon DEF Rewritten, Depth
  <2>10. Below(s)
    BY <2>2, <2>4, <2>6, <2>9, Zenon DEF Below
  <2>11. s = [stack EXCEPT ![Depth].pc = AfterHalt(halts + 1)]
    BY <2>5, <2>7, Zenon DEF n
  <2> QED
    BY <2>2, <2>10, <2>11, Zenon
\* An interrupt elsewhere leaves its context as it is.
<1>Awake. ASSUME Depth = 1
          PROVE  Below(stack)
  <2> USE <1>Awake
  <2>1. stack \in Seq(Contexts) /\ Len(stack) = 1
    BY SMTT(20) DEF IInv, TypeOK, Depth
  <2>2. SamePhase(stack[1], stack[1]) /\ SameLocks(stack[1], stack[1])
    BY DEF SamePhase, SameLocks
  <2> QED
    BY <2>1, <2>2, Base, Zenon DEF Below
\* An interrupt is taken.
<1>Interrupted.
    ASSUME NEW irq \in Irq, Enter(irq)
    PROVE  /\ Depth = 1 /\ BaseIf = TRUE
           /\ \E s, c : /\ Below(s) /\ c \in Contexts /\ stack' = Append(s, c)
                        /\ c.prog = (IF irq = Timer THEN "timer" ELSE "keyboard") /\ c.pc = 1
                        /\ Len(c.saved) = 0 /\ c.iret_if = TRUE
  <2> USE <1>Interrupted
  <2> DEFINE p == IF irq = Timer THEN "timer" ELSE "keyboard"
             c == Context(p)
             s == IF Op = "hlt" THEN [stack EXCEPT ![Depth].pc = AfterHalt(halts + 1)] ELSE stack
  <2>1. iflag = TRUE
    BY SMTT(20) DEF Enter, IInv, TypeOK
  <2>2. Depth = 1 /\ BaseIf = TRUE
    BY <2>1 DEF IInv, TypeOK, Flags, BaseIf
  <2>3. stack' = Append(s, c)
    BY DEF Enter
  <2>4. p \in Programs
    BY DEF Programs
  <2>5. c \in Contexts /\ c.prog = p /\ c.pc = 1 /\ Len(c.saved) = 0 /\ c.iret_if = TRUE
    <3> HIDE DEF p
    <3> QED
      BY <2>1, <2>4, NewContext, Zenon
  <2>6. Below(s)
    <3>1. CASE Op = "hlt"
      BY <3>1, <1>Halted
    <3>2. CASE Op # "hlt"
      BY <2>2, <3>2, <1>Awake
    <3> QED
      BY <3>1, <3>2
  <2> HIDE DEF c, s
  <2> QED
    BY <2>2, <2>3, <2>5, <2>6, ZenonT(30) DEF p
\* A second context on a stack of one.
<1>Second. ASSUME NEW s \in Seq(Contexts), NEW c \in Contexts, NEW t, t = Append(s, c), Len(s) = 1
           PROVE  t \in Seq(Contexts) /\ Len(t) = 2 /\ t[1] = s[1] /\ t[2] = c /\ s[1] \in Contexts
  <2> USE <1>Second
  <2>1. PICK b \in Contexts : b = s[1] /\ s = <<b>>
    OBVIOUS
  <2>2. t = Append(<<b>>, c)
    BY <2>1
  <2>3. t \in Seq(Contexts) /\ Len(t) = 2 /\ t[1] = b /\ t[2] = c
    <3> HIDE <2>1
    <3> QED
      BY <2>2, SMTT(20)
  <2> QED
    BY <2>1, <2>3
\* The handler that an interrupt enters has its line to serve.
<1>EnterStack. ASSUME NEW irq \in Irq, Enter(irq)
               PROVE  Entered /\ Serves(stack'[2]) = {irq} /\ (irq = Keyboard => Reads(stack'[2]))
  <2> USE <1>EnterStack
  <2>1. PICK s, c : /\ Below(s) /\ c \in Contexts /\ stack' = Append(s, c)
                    /\ c.prog = (IF irq = Timer THEN "timer" ELSE "keyboard") /\ c.pc = 1
                    /\ Len(c.saved) = 0 /\ c.iret_if = TRUE
    BY <1>Interrupted, Zenon
  <2>2. s \in Seq(Contexts) /\ Len(s) = 1
    BY <2>1, Zenon DEF Below
  <2>3. c \in Contexts /\ stack' = Append(s, c)
    BY <2>1, Zenon
  <2>4. /\ stack' \in Seq(Contexts) /\ Len(stack') = 2 /\ stack'[1] = s[1] /\ stack'[2] = c
        /\ s[1] \in Contexts
    <3> HIDE <2>1
    <3> QED
      BY <2>2, <2>3, <1>Second, ZenonT(30)
  <2>5. InProgram(c) /\ ~ Off(c) /\ \A l \in Lock : ~ Holds(c, l)
    BY <2>1, Fresh, SMTT(20)
  <2>6. InProgram(s[1])
    BY <2>1, <2>4, Within, Zenon DEF Below
  <2>7. c.prog \in Handlers
    BY <2>1 DEF Handlers
  <2>8. Serves(c) = {irq} /\ (irq = Keyboard => Reads(c))
    BY <2>1 DEF Serves, Reads, Irq, Timer, Keyboard
  <2>9. Depth' = 2
    BY <2>4 DEF Depth
  <2> QED
    BY <2>1, <2>4, <2>5, <2>6, <2>7, <2>8, <2>9, ZenonT(30) DEF Entered, Below
\* The handler is the second context.
<1>EnterNested. ASSUME Nested, Depth = 1, Entered
                PROVE  Nested'
  <2> USE <1>EnterNested
  <2>1. /\ stack[1].prog \in {"main", "panic"}
        /\ Len(stack[1].saved) = IF Off(stack[1]) THEN 1 ELSE 0
    BY SMTT(20) DEF Nested
  <2>2. \A d \in 1 .. 2 : /\ InProgram(stack'[d])
                          /\ Len(stack'[d].saved) = IF Off(stack'[d]) THEN 1 ELSE 0
    BY <2>1, SMTT(20) DEF Entered
  <2>3. Depth' = 2 /\ stack'[1].prog = stack[1].prog /\ stack'[2].prog \in Handlers
    BY Zenon DEF Entered
  <2> QED
    BY <2>1, <2>2, <2>3, SMTT(20) DEF Nested
\* It runs with interrupts off, and they were on below it.
<1>EnterFlags. ASSUME ~ Off(stack[1]), iflag' = FALSE, Ready', Entered
               PROVE  Flags' /\ BaseIf' = TRUE
  <2> USE <1>EnterFlags
  <2>1. /\ Depth' = 2 /\ ~ Off(stack'[1]) /\ ~ Off(stack'[2]) /\ stack'[2].iret_if = TRUE
    BY Zenon DEF Entered
  <2>2. BaseIf' = TRUE
    BY <2>1 DEF BaseIf
  <2> QED
    BY <2>1, <2>2, SMTT(20) DEF Flags
\* It is not in the phases of the boot.
<1>EnterPhases. ASSUME Phases, MayEnable, Entered, UNCHANGED <<loaded, controller, routed>>,
                       pic'.masked = pic.masked, lapic'.enabled = lapic.enabled
                PROVE  Phases'
  <2> USE <1>EnterPhases
  <2>1. stack'[1].prog = stack[1].prog /\ SamePhase(stack[1], stack'[1])
    BY Zenon DEF Entered
  <2> QED
    BY <2>1, ZenonT(30) DEF Phases, SamePhase
\* It holds no lock yet, and the context below no lock of the prints.
<1>EnterLocks. ASSUME stack[1].prog \in {"main", "panic"}, ~ Off(stack[1]), Depth = 1,
                      locks \in [Lock -> Nat], LocksHeld, Entered, locks' = locks
               PROVE  LocksHeld'
  <2> USE <1>EnterLocks
  <2>1. \A l \in Lock : locks[l] <= 1 /\ locks[l] \in Nat
    BY SMTT(20) DEF LocksHeld
  <2>2. /\ Depth' = 2 /\ stack'[1].prog = stack[1].prog
        /\ \A l \in Lock : /\ Holds(stack'[1], l) <=> Holds(stack[1], l)
                           /\ ~ Holds(stack'[2], l)
    BY ZenonT(30) DEF Entered, SameLocks
  <2>3. ~ Holds(stack[1], "WRITER") /\ ~ Holds(stack[1], "SERIAL1")
    BY SMTT(20) DEF Holds, Off, Panics
  <2>4. \A l \in Lock : Holds(stack[1], l) => locks[l] = 1
    BY SMTT(20) DEF LocksHeld
  <2>5. \A l \in Lock :
          locks[l] = 1 => \/ Holds(stack[1], l)
                          \/ stack[1].prog = "panic" /\ l \in {"PICS", "PAGING_CTX"}
    BY SMTT(20) DEF LocksHeld
  <2> QED
    BY <2>1, <2>2, <2>3, <2>4, <2>5, SMTT(20) DEF LocksHeld, Lock
\* An interrupt is taken where interrupts are on: the set-up is complete, and the
\* interrupted code holds no lock that a handler takes.
<1>EnterStep. ASSUME NEW irq \in Irq, Enter(irq),
                     pic'.masked = pic.masked, lapic'.enabled = lapic.enabled
              PROVE  Delivered(irq)
  <2> USE <1>EnterStep
  <2>1. iflag' = FALSE /\ UNCHANGED <<loaded, locks, controller, routed, kbd_full, missed>>
    BY DEF Enter
  <2>2. Depth = 1 /\ BaseIf = TRUE
    BY <1>Interrupted, Zenon
  <2>3. Ready
    BY <2>2, BaseReady
  <2>4. Ready'
    BY <2>1, <2>3, SMTT(20) DEF Ready
  <2>5. Entered /\ Serves(stack'[2]) = {irq} /\ (irq = Keyboard => Reads(stack'[2]))
    BY <1>EnterStack, Zenon
  <2>6. Nested /\ Flags /\ Phases /\ LocksHeld /\ TypeOK
    BY Zenon DEF IInv
  <2>7. ~ Off(stack[1]) /\ MayEnable
    BY <2>2, <2>6, Zenon DEF Flags, MayEnable
  <2>8. stack[1].prog \in {"main", "panic"} /\ locks \in [Lock -> Nat]
    BY <2>6, Zenon DEF Nested, TypeOK
  <2>9. Nested'
    BY <2>2, <2>5, <2>6, <1>EnterNested, Zenon
  <2>10. Flags'
    BY <2>1, <2>4, <2>5, <2>7, <1>EnterFlags, Zenon
  <2>11. Phases'
    BY <2>1, <2>5, <2>6, <2>7, <1>EnterPhases, Zenon
  <2>12. LocksHeld'
    BY <2>1, <2>2, <2>5, <2>6, <2>7, <2>8, <1>EnterLocks, Zenon
  <2> QED
    BY <2>1, <2>2, <2>3, <2>5, <2>9, <2>10, <2>11, <2>12, ZenonT(30) DEF Delivered, Entered
\* An interrupt from the PICs, which deliver while they are not masked: none is
\* in service, as handlers run with interrupts off and signal before they return.
<1>DeliverPicStep. ASSUME NEW irq \in Irq, DeliverPic(irq)
                   PROVE  IInv'
  <2> USE <1>DeliverPicStep
  <2>1. /\ pic' \in [irr : SUBSET Irq, isr : SUBSET Irq, masked : BOOLEAN]
        /\ pic'.irr = pic.irr \ {irq} /\ pic'.isr = pic.isr \cup {irq} /\ pic'.masked = pic.masked
        /\ lapic' = lapic /\ pic.masked = FALSE
    BY Zenon DEF DeliverPic, IInv, TypeOK
  <2>2. Delivered(irq)
    BY <2>1, <1>EnterStep, Zenon DEF DeliverPic
  <2>3. UNCHANGED <<loaded, locks, controller, routed, kbd_full, missed>>
    BY <2>2, Zenon DEF Delivered
  <2>4. TypeOK'
    <3>1. stack' \in Seq(Contexts) /\ Depth' = 2 /\ iflag' = FALSE
      BY <2>2, Zenon DEF Delivered
    <3>2. Depth' \in 1 .. 3
      BY <3>1
    <3> QED
      BY <2>1, <2>3, <3>1, <3>2, ZenonT(30) DEF IInv, TypeOK
  <2>5. controller = "Pics"
    <3>1. controller = "Apic" => pic.masked
      BY <2>2, Zenon DEF Delivered, Ready
    <3> QED
      BY <2>1, <3>1, SMTT(20) DEF IInv, TypeOK
  <2>6. Depth = 1 /\ Depth' = 2 /\ Serves(stack'[2]) = {irq} /\ (irq = Keyboard => Reads(stack'[2]))
    BY <2>2, Zenon DEF Delivered
  <2>7. InService'
    <3>1. pic.isr = {} /\ lapic.isr = {}
      BY <2>5, <2>6, SMTT(20) DEF IInv, InService
    <3> QED
      BY <2>1, <2>3, <2>5, <2>6, <3>1, SMTT(20) DEF InService
  <2>8. Devices'
    BY <2>1, <2>3, SMTT(20) DEF IInv, Devices
  <2>9. Request'
    BY <2>1, <2>3, <2>6, SMTT(20) DEF IInv, Request
  <2> QED
    BY <2>2, <2>4, <2>7, <2>8, <2>9, Zenon DEF IInv, Delivered
\* An interrupt from the local APIC, which has requests only once it is enabled.
<1>DeliverLapicStep. ASSUME NEW irq \in Irq, DeliverLapic(irq)
                     PROVE  IInv'
  <2> USE <1>DeliverLapicStep
  <2>1. /\ lapic' \in [irr : SUBSET Irq, isr : SUBSET Irq, enabled : BOOLEAN]
        /\ lapic'.irr = lapic.irr \ {irq} /\ lapic'.isr = lapic.isr \cup {irq}
        /\ lapic'.enabled = lapic.enabled /\ pic' = pic /\ irq \in lapic.irr
    BY Zenon DEF DeliverLapic, IInv, TypeOK
  <2>2. Delivered(irq)
    BY <2>1, <1>EnterStep, Zenon DEF DeliverLapic
  <2>3. UNCHANGED <<loaded, locks, controller, routed, kbd_full, missed>>
    BY <2>2, Zenon DEF Delivered
  <2>4. TypeOK'
    <3>1. stack' \in Seq(Contexts) /\ Depth' = 2 /\ iflag' = FALSE
      BY <2>2, Zenon DEF Delivered
    <3>2. Depth' \in 1 .. 3
      BY <3>1
    <3> QED
      BY <2>1, <2>3, <3>1, <3>2, ZenonT(30) DEF IInv, TypeOK
  <2>5. controller = "Apic" /\ lapic.enabled = TRUE
    BY <2>1 DEF IInv, Devices
  <2>6. Depth = 1 /\ Depth' = 2 /\ Serves(stack'[2]) = {irq} /\ (irq = Keyboard => Reads(stack'[2]))
    BY <2>2, Zenon DEF Delivered
  <2>7. InService'
    <3>1. pic.isr = {} /\ lapic.isr = {}
      BY <2>5, <2>6, SMTT(20) DEF IInv, InService
    <3> QED
      BY <2>1, <2>3, <2>5, <2>6, <3>1, SMTT(20) DEF InService
  <2>8. Devices'
    BY <2>1, <2>3, <2>5 DEF IInv, Devices
  <2>9. Request'
    BY <2>1, <2>3, <2>6, SMTT(20) DEF IInv, Request
  <2> QED
    BY <2>2, <2>4, <2>7, <2>8, <2>9, Zenon DEF IInv, Delivered
<1> QED
  BY <1>DeliverPicStep, <1>DeliverLapicStep, Zenon DEF Deliver

\* A request reaches the local APIC only when it is enabled, and leaves the lines
\* in service alone.
LEMMA Latched ==
  ASSUME NEW irq \in Irq, Latch(irq),
         lapic \in [irr : SUBSET Irq, isr : SUBSET Irq, enabled : BOOLEAN]
  PROVE  /\ lapic' \in [irr : SUBSET Irq, isr : SUBSET Irq, enabled : BOOLEAN]
         /\ lapic'.isr = lapic.isr /\ lapic'.enabled = lapic.enabled
         /\ lapic'.irr # {} => lapic.irr # {} \/ lapic.enabled = TRUE
<1> DEFINE r == IF irq \in routed /\ lapic.enabled THEN lapic.irr \cup {irq} ELSE lapic.irr
<1>1. lapic' = [lapic EXCEPT !.irr = r]
  BY DEF Latch
<1>2. r \subseteq Irq /\ (r # {} => lapic.irr # {} \/ lapic.enabled = TRUE)
  OBVIOUS
<1> HIDE DEF r
<1> QED
  BY <1>1, <1>2

\* The requests of the devices keep the invariant.
LEMMA DeviceSteps ==
  ASSUME IInv, RaiseTimer \/ PressKey
  PROVE  IInv'
\* A request of a device, which leaves the processor alone.
<1>LatchStep. ASSUME NEW irq \in Irq, Latch(irq),
                     UNCHANGED <<loaded, stack, iflag, locks, controller>>,
                     kbd_full' \in BOOLEAN, missed' \in BOOLEAN, Request'
              PROVE  IInv'
  <2> USE <1>LatchStep
  <2>1. TypeOK /\ Nested /\ Flags /\ Phases /\ LocksHeld /\ Devices /\ InService
    BY Zenon DEF IInv
  <2>2. /\ pic' \in [irr : SUBSET Irq, isr : SUBSET Irq, masked : BOOLEAN]
        /\ pic'.isr = pic.isr /\ pic'.masked = pic.masked
    BY <2>1, Zenon DEF Latch, TypeOK
  <2>3. /\ lapic' \in [irr : SUBSET Irq, isr : SUBSET Irq, enabled : BOOLEAN]
        /\ lapic'.isr = lapic.isr /\ lapic'.enabled = lapic.enabled
        /\ lapic'.irr # {} => lapic.irr # {} \/ lapic.enabled = TRUE
    BY <2>1, Latched, Zenon DEF TypeOK
  <2>4. routed' = routed /\ Depth' = Depth
    BY Zenon DEF Latch, Depth
  <2>5. TypeOK'
    BY <2>1, <2>2, <2>3, <2>4, ZenonT(30) DEF TypeOK
  <2>6. Nested'
    BY <2>1, <2>4, ZenonT(30) DEF Nested
  <2>7. BaseIf' = BaseIf /\ (MayEnable' <=> MayEnable)
    BY <2>4, ZenonT(30) DEF BaseIf, MayEnable
  <2>8. Ready' <=> Ready
    BY <2>2, <2>3, <2>4, Zenon DEF Ready
  <2>9. Flags'
    BY <2>1, <2>4, <2>7, <2>8, ZenonT(30) DEF Flags
  <2>10. Phases'
    BY <2>1, <2>2, <2>3, <2>4, <2>7, ZenonT(30) DEF Phases
  <2>11. LocksHeld'
    BY <2>1, <2>4, ZenonT(30) DEF LocksHeld
  <2>12. InService'
    BY <2>1, <2>2, <2>3, <2>4, ZenonT(30) DEF InService
  <2>13. Devices'
    BY <2>1, <2>2, <2>3, ZenonT(30) DEF Devices
  <2> QED
    BY <2>5, <2>6, <2>9, <2>10, <2>11, <2>12, <2>13, Zenon DEF IInv
\* A tick of the PIT.
<1>RaiseTimerStep. ASSUME RaiseTimer
                   PROVE  IInv'
  <2> USE <1>RaiseTimerStep
  <2>1. Latch(Timer) /\ UNCHANGED <<loaded, stack, iflag, locks, controller, kbd_full, missed>>
    BY DEF RaiseTimer
  <2>2. /\ pic.irr \subseteq pic'.irr /\ pic'.masked = pic.masked /\ lapic.irr \subseteq lapic'.irr
    BY <2>1, SMTT(20) DEF Latch, IInv, TypeOK
  <2>3. Request'
    BY <2>1, <2>2 DEF IInv, Request, Depth
  <2>4. kbd_full' \in BOOLEAN /\ missed' \in BOOLEAN /\ Timer \in Irq
    BY <2>1 DEF IInv, TypeOK, Irq
  <2> QED
    BY <2>1, <2>3, <2>4, <1>LatchStep
\* A key arrives.  With the PICs masked and interrupts on, the handover is
\* complete: the local APIC takes the request.
<1>PressKeyStep. ASSUME PressKey
                 PROVE  IInv'
  <2> USE <1>PressKeyStep
  <2>1. Latch(Keyboard) /\ UNCHANGED <<loaded, stack, iflag, locks, controller>> /\ kbd_full' = TRUE
    BY DEF PressKey
  <2>2. Keyboard \in pic'.irr /\ pic'.masked = pic.masked
    BY <2>1 DEF Latch, IInv, TypeOK
  <2>3. Keyboard \in routed /\ lapic.enabled = TRUE => Keyboard \in lapic'.irr
    BY <2>1 DEF Latch, IInv, TypeOK
  <2>4. missed' \in BOOLEAN
    BY DEF PressKey, IInv, TypeOK
  <2>5. pic.masked = TRUE /\ iflag = FALSE /\ ~ (Keyboard \in routed /\ lapic.enabled = TRUE)
          => missed' = TRUE
    BY DEF PressKey, IInv, TypeOK
  <2>6. pic.masked = TRUE /\ iflag = TRUE => Keyboard \in routed /\ lapic.enabled = TRUE
    <3>1. SUFFICES ASSUME pic.masked = TRUE, iflag = TRUE
                   PROVE  Keyboard \in routed /\ lapic.enabled = TRUE
      BY Zenon
    <3>2. Depth = 1 /\ BaseIf = TRUE
      BY <3>1 DEF IInv, TypeOK, Flags, BaseIf
    <3>3. Ready /\ controller = "Apic"
      BY <3>1, <3>2, BaseReady, Zenon DEF IInv, Devices
    <3> QED
      BY <3>3 DEF Ready, IInv, TypeOK
  <2>7. pic.masked \in BOOLEAN /\ iflag \in BOOLEAN
    BY DEF IInv, TypeOK
  <2>8. Request'
    BY <2>2, <2>3, <2>5, <2>6, <2>7 DEF Request
  <2>9. kbd_full' \in BOOLEAN /\ Keyboard \in Irq
    BY <2>1 DEF Irq
  <2> QED
    BY <2>1, <2>4, <2>8, <2>9, <1>LatchStep
<1> QED
  BY <1>RaiseTimerStep, <1>PressKeyStep, Zenon

\* The processor has stopped.
LEMMA StoppedStep ==
  ASSUME IInv, Stopped
  PROVE  IInv'
  BY Same DEF Stopped, vars, quietVars

-----------------------------------------------------------------------------
(* The theorems.                                                           *)

\* The state at the entry of kernel_main satisfies the invariant.
LEMMA InitInv ==
  ASSUME Init
  PROVE  IInv
<1> DEFINE b == [prog |-> "main", pc |-> 1, saved |-> <<>>, iret_if |-> FALSE]
<1>1. <<>> \in SavedFlags /\ Len(<<>>) = 0
  BY DEF SavedFlags
<1>2. /\ b \in Contexts /\ b.prog = "main" /\ b.pc = 1 /\ Len(b.saved) = 0
  BY <1>1, SMTT(20) DEF Contexts, Programs
<1>3. stack = <<b>>
  BY DEF Init
<1> HIDE DEF b
<1>4. stack \in Seq(Contexts) /\ Depth = 1 /\ stack[1] = b
  BY <1>2, <1>3 DEF Depth
<1>5. InProgram(b) /\ ~ Off(b) /\ \A l \in Lock : ~ Holds(b, l)
  BY <1>2, Fresh, SMTT(20)
<1>6. TypeOK
  <2>1. Depth \in 1 .. 3
    BY <1>4, SMTT(20)
  <2> QED
    BY <1>4, <2>1, Zenon DEF Init, TypeOK
<1>7. Nested
  BY <1>2, <1>4, <1>5, SMTT(20) DEF Nested
<1>8. ~ MayEnable /\ BaseIf = FALSE
  BY <1>4, <1>5, ZenonT(30) DEF Init, MayEnable, BaseIf
<1>9. Flags
  BY <1>4, <1>8 DEF Flags
<1>10. Phases
  BY <1>2, <1>4, <1>8 DEF Init, Phases
<1>11. LocksHeld
  <2>1. \A l \in Lock : locks[l] = 0
    BY DEF Init
  <2>2. \A l \in Lock : \A d \in 1 .. 1 : ~ Holds(stack[d], l)
    BY <1>4, <1>5, SMTT(20)
  <2> QED
    BY <1>4, <2>1, <2>2, SMTT(20) DEF LocksHeld
<1>12. Devices /\ InService /\ Request
  BY <1>4 DEF Init, Devices, InService, Request
<1> QED
  BY <1>6, <1>7, <1>9, <1>10, <1>11, <1>12 DEF IInv

\* Every step keeps it.
LEMMA NextInv ==
  ASSUME IInv, [Next]_vars
  PROVE  IInv'
<1>1. CASE CpuStep
  <2>1. CASE Work \/ Poll \/ MaybeSkip
    BY <2>1, MoveSteps, Zenon
  <2>2. CASE TakeLock \/ TryLock \/ Unlock
    BY <2>2, LockSteps, Zenon
  <2>3. CASE Load \/ InitPics \/ SetApic \/ EnableLapic \/ MaskPics \/ Route \/ Sti \/ ReadPort
    BY <2>3, SetupSteps, Zenon
  <2>4. CASE Cli \/ Popf \/ Iret \/ Eoi
    BY <2>4, FlagSteps, Zenon
  <2>5. CASE ExplicitPanic
    BY <2>5, TrapSteps, Zenon
  <2> QED
    BY <1>1, <2>1, <2>2, <2>3, <2>4, <2>5, Zenon DEF CpuStep
<1>2. CASE Deliver
  BY <1>2, DeliverSteps, Zenon
<1>3. CASE RaiseTimer \/ PressKey
  BY <1>3, DeviceSteps, Zenon
<1>4. CASE MainTraps \/ DoubleFault \/ MainPanics
  BY <1>4, TrapSteps, Zenon
<1>5. CASE Stopped
  BY <1>5, StoppedStep
<1>6. CASE UNCHANGED vars
  BY <1>6, Same DEF vars, quietVars
<1> QED
  BY <1>1, <1>2, <1>3, <1>4, <1>5, <1>6 DEF Next

\* The inductive invariant holds throughout boot, for every length of the sleep,
\* number of polls and set of programs that may fault.
THEOREM Invariant == Spec => []IInv
<1>1. Init => IInv
  BY InitInv
<1>2. IInv /\ [Next]_vars => IInv'
  BY NextInv
<1> QED
  BY <1>1, <1>2, PTL DEF Spec

\* A lock about to be taken is free.  Its holder would be a context below, and
\* therefore not hold a print lock; main takes PAGING_CTX with nobody below; a
\* handler takes KEYBOARD above main, and PICS only where main had interrupts on
\* and so did not hold it.
LEMMA FreeAtLock ==
  ASSUME IInv, Op = "lock"
  PROVE  locks[Arg] = 0
<1>1. LockAt(Top, Arg)
  BY Running, Zenon DEF Points
<1>2. Arg \in Lock /\ ~ Holds(Top, Arg)
  <2> HIDE DEF Arg
  <2> QED
    BY <1>1 DEF LockAt, Holds, Lock, Panics
<1>3. PICK l \in Lock : l = Arg
  BY <1>2
<1>4. LockAt(Top, l) /\ ~ Holds(Top, l)
  BY <1>1, <1>2, <1>3
<1>5. SUFFICES ASSUME locks[l] # 0
               PROVE  FALSE
  BY <1>3
<1>6. Depth \in 1 .. 3 /\ Top = stack[Depth]
  BY Levels, SMTT(20) DEF Top
<1>7. PICK d \in 1 .. Depth : d = locks[l]
  BY <1>5, <1>6, SMTT(20) DEF IInv, TypeOK, LocksHeld
<1>8. \/ Holds(stack[d], l)
      \/ d = 1 /\ stack[1].prog = "panic" /\ l \in {"PICS", "PAGING_CTX"}
  BY <1>7 DEF IInv, LocksHeld
<1>9. d < Depth
  <2>1. CASE d = Depth
    <3>1. Top.prog = "panic" /\ l \in {"PICS", "PAGING_CTX"}
      BY <1>4, <1>6, <1>8, <2>1, SMTT(20)
    <3> QED
      BY <1>4, <3>1 DEF LockAt, Panics
  <2> QED
    BY <1>6, <1>7, <2>1
<1>10. l \notin {"WRITER", "SERIAL1"}
  BY <1>7, <1>8, <1>9 DEF IInv, LocksHeld
<1>11. Top.prog # "main"
  BY <1>9, Levels
<1>12. /\ Top.prog \in Handlers
       /\ l = "PICS" \/ l = "KEYBOARD"
  BY <1>4, <1>10, <1>11 DEF LockAt, Handlers
<1>13. Depth = 2 /\ Top = stack[2] /\ d = 1
  BY <1>9, <1>12, Levels, SMTT(20)
<1>14. l # "KEYBOARD"
  BY <1>8, <1>13, Base, ZenonT(30) DEF Holds
<1>15. BaseIf = TRUE
  BY <1>12, <1>13 DEF IInv, Flags
<1>16. locks["PICS"] # 1
  BY <1>15, BaseReady DEF Ready
<1> QED
  BY <1>7, <1>12, <1>13, <1>14, <1>16, ZenonT(30)

\* No spin lock of the kernel is ever waited for: the code under PICS, and the
\* print routines, keep interrupts off, so that timer_interrupt_handler and
\* keyboard_interrupt_handler find the locks they take free.
THEOREM LocksNeverSpin == Spec => []NeverSpins
<1>1. IInv => NeverSpins
  BY FreeAtLock DEF NeverSpins
<1> QED
  BY <1>1, Invariant, PTL

\* init turns interrupts on, and without_interrupts restores them, only after the
\* GDT, the IDT and the vectors of the PICs are in place.
THEOREM HandlersInPlace == Spec => []InterruptsHaveHandlers
<1>1. IInv => InterruptsHaveHandlers
  <2>1. SUFFICES ASSUME IInv, iflag
                 PROVE  loaded = {"gdt", "idt", "pics"}
    BY SMTT(20) DEF InterruptsHaveHandlers
  <2>2. BaseIf = TRUE
    BY <2>1 DEF IInv, TypeOK, Flags, BaseIf
  <2> QED
    BY <2>1, <2>2, BaseReady DEF Ready
<1> QED
  BY <1>1, Invariant, PTL

\* The steps that name the end of interrupt and the read of the port.
LEMMA EoiCode ==
  /\ Program["timer"][2] = <<"eoi", Timer>>
  /\ Program["keyboard"][9] = <<"eoi", Keyboard>>
  /\ Program["keyboard"][2] = <<"read_port", 0>>
  BY TimerCode, KeyboardCode, ProgramIs, ZenonT(30)

\* A context has an end of interrupt ahead exactly when it serves the line.
LEMMA ToServe ==
  ASSUME NEW c \in Contexts, InProgram(c), NEW irq \in Irq
  PROVE  (\E k \in c.pc .. Len(Program[c.prog]) : Program[c.prog][k] = <<"eoi", irq>>)
           <=> irq \in Serves(c)
<1>1. InRange(c)
  BY ProgramPoints, ZenonT(30) DEF Points
<1>2. ASSUME NEW k \in c.pc .. Len(Program[c.prog]), Program[c.prog][k] = <<"eoi", irq>>
      PROVE  irq \in Serves(c)
  <2>1. PICK e \in Contexts : e.prog = c.prog /\ e.pc = k
    <3>1. k \in Nat
      BY DEF Contexts
    <3>2. /\ [c EXCEPT !.pc = k] \in Contexts /\ [c EXCEPT !.pc = k].prog = c.prog
          /\ [c EXCEPT !.pc = k].pc = k
      BY <3>1 DEF Contexts
    <3> QED
      BY <3>2, Zenon
  <2>2. InProgram(e)
    BY <1>2, <2>1, SMTT(20) DEF InProgram, Contexts
  <2>3. Points(e, "eoi", irq)
    BY <1>2, <2>1, <2>2, ProgramPoints, SMTT(20)
  <2>4. EoiAt(e, irq)
    BY <2>3, ZenonT(30) DEF Points
  <2> QED
    BY <1>1, <1>2, <2>1, <2>4, SMTT(20) DEF EoiAt, Serves, InRange
<1>3. ASSUME irq \in Serves(c)
      PROVE  \E k \in c.pc .. Len(Program[c.prog]) : Program[c.prog][k] = <<"eoi", irq>>
  <2>1. CASE c.prog = "timer" /\ c.pc <= 2 /\ irq = Timer
    <3>1. 2 \in c.pc .. Len(Program[c.prog])
      BY <1>1, <2>1, Lengths DEF InRange
    <3> QED
      BY <2>1, <3>1, EoiCode, Zenon
  <2>2. CASE c.prog = "keyboard" /\ c.pc <= 9 /\ irq = Keyboard
    <3>1. 9 \in c.pc .. Len(Program[c.prog])
      BY <1>1, <2>2, Lengths DEF InRange
    <3> QED
      BY <2>2, <3>1, EoiCode, Zenon
  <2> QED
    BY <1>3, <2>1, <2>2 DEF Serves
<1> QED
  BY <1>2, <1>3, ZenonT(30)

\* notify_end_of_interrupt reaches the controller that delivered the interrupt:
\* no line is left in service by the handover in apic_init, and none is ended
\* twice.
THEOREM ServiceExact == Spec => []InServiceExact
<1>1. IInv => InServiceExact
  <2>1. SUFFICES ASSUME IInv
                 PROVE  InServiceExact
    OBVIOUS
  <2>2. Depth \in 1 .. 3 /\ stack \in Seq(Contexts) /\ Len(stack) = Depth
    BY <2>1 DEF IInv, TypeOK, Depth
  <2>3. \A d \in 1 .. Depth : stack[d] \in Contexts /\ InProgram(stack[d])
    BY <2>1, <2>2 DEF IInv, Nested
  <2>4. \A irq \in Irq : Serving(irq) <=> \E d \in 1 .. Depth : irq \in Serves(stack[d])
    BY <2>3, ToServe, Zenon DEF Serving
  <2>5. Serves(stack[1]) = {} /\ (Depth > 2 => Serves(stack[3]) = {})
    BY <2>1 DEF IInv, Nested, Serves
  <2>6. \A irq \in Irq : Serving(irq) <=> Depth > 1 /\ irq \in Serves(stack[2])
    BY <2>2, <2>4, <2>5
  <2>7. \A d \in 1 .. Depth : Serves(stack[d]) \subseteq Irq
    BY DEF Serves, Irq
  <2>8. {irq \in Irq : Serving(irq)} = IF Depth > 1 THEN Serves(stack[2]) ELSE {}
    BY <2>2, <2>6, <2>7
  <2> QED
    BY <2>1, <2>8 DEF IInv, InService, InServiceExact
<1> QED
  BY <1>1, Invariant, PTL

\* A scancode in the controller has a request or the handler about to read it,
\* across the handover in apic_init, unless its edge met neither controller.
THEOREM KeyRequested == Spec => []KeyHasRequest
<1>1. IInv => KeyHasRequest
  <2>1. SUFFICES ASSUME IInv, kbd_full, ~ missed,
                        ~ (Keyboard \in pic.irr /\ ~ pic.masked), Keyboard \notin lapic.irr
                 PROVE  \E d \in 1 .. Depth : /\ stack[d].prog = "keyboard"
                             /\ \E k \in stack[d].pc .. Len(Program.keyboard) :
                                  Program.keyboard[k][1] = "read_port"
    BY DEF KeyHasRequest
  <2>2. Depth > 1 /\ Reads(stack[2])
    BY <2>1 DEF IInv, TypeOK, Request
  <2>3. 2 \in 1 .. Depth /\ stack[2].prog = "keyboard"
    BY <2>1, <2>2 DEF IInv, TypeOK, Reads
  <2>4. 2 \in stack[2].pc .. Len(Program.keyboard)
    <3>1. InProgram(stack[2])
      BY <2>1, <2>3, Zenon DEF IInv, Nested
    <3>2. stack[2].pc \in 1 .. Len(Program.keyboard) /\ stack[2].pc <= 2
      BY <2>2, <2>3, <3>1 DEF InProgram, Reads
    <3>3. Len(Program.keyboard) = 12
      BY Lengths, ZenonT(30)
    <3> QED
      BY <3>2, <3>3
  <2>5. Program.keyboard[2][1] = "read_port"
    BY EoiCode
  <2> QED
    BY <2>3, <2>4, <2>5, Zenon
<1> QED
  BY <1>1, Invariant, PTL

=============================================================================
