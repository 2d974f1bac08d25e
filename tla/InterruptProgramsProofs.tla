---------------------- MODULE InterruptProgramsProofs -----------------------
(***************************************************************************)
(* The programs of Interrupts, step by step.  A context is a program and a *)
(* place in it; the first lemmas compute the length of every program, for  *)
(* every length of the sleep and every number of polls, and show for each  *)
(* kind of step at which places it stands and what moving past it changes: *)
(* the locks the context holds, without_interrupts, the phase of the boot, *)
(* and what a handler still owes.                                          *)
(*                                                                         *)
(* The inductive invariant of InterruptsProofs is built on these places.   *)
(* It is stated here, with the steps that take and release locks.          *)
(***************************************************************************)
EXTENDS Interrupts, TLAPS

-----------------------------------------------------------------------------
(* The places of a context.                                                *)

\* The programs a context can run.
Programs == {"main", "timer", "keyboard", "breakpoint", "page_fault",
             "double_fault", "panic", "reset"}

\* The flags that without_interrupts has pushed.
SavedFlags == Seq(BOOLEAN)
Contexts == [prog : Programs, pc : Nat, saved : SavedFlags, iret_if : BOOLEAN]

\* Handlers of an interrupt, handlers of an exception, and the programs of the
\* panic handler, which double_fault_handler enters too.
Handlers == {"timer", "keyboard"}
Exceptions == {"breakpoint", "page_fault", "double_fault", "reset"}
Panics == {"double_fault", "panic"}

\* Inside without_interrupts.
Off(c) ==
  \/ /\ c.prog = "main"
     /\ \/ c.pc \in 2 .. 4 \/ c.pc \in 15 .. 17 \/ c.pc \in 19 .. 21 \/ c.pc \in 30 .. 32
        \/ c.pc \in 34 .. 36 \/ c.pc \in 38 .. 51 \/ c.pc \in 56 .. 58 \/ c.pc \in 60 .. 62
  \/ c.prog = "keyboard" /\ c.pc \in 5 .. 7
  \/ c.prog = "breakpoint" /\ c.pc \in 2 .. 4
  \/ c.prog = "page_fault" /\ (c.pc \in 2 .. 4 \/ c.pc \in 7 .. 9)
  \/ c.prog \in Panics /\ (c.pc \in 2 .. 4 \/ c.pc \in 6 .. 8 \/ c.pc \in 10 .. 12)

\* Between a lock and its unlock.
Holds(c, l) ==
  \/ /\ l = "WRITER"
     /\ \/ c.prog \in {"main", "breakpoint"} \cup Panics /\ c.pc = 3
        \/ c.prog = "page_fault" /\ c.pc \in {3, 8}
        \/ c.prog = "keyboard" /\ c.pc = 6
  \/ /\ l = "SERIAL1"
     /\ \/ c.prog = "main" /\ c.pc \in {16, 20, 31, 35, 57, 61}
        \/ c.prog \in Panics /\ c.pc \in {7, 11}
  \/ /\ l = "PAGING_CTX"
     /\ \/ c.prog = "main" /\ c.pc \in {12, 13, 23, 24, 39, 40, 47, 48, 53, 54}
        \/ c.prog = "page_fault" /\ c.pc \in 6 .. 10
  \/ /\ l = "PICS"
     /\ \/ c.prog = "main" /\ (c.pc \in {8, 9} \/ c.pc \in 42 .. 45)
        \/ c.prog = "timer" /\ c.pc \in 2 .. 3
        \/ c.prog = "keyboard" /\ c.pc \in 9 .. 10
  \/ l = "KEYBOARD" /\ c.prog = "keyboard" /\ c.pc \in 2 .. 11

\* A context is at a step of its program.
InProgram(c) == c.pc \in 1 .. Len(Program[c.prog])

\* The line whose end of interrupt a handler still has to signal.
Serves(c) ==
  IF c.prog = "timer" /\ c.pc <= 2 THEN {Timer}
  ELSE IF c.prog = "keyboard" /\ c.pc <= 9 THEN {Keyboard} ELSE {}

\* The keyboard handler before its read of the port.
Reads(c) == c.prog = "keyboard" /\ c.pc <= 2

\* The length of every program.
InRange(c) ==
  /\ c.prog = "main" => c.pc \in 1 .. 64
  /\ c.prog = "timer" => c.pc \in 1 .. 4
  /\ c.prog = "keyboard" => c.pc \in 1 .. 12
  /\ c.prog = "breakpoint" => c.pc \in 1 .. 5
  /\ c.prog = "page_fault" => c.pc \in 1 .. 11
  /\ c.prog \in Panics => c.pc \in 1 .. 13
  /\ c.prog = "reset" => c.pc \in 1 .. 1

\* The places of each step in the programs.
CliAt(c) ==
  \/ c.prog = "main" /\ c.pc \in {1, 14, 18, 29, 33, 37, 55, 59}
  \/ c.prog = "keyboard" /\ c.pc = 4
  \/ c.prog = "breakpoint" /\ c.pc = 1
  \/ c.prog = "page_fault" /\ c.pc \in {1, 6}
  \/ c.prog \in Panics /\ c.pc \in {1, 5, 9}

PopfAt(c) ==
  \/ c.prog = "main" /\ c.pc \in {4, 17, 21, 32, 36, 51, 58, 62}
  \/ c.prog = "keyboard" /\ c.pc = 7
  \/ c.prog = "breakpoint" /\ c.pc = 4
  \/ c.prog = "page_fault" /\ c.pc \in {4, 9}
  \/ c.prog \in Panics /\ c.pc \in {4, 8, 12}

LockAt(c, x) ==
  \/ c.prog = "main" /\ (\/ x = "WRITER" /\ c.pc = 2
                         \/ x = "PICS" /\ c.pc \in {7, 41}
                         \/ x = "PAGING_CTX" /\ c.pc \in {11, 22, 38, 46, 52}
                         \/ x = "SERIAL1" /\ c.pc \in {15, 19, 30, 34, 56, 60})
  \/ x = "PICS" /\ (\/ c.prog = "timer" /\ c.pc = 1
                    \/ c.prog = "keyboard" /\ c.pc = 8)
  \/ x = "KEYBOARD" /\ c.prog = "keyboard" /\ c.pc = 1
  \/ x = "WRITER" /\ (\/ c.prog = "keyboard" /\ c.pc = 5
                      \/ c.prog \in {"breakpoint"} \cup Panics /\ c.pc = 2
                      \/ c.prog = "page_fault" /\ c.pc \in {2, 7})
  \/ x = "SERIAL1" /\ c.prog \in Panics /\ c.pc \in {6, 10}

UnlockAt(c, x) ==
  \/ c.prog = "main" /\ (\/ x = "WRITER" /\ c.pc = 3
                         \/ x = "PICS" /\ c.pc \in {9, 45}
                         \/ x = "PAGING_CTX" /\ c.pc \in {13, 24, 40, 48, 54}
                         \/ x = "SERIAL1" /\ c.pc \in {16, 20, 31, 35, 57, 61})
  \/ x = "PICS" /\ (\/ c.prog = "timer" /\ c.pc = 3
                    \/ c.prog = "keyboard" /\ c.pc = 10)
  \/ x = "KEYBOARD" /\ c.prog = "keyboard" /\ c.pc = 11
  \/ x = "WRITER" /\ (\/ c.prog = "keyboard" /\ c.pc = 6
                      \/ c.prog \in {"breakpoint"} \cup Panics /\ c.pc = 3
                      \/ c.prog = "page_fault" /\ c.pc \in {3, 8})
  \/ x = "SERIAL1" /\ c.prog \in Panics /\ c.pc \in {7, 11}
  \/ x = "PAGING_CTX" /\ c.prog = "page_fault" /\ c.pc = 10

EoiAt(c, x) ==
  \/ c.prog = "timer" /\ c.pc = 2 /\ x = Timer
  \/ c.prog = "keyboard" /\ c.pc = 9 /\ x = Keyboard

IretAt(c) ==
  \/ c.prog = "timer" /\ c.pc = 4
  \/ c.prog = "keyboard" /\ c.pc = 12
  \/ c.prog = "breakpoint" /\ c.pc = 5

\* Context c is at a step op of argument x.
Points(c, op, x) ==
  /\ InRange(c)
  /\ op = "cli" => CliAt(c)
  /\ op = "popf" => PopfAt(c)
  /\ op = "sti" => c.prog = "main" /\ c.pc = 10
  /\ op = "lock" => LockAt(c, x)
  /\ op = "unlock" => UnlockAt(c, x)
  /\ op = "try_lock" => x = "PAGING_CTX" /\ c.prog = "page_fault" /\ c.pc = 5
  /\ op \in {"work", "enabled"} => c.prog = "main" /\ c.pc \in {12, 23, 28, 39, 47, 53, 63}
  /\ op = "poll" => c.prog = "main" /\ c.pc = 25
  /\ op = "hlt" => c.prog = "main" /\ c.pc = 26
  /\ op = "panic" => c.prog = "main" /\ c.pc = 27
  /\ op = "load" => c.prog = "main" /\ (\/ x = "gdt" /\ c.pc = 5
                                        \/ x = "idt" /\ c.pc = 6)
  /\ op = "init_pics" => c.prog = "main" /\ c.pc = 8
  /\ op = "set_apic" => c.prog = "main" /\ c.pc = 42
  /\ op = "enable_lapic" => c.prog = "main" /\ c.pc = 43
  /\ op = "mask_pics" => c.prog = "main" /\ c.pc = 44
  /\ op = "route" => c.prog = "main" /\ (\/ x = Timer /\ c.pc = 49
                                         \/ x = Keyboard /\ c.pc = 50)
  /\ op = "read_port" => c.prog = "keyboard" /\ c.pc = 2
  /\ op = "maybe_skip" => c.prog = "keyboard" /\ c.pc = 3 /\ x = 4
  /\ op = "eoi" => EoiAt(c, x)
  /\ op = "iret" => IretAt(c)

\* A move from c to e that crosses no lock or unlock, no step of the boot
\* sequence, and neither the read nor the end of interrupt of a handler.
SameLocks(c, e) == \A l \in Lock : Holds(e, l) <=> Holds(c, l)

SamePhase(c, e) ==
  c.prog = "main" =>
    /\ e.pc > 5 <=> c.pc > 5
    /\ e.pc > 6 <=> c.pc > 6
    /\ e.pc > 8 <=> c.pc > 8
    /\ e.pc > 42 <=> c.pc > 42
    /\ e.pc > 43 <=> c.pc > 43
    /\ e.pc > 44 <=> c.pc > 44
    /\ e.pc > 50 <=> c.pc > 50
    /\ e.pc <= 10 <=> c.pc <= 10

SameService(c, e) == Serves(e) = Serves(c) /\ (Reads(e) <=> Reads(c))

\* c past a step of without_interrupts.
Past(c, v) == [c EXCEPT !.pc = @ + 1, !.saved = v]

-----------------------------------------------------------------------------
(* The programs, step by step.                                             *)

\* A program of n steps.
Listing(s, n) == n \in Nat /\ Len(s) = n /\ \E S : s \in Seq(S)

\* u is s, of m steps, followed by t.
Follows(u, s, m, t, k) ==
  /\ Listing(u, k)
  /\ \A i \in 1 .. m : u[i] = s[i]
  /\ \A i \in (m + 1) .. k : u[i] = t[i - m]

\* u is s between two instructions.
Encloses(u, a, s, b, k) ==
  /\ Listing(u, k) /\ u[1] = a /\ u[k] = b
  /\ \A i \in 2 .. (k - 1) : u[i] = s[i - 1]

\* One program after another.
LEMMA Joined ==
  ASSUME NEW s, NEW t, NEW m, NEW n, NEW k, Listing(s, m), Listing(t, n), k = m + n
  PROVE  Follows(s \o t, s, m, t, k)
<1>1. PICK S : s \in Seq(S)
  BY DEF Listing
<1>2. PICK T : t \in Seq(T)
  BY DEF Listing
<1> DEFINE U == S \cup T
<1>3. s \in Seq(U)
  BY <1>1
<1>4. t \in Seq(U)
  BY <1>2
<1> HIDE DEF U
<1>5. m \in Nat /\ n \in Nat /\ Len(s) = m /\ Len(t) = n
  BY DEF Listing
<1>6. s \o t \in Seq(U) /\ Len(s \o t) = k
  BY <1>3, <1>4, <1>5
<1>7. \A i \in 1 .. m : (s \o t)[i] = s[i]
  BY <1>3, <1>4, <1>5
<1>8. \A i \in (m + 1) .. k : (s \o t)[i] = t[i - m]
  BY <1>3, <1>4, <1>5
<1>9. Listing(s \o t, k)
  BY <1>5, <1>6 DEF Listing
<1> QED
  BY <1>7, <1>8, <1>9, Zenon DEF Follows

\* A program of one step.
LEMMA StepCode ==
  ASSUME NEW a, NEW x
  PROVE  Listing(Step(a, x), 1) /\ Step(a, x)[1] = <<a, x>>
<1> DEFINE c == <<a, x>>
<1> HIDE DEF c
<1>1. <<c>> \in Seq({c}) /\ Len(<<c>>) = 1 /\ <<c>>[1] = c
  OBVIOUS
<1> QED
  BY <1>1, Zenon DEF Step, c, Listing

\* A program between a first and a last step.
LEMMA EnclosedCode ==
  ASSUME NEW a, NEW s, NEW b, NEW n, NEW k, Listing(a, 1), Listing(b, 1), Listing(s, n), k = n + 2
  PROVE  Encloses(a \o s \o b, a[1], s, b[1], k)
<1> DEFINE t == a \o s
           u == t \o b
           h == n + 1
<1>1. n \in Nat /\ k \in Nat /\ h = 1 + n /\ k = h + 1
  BY DEF Listing
<1>2. Follows(t, a, 1, s, h)
  BY <1>1, Joined, Zenon
<1>3. Listing(t, h)
  BY <1>2, Zenon DEF Follows
<1> HIDE DEF t, h
<1>4. Follows(u, t, h, b, k)
  BY <1>1, <1>3, Joined, Zenon
<1> HIDE DEF u
<1>5. Listing(u, k)
  BY <1>4, Zenon DEF Follows
<1>6. u[1] = a[1]
  BY <1>1, <1>2, <1>4 DEF Follows, h
<1>7. u[k] = b[1]
  BY <1>1, <1>4 DEF Follows
<1>8. \A i \in 2 .. (k - 1) : u[i] = s[i - 1]
  BY <1>1, <1>2, <1>4 DEF Follows
<1> QED
  BY <1>5, <1>6, <1>7, <1>8, Zenon DEF Encloses, u, t

\* A program under a lock.
LEMMA LockedCode ==
  ASSUME NEW l, NEW s, NEW n, NEW k, Listing(s, n), k = n + 2
  PROVE  Encloses(Locked(l, s), <<"lock", l>>, s, <<"unlock", l>>, k)
<1> DEFINE a == Step("lock", l)
           b == Step("unlock", l)
<1>1. Listing(a, 1) /\ a[1] = <<"lock", l>> /\ Listing(b, 1) /\ b[1] = <<"unlock", l>>
  BY StepCode, Zenon
<1>2. Locked(l, s) = a \o s \o b
  BY DEF Locked
<1> HIDE DEF a, b
<1>3. Encloses(a \o s \o b, a[1], s, b[1], k)
  BY <1>1, EnclosedCode, Zenon
<1> QED
  BY <1>1, <1>2, <1>3, Zenon

\* A program inside without_interrupts.
LEMMA OffCode ==
  ASSUME NEW s, NEW n, NEW k, Listing(s, n), k = n + 2
  PROVE  Encloses(WithoutInterrupts(s), <<"cli", 0>>, s, <<"popf", 0>>, k)
<1> DEFINE a == Step("cli", 0)
           b == Step("popf", 0)
<1>1. Listing(a, 1) /\ a[1] = <<"cli", 0>> /\ Listing(b, 1) /\ b[1] = <<"popf", 0>>
  BY StepCode, Zenon
<1>2. WithoutInterrupts(s) = a \o s \o b
  BY DEF WithoutInterrupts
<1> HIDE DEF a, b
<1>3. Encloses(a \o s \o b, a[1], s, b[1], k)
  BY <1>1, EnclosedCode, Zenon
<1> QED
  BY <1>1, <1>2, <1>3, Zenon

\* vga _print and serial _print: a lock inside without_interrupts.
LEMMA PrintCode ==
  ASSUME NEW l, NEW s, s = WithoutInterrupts(Locked(l, <<>>))
  PROVE  /\ Listing(s, 4)
         /\ s[1] = <<"cli", 0>> /\ s[2] = <<"lock", l>>
         /\ s[3] = <<"unlock", l>> /\ s[4] = <<"popf", 0>>
<1> DEFINE e == <<>>
           t == Locked(l, e)
<1>1. Listing(e, 0) /\ 2 = 0 + 2 /\ 4 = 2 + 2
  <2>1. e \in Seq({})
    OBVIOUS
  <2> QED
    BY <2>1 DEF Listing
<1>2. s = WithoutInterrupts(t)
  OBVIOUS
<1> HIDE DEF e
<1>3. Encloses(t, <<"lock", l>>, e, <<"unlock", l>>, 2)
  BY <1>1, LockedCode, Zenon
<1> HIDE DEF t
<1>4. Encloses(s, <<"cli", 0>>, t, <<"popf", 0>>, 4)
  <2>1. Listing(t, 2)
    BY <1>3, Zenon DEF Encloses
  <2> QED
    BY <1>1, <1>2, <2>1, OffCode, Zenon
<1> QED
  BY <1>3, <1>4 DEF Encloses

\* The logger: two prints on the serial line.
LEMMA LogCode ==
  /\ Listing(Log, 8)
  /\ Log[1] = <<"cli", 0>> /\ Log[2] = <<"lock", "SERIAL1">> /\ Log[3] = <<"unlock", "SERIAL1">>
  /\ Log[4] = <<"popf", 0>> /\ Log[5] = <<"cli", 0>> /\ Log[6] = <<"lock", "SERIAL1">>
  /\ Log[7] = <<"unlock", "SERIAL1">> /\ Log[8] = <<"popf", 0>>
<1> DEFINE a == SerialPrint
           b == SerialPrint
<1>1. /\ Listing(a, 4)
      /\ a[1] = <<"cli", 0>> /\ a[2] = <<"lock", "SERIAL1">> /\ a[3] = <<"unlock", "SERIAL1">>
      /\ a[4] = <<"popf", 0>>
  BY PrintCode, Zenon DEF SerialPrint
<1>2. /\ Listing(b, 4)
      /\ b[1] = <<"cli", 0>> /\ b[2] = <<"lock", "SERIAL1">> /\ b[3] = <<"unlock", "SERIAL1">>
      /\ b[4] = <<"popf", 0>>
  BY PrintCode, Zenon DEF SerialPrint
<1>3. Log = a \o b
  BY DEF Log
<1> HIDE DEF a, b
<1>4. 8 = 4 + 4
  OBVIOUS
<1> DEFINE s1 == a \o b
<1>5. Follows(s1, a, 4, b, 8)
  <2>1. Listing(a, 4)
    BY <1>1, Zenon
  <2> QED
    BY <1>2, <1>4, <2>1, Joined, Zenon
<1>6. Log = s1
  BY <1>3 DEF s1
<1> HIDE DEF s1
<1>7. /\ s1[1] = <<"cli", 0>> /\ s1[2] = <<"lock", "SERIAL1">>
      /\ s1[3] = <<"unlock", "SERIAL1">> /\ s1[4] = <<"popf", 0>>
  BY <1>1, <1>5 DEF Follows
<1>8. /\ s1[5] = <<"cli", 0>> /\ s1[6] = <<"lock", "SERIAL1">>
      /\ s1[7] = <<"unlock", "SERIAL1">> /\ s1[8] = <<"popf", 0>>
  BY <1>2, <1>5 DEF Follows
<1>9. Listing(s1, 8)
  BY <1>5, Zenon DEF Follows
<1> QED
  BY <1>6, <1>7, <1>8, <1>9, Zenon

\* What apic_init does inside without_interrupts.
ApicBody == PagingCall \o Locked("PICS", Handover) \o PagingCall
              \o Step("route", Timer) \o Step("route", Keyboard)

\* What keyboard_interrupt_handler does under KEYBOARD.
KeyBody == Step("read_port", 0) \o Step("maybe_skip", Len(VgaPrint)) \o VgaPrint
             \o Locked("PICS", Step("eoi", Keyboard))

-----------------------------------------------------------------------------
(* The places of each step in its program.                                 *)

\* vga _print, step by step.
LEMMA VgaCode ==
  /\ Listing(VgaPrint, 4)
  /\ VgaPrint[1] = <<"cli", 0>> /\ VgaPrint[2] = <<"lock", "WRITER">>
  /\ VgaPrint[3] = <<"unlock", "WRITER">> /\ VgaPrint[4] = <<"popf", 0>>
  BY PrintCode, Zenon DEF VgaPrint

\* kernel_main: its length, and the place of each of its steps.
LEMMA MainCode ==
  /\ Len(Main) = 64 /\ Len(MainStart) = 26
  /\ \A c \in Contexts : c.prog = "main" /\ c.pc \in 1 .. 64 =>
       Points(c, Main[c.pc][1], Main[c.pc][2])
\* A use of PAGING_CTX.
<1>PagingCode.
    /\ Listing(PagingCall, 3)
    /\ PagingCall[1] = <<"lock", "PAGING_CTX">> /\ PagingCall[2] = <<"work", 0>>
    /\ PagingCall[3] = <<"unlock", "PAGING_CTX">>
  <2> DEFINE s == Step("work", 0)
  <2>1. /\ Listing(s, 1)
        /\ s[1] = <<"work", 0>>
    BY StepCode
  <2>2. PagingCall = Locked("PAGING_CTX", s)
    BY DEF PagingCall
  <2> HIDE DEF s
  <2>3. Encloses(Locked("PAGING_CTX", s), <<"lock", "PAGING_CTX">>, s, <<"unlock", "PAGING_CTX">>, 3)
    <3>1. 3 = 1 + 2
      OBVIOUS
    <3> QED
      BY <2>1, <3>1, LockedCode, Zenon
  <2> QED
    BY <2>1, <2>2, <2>3 DEF Encloses
\* The handover from the PICs to the APIC, and its listing under PICS.
<1>HandoverCode.
    /\ Listing(Handover, 3)
    /\ Handover[1] = <<"set_apic", 0>> /\ Handover[2] = <<"enable_lapic", 0>>
    /\ Handover[3] = <<"mask_pics", 0>>
  <2> DEFINE a == Step("set_apic", 0)
             b == Step("enable_lapic", 0)
             c == Step("mask_pics", 0)
  <2>1. /\ Listing(a, 1)
        /\ a[1] = <<"set_apic", 0>>
    BY StepCode
  <2>2. /\ Listing(b, 1)
        /\ b[1] = <<"enable_lapic", 0>>
    BY StepCode
  <2>3. /\ Listing(c, 1)
        /\ c[1] = <<"mask_pics", 0>>
    BY StepCode
  <2>4. Handover = a \o b \o c
    BY DEF Handover
  <2> HIDE DEF a, b, c
  <2>5. 2 = 1 + 1 /\ 3 = 2 + 1
    OBVIOUS
  <2> DEFINE s1 == a \o b
  <2>6. Follows(s1, a, 1, b, 2)
    <3>1. Listing(a, 1)
      BY <2>1, Zenon
    <3> QED
      BY <2>2, <2>5, <3>1, Joined, Zenon
  <2> HIDE DEF s1
  <2> DEFINE s2 == s1 \o c
  <2>7. Follows(s2, s1, 2, c, 3)
    <3>1. Listing(s1, 2)
      BY <2>6, Zenon DEF Follows
    <3> QED
      BY <2>3, <2>5, <3>1, Joined, Zenon
  <2>8. Handover = s2
    BY <2>4 DEF s1, s2
  <2> HIDE DEF s2
  <2>9. /\ s2[1] = <<"set_apic", 0>>
    BY <2>1, <2>6, <2>7 DEF Follows
  <2>10. /\ s2[2] = <<"enable_lapic", 0>>
    BY <2>2, <2>6, <2>7 DEF Follows
  <2>11. /\ s2[3] = <<"mask_pics", 0>>
    BY <2>3, <2>7 DEF Follows
  <2>12. Listing(s2, 3)
    BY <2>7, Zenon DEF Follows
  <2> QED
    BY <2>8, <2>9, <2>10, <2>11, <2>12, Zenon
\* The handover under PICS.
<1>LockedHandoverCode.
    /\ Listing(Locked("PICS", Handover), 5)
    /\ Locked("PICS", Handover)[1] = <<"lock", "PICS">>
    /\ Locked("PICS", Handover)[2] = <<"set_apic", 0>>
    /\ Locked("PICS", Handover)[3] = <<"enable_lapic", 0>>
    /\ Locked("PICS", Handover)[4] = <<"mask_pics", 0>>
    /\ Locked("PICS", Handover)[5] = <<"unlock", "PICS">>
  <2> DEFINE s == Handover
  <2>1. /\ Listing(s, 3)
        /\ s[1] = <<"set_apic", 0>> /\ s[2] = <<"enable_lapic", 0>> /\ s[3] = <<"mask_pics", 0>>
    BY <1>HandoverCode
  <2>2. Locked("PICS", Handover) = Locked("PICS", s)
    OBVIOUS
  <2> HIDE DEF s
  <2>3. Encloses(Locked("PICS", s), <<"lock", "PICS">>, s, <<"unlock", "PICS">>, 5)
    <3>1. 5 = 3 + 2
      OBVIOUS
    <3> QED
      BY <2>1, <3>1, LockedCode, Zenon
  <2> QED
    BY <2>1, <2>2, <2>3 DEF Encloses
\* init_pics under PICS.
<1>LockedInitCode.
    /\ Listing(Locked("PICS", Step("init_pics", 0)), 3)
    /\ Locked("PICS", Step("init_pics", 0))[1] = <<"lock", "PICS">>
    /\ Locked("PICS", Step("init_pics", 0))[2] = <<"init_pics", 0>>
    /\ Locked("PICS", Step("init_pics", 0))[3] = <<"unlock", "PICS">>
  <2> DEFINE s == Step("init_pics", 0)
  <2>1. /\ Listing(s, 1)
        /\ s[1] = <<"init_pics", 0>>
    BY StepCode
  <2>2. Locked("PICS", Step("init_pics", 0)) = Locked("PICS", s)
    OBVIOUS
  <2> HIDE DEF s
  <2>3. Encloses(Locked("PICS", s), <<"lock", "PICS">>, s, <<"unlock", "PICS">>, 3)
    <3>1. 3 = 1 + 2
      OBVIOUS
    <3> QED
      BY <2>1, <3>1, LockedCode, Zenon
  <2> QED
    BY <2>1, <2>2, <2>3 DEF Encloses
\* init: the tables, the PICs, and sti.
<1>KernelInitCode.
    /\ Listing(KernelInit, 9)
    /\ KernelInit[1] = <<"load", "gdt">>
    /\ KernelInit[2] = <<"load", "idt">>
    /\ \A i \in 3 .. 5 : KernelInit[i] = Locked("PICS", Step("init_pics", 0))[i - 2]
    /\ KernelInit[6] = <<"sti", 0>>
    /\ \A i \in 7 .. 9 : KernelInit[i] = PagingCall[i - 6]
  <2> DEFINE a == Step("load", "gdt")
             b == Step("load", "idt")
             c == Locked("PICS", Step("init_pics", 0))
             d == Step("sti", 0)
             e == PagingCall
  <2>1. /\ Listing(a, 1) /\ a[1] = <<"load", "gdt">>
        /\ Listing(b, 1) /\ b[1] = <<"load", "idt">>
        /\ Listing(c, 3)
        /\ Listing(d, 1) /\ d[1] = <<"sti", 0>>
        /\ Listing(e, 3)
    BY StepCode, <1>LockedInitCode, <1>PagingCode, Zenon
  <2>2. KernelInit = a \o b \o c \o d \o e
    BY DEF KernelInit
  <2> HIDE DEF a, b, c, d, e
  <2>3. 2 = 1 + 1 /\ 5 = 2 + 3 /\ 6 = 5 + 1 /\ 9 = 6 + 3
    OBVIOUS
  <2> DEFINE s1 == a \o b
  <2>4. Follows(s1, a, 1, b, 2)
    BY <2>1, <2>3, Joined, Zenon
  <2>5. Listing(s1, 2)
    BY <2>4, Zenon DEF Follows
  <2> HIDE DEF s1
  <2> DEFINE s2 == s1 \o c
  <2>6. Follows(s2, s1, 2, c, 5)
    BY <2>1, <2>3, <2>5, Joined, Zenon
  <2>7. Listing(s2, 5)
    BY <2>6, Zenon DEF Follows
  <2> HIDE DEF s2
  <2> DEFINE s3 == s2 \o d
  <2>8. Follows(s3, s2, 5, d, 6)
    BY <2>1, <2>3, <2>7, Joined, Zenon
  <2>9. Listing(s3, 6)
    BY <2>8, Zenon DEF Follows
  <2> HIDE DEF s3
  <2> DEFINE s4 == s3 \o e
  <2>10. Follows(s4, s3, 6, e, 9)
    BY <2>1, <2>3, <2>9, Joined, Zenon
  <2>11. KernelInit = s4
    BY <2>2 DEF s1, s2, s3, s4
  <2> HIDE DEF s4
  <2>12. s4[1] = <<"load", "gdt">>
    BY <2>1, <2>4, <2>6, <2>8, <2>10 DEF Follows
  <2>13. s4[2] = <<"load", "idt">>
    BY <2>1, <2>4, <2>6, <2>8, <2>10 DEF Follows
  <2>14. \A i \in 3 .. 5 : s4[i] = c[i - 2]
    BY <2>6, <2>8, <2>10 DEF Follows
  <2>15. s4[6] = <<"sti", 0>>
    BY <2>1, <2>8, <2>10 DEF Follows
  <2>16. \A i \in 7 .. 9 : s4[i] = e[i - 6]
    BY <2>10 DEF Follows
  <2> QED
    BY <2>11, <2>10, <2>12, <2>13, <2>14, <2>15, <2>16, Zenon DEF Follows, a, b, c, d, e
\* The loop of Acpi::enable, with its sleep.
<1>EnableLoopCode.
    /\ Listing(EnableLoop, 2)
    /\ EnableLoop[1] = <<"poll", 0>>
    /\ EnableLoop[2] = <<"hlt", 0>>
  <2> DEFINE a == Step("poll", 0)
             b == Step("hlt", 0)
  <2>1. /\ Listing(a, 1) /\ a[1] = <<"poll", 0>>
        /\ Listing(b, 1) /\ b[1] = <<"hlt", 0>>
    BY StepCode, Zenon
  <2>2. EnableLoop = a \o b
    BY DEF EnableLoop
  <2> HIDE DEF a, b
  <2>3. 2 = 1 + 1
    OBVIOUS
  <2> DEFINE s1 == a \o b
  <2>4. Follows(s1, a, 1, b, 2)
    BY <2>1, <2>3, Joined, Zenon
  <2>5. EnableLoop = s1
    BY <2>2 DEF s1
  <2> HIDE DEF s1
  <2>6. s1[1] = <<"poll", 0>>
    BY <2>1, <2>4 DEF Follows
  <2>7. s1[2] = <<"hlt", 0>>
    BY <2>1, <2>4 DEF Follows
  <2> QED
    BY <2>5, <2>4, <2>6, <2>7, Zenon DEF Follows, a, b
\* Its steps.
<1>ApicBodyCode.
    /\ Listing(ApicBody, 13)
    /\ \A i \in 1 .. 3 : ApicBody[i] = PagingCall[i]
    /\ \A i \in 4 .. 8 : ApicBody[i] = Locked("PICS", Handover)[i - 3]
    /\ \A i \in 9 .. 11 : ApicBody[i] = PagingCall[i - 8]
    /\ ApicBody[12] = <<"route", Timer>>
    /\ ApicBody[13] = <<"route", Keyboard>>
  <2> DEFINE a == PagingCall
             b == Locked("PICS", Handover)
             c == PagingCall
             d == Step("route", Timer)
             e == Step("route", Keyboard)
  <2>1. /\ Listing(a, 3)
        /\ Listing(b, 5)
        /\ Listing(c, 3)
        /\ Listing(d, 1) /\ d[1] = <<"route", Timer>>
        /\ Listing(e, 1) /\ e[1] = <<"route", Keyboard>>
    BY <1>PagingCode, <1>LockedHandoverCode, StepCode, Zenon
  <2>2. ApicBody = a \o b \o c \o d \o e
    BY DEF ApicBody
  <2> HIDE DEF a, b, c, d, e
  <2>3. 8 = 3 + 5 /\ 11 = 8 + 3 /\ 12 = 11 + 1 /\ 13 = 12 + 1
    OBVIOUS
  <2> DEFINE s1 == a \o b
  <2>4. Follows(s1, a, 3, b, 8)
    BY <2>1, <2>3, Joined, Zenon
  <2>5. Listing(s1, 8)
    BY <2>4, Zenon DEF Follows
  <2> HIDE DEF s1
  <2> DEFINE s2 == s1 \o c
  <2>6. Follows(s2, s1, 8, c, 11)
    BY <2>1, <2>3, <2>5, Joined, Zenon
  <2>7. Listing(s2, 11)
    BY <2>6, Zenon DEF Follows
  <2> HIDE DEF s2
  <2> DEFINE s3 == s2 \o d
  <2>8. Follows(s3, s2, 11, d, 12)
    BY <2>1, <2>3, <2>7, Joined, Zenon
  <2>9. Listing(s3, 12)
    BY <2>8, Zenon DEF Follows
  <2> HIDE DEF s3
  <2> DEFINE s4 == s3 \o e
  <2>10. Follows(s4, s3, 12, e, 13)
    BY <2>1, <2>3, <2>9, Joined, Zenon
  <2>11. ApicBody = s4
    BY <2>2 DEF s1, s2, s3, s4
  <2> HIDE DEF s4
  <2>12. \A i \in 1 .. 3 : s4[i] = a[i]
    BY <2>4, <2>6, <2>8, <2>10 DEF Follows
  <2>13. \A i \in 4 .. 8 : s4[i] = b[i - 3]
    BY <2>4, <2>6, <2>8, <2>10 DEF Follows
  <2>14. \A i \in 9 .. 11 : s4[i] = c[i - 8]
    BY <2>6, <2>8, <2>10 DEF Follows
  <2>15. s4[12] = <<"route", Timer>>
    BY <2>1, <2>8, <2>10 DEF Follows
  <2>16. s4[13] = <<"route", Keyboard>>
    BY <2>1, <2>10 DEF Follows
  <2> QED
    BY <2>11, <2>10, <2>12, <2>13, <2>14, <2>15, <2>16, Zenon DEF Follows, a, b, c, d, e
\* kernel_main up to the log after init.
<1>MainStartCode.
    /\ Listing(MainStart, 26)
    /\ \A i \in 1 .. 4 : MainStart[i] = VgaPrint[i]
    /\ \A i \in 5 .. 13 : MainStart[i] = KernelInit[i - 4]
    /\ \A i \in 14 .. 21 : MainStart[i] = Log[i - 13]
    /\ \A i \in 22 .. 24 : MainStart[i] = PagingCall[i - 21]
    /\ \A i \in 25 .. 26 : MainStart[i] = EnableLoop[i - 24]
  <2> DEFINE a == VgaPrint
             b == KernelInit
             c == Log
             d == PagingCall
             e == EnableLoop
  <2>1. /\ Listing(a, 4)
        /\ Listing(b, 9)
        /\ Listing(c, 8)
        /\ Listing(d, 3)
        /\ Listing(e, 2)
    BY PrintCode, <1>KernelInitCode, LogCode, <1>PagingCode, <1>EnableLoopCode, Zenon DEF VgaPrint
  <2>2. MainStart = a \o b \o c \o d \o e
    BY DEF MainStart
  <2> HIDE DEF a, b, c, d, e
  <2>3. 13 = 4 + 9 /\ 21 = 13 + 8 /\ 24 = 21 + 3 /\ 26 = 24 + 2
    OBVIOUS
  <2> DEFINE s1 == a \o b
  <2>4. Follows(s1, a, 4, b, 13)
    BY <2>1, <2>3, Joined, Zenon
  <2>5. Listing(s1, 13)
    BY <2>4, Zenon DEF Follows
  <2> HIDE DEF s1
  <2> DEFINE s2 == s1 \o c
  <2>6. Follows(s2, s1, 13, c, 21)
    BY <2>1, <2>3, <2>5, Joined, Zenon
  <2>7. Listing(s2, 21)
    BY <2>6, Zenon DEF Follows
  <2> HIDE DEF s2
  <2> DEFINE s3 == s2 \o d
  <2>8. Follows(s3, s2, 21, d, 24)
    BY <2>1, <2>3, <2>7, Joined, Zenon
  <2>9. Listing(s3, 24)
    BY <2>8, Zenon DEF Follows
  <2> HIDE DEF s3
  <2> DEFINE s4 == s3 \o e
  <2>10. Follows(s4, s3, 24, e, 26)
    BY <2>1, <2>3, <2>9, Joined, Zenon
  <2>11. MainStart = s4
    BY <2>2 DEF s1, s2, s3, s4
  <2> HIDE DEF s4
  <2>12. \A i \in 1 .. 4 : s4[i] = a[i]
    BY <2>4, <2>6, <2>8, <2>10 DEF Follows
  <2>13. \A i \in 5 .. 13 : s4[i] = b[i - 4]
    BY <2>4, <2>6, <2>8, <2>10 DEF Follows
  <2>14. \A i \in 14 .. 21 : s4[i] = c[i - 13]
    BY <2>6, <2>8, <2>10 DEF Follows
  <2>15. \A i \in 22 .. 24 : s4[i] = d[i - 21]
    BY <2>8, <2>10 DEF Follows
  <2>16. \A i \in 25 .. 26 : s4[i] = e[i - 24]
    BY <2>10 DEF Follows
  <2> QED
    BY <2>11, <2>10, <2>12, <2>13, <2>14, <2>15, <2>16, Zenon DEF Follows, a, b, c, d, e
\* apic_init.
<1>ApicInitCode.
    /\ Listing(ApicInit, 15) /\ ApicInit[1] = <<"cli", 0>> /\ ApicInit[15] = <<"popf", 0>>
    /\ \A i \in 2 .. 14 : ApicInit[i] = ApicBody[i - 1]
  <2>1. Listing(ApicBody, 13) /\ 15 = 13 + 2 /\ 15 - 1 = 14
    BY <1>ApicBodyCode
  <2>2. ApicInit = WithoutInterrupts(ApicBody)
    BY DEF ApicInit, ApicBody
  <2>3. Encloses(ApicInit, <<"cli", 0>>, ApicBody, <<"popf", 0>>, 15)
    BY <2>1, <2>2, OffCode, Zenon
  <2> QED
    BY <2>1, <2>3, Zenon DEF Encloses
\* kernel_main from the last mapping to the power off.
<1>MainEndCode.
    /\ Listing(MainEnd, 37)
    /\ MainEnd[1] = <<"enabled", 0>>
    /\ \A i \in 2 .. 9 : MainEnd[i] = Log[i - 1]
    /\ \A i \in 10 .. 24 : MainEnd[i] = ApicInit[i - 9]
    /\ \A i \in 25 .. 27 : MainEnd[i] = PagingCall[i - 24]
    /\ \A i \in 28 .. 35 : MainEnd[i] = Log[i - 27]
    /\ MainEnd[36] = <<"work", 0>>
    /\ MainEnd[37] = <<"off", 0>>
  <2> DEFINE a == Step("enabled", 0)
             b == Log
             c == ApicInit
             d == PagingCall
             e == Log
             f == Step("work", 0)
             g == Step("off", 0)
  <2>1. /\ Listing(a, 1) /\ a[1] = <<"enabled", 0>>
        /\ Listing(b, 8)
        /\ Listing(c, 15)
        /\ Listing(d, 3)
        /\ Listing(e, 8)
        /\ Listing(f, 1) /\ f[1] = <<"work", 0>>
        /\ Listing(g, 1) /\ g[1] = <<"off", 0>>
    BY StepCode, LogCode, <1>ApicInitCode, <1>PagingCode, Zenon
  <2>2. MainEnd = a \o b \o c \o d \o e \o f \o g
    BY DEF MainEnd
  <2> HIDE DEF a, b, c, d, e, f, g
  <2>3. 9 = 1 + 8 /\ 24 = 9 + 15 /\ 27 = 24 + 3 /\ 35 = 27 + 8 /\ 36 = 35 + 1 /\ 37 = 36 + 1
    OBVIOUS
  <2> DEFINE s1 == a \o b
  <2>4. Follows(s1, a, 1, b, 9)
    BY <2>1, <2>3, Joined, Zenon
  <2>5. Listing(s1, 9)
    BY <2>4, Zenon DEF Follows
  <2> HIDE DEF s1
  <2> DEFINE s2 == s1 \o c
  <2>6. Follows(s2, s1, 9, c, 24)
    BY <2>1, <2>3, <2>5, Joined, Zenon
  <2>7. Listing(s2, 24)
    BY <2>6, Zenon DEF Follows
  <2> HIDE DEF s2
  <2> DEFINE s3 == s2 \o d
  <2>8. Follows(s3, s2, 24, d, 27)
    BY <2>1, <2>3, <2>7, Joined, Zenon
  <2>9. Listing(s3, 27)
    BY <2>8, Zenon DEF Follows
  <2> HIDE DEF s3
  <2> DEFINE s4 == s3 \o e
  <2>10. Follows(s4, s3, 27, e, 35)
    BY <2>1, <2>3, <2>9, Joined, Zenon
  <2>11. Listing(s4, 35)
    BY <2>10, Zenon DEF Follows
  <2> HIDE DEF s4
  <2> DEFINE s5 == s4 \o f
  <2>12. Follows(s5, s4, 35, f, 36)
    BY <2>1, <2>3, <2>11, Joined, Zenon
  <2>13. Listing(s5, 36)
    BY <2>12, Zenon DEF Follows
  <2> HIDE DEF s5
  <2> DEFINE s6 == s5 \o g
  <2>14. Follows(s6, s5, 36, g, 37)
    BY <2>1, <2>3, <2>13, Joined, Zenon
  <2>15. MainEnd = s6
    BY <2>2 DEF s1, s2, s3, s4, s5, s6
  <2> HIDE DEF s6
  <2>16. s6[1] = <<"enabled", 0>>
    BY <2>1, <2>4, <2>6, <2>8, <2>10, <2>12, <2>14 DEF Follows
  <2>17. \A i \in 2 .. 9 : s6[i] = b[i - 1]
    BY <2>4, <2>6, <2>8, <2>10, <2>12, <2>14 DEF Follows
  <2>18. \A i \in 10 .. 24 : s6[i] = c[i - 9]
    BY <2>6, <2>8, <2>10, <2>12, <2>14 DEF Follows
  <2>19. \A i \in 25 .. 27 : s6[i] = d[i - 24]
    BY <2>8, <2>10, <2>12, <2>14 DEF Follows
  <2>20. \A i \in 28 .. 35 : s6[i] = e[i - 27]
    BY <2>10, <2>12, <2>14 DEF Follows
  <2>21. s6[36] = <<"work", 0>>
    BY <2>1, <2>12, <2>14 DEF Follows
  <2>22. s6[37] = <<"off", 0>>
    BY <2>1, <2>14 DEF Follows
  <2> QED
    BY <2>15, <2>14, <2>16, <2>17, <2>18, <2>19, <2>20, <2>21, <2>22, Zenon
       DEF Follows, a, b, c, d, e, f, g
\* kernel_main, step by step.
<1>MainJoined.
    /\ Listing(Main, 64)
    /\ \A i \in 1 .. 26 : Main[i] = MainStart[i]
    /\ Main[27] = <<"panic", 0>>
    /\ \A i \in 28 .. 64 : Main[i] = MainEnd[i - 27]
  <2> DEFINE a == MainStart
             b == Step("panic", 0)
             c == MainEnd
  <2>1. /\ Listing(a, 26)
        /\ Listing(b, 1) /\ b[1] = <<"panic", 0>>
        /\ Listing(c, 37)
    <3>1. Listing(a, 26)
      BY <1>MainStartCode, Zenon
    <3>2. Listing(b, 1) /\ b[1] = <<"panic", 0>>
      BY StepCode, Zenon
    <3>3. Listing(c, 37)
      BY <1>MainEndCode, Zenon
    <3> QED
      BY <3>1, <3>2, <3>3, Zenon
  <2>2. Main = a \o b \o c
    BY DEF Main
  <2> HIDE DEF a, b, c
  <2>3. 27 = 26 + 1 /\ 64 = 27 + 37
    OBVIOUS
  <2> DEFINE s1 == a \o b
  <2>4. Follows(s1, a, 26, b, 27)
    BY <2>1, <2>3, Joined, Zenon
  <2>5. Listing(s1, 27)
    BY <2>4, Zenon DEF Follows
  <2> HIDE DEF s1
  <2> DEFINE s2 == s1 \o c
  <2>6. Follows(s2, s1, 27, c, 64)
    BY <2>1, <2>3, <2>5, Joined, Zenon
  <2>7. Main = s2
    BY <2>2 DEF s1, s2
  <2> HIDE DEF s2
  <2>8. \A i \in 1 .. 26 : s2[i] = a[i]
    BY <2>4, <2>6 DEF Follows
  <2>9. s2[27] = <<"panic", 0>>
    BY <2>1, <2>4, <2>6 DEF Follows
  <2>10. \A i \in 28 .. 64 : s2[i] = c[i - 27]
    BY <2>6 DEF Follows
  <2> QED
    BY <2>7, <2>6, <2>8, <2>9, <2>10, Zenon DEF Follows, a, b, c
\* The steps of kernel_main, with the routines it calls.
<1>MainPoints.
    ASSUME NEW c \in Contexts, c.prog = "main", c.pc \in 1 .. 64
    PROVE  Points(c, Main[c.pc][1], Main[c.pc][2])
  <2> USE <1>MainPoints
  <2> DEFINE i == Main[c.pc]
  <2> SUFFICES Points(c, i[1], i[2])
    OBVIOUS
  <2>1. CASE c.pc \in 1 .. 4
    <3>1. \/ c.pc = 1 /\ i = <<"cli", 0>>
          \/ c.pc = 2 /\ i = <<"lock", "WRITER">>
          \/ c.pc = 3 /\ i = <<"unlock", "WRITER">>
          \/ c.pc = 4 /\ i = <<"popf", 0>>
      BY <2>1, <1>MainJoined, <1>MainStartCode, VgaCode
    <3> HIDE DEF i
    <3> QED
      BY <3>1 DEF Points, InRange, CliAt, PopfAt, LockAt, UnlockAt, EoiAt, IretAt, Panics, Timer,
                  Keyboard
  <2>2. CASE c.pc \in 5 .. 6
    <3>1. \/ c.pc = 5 /\ i = <<"load", "gdt">>
          \/ c.pc = 6 /\ i = <<"load", "idt">>
      BY <2>2, <1>MainJoined, <1>MainStartCode, <1>KernelInitCode
    <3> HIDE DEF i
    <3> QED
      BY <3>1 DEF Points, InRange, CliAt, PopfAt, LockAt, UnlockAt, EoiAt, IretAt, Panics, Timer,
                  Keyboard
  <2>3. CASE c.pc \in 7 .. 9
    <3>1. \/ c.pc = 7 /\ i = <<"lock", "PICS">>
          \/ c.pc = 8 /\ i = <<"init_pics", 0>>
          \/ c.pc = 9 /\ i = <<"unlock", "PICS">>
      BY <2>3, <1>MainJoined, <1>MainStartCode, <1>KernelInitCode, <1>LockedInitCode
    <3> HIDE DEF i
    <3> QED
      BY <3>1 DEF Points, InRange, CliAt, PopfAt, LockAt, UnlockAt, EoiAt, IretAt, Panics, Timer,
                  Keyboard
  <2>4. CASE c.pc = 10
    <3>1. c.pc = 10 /\ i = <<"sti", 0>>
      BY <2>4, <1>MainJoined, <1>MainStartCode, <1>KernelInitCode
    <3> HIDE DEF i
    <3> QED
      BY <3>1 DEF Points, InRange, CliAt, PopfAt, LockAt, UnlockAt, EoiAt, IretAt, Panics, Timer,
                  Keyboard
  <2>5. CASE c.pc \in 11 .. 13
    <3>1. \/ c.pc = 11 /\ i = <<"lock", "PAGING_CTX">>
          \/ c.pc = 12 /\ i = <<"work", 0>>
          \/ c.pc = 13 /\ i = <<"unlock", "PAGING_CTX">>
      BY <2>5, <1>MainJoined, <1>MainStartCode, <1>KernelInitCode, <1>PagingCode
    <3> HIDE DEF i
    <3> QED
      BY <3>1 DEF Points, InRange, CliAt, PopfAt, LockAt, UnlockAt, EoiAt, IretAt, Panics, Timer,
                  Keyboard
  <2>6. CASE c.pc \in 14 .. 21
    <3>1. \/ c.pc = 14 /\ i = <<"cli", 0>>
          \/ c.pc = 15 /\ i = <<"lock", "SERIAL1">>
          \/ c.pc = 16 /\ i = <<"unlock", "SERIAL1">>
          \/ c.pc = 17 /\ i = <<"popf", 0>>
          \/ c.pc = 18 /\ i = <<"cli", 0>>
          \/ c.pc = 19 /\ i = <<"lock", "SERIAL1">>
          \/ c.pc = 20 /\ i = <<"unlock", "SERIAL1">>
          \/ c.pc = 21 /\ i = <<"popf", 0>>
      BY <2>6, <1>MainJoined, <1>MainStartCode, LogCode
    <3> HIDE DEF i
    <3> QED
      BY <3>1 DEF Points, InRange, CliAt, PopfAt, LockAt, UnlockAt, EoiAt, IretAt, Panics, Timer,
                  Keyboard
  <2>7. CASE c.pc \in 22 .. 24
    <3>1. \/ c.pc = 22 /\ i = <<"lock", "PAGING_CTX">>
          \/ c.pc = 23 /\ i = <<"work", 0>>
          \/ c.pc = 24 /\ i = <<"unlock", "PAGING_CTX">>
      BY <2>7, <1>MainJoined, <1>MainStartCode, <1>PagingCode
    <3> HIDE DEF i
    <3> QED
      BY <3>1 DEF Points, InRange, CliAt, PopfAt, LockAt, UnlockAt, EoiAt, IretAt, Panics, Timer,
                  Keyboard
  <2>8. CASE c.pc \in 25 .. 26
    <3>1. \/ c.pc = 25 /\ i = <<"poll", 0>>
          \/ c.pc = 26 /\ i = <<"hlt", 0>>
      BY <2>8, <1>MainJoined, <1>MainStartCode, <1>EnableLoopCode
    <3> HIDE DEF i
    <3> QED
      BY <3>1 DEF Points, InRange, CliAt, PopfAt, LockAt, UnlockAt, EoiAt, IretAt, Panics, Timer,
                  Keyboard
  <2>9. CASE c.pc = 27
    <3>1. c.pc = 27 /\ i = <<"panic", 0>>
      BY <2>9, <1>MainJoined
    <3> HIDE DEF i
    <3> QED
      BY <3>1 DEF Points, InRange, CliAt, PopfAt, LockAt, UnlockAt, EoiAt, IretAt, Panics, Timer,
                  Keyboard
  <2>10. CASE c.pc = 28
    <3>1. c.pc = 28 /\ i = <<"enabled", 0>>
      BY <2>10, <1>MainJoined, <1>MainEndCode
    <3> HIDE DEF i
    <3> QED
      BY <3>1 DEF Points, InRange, CliAt, PopfAt, LockAt, UnlockAt, EoiAt, IretAt, Panics, Timer,
                  Keyboard
  <2>11. CASE c.pc \in 29 .. 36
    <3>1. \/ c.pc = 29 /\ i = <<"cli", 0>>
          \/ c.pc = 30 /\ i = <<"lock", "SERIAL1">>
          \/ c.pc = 31 /\ i = <<"unlock", "SERIAL1">>
          \/ c.pc = 32 /\ i = <<"popf", 0>>
          \/ c.pc = 33 /\ i = <<"cli", 0>>
          \/ c.pc = 34 /\ i = <<"lock", "SERIAL1">>
          \/ c.pc = 35 /\ i = <<"unlock", "SERIAL1">>
          \/ c.pc = 36 /\ i = <<"popf", 0>>
      BY <2>11, <1>MainJoined, <1>MainEndCode, LogCode
    <3> HIDE DEF i
    <3> QED
      BY <3>1 DEF Points, InRange, CliAt, PopfAt, LockAt, UnlockAt, EoiAt, IretAt, Panics, Timer,
                  Keyboard
  <2>12. CASE c.pc = 37
    <3>1. c.pc = 37 /\ i = <<"cli", 0>>
      BY <2>12, <1>MainJoined, <1>MainEndCode, <1>ApicInitCode
    <3> HIDE DEF i
    <3> QED
      BY <3>1 DEF Points, InRange, CliAt, PopfAt, LockAt, UnlockAt, EoiAt, IretAt, Panics, Timer,
                  Keyboard
  <2>13. CASE c.pc \in 38 .. 40
    <3>1. \/ c.pc = 38 /\ i = <<"lock", "PAGING_CTX">>
          \/ c.pc = 39 /\ i = <<"work", 0>>
          \/ c.pc = 40 /\ i = <<"unlock", "PAGING_CTX">>
      BY <2>13, <1>MainJoined, <1>MainEndCode, <1>ApicInitCode, <1>ApicBodyCode, <1>PagingCode
    <3> HIDE DEF i
    <3> QED
      BY <3>1 DEF Points, InRange, CliAt, PopfAt, LockAt, UnlockAt, EoiAt, IretAt, Panics, Timer,
                  Keyboard
  <2>14. CASE c.pc \in 41 .. 45
    <3>1. \/ c.pc = 41 /\ i = <<"lock", "PICS">>
          \/ c.pc = 42 /\ i = <<"set_apic", 0>>
          \/ c.pc = 43 /\ i = <<"enable_lapic", 0>>
          \/ c.pc = 44 /\ i = <<"mask_pics", 0>>
          \/ c.pc = 45 /\ i = <<"unlock", "PICS">>
      BY <2>14, <1>MainJoined, <1>MainEndCode, <1>ApicInitCode, <1>ApicBodyCode,
         <1>LockedHandoverCode
    <3> HIDE DEF i
    <3> QED
      BY <3>1 DEF Points, InRange, CliAt, PopfAt, LockAt, UnlockAt, EoiAt, IretAt, Panics, Timer,
                  Keyboard
  <2>15. CASE c.pc \in 46 .. 48
    <3>1. \/ c.pc = 46 /\ i = <<"lock", "PAGING_CTX">>
          \/ c.pc = 47 /\ i = <<"work", 0>>
          \/ c.pc = 48 /\ i = <<"unlock", "PAGING_CTX">>
      BY <2>15, <1>MainJoined, <1>MainEndCode, <1>ApicInitCode, <1>ApicBodyCode, <1>PagingCode
    <3> HIDE DEF i
    <3> QED
      BY <3>1 DEF Points, InRange, CliAt, PopfAt, LockAt, UnlockAt, EoiAt, IretAt, Panics, Timer,
                  Keyboard
  <2>16. CASE c.pc \in 49 .. 50
    <3>1. \/ c.pc = 49 /\ i = <<"route", Timer>>
          \/ c.pc = 50 /\ i = <<"route", Keyboard>>
      BY <2>16, <1>MainJoined, <1>MainEndCode, <1>ApicInitCode, <1>ApicBodyCode
    <3> HIDE DEF i
    <3> QED
      BY <3>1 DEF Points, InRange, CliAt, PopfAt, LockAt, UnlockAt, EoiAt, IretAt, Panics, Timer,
                  Keyboard
  <2>17. CASE c.pc = 51
    <3>1. c.pc = 51 /\ i = <<"popf", 0>>
      BY <2>17, <1>MainJoined, <1>MainEndCode, <1>ApicInitCode
    <3> HIDE DEF i
    <3> QED
      BY <3>1 DEF Points, InRange, CliAt, PopfAt, LockAt, UnlockAt, EoiAt, IretAt, Panics, Timer,
                  Keyboard
  <2>18. CASE c.pc \in 52 .. 54
    <3>1. \/ c.pc = 52 /\ i = <<"lock", "PAGING_CTX">>
          \/ c.pc = 53 /\ i = <<"work", 0>>
          \/ c.pc = 54 /\ i = <<"unlock", "PAGING_CTX">>
      BY <2>18, <1>MainJoined, <1>MainEndCode, <1>PagingCode
    <3> HIDE DEF i
    <3> QED
      BY <3>1 DEF Points, InRange, CliAt, PopfAt, LockAt, UnlockAt, EoiAt, IretAt, Panics, Timer,
                  Keyboard
  <2>19. CASE c.pc \in 55 .. 62
    <3>1. \/ c.pc = 55 /\ i = <<"cli", 0>>
          \/ c.pc = 56 /\ i = <<"lock", "SERIAL1">>
          \/ c.pc = 57 /\ i = <<"unlock", "SERIAL1">>
          \/ c.pc = 58 /\ i = <<"popf", 0>>
          \/ c.pc = 59 /\ i = <<"cli", 0>>
          \/ c.pc = 60 /\ i = <<"lock", "SERIAL1">>
          \/ c.pc = 61 /\ i = <<"unlock", "SERIAL1">>
          \/ c.pc = 62 /\ i = <<"popf", 0>>
      BY <2>19, <1>MainJoined, <1>MainEndCode, LogCode
    <3> HIDE DEF i
    <3> QED
      BY <3>1 DEF Points, InRange, CliAt, PopfAt, LockAt, UnlockAt, EoiAt, IretAt, Panics, Timer,
                  Keyboard
  <2>20. CASE c.pc \in 63 .. 64
    <3>1. \/ c.pc = 63 /\ i = <<"work", 0>>
          \/ c.pc = 64 /\ i = <<"off", 0>>
      BY <2>20, <1>MainJoined, <1>MainEndCode
    <3> HIDE DEF i
    <3> QED
      BY <3>1 DEF Points, InRange, CliAt, PopfAt, LockAt, UnlockAt, EoiAt, IretAt, Panics, Timer,
                  Keyboard
  <2> QED
    BY <2>1, <2>2, <2>3, <2>4, <2>5, <2>6, <2>7, <2>8, <2>9, <2>10, <2>11, <2>12, <2>13, <2>14,
       <2>15, <2>16, <2>17, <2>18, <2>19, <2>20
<1> QED
  BY <1>MainStartCode, <1>MainJoined, <1>MainPoints DEF Listing

\* timer_interrupt_handler, likewise.
LEMMA TimerCode ==
  /\ Len(TimerHandler) = 4
  /\ TimerHandler[2] = <<"eoi", Timer>>
  /\ \A c \in Contexts : c.prog = "timer" /\ c.pc \in 1 .. 4 =>
       Points(c, TimerHandler[c.pc][1], TimerHandler[c.pc][2])
\* The end of interrupt under PICS, for both lines.
<1>LockedTimerCode.
    /\ Listing(Locked("PICS", Step("eoi", Timer)), 3)
    /\ Locked("PICS", Step("eoi", Timer))[1] = <<"lock", "PICS">>
    /\ Locked("PICS", Step("eoi", Timer))[2] = <<"eoi", Timer>>
    /\ Locked("PICS", Step("eoi", Timer))[3] = <<"unlock", "PICS">>
  <2> DEFINE s == Step("eoi", Timer)
  <2>1. /\ Listing(s, 1)
        /\ s[1] = <<"eoi", Timer>>
    BY StepCode
  <2>2. Locked("PICS", Step("eoi", Timer)) = Locked("PICS", s)
    OBVIOUS
  <2> HIDE DEF s
  <2>3. Encloses(Locked("PICS", s), <<"lock", "PICS">>, s, <<"unlock", "PICS">>, 3)
    <3>1. 3 = 1 + 2
      OBVIOUS
    <3> QED
      BY <2>1, <3>1, LockedCode, Zenon
  <2> QED
    BY <2>1, <2>2, <2>3 DEF Encloses
\* timer_interrupt_handler.
<1>TimerJoined.
    /\ Listing(TimerHandler, 4)
    /\ \A i \in 1 .. 3 : TimerHandler[i] = Locked("PICS", Step("eoi", Timer))[i]
    /\ TimerHandler[4] = <<"iret", 0>>
  <2> DEFINE a == Locked("PICS", Step("eoi", Timer))
             b == Step("iret", 0)
  <2>1. /\ Listing(a, 3)
        /\ Listing(b, 1) /\ b[1] = <<"iret", 0>>
    BY <1>LockedTimerCode, StepCode, Zenon
  <2>2. TimerHandler = a \o b
    BY DEF TimerHandler
  <2> HIDE DEF a, b
  <2>3. 4 = 3 + 1
    OBVIOUS
  <2> DEFINE s1 == a \o b
  <2>4. Follows(s1, a, 3, b, 4)
    BY <2>1, <2>3, Joined, Zenon
  <2>5. TimerHandler = s1
    BY <2>2 DEF s1
  <2> HIDE DEF s1
  <2>6. \A i \in 1 .. 3 : s1[i] = a[i]
    BY <2>4 DEF Follows
  <2>7. s1[4] = <<"iret", 0>>
    BY <2>1, <2>4 DEF Follows
  <2> QED
    BY <2>5, <2>4, <2>6, <2>7, Zenon DEF Follows, a, b
\* timer_interrupt_handler.
<1>TimerPoints.
    ASSUME NEW c \in Contexts, c.prog = "timer", c.pc \in 1 .. 4
    PROVE  Points(c, TimerHandler[c.pc][1], TimerHandler[c.pc][2])
  <2> USE <1>TimerPoints
  <2> DEFINE i == TimerHandler[c.pc]
  <2> SUFFICES Points(c, i[1], i[2])
    OBVIOUS
  <2>1. CASE c.pc \in 1 .. 4
    <3>1. \/ c.pc = 1 /\ i = <<"lock", "PICS">>
          \/ c.pc = 2 /\ i = <<"eoi", Timer>>
          \/ c.pc = 3 /\ i = <<"unlock", "PICS">>
          \/ c.pc = 4 /\ i = <<"iret", 0>>
      BY <2>1, <1>TimerJoined, <1>LockedTimerCode
    <3> HIDE DEF i
    <3> QED
      BY <3>1 DEF Points, InRange, CliAt, PopfAt, LockAt, UnlockAt, EoiAt, IretAt, Panics, Timer,
                  Keyboard
  <2> QED
    BY <2>1
<1> QED
  BY <1>LockedTimerCode, <1>TimerJoined, <1>TimerPoints DEF Listing

\* keyboard_interrupt_handler, likewise.
LEMMA KeyboardCode ==
  /\ Len(KeyboardHandler) = 12
  /\ KeyboardHandler[2] = <<"read_port", 0>>
  /\ KeyboardHandler[9] = <<"eoi", Keyboard>>
  /\ \A c \in Contexts : c.prog = "keyboard" /\ c.pc \in 1 .. 12 =>
       Points(c, KeyboardHandler[c.pc][1], KeyboardHandler[c.pc][2])
\* The same for the keyboard.
<1>LockedKeyCode.
    /\ Listing(Locked("PICS", Step("eoi", Keyboard)), 3)
    /\ Locked("PICS", Step("eoi", Keyboard))[1] = <<"lock", "PICS">>
    /\ Locked("PICS", Step("eoi", Keyboard))[2] = <<"eoi", Keyboard>>
    /\ Locked("PICS", Step("eoi", Keyboard))[3] = <<"unlock", "PICS">>
  <2> DEFINE s == Step("eoi", Keyboard)
  <2>1. /\ Listing(s, 1)
        /\ s[1] = <<"eoi", Keyboard>>
    BY StepCode
  <2>2. Locked("PICS", Step("eoi", Keyboard)) = Locked("PICS", s)
    OBVIOUS
  <2> HIDE DEF s
  <2>3. Encloses(Locked("PICS", s), <<"lock", "PICS">>, s, <<"unlock", "PICS">>, 3)
    <3>1. 3 = 1 + 2
      OBVIOUS
    <3> QED
      BY <2>1, <3>1, LockedCode, Zenon
  <2> QED
    BY <2>1, <2>2, <2>3 DEF Encloses
\* Its steps.
<1>KeyBodyCode.
    /\ Listing(KeyBody, 9)
    /\ KeyBody[1] = <<"read_port", 0>>
    /\ KeyBody[2] = <<"maybe_skip", Len(VgaPrint)>>
    /\ \A i \in 3 .. 6 : KeyBody[i] = VgaPrint[i - 2]
    /\ \A i \in 7 .. 9 : KeyBody[i] = Locked("PICS", Step("eoi", Keyboard))[i - 6]
  <2> DEFINE a == Step("read_port", 0)
             b == Step("maybe_skip", Len(VgaPrint))
             c == VgaPrint
             d == Locked("PICS", Step("eoi", Keyboard))
  <2>1. /\ Listing(a, 1) /\ a[1] = <<"read_port", 0>>
        /\ Listing(b, 1) /\ b[1] = <<"maybe_skip", Len(VgaPrint)>>
        /\ Listing(c, 4)
        /\ Listing(d, 3)
    BY StepCode, PrintCode, <1>LockedKeyCode, Zenon DEF VgaPrint
  <2>2. KeyBody = a \o b \o c \o d
    BY DEF KeyBody
  <2> HIDE DEF a, b, c, d
  <2>3. 2 = 1 + 1 /\ 6 = 2 + 4 /\ 9 = 6 + 3
    OBVIOUS
  <2> DEFINE s1 == a \o b
  <2>4. Follows(s1, a, 1, b, 2)
    BY <2>1, <2>3, Joined, Zenon
  <2>5. Listing(s1, 2)
    BY <2>4, Zenon DEF Follows
  <2> HIDE DEF s1
  <2> DEFINE s2 == s1 \o c
  <2>6. Follows(s2, s1, 2, c, 6)
    BY <2>1, <2>3, <2>5, Joined, Zenon
  <2>7. Listing(s2, 6)
    BY <2>6, Zenon DEF Follows
  <2> HIDE DEF s2
  <2> DEFINE s3 == s2 \o d
  <2>8. Follows(s3, s2, 6, d, 9)
    BY <2>1, <2>3, <2>7, Joined, Zenon
  <2>9. KeyBody = s3
    BY <2>2 DEF s1, s2, s3
  <2> HIDE DEF s3
  <2>10. s3[1] = <<"read_port", 0>>
    BY <2>1, <2>4, <2>6, <2>8 DEF Follows
  <2>11. s3[2] = <<"maybe_skip", Len(VgaPrint)>>
    BY <2>1, <2>4, <2>6, <2>8 DEF Follows
  <2>12. \A i \in 3 .. 6 : s3[i] = c[i - 2]
    BY <2>6, <2>8 DEF Follows
  <2>13. \A i \in 7 .. 9 : s3[i] = d[i - 6]
    BY <2>8 DEF Follows
  <2> QED
    BY <2>9, <2>8, <2>10, <2>11, <2>12, <2>13, Zenon DEF Follows, a, b, c, d
\* keyboard_interrupt_handler.
<1>LockedBodyCode.
    /\ Listing(Locked("KEYBOARD", KeyBody), 11)
    /\ Locked("KEYBOARD", KeyBody)[1] = <<"lock", "KEYBOARD">>
    /\ \A i \in 2 .. 10 : Locked("KEYBOARD", KeyBody)[i] = KeyBody[i - 1]
    /\ Locked("KEYBOARD", KeyBody)[11] = <<"unlock", "KEYBOARD">>
  <2>1. Listing(KeyBody, 9) /\ 11 = 9 + 2 /\ 11 - 1 = 10
    BY <1>KeyBodyCode
  <2>2. Encloses(Locked("KEYBOARD", KeyBody), <<"lock", "KEYBOARD">>, KeyBody, <<"unlock", "KEYBOARD">>, 11)
    BY <2>1, LockedCode, Zenon
  <2> QED
    BY <2>1, <2>2, Zenon DEF Encloses
\* The whole handler, with its iret.
<1>KeyboardJoined.
    /\ Listing(KeyboardHandler, 12)
    /\ \A i \in 1 .. 11 : KeyboardHandler[i] = Locked("KEYBOARD", KeyBody)[i]
    /\ KeyboardHandler[12] = <<"iret", 0>>
  <2> DEFINE a == Locked("KEYBOARD", KeyBody)
             b == Step("iret", 0)
  <2>1. /\ Listing(a, 11)
        /\ Listing(b, 1) /\ b[1] = <<"iret", 0>>
    BY <1>LockedBodyCode, StepCode, Zenon
  <2>2. KeyboardHandler = a \o b
    BY DEF KeyboardHandler, KeyBody
  <2> HIDE DEF a, b
  <2>3. 12 = 11 + 1
    OBVIOUS
  <2> DEFINE s1 == a \o b
  <2>4. Follows(s1, a, 11, b, 12)
    BY <2>1, <2>3, Joined, Zenon
  <2>5. KeyboardHandler = s1
    BY <2>2 DEF s1
  <2> HIDE DEF s1
  <2>6. \A i \in 1 .. 11 : s1[i] = a[i]
    BY <2>4 DEF Follows
  <2>7. s1[12] = <<"iret", 0>>
    BY <2>1, <2>4 DEF Follows
  <2> QED
    BY <2>5, <2>4, <2>6, <2>7, Zenon DEF Follows, a, b
\* keyboard_interrupt_handler.
<1>KeyboardPoints.
    ASSUME NEW c \in Contexts, c.prog = "keyboard", c.pc \in 1 .. 12
    PROVE  Points(c, KeyboardHandler[c.pc][1], KeyboardHandler[c.pc][2])
  <2> USE <1>KeyboardPoints
  <2> DEFINE i == KeyboardHandler[c.pc]
  <2> SUFFICES Points(c, i[1], i[2])
    OBVIOUS
  <2>1. CASE c.pc = 1
    <3>1. c.pc = 1 /\ i = <<"lock", "KEYBOARD">>
      BY <2>1, <1>KeyboardJoined, <1>LockedBodyCode
    <3> HIDE DEF i
    <3> QED
      BY <3>1 DEF Points, InRange, CliAt, PopfAt, LockAt, UnlockAt, EoiAt, IretAt, Panics, Timer,
                  Keyboard
  <2>2. CASE c.pc \in 2 .. 3
    <3>1. \/ c.pc = 2 /\ i = <<"read_port", 0>>
          \/ c.pc = 3 /\ i = <<"maybe_skip", 4>>
      BY <2>2, <1>KeyboardJoined, <1>LockedBodyCode, <1>KeyBodyCode, VgaCode, SMTT(20) DEF Listing
    <3> HIDE DEF i
    <3> QED
      BY <3>1 DEF Points, InRange, CliAt, PopfAt, LockAt, UnlockAt, EoiAt, IretAt, Panics, Timer,
                  Keyboard
  <2>3. CASE c.pc \in 4 .. 7
    <3>1. \/ c.pc = 4 /\ i = <<"cli", 0>>
          \/ c.pc = 5 /\ i = <<"lock", "WRITER">>
          \/ c.pc = 6 /\ i = <<"unlock", "WRITER">>
          \/ c.pc = 7 /\ i = <<"popf", 0>>
      BY <2>3, <1>KeyboardJoined, <1>LockedBodyCode, <1>KeyBodyCode, VgaCode
    <3> HIDE DEF i
    <3> QED
      BY <3>1 DEF Points, InRange, CliAt, PopfAt, LockAt, UnlockAt, EoiAt, IretAt, Panics, Timer,
                  Keyboard
  <2>4. CASE c.pc \in 8 .. 10
    <3>1. \/ c.pc = 8 /\ i = <<"lock", "PICS">>
          \/ c.pc = 9 /\ i = <<"eoi", Keyboard>>
          \/ c.pc = 10 /\ i = <<"unlock", "PICS">>
      BY <2>4, <1>KeyboardJoined, <1>LockedBodyCode, <1>KeyBodyCode, <1>LockedKeyCode
    <3> HIDE DEF i
    <3> QED
      BY <3>1 DEF Points, InRange, CliAt, PopfAt, LockAt, UnlockAt, EoiAt, IretAt, Panics, Timer,
                  Keyboard
  <2>5. CASE c.pc \in 11 .. 12
    <3>1. \/ c.pc = 11 /\ i = <<"unlock", "KEYBOARD">>
          \/ c.pc = 12 /\ i = <<"iret", 0>>
      BY <2>5, <1>KeyboardJoined, <1>LockedBodyCode
    <3> HIDE DEF i
    <3> QED
      BY <3>1 DEF Points, InRange, CliAt, PopfAt, LockAt, UnlockAt, EoiAt, IretAt, Panics, Timer,
                  Keyboard
  <2> QED
    BY <2>1, <2>2, <2>3, <2>4, <2>5
<1>1. KeyboardHandler[2] = <<"read_port", 0>>
  BY <1>KeyBodyCode, <1>LockedBodyCode, <1>KeyboardJoined
<1>2. KeyboardHandler[9] = KeyBody[8] /\ KeyBody[8] = <<"eoi", Keyboard>>
  BY <1>LockedKeyCode, <1>KeyBodyCode, <1>LockedBodyCode, <1>KeyboardJoined
<1> QED
  BY <1>1, <1>2, <1>KeyboardJoined, <1>KeyboardPoints, Zenon DEF Listing

\* breakpoint_handler, likewise.
LEMMA BreakpointCode ==
  /\ Len(BreakpointHandler) = 5
  /\ \A c \in Contexts : c.prog = "breakpoint" /\ c.pc \in 1 .. 5 =>
       Points(c, BreakpointHandler[c.pc][1], BreakpointHandler[c.pc][2])
\* breakpoint_handler.
<1>BreakpointJoined.
    /\ Listing(BreakpointHandler, 5)
    /\ \A i \in 1 .. 4 : BreakpointHandler[i] = VgaPrint[i]
    /\ BreakpointHandler[5] = <<"iret", 0>>
  <2> DEFINE a == VgaPrint
             b == Step("iret", 0)
  <2>1. /\ Listing(a, 4)
        /\ Listing(b, 1) /\ b[1] = <<"iret", 0>>
    BY PrintCode, StepCode, Zenon DEF VgaPrint
  <2>2. BreakpointHandler = a \o b
    BY DEF BreakpointHandler
  <2> HIDE DEF a, b
  <2>3. 5 = 4 + 1
    OBVIOUS
  <2> DEFINE s1 == a \o b
  <2>4. Follows(s1, a, 4, b, 5)
    BY <2>1, <2>3, Joined, Zenon
  <2>5. BreakpointHandler = s1
    BY <2>2 DEF s1
  <2> HIDE DEF s1
  <2>6. \A i \in 1 .. 4 : s1[i] = a[i]
    BY <2>4 DEF Follows
  <2>7. s1[5] = <<"iret", 0>>
    BY <2>1, <2>4 DEF Follows
  <2> QED
    BY <2>5, <2>4, <2>6, <2>7, Zenon DEF Follows, a, b
\* breakpoint_handler.
<1>BreakpointPoints.
    ASSUME NEW c \in Contexts, c.prog = "breakpoint", c.pc \in 1 .. 5
    PROVE  Points(c, BreakpointHandler[c.pc][1], BreakpointHandler[c.pc][2])
  <2> USE <1>BreakpointPoints
  <2> DEFINE i == BreakpointHandler[c.pc]
  <2> SUFFICES Points(c, i[1], i[2])
    OBVIOUS
  <2>1. CASE c.pc \in 1 .. 5
    <3>1. \/ c.pc = 1 /\ i = <<"cli", 0>>
          \/ c.pc = 2 /\ i = <<"lock", "WRITER">>
          \/ c.pc = 3 /\ i = <<"unlock", "WRITER">>
          \/ c.pc = 4 /\ i = <<"popf", 0>>
          \/ c.pc = 5 /\ i = <<"iret", 0>>
      BY <2>1, <1>BreakpointJoined, VgaCode
    <3> HIDE DEF i
    <3> QED
      BY <3>1 DEF Points, InRange, CliAt, PopfAt, LockAt, UnlockAt, EoiAt, IretAt, Panics, Timer,
                  Keyboard
  <2> QED
    BY <2>1
<1> QED
  BY <1>BreakpointJoined, <1>BreakpointPoints DEF Listing

\* page_fault_handler, likewise.
LEMMA PageFaultCode ==
  /\ Len(PageFaultHandler) = 11
  /\ \A c \in Contexts : c.prog = "page_fault" /\ c.pc \in 1 .. 11 =>
       Points(c, PageFaultHandler[c.pc][1], PageFaultHandler[c.pc][2])
\* page_fault_handler.
<1>PageFaultJoined.
    /\ Listing(PageFaultHandler, 11)
    /\ \A i \in 1 .. 4 : PageFaultHandler[i] = VgaPrint[i]
    /\ PageFaultHandler[5] = <<"try_lock", "PAGING_CTX">>
    /\ \A i \in 6 .. 9 : PageFaultHandler[i] = VgaPrint[i - 5]
    /\ PageFaultHandler[10] = <<"unlock", "PAGING_CTX">>
    /\ PageFaultHandler[11] = <<"hlt_loop", 0>>
  <2> DEFINE a == VgaPrint
             b == Step("try_lock", "PAGING_CTX")
             c == VgaPrint
             d == Step("unlock", "PAGING_CTX")
             e == Step("hlt_loop", 0)
  <2>1. /\ Listing(a, 4)
        /\ Listing(b, 1) /\ b[1] = <<"try_lock", "PAGING_CTX">>
        /\ Listing(c, 4)
        /\ Listing(d, 1) /\ d[1] = <<"unlock", "PAGING_CTX">>
        /\ Listing(e, 1) /\ e[1] = <<"hlt_loop", 0>>
    BY PrintCode, StepCode, Zenon DEF VgaPrint
  <2>2. PageFaultHandler = a \o b \o c \o d \o e
    BY DEF PageFaultHandler
  <2> HIDE DEF a, b, c, d, e
  <2>3. 5 = 4 + 1 /\ 9 = 5 + 4 /\ 10 = 9 + 1 /\ 11 = 10 + 1
    OBVIOUS
  <2> DEFINE s1 == a \o b
  <2>4. Follows(s1, a, 4, b, 5)
    BY <2>1, <2>3, Joined, Zenon
  <2>5. Listing(s1, 5)
    BY <2>4, Zenon DEF Follows
  <2> HIDE DEF s1
  <2> DEFINE s2 == s1 \o c
  <2>6. Follows(s2, s1, 5, c, 9)
    BY <2>1, <2>3, <2>5, Joined, Zenon
  <2>7. Listing(s2, 9)
    BY <2>6, Zenon DEF Follows
  <2> HIDE DEF s2
  <2> DEFINE s3 == s2 \o d
  <2>8. Follows(s3, s2, 9, d, 10)
    BY <2>1, <2>3, <2>7, Joined, Zenon
  <2>9. Listing(s3, 10)
    BY <2>8, Zenon DEF Follows
  <2> HIDE DEF s3
  <2> DEFINE s4 == s3 \o e
  <2>10. Follows(s4, s3, 10, e, 11)
    BY <2>1, <2>3, <2>9, Joined, Zenon
  <2>11. PageFaultHandler = s4
    BY <2>2 DEF s1, s2, s3, s4
  <2> HIDE DEF s4
  <2>12. \A i \in 1 .. 4 : s4[i] = a[i]
    BY <2>4, <2>6, <2>8, <2>10 DEF Follows
  <2>13. s4[5] = <<"try_lock", "PAGING_CTX">>
    BY <2>1, <2>4, <2>6, <2>8, <2>10 DEF Follows
  <2>14. \A i \in 6 .. 9 : s4[i] = c[i - 5]
    BY <2>6, <2>8, <2>10 DEF Follows
  <2>15. s4[10] = <<"unlock", "PAGING_CTX">>
    BY <2>1, <2>8, <2>10 DEF Follows
  <2>16. s4[11] = <<"hlt_loop", 0>>
    BY <2>1, <2>10 DEF Follows
  <2> QED
    BY <2>11, <2>10, <2>12, <2>13, <2>14, <2>15, <2>16, Zenon DEF Follows, a, b, c, d, e
\* page_fault_handler.
<1>PageFaultPoints.
    ASSUME NEW c \in Contexts, c.prog = "page_fault", c.pc \in 1 .. 11
    PROVE  Points(c, PageFaultHandler[c.pc][1], PageFaultHandler[c.pc][2])
  <2> USE <1>PageFaultPoints
  <2> DEFINE i == PageFaultHandler[c.pc]
  <2> SUFFICES Points(c, i[1], i[2])
    OBVIOUS
  <2>1. CASE c.pc \in 1 .. 5
    <3>1. \/ c.pc = 1 /\ i = <<"cli", 0>>
          \/ c.pc = 2 /\ i = <<"lock", "WRITER">>
          \/ c.pc = 3 /\ i = <<"unlock", "WRITER">>
          \/ c.pc = 4 /\ i = <<"popf", 0>>
          \/ c.pc = 5 /\ i = <<"try_lock", "PAGING_CTX">>
      BY <2>1, <1>PageFaultJoined, VgaCode
    <3> HIDE DEF i
    <3> QED
      BY <3>1 DEF Points, InRange, CliAt, PopfAt, LockAt, UnlockAt, EoiAt, IretAt, Panics, Timer,
                  Keyboard
  <2>2. CASE c.pc \in 6 .. 11
    <3>1. \/ c.pc = 6 /\ i = <<"cli", 0>>
          \/ c.pc = 7 /\ i = <<"lock", "WRITER">>
          \/ c.pc = 8 /\ i = <<"unlock", "WRITER">>
          \/ c.pc = 9 /\ i = <<"popf", 0>>
          \/ c.pc = 10 /\ i = <<"unlock", "PAGING_CTX">>
          \/ c.pc = 11 /\ i = <<"hlt_loop", 0>>
      BY <2>2, <1>PageFaultJoined, VgaCode
    <3> HIDE DEF i
    <3> QED
      BY <3>1 DEF Points, InRange, CliAt, PopfAt, LockAt, UnlockAt, EoiAt, IretAt, Panics, Timer,
                  Keyboard
  <2> QED
    BY <2>1, <2>2
<1> QED
  BY <1>PageFaultJoined, <1>PageFaultPoints DEF Listing

\* The panic handler, which double_fault_handler enters too.
LEMMA PanicCode ==
  /\ Len(PanicHandler) = 13
  /\ \A c \in Contexts : c.prog \in Panics /\ c.pc \in 1 .. 13 =>
       Points(c, PanicHandler[c.pc][1], PanicHandler[c.pc][2])
\* The panic handler.
<1>PanicJoined.
    /\ Listing(PanicHandler, 13)
    /\ \A i \in 1 .. 4 : PanicHandler[i] = VgaPrint[i]
    /\ \A i \in 5 .. 12 : PanicHandler[i] = Log[i - 4]
    /\ PanicHandler[13] = <<"hlt_loop", 0>>
  <2> DEFINE a == VgaPrint
             b == Log
             c == Step("hlt_loop", 0)
  <2>1. /\ Listing(a, 4)
        /\ Listing(b, 8)
        /\ Listing(c, 1) /\ c[1] = <<"hlt_loop", 0>>
    BY PrintCode, LogCode, StepCode, Zenon DEF VgaPrint
  <2>2. PanicHandler = a \o b \o c
    BY DEF PanicHandler
  <2> HIDE DEF a, b, c
  <2>3. 12 = 4 + 8 /\ 13 = 12 + 1
    OBVIOUS
  <2> DEFINE s1 == a \o b
  <2>4. Follows(s1, a, 4, b, 12)
    BY <2>1, <2>3, Joined, Zenon
  <2>5. Listing(s1, 12)
    BY <2>4, Zenon DEF Follows
  <2> HIDE DEF s1
  <2> DEFINE s2 == s1 \o c
  <2>6. Follows(s2, s1, 12, c, 13)
    BY <2>1, <2>3, <2>5, Joined, Zenon
  <2>7. PanicHandler = s2
    BY <2>2 DEF s1, s2
  <2> HIDE DEF s2
  <2>8. \A i \in 1 .. 4 : s2[i] = a[i]
    BY <2>4, <2>6 DEF Follows
  <2>9. \A i \in 5 .. 12 : s2[i] = b[i - 4]
    BY <2>4, <2>6 DEF Follows
  <2>10. s2[13] = <<"hlt_loop", 0>>
    BY <2>1, <2>6 DEF Follows
  <2> QED
    BY <2>7, <2>6, <2>8, <2>9, <2>10, Zenon DEF Follows, a, b, c
\* The panic handler, which double_fault_handler runs too.
<1>PanicPoints.
    ASSUME NEW c \in Contexts, c.prog \in Panics, c.pc \in 1 .. 13
    PROVE  Points(c, PanicHandler[c.pc][1], PanicHandler[c.pc][2])
  <2> USE <1>PanicPoints
  <2> DEFINE i == PanicHandler[c.pc]
  <2> SUFFICES Points(c, i[1], i[2])
    OBVIOUS
  <2>1. CASE c.pc \in 1 .. 4
    <3>1. \/ c.pc = 1 /\ i = <<"cli", 0>>
          \/ c.pc = 2 /\ i = <<"lock", "WRITER">>
          \/ c.pc = 3 /\ i = <<"unlock", "WRITER">>
          \/ c.pc = 4 /\ i = <<"popf", 0>>
      BY <2>1, <1>PanicJoined, VgaCode
    <3> HIDE DEF i
    <3> QED
      BY <3>1 DEF Points, InRange, CliAt, PopfAt, LockAt, UnlockAt, EoiAt, IretAt, Panics, Timer,
                  Keyboard
  <2>2. CASE c.pc \in 5 .. 13
    <3>1. \/ c.pc = 5 /\ i = <<"cli", 0>>
          \/ c.pc = 6 /\ i = <<"lock", "SERIAL1">>
          \/ c.pc = 7 /\ i = <<"unlock", "SERIAL1">>
          \/ c.pc = 8 /\ i = <<"popf", 0>>
          \/ c.pc = 9 /\ i = <<"cli", 0>>
          \/ c.pc = 10 /\ i = <<"lock", "SERIAL1">>
          \/ c.pc = 11 /\ i = <<"unlock", "SERIAL1">>
          \/ c.pc = 12 /\ i = <<"popf", 0>>
          \/ c.pc = 13 /\ i = <<"hlt_loop", 0>>
      BY <2>2, <1>PanicJoined, LogCode
    <3> HIDE DEF i
    <3> QED
      BY <3>1 DEF Points, InRange, CliAt, PopfAt, LockAt, UnlockAt, EoiAt, IretAt, Panics, Timer,
                  Keyboard
  <2> QED
    BY <2>1, <2>2
<1> QED
  BY <1>PanicJoined, <1>PanicPoints DEF Listing

\* The program of each context.
LEMMA ProgramIs ==
  /\ DOMAIN Program = Programs
  /\ Program["main"] = Main /\ Program["timer"] = TimerHandler
  /\ Program["keyboard"] = KeyboardHandler /\ Program["breakpoint"] = BreakpointHandler
  /\ Program["page_fault"] = PageFaultHandler /\ Program["double_fault"] = PanicHandler
  /\ Program["panic"] = PanicHandler /\ Program["reset"] = TripleFault
  BY DEF Program, Programs, DoubleFaultHandler

\* Where each step occurs.
LEMMA ProgramPoints ==
  ASSUME NEW c \in Contexts, InProgram(c)
  PROVE  Points(c, Program[c.prog][c.pc][1], Program[c.prog][c.pc][2])
<1>1. CASE c.prog = "main"
  <2>1. Len(Main) = 64
    BY MainCode
  <2>2. c.pc \in 1 .. 64
    BY <1>1, <2>1, ProgramIs, Zenon DEF InProgram
  <2> QED
    BY <1>1, <2>2, MainCode, ProgramIs, Zenon
<1>2. CASE c.prog = "timer"
  <2>1. Len(TimerHandler) = 4
    BY TimerCode
  <2>2. c.pc \in 1 .. 4
    BY <1>2, <2>1, ProgramIs, Zenon DEF InProgram
  <2> QED
    BY <1>2, <2>2, TimerCode, ProgramIs, Zenon
<1>3. CASE c.prog = "keyboard"
  <2>1. Len(KeyboardHandler) = 12
    BY KeyboardCode
  <2>2. c.pc \in 1 .. 12
    BY <1>3, <2>1, ProgramIs, Zenon DEF InProgram
  <2> QED
    BY <1>3, <2>2, KeyboardCode, ProgramIs, Zenon
<1>4. CASE c.prog = "breakpoint"
  <2>1. Len(BreakpointHandler) = 5
    BY BreakpointCode
  <2>2. c.pc \in 1 .. 5
    BY <1>4, <2>1, ProgramIs, Zenon DEF InProgram
  <2> QED
    BY <1>4, <2>2, BreakpointCode, ProgramIs, Zenon
<1>5. CASE c.prog = "page_fault"
  <2>1. Len(PageFaultHandler) = 11
    BY PageFaultCode
  <2>2. c.pc \in 1 .. 11
    BY <1>5, <2>1, ProgramIs, Zenon DEF InProgram
  <2> QED
    BY <1>5, <2>2, PageFaultCode, ProgramIs, Zenon
<1>6. CASE c.prog \in Panics
  <2>1. Len(PanicHandler) = 13
    BY PanicCode
  <2>2. c.pc \in 1 .. 13 /\ Program[c.prog] = PanicHandler
    BY <1>6, <2>1, ProgramIs, Zenon DEF InProgram, Panics
  <2> QED
    BY <1>6, <2>2, PanicCode, Zenon
<1>7. CASE c.prog = "reset"
  <2>1. Len(TripleFault) = 1 /\ TripleFault[1] = <<"off", 0>>
    BY StepCode DEF Listing, TripleFault
  <2>2. Program[c.prog] = TripleFault
    BY <1>7, ProgramIs, Zenon
  <2>3. c.pc \in 1 .. 1
    BY <2>1, <2>2, Zenon DEF InProgram
  <2> QED
    BY <1>7, <2>1, <2>2, <2>3 DEF Points, InRange, CliAt, PopfAt, LockAt, UnlockAt, EoiAt, IretAt,
                                  Panics
<1> QED
  BY <1>1, <1>2, <1>3, <1>4, <1>5, <1>6, <1>7 DEF Contexts, Programs, Panics

-----------------------------------------------------------------------------
(* What each step changes of the place of its context.                     *)

\* The length of each program.
LEMMA Lengths ==
  /\ Len(Program["main"]) = 64 /\ Len(Program["timer"]) = 4
  /\ Len(Program["keyboard"]) = 12 /\ Len(Program["breakpoint"]) = 5
  /\ Len(Program["page_fault"]) = 11 /\ Len(Program["double_fault"]) = 13
  /\ Len(Program["panic"]) = 13 /\ Len(Program["reset"]) = 1
<1>1. Len(Main) = 64 /\ Len(TimerHandler) = 4 /\ Len(KeyboardHandler) = 12
  BY MainCode, TimerCode, KeyboardCode, Zenon
<1>2. Len(BreakpointHandler) = 5 /\ Len(PageFaultHandler) = 11 /\ Len(PanicHandler) = 13
  BY BreakpointCode, PageFaultCode, PanicCode, Zenon
<1>3. Len(TripleFault) = 1
  BY StepCode, Zenon DEF Listing, TripleFault
<1> QED
  BY <1>1, <1>2, <1>3, ProgramIs, Zenon

\* InRange is InProgram.
LEMMA Within ==
  ASSUME NEW c \in Contexts, InRange(c)
  PROVE  InProgram(c)
<1>1. c.prog \in Programs
  BY DEF Contexts
<1>2. CASE c.prog = "main"
  BY <1>2, Lengths DEF InRange, InProgram
<1>3. CASE c.prog \in {"timer", "keyboard", "breakpoint", "page_fault"}
  BY <1>3, Lengths, Zenon DEF InRange, InProgram
<1>4. CASE c.prog \in {"double_fault", "panic", "reset"}
  BY <1>4, Lengths, Zenon DEF InRange, InProgram, Panics
<1> QED
  BY <1>1, <1>2, <1>3, <1>4, Zenon DEF Programs

\* The start of without_interrupts.
LEMMA AtCli ==
  ASSUME NEW c \in Contexts, NEW e \in Contexts, NEW x, CliAt(c),
         e.prog = c.prog, e.pc = c.pc + 1
  PROVE  /\ InRange(e)
         /\ SamePhase(c, e)
         /\ ~ Off(c) /\ Off(e)
         /\ SameLocks(c, e)
         /\ SameService(c, e)
<1> USE DEF CliAt, Panics
<1>0. c.pc \in Nat /\ e.pc \in Nat
  BY DEF Contexts
<1>1. InRange(e)
  BY <1>0 DEF InRange
<1>2. SamePhase(c, e)
  BY <1>0 DEF SamePhase
<1>3. ~ Off(c) /\ Off(e)
  BY <1>0 DEF Off
<1>4. SameLocks(c, e)
  BY <1>0 DEF SameLocks, Holds, Lock
<1>5. SameService(c, e)
  BY <1>0 DEF SameService, Serves, Reads, Timer, Keyboard
<1> QED
  BY <1>1, <1>2, <1>3, <1>4, <1>5

\* The end of without_interrupts.
LEMMA AtPopf ==
  ASSUME NEW c \in Contexts, NEW e \in Contexts, NEW x, PopfAt(c),
         e.prog = c.prog, e.pc = c.pc + 1
  PROVE  /\ InRange(e)
         /\ SamePhase(c, e)
         /\ Off(c) /\ ~ Off(e)
         /\ SameLocks(c, e)
         /\ SameService(c, e)
<1> USE DEF PopfAt, Panics
<1>0. c.pc \in Nat /\ e.pc \in Nat
  BY DEF Contexts
<1>1. InRange(e)
  BY <1>0 DEF InRange
<1>2. SamePhase(c, e)
  BY <1>0 DEF SamePhase
<1>3. Off(c) /\ ~ Off(e)
  BY <1>0 DEF Off
<1>4. SameLocks(c, e)
  BY <1>0 DEF SameLocks, Holds, Lock
<1>5. SameService(c, e)
  BY <1>0 DEF SameService, Serves, Reads, Timer, Keyboard
<1> QED
  BY <1>1, <1>2, <1>3, <1>4, <1>5

\* A lock is taken.
LEMMA AtLock ==
  ASSUME NEW c \in Contexts, NEW e \in Contexts, NEW x, LockAt(c, x),
         e.prog = c.prog, e.pc = c.pc + 1
  PROVE  /\ InRange(e)
         /\ SamePhase(c, e)
         /\ Off(e) <=> Off(c)
         /\ x \in Lock /\ ~ Holds(c, x) /\ Holds(e, x)
         /\ \A l \in Lock : l # x => (Holds(e, l) <=> Holds(c, l))
         /\ SameService(c, e)
<1> USE DEF LockAt, Panics
<1>0. c.pc \in Nat /\ e.pc \in Nat
  BY DEF Contexts
<1>1. InRange(e)
  BY <1>0 DEF InRange
<1>2. SamePhase(c, e)
  BY <1>0 DEF SamePhase
<1>3. Off(e) <=> Off(c)
  BY <1>0 DEF Off
<1>4. x \in Lock /\ ~ Holds(c, x) /\ Holds(e, x)
  BY <1>0 DEF Holds, Lock
<1>5. \A l \in Lock : l # x => (Holds(e, l) <=> Holds(c, l))
  BY <1>0 DEF Holds, Lock
<1>6. SameService(c, e)
  BY <1>0 DEF SameService, Serves, Reads, Timer, Keyboard
<1> QED
  BY <1>1, <1>2, <1>3, <1>4, <1>5, <1>6

\* A lock is released.
LEMMA AtUnlock ==
  ASSUME NEW c \in Contexts, NEW e \in Contexts, NEW x, UnlockAt(c, x),
         e.prog = c.prog, e.pc = c.pc + 1
  PROVE  /\ InRange(e)
         /\ SamePhase(c, e)
         /\ Off(e) <=> Off(c)
         /\ x \in Lock /\ Holds(c, x) /\ ~ Holds(e, x)
         /\ \A l \in Lock : l # x => (Holds(e, l) <=> Holds(c, l))
         /\ SameService(c, e)
<1> USE DEF UnlockAt, Panics
<1>0. c.pc \in Nat /\ e.pc \in Nat
  BY DEF Contexts
<1>1. InRange(e)
  BY <1>0 DEF InRange
<1>2. SamePhase(c, e)
  BY <1>0 DEF SamePhase
<1>3. Off(e) <=> Off(c)
  BY <1>0 DEF Off
<1>4. x \in Lock /\ Holds(c, x) /\ ~ Holds(e, x)
  BY <1>0 DEF Holds, Lock
<1>5. \A l \in Lock : l # x => (Holds(e, l) <=> Holds(c, l))
  BY <1>0 DEF Holds, Lock
<1>6. SameService(c, e)
  BY <1>0 DEF SameService, Serves, Reads, Timer, Keyboard
<1> QED
  BY <1>1, <1>2, <1>3, <1>4, <1>5, <1>6

\* A try_lock that fails.
LEMMA AtRetry ==
  ASSUME NEW c \in Contexts, NEW e \in Contexts, NEW x, c.prog = "page_fault", c.pc = 5,
         e.prog = c.prog, e.pc = 11
  PROVE  /\ InRange(e)
         /\ SamePhase(c, e)
         /\ Off(e) <=> Off(c)
         /\ SameLocks(c, e)
         /\ SameService(c, e)
<1> USE DEF Panics
<1>0. c.pc \in Nat /\ e.pc \in Nat
  BY DEF Contexts
<1>1. InRange(e)
  BY <1>0 DEF InRange
<1>2. SamePhase(c, e)
  BY <1>0 DEF SamePhase
<1>3. Off(e) <=> Off(c)
  BY <1>0 DEF Off
<1>4. SameLocks(c, e)
  BY <1>0 DEF SameLocks, Holds, Lock
<1>5. SameService(c, e)
  BY <1>0 DEF SameService, Serves, Reads, Timer, Keyboard
<1> QED
  BY <1>1, <1>2, <1>3, <1>4, <1>5

\* A try_lock that succeeds.
LEMMA AtTry ==
  ASSUME NEW c \in Contexts, NEW e \in Contexts, NEW x, c.prog = "page_fault", c.pc = 5,
         x = "PAGING_CTX",
         e.prog = c.prog, e.pc = c.pc + 1
  PROVE  /\ InRange(e)
         /\ SamePhase(c, e)
         /\ Off(e) <=> Off(c)
         /\ x \in Lock /\ ~ Holds(c, x) /\ Holds(e, x)
         /\ \A l \in Lock : l # x => (Holds(e, l) <=> Holds(c, l))
         /\ SameService(c, e)
<1> USE DEF Panics
<1>0. c.pc \in Nat /\ e.pc \in Nat
  BY DEF Contexts
<1>1. InRange(e)
  BY <1>0 DEF InRange
<1>2. SamePhase(c, e)
  BY <1>0 DEF SamePhase
<1>3. Off(e) <=> Off(c)
  BY <1>0 DEF Off
<1>4. x \in Lock /\ ~ Holds(c, x) /\ Holds(e, x)
  BY <1>0 DEF Holds, Lock
<1>5. \A l \in Lock : l # x => (Holds(e, l) <=> Holds(c, l))
  BY <1>0 DEF Holds, Lock
<1>6. SameService(c, e)
  BY <1>0 DEF SameService, Serves, Reads, Timer, Keyboard
<1> QED
  BY <1>1, <1>2, <1>3, <1>4, <1>5, <1>6

\* Steps of main without an effect on interrupts or locks.
LEMMA AtWork ==
  ASSUME NEW c \in Contexts, NEW e \in Contexts, NEW x, c.prog = "main",
         c.pc \in {12, 23, 28, 39, 47, 53, 63},
         e.prog = c.prog, e.pc = c.pc + 1
  PROVE  /\ InRange(e)
         /\ SamePhase(c, e)
         /\ Off(e) <=> Off(c)
         /\ SameLocks(c, e)
         /\ SameService(c, e)
<1> USE DEF Panics
<1>0. c.pc \in Nat /\ e.pc \in Nat
  BY DEF Contexts
<1>1. InRange(e)
  BY <1>0 DEF InRange
<1>2. SamePhase(c, e)
  BY <1>0 DEF SamePhase
<1>3. Off(e) <=> Off(c)
  BY <1>0 DEF Off
<1>4. SameLocks(c, e)
  BY <1>0 DEF SameLocks, Holds, Lock
<1>5. SameService(c, e)
  BY <1>0 DEF SameService, Serves, Reads, Timer, Keyboard
<1> QED
  BY <1>1, <1>2, <1>3, <1>4, <1>5

\* The loops of Acpi::enable and sleep.
LEMMA AtLoop ==
  ASSUME NEW c \in Contexts, NEW e \in Contexts, NEW x, c.prog = "main", c.pc \in {25, 26},
         e.prog = c.prog, e.pc \in {25, 26, 27, 28}
  PROVE  /\ InRange(e)
         /\ SamePhase(c, e)
         /\ Off(e) <=> Off(c)
         /\ SameLocks(c, e)
         /\ SameService(c, e)
<1> USE DEF Panics
<1>0. c.pc \in Nat /\ e.pc \in Nat
  BY DEF Contexts
<1>1. InRange(e)
  BY <1>0 DEF InRange
<1>2. SamePhase(c, e)
  BY <1>0 DEF SamePhase
<1>3. Off(e) <=> Off(c)
  BY <1>0 DEF Off
<1>4. SameLocks(c, e)
  BY <1>0 DEF SameLocks, Holds, Lock
<1>5. SameService(c, e)
  BY <1>0 DEF SameService, Serves, Reads, Timer, Keyboard
<1> QED
  BY <1>1, <1>2, <1>3, <1>4, <1>5

\* The keyboard handler prints, or does not.
LEMMA AtSkip ==
  ASSUME NEW c \in Contexts, NEW e \in Contexts, NEW x, c.prog = "keyboard", c.pc = 3,
         e.prog = c.prog, e.pc \in {4, 8}
  PROVE  /\ InRange(e)
         /\ SamePhase(c, e)
         /\ Off(e) <=> Off(c)
         /\ SameLocks(c, e)
         /\ SameService(c, e)
<1> USE DEF Panics
<1>0. c.pc \in Nat /\ e.pc \in Nat
  BY DEF Contexts
<1>1. InRange(e)
  BY <1>0 DEF InRange
<1>2. SamePhase(c, e)
  BY <1>0 DEF SamePhase
<1>3. Off(e) <=> Off(c)
  BY <1>0 DEF Off
<1>4. SameLocks(c, e)
  BY <1>0 DEF SameLocks, Holds, Lock
<1>5. SameService(c, e)
  BY <1>0 DEF SameService, Serves, Reads, Timer, Keyboard
<1> QED
  BY <1>1, <1>2, <1>3, <1>4, <1>5

\* The keyboard handler reads the port.
LEMMA AtRead ==
  ASSUME NEW c \in Contexts, NEW e \in Contexts, NEW x, c.prog = "keyboard", c.pc = 2,
         e.prog = c.prog, e.pc = c.pc + 1
  PROVE  /\ InRange(e)
         /\ SamePhase(c, e)
         /\ Off(e) <=> Off(c)
         /\ SameLocks(c, e)
         /\ Serves(e) = Serves(c)
<1> USE DEF Panics
<1>0. c.pc \in Nat /\ e.pc \in Nat
  BY DEF Contexts
<1>1. InRange(e)
  BY <1>0 DEF InRange
<1>2. SamePhase(c, e)
  BY <1>0 DEF SamePhase
<1>3. Off(e) <=> Off(c)
  BY <1>0 DEF Off
<1>4. SameLocks(c, e)
  BY <1>0 DEF SameLocks, Holds, Lock
<1>5. Serves(e) = Serves(c)
  BY <1>0 DEF Serves, Reads, Timer, Keyboard
<1> QED
  BY <1>1, <1>2, <1>3, <1>4, <1>5

\* Steps of init and apic_init that set up the interrupts.
LEMMA AtSetup ==
  ASSUME NEW c \in Contexts, NEW e \in Contexts, NEW x, c.prog = "main",
         c.pc \in {5, 6, 8, 10, 42, 43, 44, 49, 50},
         e.prog = c.prog, e.pc = c.pc + 1
  PROVE  /\ InRange(e)
         /\ Off(e) <=> Off(c)
         /\ SameLocks(c, e)
         /\ SameService(c, e)
<1> USE DEF Panics
<1>0. c.pc \in Nat /\ e.pc \in Nat
  BY DEF Contexts
<1>1. InRange(e)
  BY <1>0 DEF InRange
<1>2. Off(e) <=> Off(c)
  BY <1>0 DEF Off
<1>3. SameLocks(c, e)
  BY <1>0 DEF SameLocks, Holds, Lock
<1>4. SameService(c, e)
  BY <1>0 DEF SameService, Serves, Reads, Timer, Keyboard
<1> QED
  BY <1>1, <1>2, <1>3, <1>4

\* The end of interrupt.
LEMMA AtEoi ==
  ASSUME NEW c \in Contexts, NEW e \in Contexts, NEW x, EoiAt(c, x),
         e.prog = c.prog, e.pc = c.pc + 1
  PROVE  /\ InRange(e)
         /\ SamePhase(c, e)
         /\ Off(e) <=> Off(c)
         /\ SameLocks(c, e)
         /\ Serves(c) = {x} /\ Serves(e) = {}
         /\ Reads(e) <=> Reads(c)
<1> USE DEF EoiAt, Panics
<1>0. c.pc \in Nat /\ e.pc \in Nat
  BY DEF Contexts
<1>1. InRange(e)
  BY <1>0 DEF InRange
<1>2. SamePhase(c, e)
  BY <1>0 DEF SamePhase
<1>3. Off(e) <=> Off(c)
  BY <1>0 DEF Off
<1>4. SameLocks(c, e)
  BY <1>0 DEF SameLocks, Holds, Lock
<1>5. Serves(c) = {x} /\ Serves(e) = {}
  BY <1>0 DEF Serves, Reads, Timer, Keyboard
<1>6. Reads(e) <=> Reads(c)
  BY <1>0 DEF Serves, Reads, Timer, Keyboard
<1> QED
  BY <1>1, <1>2, <1>3, <1>4, <1>5, <1>6

-----------------------------------------------------------------------------
(* The inductive invariant.                                                *)

\* Type correctness of the state of boot, handlers and controllers.
TypeOK ==
  /\ stack \in Seq(Contexts) /\ Depth \in 1 .. 3
  /\ iflag \in BOOLEAN /\ kbd_full \in BOOLEAN /\ missed \in BOOLEAN
  /\ loaded \subseteq {"gdt", "idt", "pics"}
  /\ locks \in [Lock -> Nat]
  /\ controller \in {"Pics", "Apic"}
  /\ pic \in [irr : SUBSET Irq, isr : SUBSET Irq, masked : BOOLEAN]
  /\ lapic \in [irr : SUBSET Irq, isr : SUBSET Irq, enabled : BOOLEAN]
  /\ routed \subseteq Irq

\* What can interrupt what: main or its panic handler at the bottom, one handler
\* or exception above it, and above a handler only a double fault.  A context has
\* a saved flag exactly inside without_interrupts.
Nested ==
  /\ stack[1].prog \in {"main", "panic"}
  /\ Depth > 1 => stack[2].prog \in Handlers \cup Exceptions
  /\ Depth > 2 => stack[2].prog \in Handlers /\ stack[3].prog \in {"double_fault", "reset"}
  /\ \A d \in 1 .. Depth : /\ InProgram(stack[d])
                           /\ Len(stack[d].saved) = IF Off(stack[d]) THEN 1 ELSE 0

\* The interrupt flag of main, or of its panic handler.
BaseIf == IF Depth = 1 THEN iflag ELSE stack[2].iret_if

\* What interrupts need: the tables are loaded, main does not hold PICS,
\* and the handover to the APIC has not begun or is complete.
Ready ==
  /\ loaded = {"gdt", "idt", "pics"}
  /\ locks["PICS"] # 1
  /\ controller = "Apic" => pic.masked /\ lapic.enabled /\ Keyboard \in routed

\* Interrupts may be on in main or its panic handler, now or once it leaves
\* without_interrupts.
MayEnable == BaseIf = TRUE \/ (Off(stack[1]) /\ stack[1].saved[1] = TRUE)

\* Handlers run with interrupts off, and so does without_interrupts; a handler
\* interrupted code that had them on; a panic with interrupts on finds them ready.
Flags ==
  /\ Depth > 1 => iflag = FALSE
  /\ \A d \in 2 .. Depth : Off(stack[d]) => stack[d].saved[1] = FALSE
  /\ Off(stack[1]) => BaseIf = FALSE
  /\ Depth > 1 /\ stack[2].prog \in Handlers => BaseIf = TRUE
  /\ stack[1].prog = "panic" /\ MayEnable => Ready

\* How far kernel_main has come determines what is set up; before the sti of
\* init interrupts are off.
Phases ==
  LET pc == stack[1].pc
  IN  stack[1].prog = "main" =>
        /\ pc > 5 => "gdt" \in loaded
        /\ pc > 6 => "idt" \in loaded
        /\ pc > 8 => "pics" \in loaded
        /\ controller = "Apic" <=> pc > 42
        /\ lapic.enabled = TRUE <=> pc > 43
        /\ pic.masked = TRUE <=> pc > 44
        /\ pc > 50 => Keyboard \in routed
        /\ pc <= 10 => ~ MayEnable

\* A lock is held by the context that is between its lock and its unlock, and by
\* no other.  A panic takes the place of main and leaves PICS or PAGING_CTX taken
\* for good.  The print locks are held by the running context only.
LocksHeld ==
  /\ \A l \in Lock : locks[l] <= Depth
  /\ \A l \in Lock : \A d \in 1 .. Depth : Holds(stack[d], l) => locks[l] = d
  /\ \A l \in Lock : \A d \in 1 .. Depth :
       locks[l] = d => \/ Holds(stack[d], l)
                       \/ d = 1 /\ stack[1].prog = "panic" /\ l \in {"PICS", "PAGING_CTX"}
  /\ \A d \in 1 .. Depth :
       d < Depth => ~ Holds(stack[d], "WRITER") /\ ~ Holds(stack[d], "SERIAL1")

\* The local APIC is enabled, and the PICs masked, after PICS names the APIC.
Devices ==
  /\ lapic.enabled = TRUE => controller = "Apic"
  /\ pic.masked = TRUE => controller = "Apic"
  /\ lapic.irr # {} => lapic.enabled = TRUE

\* InServiceExact, by the place of the handler in its program.
InService ==
  LET current == IF controller = "Pics" THEN pic.isr ELSE lapic.isr
      other == IF controller = "Pics" THEN lapic.isr ELSE pic.isr
  IN  other = {} /\ current = IF Depth > 1 THEN Serves(stack[2]) ELSE {}

\* KeyHasRequest, by the place of the keyboard handler in its program.
Request ==
  kbd_full = TRUE =>
    \/ missed = TRUE
    \/ Keyboard \in pic.irr /\ pic.masked = FALSE
    \/ Keyboard \in lapic.irr
    \/ Depth > 1 /\ Reads(stack[2])

\* The inductive invariant of the boot with its interrupts.
IInv == TypeOK /\ Nested /\ Flags /\ Phases /\ LocksHeld /\ Devices /\ InService /\ Request

-----------------------------------------------------------------------------
(* The stack of contexts.                                                  *)

\* t is s with c on top.
Rewritten(s, t, c) ==
  /\ t \in Seq(Contexts) /\ Len(t) = Len(s) /\ t[Len(s)] = c
  /\ \A d \in 1 .. Len(s) : d # Len(s) => t[d] = s[d]

\* A step of the running context.
LEMMA Updated ==
  ASSUME NEW s \in Seq(Contexts), NEW c \in Contexts, Len(s) > 0,
         NEW t, t = [s EXCEPT ![Len(s)] = c]
  PROVE  Rewritten(s, t, c)
<1>1. PICK i \in 1 .. Len(s) : i = Len(s)
  OBVIOUS
<1>2. t = [s EXCEPT ![i] = c]
  BY <1>1
<1>3. t \in Seq(Contexts) /\ Len(t) = Len(s)
  BY <1>2
<1>4. \A d \in 1 .. Len(s) : t[d] = IF d = i THEN c ELSE s[d]
  BY <1>2
<1> QED
  BY <1>1, <1>3, <1>4 DEF Rewritten

\* An interrupt or an exception.
LEMMA Pushed ==
  ASSUME NEW s \in Seq(Contexts), NEW c \in Contexts, NEW t, t = Append(s, c)
  PROVE  /\ t \in Seq(Contexts) /\ Len(t) = Len(s) + 1 /\ t[Len(s) + 1] = c
         /\ \A d \in 1 .. Len(s) : t[d] = s[d]
  OBVIOUS

\* The return from one.
LEMMA Popped ==
  ASSUME NEW S, NEW s \in Seq(S), Len(s) > 0, NEW t, t = SubSeq(s, 1, Len(s) - 1)
  PROVE  /\ t \in Seq(S) /\ Len(t) = Len(s) - 1
         /\ \A d \in 1 .. Len(s) - 1 : t[d] = s[d]
<1> DEFINE n == Len(s) - 1
<1>1. n \in Nat /\ n <= Len(s) /\ t = [d \in 1 .. n |-> s[d]]
  OBVIOUS
<1> HIDE DEF n
<1>2. t \in Seq(S) /\ Len(t) = n /\ \A d \in 1 .. n : t[d] = s[d]
  BY <1>1
<1> QED
  BY <1>2 DEF n

-----------------------------------------------------------------------------
(* Steps that only move the running context.                               *)

\* The running context becomes e, and those below it stay.
Advances(e) ==
  /\ e \in Contexts
  /\ stack' \in Seq(Contexts) /\ Depth' = Depth /\ stack'[Depth] = e
  /\ \A d \in 1 .. Depth : d # Depth => stack'[d] = stack[d]

\* It goes to another place of its program.
Moves(e) ==
  /\ Advances(e)
  /\ e.prog = Top.prog /\ e.saved = Top.saved /\ e.iret_if = Top.iret_if

\* There is a running context.
LEMMA Shape ==
  ASSUME TypeOK
  PROVE  Top \in Contexts
<1>1. stack \in Seq(Contexts) /\ Len(stack) \in 1 .. 3
  BY Zenon DEF TypeOK, Depth
<1>2. \A s \in Seq(Contexts) : Len(s) \in 1 .. 3 => s[Len(s)] \in Contexts
  OBVIOUS
<1> QED
  BY <1>1, <1>2, Zenon DEF Top, Depth

\* The running context is at a known place of its program.
LEMMA Running ==
  ASSUME IInv
  PROVE  Top \in Contexts /\ InProgram(Top) /\ Points(Top, Op, Arg)
<1>0. TypeOK
  BY DEF IInv
<1>1. Top \in Contexts
  BY <1>0, Shape
<1>2. InProgram(Top)
  <2>1. Depth \in 1 .. Depth
    BY <1>0 DEF TypeOK
  <2> QED
    BY <2>1 DEF IInv, Nested, Top
<1> QED
  BY <1>1, <1>2, ProgramPoints DEF Op, Arg, Instr

\* The running context becomes e.
LEMMA Replaced ==
  ASSUME TypeOK, NEW e \in Contexts, stack' = [stack EXCEPT ![Depth] = e]
  PROVE  Advances(e)
<1>1. Depth \in 1 .. 3
  BY DEF TypeOK
<1>2. Depth > 0
  BY <1>1
<1>3. stack \in Seq(Contexts) /\ Len(stack) > 0 /\ stack' = [stack EXCEPT ![Len(stack)] = e]
  BY <1>2, Zenon DEF TypeOK, Depth
<1>4. Rewritten(stack, stack', e)
  BY <1>3, Updated, Zenon
<1> QED
  BY <1>4, Zenon DEF Rewritten, Advances, Depth

\* A jump of the running context.
LEMMA Goes ==
  ASSUME TypeOK, NEW n \in Nat, Goto(n)
  PROVE  \E e : Moves(e) /\ e.pc = n
<1> DEFINE e == [Top EXCEPT !.pc = n]
<1>1. Top \in Contexts
  BY Shape
<1>2. /\ e \in Contexts /\ e.prog = Top.prog /\ e.saved = Top.saved
      /\ e.iret_if = Top.iret_if /\ e.pc = n
  BY <1>1 DEF Contexts
<1>3. stack' = [stack EXCEPT ![Depth] = e]
  BY DEF Goto, Top
<1> HIDE DEF e
<1>4. Moves(e)
  BY <1>2, <1>3, Replaced, Zenon DEF Moves
<1> QED
  BY <1>2, <1>4

\* A step of the running context keeps the nesting.
LEMMA KeptNested ==
  ASSUME IInv, NEW e, Advances(e), e.prog = Top.prog, InRange(e),
         Len(e.saved) = IF Off(e) THEN 1 ELSE 0
  PROVE  Nested' /\ stack' \in Seq(Contexts) /\ Depth' \in 1 .. 3
<1>1. Depth \in 1 .. 3 /\ Depth' = Depth /\ stack' \in Seq(Contexts)
  BY DEF IInv, TypeOK, Advances
<1>2. InProgram(e)
  BY Within DEF Advances
<1>3. \A d \in 1 .. Depth : stack'[d].prog = stack[d].prog
  BY <1>1 DEF Advances, Top
<1>4. \A d \in 1 .. Depth : /\ InProgram(stack'[d])
                            /\ Len(stack'[d].saved) = IF Off(stack'[d]) THEN 1 ELSE 0
  BY <1>1, <1>2 DEF Advances, IInv, Nested
<1>5. Nested'
  BY <1>1, <1>3, <1>4 DEF IInv, Nested
<1> QED
  BY <1>1, <1>5

\* A step that stays on its side of without_interrupts keeps the flags.
LEMMA KeptFlags ==
  ASSUME IInv, NEW e, Moves(e), Off(e) <=> Off(Top), iflag' = iflag,
         stack[1].prog = "panic" /\ Ready => Ready'
  PROVE  Flags' /\ (MayEnable' <=> MayEnable)
<1>1. Depth \in 1 .. 3 /\ Depth' = Depth
  BY DEF IInv, TypeOK, Moves, Advances
<1>2. \A d \in 1 .. Depth : /\ stack'[d].prog = stack[d].prog
                            /\ stack'[d].saved = stack[d].saved
                            /\ stack'[d].iret_if = stack[d].iret_if
                            /\ Off(stack'[d]) <=> Off(stack[d])
  BY <1>1 DEF Moves, Advances, Top
<1>3. BaseIf' = BaseIf
  BY <1>1, <1>2 DEF BaseIf
<1>4. MayEnable' <=> MayEnable
  BY <1>1, <1>2, <1>3 DEF MayEnable
<1>5. Flags'
  BY <1>1, <1>2, <1>3, <1>4 DEF IInv, Flags
<1> QED
  BY <1>4, <1>5

\* A step that sets nothing up keeps the phase of the boot.
LEMMA KeptPhases ==
  ASSUME IInv, NEW e, Advances(e), e.prog = Top.prog, SamePhase(Top, e), MayEnable' => MayEnable,
         loaded' = loaded, controller' = controller, lapic'.enabled = lapic.enabled,
         pic'.masked = pic.masked, routed' = routed
  PROVE  Phases'
<1>1. Depth \in 1 .. 3 /\ Depth' = Depth
  BY DEF IInv, TypeOK, Advances
<1>2. stack'[1].prog = stack[1].prog /\ SamePhase(stack[1], stack'[1])
  BY <1>1, SMTT(20) DEF Advances, Top, SamePhase
<1> QED
  BY <1>2 DEF IInv, Phases, SamePhase

\* A step that takes and releases no lock keeps the holders.
LEMMA KeptLocks ==
  ASSUME IInv, NEW e, Advances(e), e.prog = Top.prog, SameLocks(Top, e), locks' = locks
  PROVE  LocksHeld'
<1>1. Depth \in 1 .. 3 /\ Depth' = Depth
  BY DEF IInv, TypeOK, Advances
<1>2. \A d \in 1 .. Depth : /\ stack'[d].prog = stack[d].prog
                            /\ \A l \in Lock : Holds(stack'[d], l) <=> Holds(stack[d], l)
  BY <1>1 DEF Advances, Top, SameLocks
<1> QED
  BY <1>1, <1>2 DEF IInv, LocksHeld, Lock

\* A step that neither reads the port nor signals an end of interrupt keeps the
\* lines in service and the request of the keyboard.
LEMMA KeptService ==
  ASSUME IInv, NEW e, Advances(e), SameService(Top, e),
         controller' = controller, pic' = pic, lapic' = lapic, kbd_full' = kbd_full, missed' = missed
  PROVE  InService' /\ Devices' /\ Request'
<1>1. Depth \in 1 .. 3 /\ Depth' = Depth
  BY DEF IInv, TypeOK, Advances
<1>2. \A d \in 1 .. Depth : /\ Serves(stack'[d]) = Serves(stack[d])
                            /\ Reads(stack'[d]) <=> Reads(stack[d])
  BY <1>1 DEF Advances, Top, SameService
<1>3. InService'
  BY <1>1, <1>2 DEF IInv, InService
<1>4. Devices'
  BY DEF IInv, Devices
<1>5. Request'
  BY <1>1, <1>2 DEF IInv, Request
<1> QED
  BY <1>3, <1>4, <1>5

\* The running context has a saved flag exactly inside without_interrupts.
LEMMA Saved ==
  ASSUME IInv
  PROVE  Len(Top.saved) = IF Off(Top) THEN 1 ELSE 0
<1>1. Depth \in 1 .. Depth
  BY DEF IInv, TypeOK
<1> QED
  BY <1>1 DEF IInv, Nested, Top

\* main is at the bottom, the interrupt handlers right above it.
LEMMA Levels ==
  ASSUME IInv
  PROVE  /\ Depth \in 1 .. 3
         /\ Top.prog \in {"main", "panic"} => Depth = 1 /\ Top = stack[1]
         /\ Top.prog \in Handlers \cup {"breakpoint", "page_fault"} => Depth = 2 /\ Top = stack[2]
<1>1. Depth \in 1 .. 3
  BY DEF IInv, TypeOK
<1> QED
  BY <1>1 DEF IInv, Nested, Top, Handlers, Exceptions

\* All the state but the contexts and the counters of sleep.
quietVars == <<iflag, loaded, locks, controller, deviceVars, kbd_full, missed>>

\* A step that only moves the running context keeps the invariant.
LEMMA Quiet ==
  ASSUME IInv, NEW e, Moves(e), InRange(e), SamePhase(Top, e), Off(e) <=> Off(Top),
         SameLocks(Top, e), SameService(Top, e), UNCHANGED quietVars
  PROVE  IInv'
<1> USE DEF quietVars, deviceVars
<1>1. Advances(e) /\ e.prog = Top.prog /\ e.saved = Top.saved
  BY DEF Moves
<1>2. Len(e.saved) = IF Off(e) THEN 1 ELSE 0
  BY <1>1, Saved
<1>3. Nested' /\ stack' \in Seq(Contexts) /\ Depth' \in 1 .. 3
  BY <1>1, <1>2, KeptNested
<1>4. TypeOK'
  BY <1>3 DEF IInv, TypeOK
<1>5. Ready => Ready'
  BY DEF Ready
<1>6. Flags' /\ (MayEnable' <=> MayEnable)
  BY <1>5, KeptFlags
<1>7. Phases'
  BY <1>1, <1>6, KeptPhases
<1>8. LocksHeld'
  BY <1>1, KeptLocks
<1>9. InService' /\ Devices' /\ Request'
  BY <1>1, KeptService
<1> QED
  BY <1>3, <1>4, <1>6, <1>7, <1>8, <1>9 DEF IInv

\* So does a step of the counters of sleep.
LEMMA Same ==
  ASSUME IInv, UNCHANGED <<stack, quietVars>>
  PROVE  IInv'
<1> USE DEF quietVars, deviceVars
<1>1. TypeOK'
  BY DEF IInv, TypeOK, Depth
<1>2. Nested'
  BY DEF IInv, Nested, Depth
<1>3. Flags'
  BY DEF IInv, Flags, Depth, MayEnable, BaseIf, Ready
<1>4. Phases'
  BY DEF IInv, Phases, Depth, MayEnable, BaseIf
<1>5. LocksHeld'
  BY DEF IInv, LocksHeld, Depth
<1>6. Devices' /\ InService' /\ Request'
  BY DEF IInv, Devices, InService, Request, Depth
<1> QED
  BY <1>1, <1>2, <1>3, <1>4, <1>5, <1>6 DEF IInv

\* A step that only moves the running context keeps the invariant.
LEMMA MoveSteps ==
  ASSUME IInv, Work \/ Poll \/ MaybeSkip
  PROVE  IInv'
\* Work under no lock of interest keeps the invariant.
<1>WorkStep. ASSUME Work
             PROVE  IInv'
  <2> USE <1>WorkStep
  <2>1. Top \in Contexts /\ Top.prog = "main" /\ Top.pc \in {12, 23, 28, 39, 47, 53, 63}
    BY Running DEF Points, Work
  <2>2. PICK e : Moves(e) /\ e.pc = Top.pc + 1
    BY <2>1, Goes DEF Work, Continue, IInv
  <2>3. e \in Contexts /\ e.prog = Top.prog
    BY <2>2 DEF Moves, Advances
  <2>4. /\ InRange(e) /\ SamePhase(Top, e) /\ (Off(e) <=> Off(Top))
        /\ SameLocks(Top, e) /\ SameService(Top, e)
    BY <2>1, <2>2, <2>3, AtWork
  <2>5. UNCHANGED quietVars
    BY DEF Work, quietVars
  <2> QED
    BY <2>2, <2>4, <2>5, Quiet, ZenonT(30)
\* The loop of Acpi::enable polls the mode bit.
<1>PollStep. ASSUME Poll
             PROVE  IInv'
  <2> USE <1>PollStep
  <2>1. Top \in Contexts /\ Top.prog = "main" /\ Top.pc = 25
    BY Running DEF Points, Poll
  <2>2. EnabledPc = 28
    BY MainCode DEF EnabledPc
  <2>3. PICK n \in {26, 28} : Goto(n)
    BY <2>1, <2>2 DEF Poll, Continue
  <2>4. PICK e : Moves(e) /\ e.pc = n
    BY <2>3, Goes DEF IInv
  <2>5. e \in Contexts /\ e.prog = Top.prog
    BY <2>4 DEF Moves, Advances
  <2>6. /\ InRange(e) /\ SamePhase(Top, e) /\ (Off(e) <=> Off(Top))
        /\ SameLocks(Top, e) /\ SameService(Top, e)
    BY <2>1, <2>3, <2>4, <2>5, AtLoop
  <2>7. UNCHANGED quietVars
    BY DEF Poll, quietVars
  <2> QED
    BY <2>4, <2>6, <2>7, Quiet, ZenonT(30)
\* keyboard_interrupt_handler prints a decoded key, or nothing.
<1>MaybeSkipStep. ASSUME MaybeSkip
                  PROVE  IInv'
  <2> USE <1>MaybeSkipStep
  <2>1. Top \in Contexts /\ Top.prog = "keyboard" /\ Top.pc = 3 /\ Arg = 4
    BY Running DEF Points, MaybeSkip
  <2>3. PICK n \in {4, 8} : Goto(n)
    BY <2>1 DEF MaybeSkip, Continue
  <2>4. PICK e : Moves(e) /\ e.pc = n
    BY <2>3, Goes DEF IInv
  <2>5. e \in Contexts /\ e.prog = Top.prog
    BY <2>4 DEF Moves, Advances
  <2>6. /\ InRange(e) /\ SamePhase(Top, e) /\ (Off(e) <=> Off(Top))
        /\ SameLocks(Top, e) /\ SameService(Top, e)
    BY <2>1, <2>3, <2>4, <2>5, AtSkip
  <2>7. UNCHANGED quietVars
    BY DEF MaybeSkip, quietVars
  <2> QED
    BY <2>4, <2>6, <2>7, Quiet, ZenonT(30)
<1> QED
  BY <1>WorkStep, <1>PollStep, <1>MaybeSkipStep, Zenon

-----------------------------------------------------------------------------
(* Steps of the locks.                                                     *)

\* The steps that take and release locks keep the invariant.
LEMMA LockSteps ==
  ASSUME IInv, TakeLock \/ TryLock \/ Unlock
  PROVE  IInv'
\* What a lock taken by the running context leaves of the holders.
<1>TakenLock. ASSUME NEW e, Moves(e), NEW x \in Lock, locks[x] = 0,
                     locks' = [locks EXCEPT ![x] = Depth], Holds(e, x),
                     \A l \in Lock : l # x => (Holds(e, l) <=> Holds(Top, l))
              PROVE  LocksHeld'
  <2> USE <1>TakenLock
  <2>1. Depth \in 1 .. 3 /\ Depth' = Depth
    BY DEF IInv, TypeOK, Moves, Advances
  <2>2. \A d \in 1 .. Depth : stack'[d].prog = stack[d].prog
    BY <2>1 DEF Moves, Advances, Top
  <2>3. \A d \in 1 .. Depth : \A l \in Lock :
          (d # Depth \/ l # x) => (Holds(stack'[d], l) <=> Holds(stack[d], l))
    BY <2>1 DEF Moves, Advances, Top
  <2>4. Holds(stack'[Depth], x)
    BY DEF Moves, Advances
  <2>5. \A l \in Lock : locks'[l] = IF l = x THEN Depth ELSE locks[l]
    BY DEF IInv, TypeOK
  <2>6. \A l \in Lock : locks'[l] <= Depth
    BY <2>1, <2>5 DEF IInv, LocksHeld
  <2>7. \A l \in Lock : \A d \in 1 .. Depth : Holds(stack'[d], l) => locks'[l] = d
    BY <2>1, <2>3, <2>5 DEF IInv, LocksHeld
  <2>8. \A l \in Lock : \A d \in 1 .. Depth :
         locks'[l] = d => \/ Holds(stack'[d], l)
                          \/ d = 1 /\ stack'[1].prog = "panic" /\ l \in {"PICS", "PAGING_CTX"}
    BY <2>1, <2>2, <2>3, <2>4, <2>5 DEF IInv, LocksHeld
  <2>9. \A d \in 1 .. Depth :
         d < Depth => ~ Holds(stack'[d], "WRITER") /\ ~ Holds(stack'[d], "SERIAL1")
    BY <2>1, <2>3 DEF IInv, LocksHeld, Lock
  <2> QED
    BY <2>1, <2>6, <2>7, <2>8, <2>9 DEF LocksHeld
\* What a lock released by it leaves of them.
<1>ReleasedLock. ASSUME NEW e, Moves(e), NEW x \in Lock, Holds(Top, x), ~ Holds(e, x),
                        locks' = [locks EXCEPT ![x] = 0],
                        \A l \in Lock : l # x => (Holds(e, l) <=> Holds(Top, l))
                 PROVE  LocksHeld'
  <2> USE <1>ReleasedLock
  <2>1. Depth \in 1 .. 3 /\ Depth' = Depth
    BY DEF IInv, TypeOK, Moves, Advances
  <2>2. \A d \in 1 .. Depth : stack'[d].prog = stack[d].prog
    BY <2>1 DEF Moves, Advances, Top
  <2>3. \A d \in 1 .. Depth : \A l \in Lock :
          (d # Depth \/ l # x) => (Holds(stack'[d], l) <=> Holds(stack[d], l))
    BY <2>1 DEF Moves, Advances, Top
  <2>4. ~ Holds(stack'[Depth], x) /\ locks[x] = Depth
    BY <2>1 DEF Moves, Advances, IInv, LocksHeld, Top
  <2>5. \A l \in Lock : locks'[l] = IF l = x THEN 0 ELSE locks[l]
    BY DEF IInv, TypeOK
  <2>6. \A l \in Lock : locks'[l] <= Depth
    BY <2>1, <2>5 DEF IInv, LocksHeld
  <2>7. \A l \in Lock : \A d \in 1 .. Depth : Holds(stack'[d], l) => locks'[l] = d
    BY <2>1, <2>3, <2>4, <2>5 DEF IInv, LocksHeld
  <2>8. \A l \in Lock : \A d \in 1 .. Depth :
         locks'[l] = d => \/ Holds(stack'[d], l)
                          \/ d = 1 /\ stack'[1].prog = "panic" /\ l \in {"PICS", "PAGING_CTX"}
    BY <2>1, <2>2, <2>3, <2>5 DEF IInv, LocksHeld
  <2>9. \A d \in 1 .. Depth :
         d < Depth => ~ Holds(stack'[d], "WRITER") /\ ~ Holds(stack'[d], "SERIAL1")
    BY <2>1, <2>3 DEF IInv, LocksHeld, Lock
  <2> QED
    BY <2>1, <2>6, <2>7, <2>8, <2>9 DEF LocksHeld
\* A step of the locks.
<1>LockMoves. ASSUME NEW e, Moves(e), InRange(e), SamePhase(Top, e), Off(e) <=> Off(Top),
                     SameService(Top, e), locks' \in [Lock -> Nat], LocksHeld',
                     stack[1].prog = "panic" /\ locks["PICS"] # 1 => locks'["PICS"] # 1,
                     UNCHANGED <<iflag, loaded, controller, pic, lapic, routed, kbd_full, missed>>
              PROVE  IInv'
  <2> USE <1>LockMoves
  <2>1. Advances(e) /\ e.prog = Top.prog /\ e.saved = Top.saved
    BY DEF Moves
  <2>2. Len(e.saved) = IF Off(e) THEN 1 ELSE 0
    BY <2>1, Saved, SMTT(20)
  <2>3. Nested' /\ stack' \in Seq(Contexts) /\ Depth' \in 1 .. 3
    BY <2>1, <2>2, KeptNested
  <2>4. TypeOK'
    BY <2>3 DEF IInv, TypeOK
  <2>5. stack[1].prog = "panic" /\ Ready => Ready'
    BY DEF Ready
  <2>6. Flags' /\ (MayEnable' <=> MayEnable)
    BY <2>5, KeptFlags
  <2>7. Phases'
    BY <2>1, <2>6, KeptPhases
  <2>8. InService' /\ Devices' /\ Request'
    BY <2>1, KeptService
  <2> QED
    BY <2>3, <2>4, <2>6, <2>7, <2>8 DEF IInv
\* Taking a free spin lock keeps the invariant.
<1>TakeLockStep. ASSUME TakeLock
                 PROVE  IInv'
  <2> USE <1>TakeLockStep
  <2> DEFINE x == Arg
  <2>1. Top \in Contexts /\ LockAt(Top, x)
    BY Running DEF Points, TakeLock
  <2>2. UNCHANGED <<iflag, loaded, controller, pic, lapic, routed, kbd_full, missed>>
    BY DEF TakeLock, deviceVars
  <2>3. CASE locks[x] # 0
    <3>1. UNCHANGED <<stack, quietVars>>
      BY <2>2, <2>3, SMTT(20) DEF TakeLock, quietVars, deviceVars
    <3> QED
      BY <3>1, Same
  <2>4. CASE locks[x] = 0
    <3>1. Continue /\ locks' = [locks EXCEPT ![x] = Depth]
      BY <2>4 DEF TakeLock
    <3> HIDE DEF x
    <3>2. PICK e : Moves(e) /\ e.pc = Top.pc + 1
      <4>1. Top.pc + 1 \in Nat
        BY <2>1 DEF Contexts
      <4> QED
        BY <3>1, <4>1, Goes DEF Continue, IInv
    <3>3. e \in Contexts /\ e.prog = Top.prog
      BY <3>2 DEF Moves, Advances
    <3>4. /\ InRange(e) /\ SamePhase(Top, e) /\ (Off(e) <=> Off(Top)) /\ SameService(Top, e)
          /\ x \in Lock /\ ~ Holds(Top, x) /\ Holds(e, x)
          /\ \A l \in Lock : l # x => (Holds(e, l) <=> Holds(Top, l))
      BY <2>1, <3>2, <3>3, AtLock
    <3>5. LocksHeld'
      BY <2>4, <3>1, <3>2, <3>4, <1>TakenLock, Zenon
    <3>6. Depth \in 1 .. 3 /\ locks \in [Lock -> Nat]
      BY DEF IInv, TypeOK
    <3>7. locks' \in [Lock -> Nat]
      BY <3>1, <3>4, <3>6
    <3>8. stack[1].prog = "panic" /\ locks["PICS"] # 1 => locks'["PICS"] # 1
      <4>1. x = "PICS" => Top.prog \in {"main", "timer", "keyboard"}
        BY <2>1 DEF LockAt
      <4>2. x = "PICS" /\ stack[1].prog = "panic" => Depth # 1
        BY <4>1 DEF Top
      <4> QED
        BY <3>1, <3>4, <3>6, <4>2 DEF Lock
    <3> QED
      BY <2>2, <3>2, <3>4, <3>5, <3>7, <3>8, <1>LockMoves, ZenonT(30)
  <2> QED
    BY <2>3, <2>4, Zenon
\* So does the try_lock of page_fault_handler on PAGING_CTX, taken or not.
<1>TryLockStep. ASSUME TryLock
                PROVE  IInv'
  <2> USE <1>TryLockStep
  <2> DEFINE x == Arg
  <2>1. Top \in Contexts /\ x = "PAGING_CTX" /\ Top.prog = "page_fault" /\ Top.pc = 5
    BY Running, Zenon DEF Points, TryLock
  <2>2. UNCHANGED <<iflag, loaded, controller, pic, lapic, routed, kbd_full, missed>>
    BY DEF TryLock, deviceVars
  <2>3. CASE locks[x] # 0
    <3>1. Len(VgaPrint) = 4
      BY VgaCode DEF Listing
    <3>2. Goto(11) /\ UNCHANGED locks
      BY <2>1, <2>3, <3>1 DEF TryLock
    <3>3. PICK e : Moves(e) /\ e.pc = 11
      BY <3>2, Goes DEF IInv
    <3>4. e \in Contexts /\ e.prog = Top.prog
      BY <3>3 DEF Moves, Advances
    <3>5. /\ InRange(e) /\ SamePhase(Top, e) /\ (Off(e) <=> Off(Top))
          /\ SameLocks(Top, e) /\ SameService(Top, e)
      BY <2>1, <3>3, <3>4, AtRetry
    <3>6. UNCHANGED quietVars
      BY <2>2, <3>2, SMTT(20) DEF quietVars, deviceVars
    <3> QED
      BY <3>3, <3>5, <3>6, Quiet
  <2>4. CASE locks[x] = 0
    <3>1. Continue /\ locks' = [locks EXCEPT ![x] = Depth]
      BY <2>4 DEF TryLock
    <3> HIDE DEF x
    <3>2. PICK e : Moves(e) /\ e.pc = Top.pc + 1
      BY <2>1, <3>1, Goes DEF Continue, IInv
    <3>3. e \in Contexts /\ e.prog = Top.prog
      BY <3>2 DEF Moves, Advances
    <3>4. /\ InRange(e) /\ SamePhase(Top, e) /\ (Off(e) <=> Off(Top)) /\ SameService(Top, e)
          /\ x \in Lock /\ Holds(e, x)
          /\ \A l \in Lock : l # x => (Holds(e, l) <=> Holds(Top, l))
      BY <2>1, <3>2, <3>3, AtTry
    <3>5. LocksHeld'
      BY <2>4, <3>1, <3>2, <3>4, <1>TakenLock, ZenonT(30)
    <3>6. Depth \in 1 .. 3 /\ locks \in [Lock -> Nat]
      BY DEF IInv, TypeOK
    <3>7. locks' \in [Lock -> Nat] /\ locks'["PICS"] = locks["PICS"]
      BY <2>1, <3>1, <3>4, <3>6 DEF Lock
    <3> QED
      BY <2>2, <3>2, <3>4, <3>5, <3>7, <1>LockMoves, Zenon
  <2> QED
    BY <2>3, <2>4, Zenon
\* So does the drop of a guard.
<1>UnlockStep. ASSUME Unlock
               PROVE  IInv'
  <2> USE <1>UnlockStep
  <2> DEFINE x == Arg
  <2>1. Top \in Contexts /\ UnlockAt(Top, x)
    BY Running DEF Points, Unlock
  <2>2. UNCHANGED <<iflag, loaded, controller, pic, lapic, routed, kbd_full, missed>>
    BY DEF Unlock, deviceVars
  <2>3. Continue /\ locks' = [locks EXCEPT ![x] = 0]
    BY DEF Unlock
  <2> HIDE DEF x
  <2>4. PICK e : Moves(e) /\ e.pc = Top.pc + 1
    <3>1. Top.pc + 1 \in Nat
      BY <2>1 DEF Contexts
    <3> QED
      BY <2>3, <3>1, Goes DEF Continue, IInv
  <2>5. e \in Contexts /\ e.prog = Top.prog
    BY <2>4 DEF Moves, Advances
  <2>6. /\ InRange(e) /\ SamePhase(Top, e) /\ (Off(e) <=> Off(Top)) /\ SameService(Top, e)
        /\ x \in Lock /\ Holds(Top, x) /\ ~ Holds(e, x)
        /\ \A l \in Lock : l # x => (Holds(e, l) <=> Holds(Top, l))
    BY <2>1, <2>4, <2>5, AtUnlock
  <2>7. LocksHeld'
    BY <2>3, <2>4, <2>6, <1>ReleasedLock, Zenon
  <2>8. locks' \in [Lock -> Nat] /\ (locks["PICS"] # 1 => locks'["PICS"] # 1)
    BY <2>3, <2>6 DEF IInv, TypeOK, Lock
  <2> QED
    BY <2>2, <2>4, <2>6, <2>7, <2>8, <1>LockMoves, ZenonT(30)
<1> QED
  BY <1>TakeLockStep, <1>TryLockStep, <1>UnlockStep, Zenon

=============================================================================
