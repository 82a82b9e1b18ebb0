----------------------------- MODULE BootProofs -----------------------------
(***************************************************************************)
(* Boot, for every number of ticks waited for: once the IDT is loaded      *)
(* nothing resets the machine, interrupts return, and what is printed      *)
(* reaches COM1 once and in order.                                         *)
(***************************************************************************)
EXTENDS Boot, TLAPS

\* Where the steps that touch the CPU's tables stand in kernel_main.
LEMMA ScriptOrder ==
  /\ Len(Script) = 25
  /\ \A n \in 1 .. 25 : /\ Script[n] = "gdt" <=> n = 2
                        /\ Script[n] = "cs" <=> n = 3
                        /\ Script[n] = "ss" <=> n = 4
                        /\ Script[n] = "tss" <=> n = 5
                        /\ Script[n] = "idt" <=> n = 6
                        /\ Script[n] = "int3" <=> n = 8
                        /\ Script[n] = "interrupts" <=> n = 15
                        /\ Script[n] = "render" <=> n = 25
<1>1. Len(Script) = 25
  BY DEF Script
<1>2. /\ Script[2] = "gdt" /\ Script[3] = "cs" /\ Script[4] = "ss" /\ Script[5] = "tss"
      /\ Script[6] = "idt" /\ Script[8] = "int3" /\ Script[15] = "interrupts"
      /\ Script[25] = "render"
  BY DEF Script
<1>3. /\ Script[1] = "banner" /\ Script[7] = "M2_tables" /\ Script[9] = "M2_breakpoint"
      /\ Script[10] = "offset" /\ Script[11] = "heap" /\ Script[12] = "M2_heap"
      /\ Script[13] = "use_heap" /\ Script[14] = "M2_complete" /\ Script[16] = "M3_enabled"
      /\ Script[17] = "ticks" /\ Script[18] = "M3_complete" /\ Script[19] = "pci"
      /\ Script[20] = "M6a_found" /\ Script[21] = "xhci" /\ Script[22] = "M6a_complete"
      /\ Script[23] = "line" /\ Script[24] = "M5_complete"
  BY DEF Script
<1> QED BY <1>1, <1>2, <1>3

-----------------------------------------------------------------------------
(* The inductive invariant: which tables are in force is a matter of how   *)
(* far kernel_main has come, and so is what an exception can lead to.      *)

BType ==
  /\ pc \in 1 .. 25
  /\ cpu \in Parked \cup {"main", "breakpoint", "iret", "reset"}
  /\ tss \in BOOLEAN /\ iflag \in BOOLEAN

Tables ==
  /\ gdt = IF pc > 2 THEN "kernel" ELSE "boot"
  /\ cs = IF pc > 3 THEN "kernel" ELSE "boot"
  /\ ss = IF pc > 4 THEN "kernel" ELSE "boot"
  /\ pc > 5 => tss
  /\ idtCs = IF pc > 6 THEN "kernel" ELSE "none"

Course ==
  /\ cpu = "main" => cause = "none"
  /\ cpu \in {"breakpoint", "iret"} => pc = 8 /\ cause = "none"
  /\ cpu \in Parked => cause # "none"
  /\ cpu = "reset" => pc < 7
  /\ cause = "none" => stack = "good"
  /\ iflag => pc > 15 /\ stack = "good"

BInv == BType /\ Tables /\ Course

\* kernel_main starts in the invariant.
LEMMA InitBInv == Init => BInv
<1> SUFFICES ASSUME Init PROVE BInv
  OBVIOUS
<1>1. BType
  <2>1. tss \in BOOLEAN /\ iflag \in BOOLEAN
    BY Zenon DEF Init
  <2>2. pc \in 1 .. 25 /\ cpu = "main"
    BY DEF Init
  <2> QED BY <2>1, <2>2 DEF BType
<1>2. Tables
  BY DEF Init, Tables
<1>3. Course
  BY DEF Init, Course, Parked
<1> QED BY <1>1, <1>2, <1>3 DEF BInv

\* A fault leads to a handler that parks the CPU, or, before the IDT is loaded,
\* to a reset.
LEMMA FaultParks ==
  ASSUME BInv, NEW v \in {"page_fault", "stray_vector"}, NEW st
  PROVE  Entered(v, st) \in IF pc > 6 THEN {"page_fault", "double_fault"} ELSE {"reset"}
<1>1. CASE pc > 6
  <2>1. Enterable("double_fault", st)
    BY <1>1 DEF Enterable, Gates, BInv, BType, Tables
  <2>2. ~Enterable("stray_vector", st)
    BY DEF Enterable, Gates
  <2> QED BY <1>1, <2>1, <2>2 DEF Entered
<1>2. CASE ~(pc > 6)
  <2>1. idtCs # gdt
    BY <1>2 DEF BInv, Tables
  <2>2. ~Enterable(v, st) /\ ~Enterable("double_fault", st)
    BY <2>1 DEF Enterable
  <2> QED BY <1>2, <2>2 DEF Entered
<1> QED BY <1>1, <1>2

\* One step of the machine keeps the invariant.
LEMMA NextBInv == BInv /\ [Next]_vars => BInv'
<1> SUFFICES ASSUME BInv, [Next]_vars PROVE BInv'
  OBVIOUS
<1> USE DEF control, segments, history, Do
<1>1. CASE Fault
  <2>1. PICK what \in {"page_fault", "overflow", "stray_vector"} :
          /\ cause' = what
          /\ cpu' = Entered(IF what = "overflow" THEN "page_fault" ELSE what, stack')
    BY <1>1, Zenon DEF Fault, Raise
  <2>2. cpu' \in IF pc > 6 THEN {"page_fault", "double_fault"} ELSE {"reset"}
    BY <2>1, FaultParks
  <2>3. iflag' = FALSE /\ UNCHANGED <<pc, segments>>
    BY <1>1 DEF Fault, Raise
  <2>4. BType' /\ Tables'
    BY <2>2, <2>3 DEF BInv, BType, Tables, Parked
  <2>5. Course'
    BY <2>1, <2>2, <2>3 DEF BInv, BType, Course, Parked
  <2> QED BY <2>4, <2>5 DEF BInv
<1>2. CASE Tick
  <2>1. Enterable("timer", stack) /\ CanReturn
    BY <1>2 DEF Tick, Enterable, CanReturn, Gates, BInv, BType, Tables, Course
  <2> QED BY <1>2, <2>1 DEF Tick, BInv, BType, Tables, Course
<1>3. CASE PollThr
  BY <1>3 DEF PollThr, BInv, BType, Tables, Course
<1>4. CASE WriteByte
  <2>1. pc' = IF cpu = "main" THEN pc + 1 ELSE pc
    BY <1>4 DEF WriteByte
  <2>2. cpu = "main" => Script[pc] \in Says
    BY <1>4 DEF WriteByte, Speaking
  <2>3. cpu = "main" => pc \notin {2, 3, 4, 5, 6, 8, 15, 25}
    BY <2>2, ScriptOrder DEF Says, BInv, BType
  <2>4. cpu' = CASE cpu = "main" -> "main" [] cpu = "breakpoint" -> "iret" [] OTHER -> "hcf"
    BY <1>4 DEF WriteByte
  <2>5. UNCHANGED <<cause, gdt, cs, ss, tss, idtCs, iflag, stack>>
    BY <1>4 DEF WriteByte
  <2>6. cpu \in {"main", "breakpoint", "page_fault", "panic", "no_framebuffer"}
    BY <1>4 DEF WriteByte, Speaking
  <2> QED BY <2>1, <2>3, <2>4, <2>5, <2>6 DEF BInv, BType, Tables, Course, Parked
<1>5. CASE ReturnFromBreakpoint
  <2>1. CanReturn /\ pc = 8
    BY <1>5 DEF ReturnFromBreakpoint, CanReturn, BInv, Tables, Course
  <2> QED BY <1>5, <2>1 DEF ReturnFromBreakpoint, BInv, BType, Tables, Course, Parked
<1>6. CASE DoubleFault
  BY <1>6 DEF DoubleFault, BInv, BType, Tables, Course, Parked
<1>7. CASE InitSerial
  BY <1>7 DEF InitSerial, BInv, BType, Tables, Course
<1>8. CASE LoadSegments
  <2>1. /\ cpu = "main" /\ pc' = pc + 1
        /\ UNCHANGED <<cpu, cause, idtCs, iflag, stack>>
    BY <1>8 DEF LoadSegments
  <2>2. \/ pc = 2 /\ gdt' = "kernel" /\ UNCHANGED <<cs, ss, tss>>
        \/ pc = 3 /\ cs' = gdt /\ UNCHANGED <<gdt, ss, tss>>
        \/ pc = 4 /\ ss' = gdt /\ UNCHANGED <<gdt, cs, tss>>
        \/ pc = 5 /\ tss' = TRUE /\ UNCHANGED <<gdt, cs, ss>>
    BY <1>8, ScriptOrder DEF LoadSegments, BInv, BType
  <2>3. BType' /\ Course'
    <3>1. tss' \in BOOLEAN
      BY <2>2, Zenon DEF BInv, BType
    <3>2. pc \in {2, 3, 4, 5}
      BY <2>2
    <3> QED BY <2>1, <3>1, <3>2 DEF BInv, BType, Course, Parked
  <2>4. Tables'
    BY <2>1, <2>2 DEF BInv, BType, Tables
  <2> QED BY <2>3, <2>4 DEF BInv
<1>9. CASE InitIdt
  <2>1. /\ cpu = "main" /\ Script[pc] = "idt" /\ pc' = pc + 1 /\ idtCs' = cs
        /\ UNCHANGED <<cpu, cause, gdt, cs, ss, tss, iflag, stack>>
    BY <1>9, Zenon DEF InitIdt
  <2>2. pc = 6 /\ pc' = 7
    BY <2>1, ScriptOrder DEF BInv, BType
  <2> QED BY <2>1, <2>2 DEF BInv, BType, Tables, Course, Parked
<1>10. CASE Int3
  <2>1. pc = 8 /\ cause = "none" /\ stack = "good"
    BY <1>10, ScriptOrder DEF Int3, BInv, BType, Course
  <2>2. Enterable("breakpoint", stack)
    BY <2>1 DEF Enterable, Gates, BInv, Tables
  <2>3. cpu' = "breakpoint" /\ iflag' = FALSE /\ UNCHANGED <<pc, cause, segments, stack>>
    BY <1>10, <2>2 DEF Int3, Raise, Entered
  <2> QED BY <2>1, <2>3 DEF BInv, BType, Tables, Course, Parked
<1>11. CASE Panic
  BY <1>11 DEF Panic, BInv, BType, Tables, Course, Parked
<1>12. ASSUME NEW names \in {{"offset", "heap", "use_heap", "pci"}, {"xhci", "line"}},
              Advance(names)
       PROVE  BInv'
  <2>1. cpu = "main" /\ pc \notin {2, 3, 4, 5, 6, 8, 15, 25}
    <3>1. cpu = "main" /\ Script[pc] \in {"offset", "heap", "use_heap", "pci", "xhci", "line"}
      BY <1>12, Zenon DEF Advance
    <3> QED BY <3>1, ScriptOrder DEF BInv, BType
  <2> QED BY <1>12, <2>1 DEF Advance, BInv, BType, Tables, Course, Parked
<1>13. CASE EnableInterrupts
  <2>1. /\ cpu = "main" /\ Script[pc] = "interrupts" /\ pc' = pc + 1 /\ iflag' = TRUE
        /\ UNCHANGED <<cpu, cause, gdt, cs, ss, tss, idtCs, stack>>
    BY <1>13, Zenon DEF EnableInterrupts
  <2>2. iflag' \in BOOLEAN
    BY <2>1, Zenon
  <2>3. pc = 15 /\ pc' = 16
    BY <2>1, ScriptOrder DEF BInv, BType
  <2> QED BY <2>1, <2>2, <2>3 DEF BInv, BType, Tables, Course, Parked
<1>14. CASE WaitTicks
  <2>1. cpu = "main" /\ pc \notin {2, 3, 4, 5, 6, 8, 15, 25}
    BY <1>14, ScriptOrder DEF WaitTicks, BInv, BType
  <2> QED BY <1>14, <2>1 DEF WaitTicks, BInv, BType, Tables, Course, Parked
<1>15. CASE NoFramebuffer
  BY <1>15 DEF NoFramebuffer, BInv, BType, Tables, Course, Parked
<1>16. CASE Uart \/ UNCHANGED vars
  BY <1>16 DEF Uart, vars, BInv, BType, Tables, Course
<1> QED
  BY <1>1, <1>2, <1>3, <1>4, <1>5, <1>6, <1>7, <1>8, <1>9, <1>10, <1>11, <1>12, <1>13,
     <1>14, <1>15, <1>16 DEF Next, KernelMain, Work, Answer, Idle

\* From init_idt on no fault, stack overflow or vector without a gate resets the
\* machine: gdt::init and init_idt come in an order that makes every exception
\* deliverable, at every step of boot.
THEOREM ExceptionsContained == Spec => []NoTripleFault
<1>1. BInv => NoTripleFault
  BY DEF BInv, BType, Tables, Course, NoTripleFault
<1> QED BY InitBInv, NextBInv, <1>1, PTL DEF Spec

\* Every breakpoint and every tick returns to kernel_main: it is only ever
\* stopped by a fault, a panic or a missing framebuffer.
THEOREM InterruptsReturn == Spec => []ParksForCause
<1>1. BInv => ParksForCause
  BY DEF BInv, Course, ParksForCause
<1> QED BY InitBInv, NextBInv, <1>1, PTL DEF Spec

-----------------------------------------------------------------------------
(* The log.  LoggedBefore is a recursive function: the lemma exhibits the  *)
(* function its equation describes, so that it may be unfolded.            *)

\* What the kernel prints: its own lines, and those of the handlers.
Messages == Says \cup {"breakpoint", "page_fault", "panic", "no_framebuffer"}

LEMMA SequenceFacts ==
  ASSUME NEW S
  PROVE  /\ <<>> \in Seq(S)
         /\ \A x \in S : <<x>> \in Seq(S)
         /\ \A s, t \in Seq(S) : s \o t \in Seq(S)
         /\ \A s \in Seq(S) : s \o <<>> = s /\ <<>> \o s = s
         /\ \A s, t, u \in Seq(S) : (s \o t) \o u = s \o (t \o u)
<1>1. <<>> \in Seq(S)
  OBVIOUS
<1>2. \A x \in S : <<x>> \in Seq(S)
  OBVIOUS
<1>3. \A s, t \in Seq(S) : s \o t \in Seq(S)
  OBVIOUS
<1>4. \A s \in Seq(S) : s \o <<>> = s /\ <<>> \o s = s
  OBVIOUS
<1>5. \A s, t, u \in Seq(S) : (s \o t) \o u = s \o (t \o u)
  OBVIOUS
<1> QED BY <1>1, <1>2, <1>3, <1>4, <1>5

LEMMA LoggedUnfolds ==
  /\ LoggedBefore[1] = <<>>
  /\ \A n \in 1 .. 24 : LoggedBefore[n + 1] = LoggedBefore[n] \o Line(n)
  /\ \A n \in 1 .. 25 : LoggedBefore[n] \in Seq(Messages)
<1> DEFINE a1 == <<"banner">>
           a2 == a1 \o <<"M2_tables">>
           a3 == a2 \o <<"breakpoint">>
           a4 == a3 \o <<"M2_breakpoint">>
           a5 == a4 \o <<"M2_heap">>
           a6 == a5 \o <<"M2_complete">>
           a7 == a6 \o <<"M3_enabled">>
           a8 == a7 \o <<"M3_complete">>
           a9 == a8 \o <<"M6a_found">>
           a10 == a9 \o <<"M6a_complete">>
           a11 == a10 \o <<"M5_complete">>
           w == <<<<>>, a1, a1, a1, a1, a1, a1, a2, a3, a4, a4, a4, a5, a5, a6, a6, a7, a7,
                  a8, a8, a9, a9, a10, a10, a11>>
           F(g) == [n \in 1 .. Len(Script) |->
                      IF n = 1 THEN <<>> ELSE g[n - 1] \o Line(n - 1)]
<1>1. /\ Line(1) = <<"banner">> /\ Line(7) = <<"M2_tables">> /\ Line(8) = <<"breakpoint">>
      /\ Line(9) = <<"M2_breakpoint">> /\ Line(12) = <<"M2_heap">>
      /\ Line(14) = <<"M2_complete">> /\ Line(16) = <<"M3_enabled">>
      /\ Line(18) = <<"M3_complete">> /\ Line(20) = <<"M6a_found">>
      /\ Line(22) = <<"M6a_complete">> /\ Line(24) = <<"M5_complete">>
  BY DEF Line, Script, Says
<1>2. \A n \in {2, 3, 4, 5, 6, 10, 11, 13, 15, 17, 19, 21, 23} : Line(n) = <<>>
  BY DEF Line, Script, Says
<1>3. /\ a1 \in Seq(Messages) /\ a2 \in Seq(Messages) /\ a3 \in Seq(Messages)
      /\ a4 \in Seq(Messages) /\ a5 \in Seq(Messages) /\ a6 \in Seq(Messages)
      /\ a7 \in Seq(Messages) /\ a8 \in Seq(Messages) /\ a9 \in Seq(Messages)
      /\ a10 \in Seq(Messages) /\ a11 \in Seq(Messages)
  <2>1. {"banner", "M2_tables", "breakpoint", "M2_breakpoint", "M2_heap", "M2_complete",
         "M3_enabled", "M3_complete", "M6a_found", "M6a_complete", "M5_complete"}
        \subseteq Messages
    BY DEF Messages, Says
  <2> DEFINE M == Seq(Messages)
  <2>2. /\ <<"banner">> \in M /\ <<"M2_tables">> \in M /\ <<"breakpoint">> \in M
        /\ <<"M2_breakpoint">> \in M /\ <<"M2_heap">> \in M /\ <<"M2_complete">> \in M
        /\ <<"M3_enabled">> \in M /\ <<"M3_complete">> \in M /\ <<"M6a_found">> \in M
        /\ <<"M6a_complete">> \in M /\ <<"M5_complete">> \in M
    BY <2>1, SequenceFacts, Zenon
  <2>3. \A s, t \in M : s \o t \in M
    BY SequenceFacts
  <2> HIDE DEF M
  <2>4. a1 \in M /\ a2 \in M /\ a3 \in M /\ a4 \in M
    BY <2>2, <2>3, Zenon
  <2> HIDE DEF a4
  <2>5. a5 \in M /\ a6 \in M /\ a7 \in M /\ a8 \in M
    BY <2>2, <2>3, <2>4, Zenon
  <2> HIDE DEF a8
  <2>6. a9 \in M /\ a10 \in M /\ a11 \in M
    BY <2>2, <2>3, <2>5, Zenon
  <2> QED BY <2>4, <2>5, <2>6 DEF M
<1>4. \A s \in Seq(Messages) : s \o <<>> = s /\ <<>> \o s = s
  BY SequenceFacts
<1>5. Len(Script) = 25
  BY ScriptOrder
<1>6. /\ a2 = a1 \o Line(7) /\ a3 = a2 \o Line(8) /\ a4 = a3 \o Line(9)
      /\ a5 = a4 \o Line(12) /\ a6 = a5 \o Line(14) /\ a7 = a6 \o Line(16)
      /\ a8 = a7 \o Line(18) /\ a9 = a8 \o Line(20) /\ a10 = a9 \o Line(22)
      /\ a11 = a10 \o Line(24) /\ a1 = Line(1)
  BY <1>1
<1> HIDE DEF a1, a2, a3, a4, a5, a6, a7, a8, a9, a10, a11
<1>7. <<>> \in Seq(Messages)
  BY SequenceFacts
<1>8. /\ w[1] = <<>>
      /\ w[2] = a1 /\ w[3] = a1 /\ w[4] = a1 /\ w[5] = a1 /\ w[6] = a1 /\ w[7] = a1
      /\ w[8] = a2 /\ w[9] = a3 /\ w[10] = a4 /\ w[11] = a4 /\ w[12] = a4
      /\ w[13] = a5 /\ w[14] = a5 /\ w[15] = a6 /\ w[16] = a6 /\ w[17] = a7
      /\ w[18] = a7 /\ w[19] = a8 /\ w[20] = a8 /\ w[21] = a9 /\ w[22] = a9
      /\ w[23] = a10 /\ w[24] = a10 /\ w[25] = a11
  OBVIOUS
<1>9. \A n \in 1 .. 24 : w[n + 1] = w[n] \o Line(n)
  <2> DEFINE P(n) == w[n + 1] = w[n] \o Line(n)
  <2>1. \A n \in {2, 3, 4, 5, 6, 10, 11, 13, 15, 17, 19, 21, 23} : P(n)
    <3> DEFINE Q(n) == w[n + 1] = w[n] /\ w[n] \in Seq(Messages)
    <3>1. Q(2) /\ Q(3) /\ Q(4) /\ Q(5) /\ Q(6)
      <4>1. 2 + 1 = 3 /\ 3 + 1 = 4 /\ 4 + 1 = 5 /\ 5 + 1 = 6 /\ 6 + 1 = 7
        OBVIOUS
      <4> HIDE DEF w
      <4> QED BY <1>3, <1>8, <4>1, Zenon
    <3>2. Q(10) /\ Q(11) /\ Q(13) /\ Q(15)
      <4>1. 10 + 1 = 11 /\ 11 + 1 = 12 /\ 13 + 1 = 14 /\ 15 + 1 = 16
        OBVIOUS
      <4> HIDE DEF w
      <4> QED BY <1>3, <1>8, <4>1, Zenon
    <3>3. Q(17) /\ Q(19) /\ Q(21) /\ Q(23)
      <4>1. 17 + 1 = 18 /\ 19 + 1 = 20 /\ 21 + 1 = 22 /\ 23 + 1 = 24
        OBVIOUS
      <4> HIDE DEF w
      <4> QED BY <1>3, <1>8, <4>1, Zenon
    <3>4. \A n \in {2, 3, 4, 5, 6, 10, 11, 13, 15, 17, 19, 21, 23} : Q(n)
      <4> HIDE DEF Q
      <4> QED BY <3>1, <3>2, <3>3
    <3> HIDE DEF w
    <3> QED BY <1>2, <1>4, <3>4, Zenon
  <2>2. P(1)
    <3>1. 1 + 1 = 2
      OBVIOUS
    <3> HIDE DEF w
    <3>2. w[1] = <<>> /\ w[2] = a1 /\ Line(1) = a1 /\ a1 \in Seq(Messages)
      BY <1>3, <1>6, <1>8, Zenon
    <3>3. <<>> \o a1 = a1
      BY <1>4, <3>2, Zenon
    <3> QED BY <3>1, <3>2, <3>3, Zenon
  <2>3. P(7) /\ P(8) /\ P(9) /\ P(12) /\ P(14)
    <3>1. 7 + 1 = 8 /\ 8 + 1 = 9 /\ 9 + 1 = 10 /\ 12 + 1 = 13 /\ 14 + 1 = 15
      OBVIOUS
    <3> HIDE DEF w
    <3> QED BY <1>6, <1>8, <3>1, Zenon
  <2>4. P(16) /\ P(18) /\ P(20) /\ P(22) /\ P(24)
    <3>1. 16 + 1 = 17 /\ 18 + 1 = 19 /\ 20 + 1 = 21 /\ 22 + 1 = 23 /\ 24 + 1 = 25
      OBVIOUS
    <3> HIDE DEF w
    <3> QED BY <1>6, <1>8, <3>1, Zenon
  <2> HIDE DEF P
  <2>5. \A n \in 1 .. 24 : P(n)
    BY <2>1, <2>2, <2>3, <2>4
  <2> QED BY <2>5 DEF P
<1>10. w = F(w)
  <2>1. \A n \in 1 .. 25 : w[n] = IF n = 1 THEN <<>> ELSE w[n - 1] \o Line(n - 1)
    <3> TAKE n \in 1 .. 25
    <3>1. w[1] = <<>>
      OBVIOUS
    <3>2. ASSUME n # 1 PROVE w[n] = w[n - 1] \o Line(n - 1)
      <4>1. n - 1 \in 1 .. 24 /\ (n - 1) + 1 = n
        BY <3>2
      <4> HIDE DEF w
      <4> QED BY <1>9, <4>1
    <3> QED BY <3>1, <3>2, Zenon
  <2>2. w = [n \in 1 .. 25 |-> w[n]]
    OBVIOUS
  <2> HIDE DEF w
  <2> QED BY <2>1, <2>2, <1>5
<1>11. LoggedBefore = CHOOSE g : g = F(g)
  BY DEF LoggedBefore
<1>12. LoggedBefore = F(LoggedBefore)
  <2> HIDE DEF F, w
  <2> QED BY <1>10, <1>11
<1>13. /\ LoggedBefore[1] = <<>>
       /\ \A n \in 1 .. 24 : LoggedBefore[n + 1] = LoggedBefore[n] \o Line(n)
  <2>1. \A n \in 1 .. 25 :
          LoggedBefore[n] = IF n = 1 THEN <<>> ELSE LoggedBefore[n - 1] \o Line(n - 1)
    BY <1>5, <1>12
  <2>2. LoggedBefore[1] = <<>>
    BY <2>1
  <2>3. ASSUME NEW n \in 1 .. 24
        PROVE  LoggedBefore[n + 1] = LoggedBefore[n] \o Line(n)
    <3>1. n + 1 \in 1 .. 25 /\ n + 1 # 1 /\ (n + 1) - 1 = n
      OBVIOUS
    <3> QED BY <2>1, <3>1, Zenon
  <2> QED BY <2>2, <2>3
<1>14. \A n \in 1 .. 25 : LoggedBefore[n] \in Seq(Messages)
  <2> DEFINE P(n) == LoggedBefore[n] \in Seq(Messages)
  <2>1. \A n \in 1 .. 24 : Line(n) \in Seq(Messages)
    <3>1. Says \subseteq Messages /\ "breakpoint" \in Messages
      BY DEF Messages
    <3> QED BY <3>1, SequenceFacts, Zenon DEF Line
  <2>2. P(1) /\ \A n \in 1 .. 24 : P(n) => P(n + 1)
    <3>1. P(1)
      BY <1>13, <1>7
    <3>2. \A s, t \in Seq(Messages) : s \o t \in Seq(Messages)
      BY SequenceFacts
    <3>3. ASSUME NEW n \in 1 .. 24, P(n) PROVE P(n + 1)
      BY <1>13, <2>1, <3>2, <3>3, Zenon
    <3> QED BY <3>1, <3>3
  <2> HIDE DEF P
  <2> QED
    <3>1. P(1) /\ P(2) /\ P(3) /\ P(4) /\ P(5) /\ P(6) /\ P(7) /\ P(8) /\ P(9)
      BY <2>2
    <3>2. P(10) /\ P(11) /\ P(12) /\ P(13) /\ P(14) /\ P(15) /\ P(16) /\ P(17)
      BY <2>2, <3>1
    <3>3. P(18) /\ P(19) /\ P(20) /\ P(21) /\ P(22) /\ P(23) /\ P(24) /\ P(25)
      BY <2>2, <3>2
    <3>4. \A n \in 1 .. 25 : P(n)
      BY <3>1, <3>2, <3>3
    <3> QED BY <3>4 DEF P
<1> QED BY <1>13, <1>14

\* What each kind of step prints: only those of Says and int3 print.
LEMMA QuietSteps ==
  ASSUME NEW n
  PROVE  /\ Script[n] \in Says => Line(n) = <<Script[n]>>
         /\ Script[n] = "int3" => Line(n) = <<"breakpoint">>
         /\ Script[n] \notin Says \cup {"int3"} => Line(n) = <<>>
<1>1. "int3" \notin Says
  BY DEF Says
<1> QED BY <1>1, Zenon DEF Line

\* What the UART holds and how far serial::init has come.
Wires ==
  /\ init \in 1 .. 8 /\ polled \in BOOLEAN /\ dlab \in BOOLEAN
  /\ dlab <=> init \in 3 .. 5
  /\ divisor \in (0 .. 255) \X (0 .. 255)
  /\ init < 8 => pc = 1 /\ cpu \in {"main", "reset"}
  /\ wire \in Seq(Messages)
  /\ thr = <<>> \/ \E m \in Messages : thr = <<m>>
  /\ polled => thr = <<>> /\ Speaking

\* Which handler speaks is told by what stopped kernel_main.
Reasons ==
  /\ cause \in {"none", "page_fault", "overflow", "stray_vector", "panic", "no_framebuffer"}
  /\ cpu = "page_fault" => cause = "page_fault"
  /\ cpu = "double_fault" => cause \in {"overflow", "stray_vector"}
  /\ cpu = "panic" => cause \in {"overflow", "stray_vector", "panic"}
  /\ cpu = "no_framebuffer" => cause = "no_framebuffer"

\* A kernel struck after its last report is struck once: interrupts are off then.
Again ==
  /\ earlier \in {<<>>, <<"panic">>, <<"no_framebuffer">>}
  /\ earlier # <<>> => cpu \in {"double_fault", "panic", "hcf"} /\ iflag = FALSE
  /\ iflag /\ cpu = "hcf" => cause \in {"panic", "no_framebuffer"}
  /\ cpu \in {"page_fault", "double_fault"} => iflag = FALSE
  /\ iflag /\ cpu = "panic" => cause = "panic"

Rest == screen \in BOOLEAN /\ stack \in {"good", "overflowed"} /\ TICKS \in 0 .. BootTicks

LInv == Wires /\ Reasons /\ Again /\ Rest /\ LogIntact

\* While no handler has reported anew, the report is the earlier one.
LEMMA QuietReport ==
  ASSUME Again, cpu \notin {"iret", "hcf"}
  PROVE  Report = earlier /\ earlier \in Seq(Messages)
<1>1. LastReport = <<>>
  BY DEF LastReport
<1>2. "panic" \in Messages /\ "no_framebuffer" \in Messages
  BY DEF Messages
<1>3. earlier \in Seq(Messages)
  <2>1. /\ <<>> \in Seq(Messages) /\ <<"panic">> \in Seq(Messages)
        /\ <<"no_framebuffer">> \in Seq(Messages)
    BY <1>2, SequenceFacts, Zenon
  <2>2. earlier = <<>> \/ earlier = <<"panic">> \/ earlier = <<"no_framebuffer">>
    BY DEF Again
  <2> QED BY <2>1, <2>2, Zenon
<1> QED BY <1>1, <1>3, SequenceFacts, Zenon DEF Report

\* Without an earlier report there is at most the last one.
LEMMA FirstReport ==
  ASSUME earlier = <<>>, NEW m \in Messages, LastReport = <<m>>
  PROVE  Report = <<m>>
BY SequenceFacts, Zenon DEF Report

LEMMA InitLInv == Init => LInv
<1> SUFFICES ASSUME Init PROVE LInv
  OBVIOUS
<1>1. Wires
  <2>1. polled \in BOOLEAN /\ dlab \in BOOLEAN /\ dlab = FALSE /\ polled = FALSE
    BY Zenon DEF Init, UartInit
  <2>2. init = 1 /\ pc = 1 /\ cpu = "main" /\ wire = <<>> /\ thr = <<>> /\ divisor = <<0, 0>>
    BY Zenon DEF Init, UartInit
  <2>3. <<>> \in Seq(Messages)
    BY SequenceFacts
  <2> QED BY <2>1, <2>2, <2>3 DEF Wires
<1>2. Reasons
  BY DEF Init, Reasons
<1>3. Again
  BY DEF Init, Again
<1>4. Rest
  <2>1. screen \in BOOLEAN
    BY Zenon DEF Init
  <2> QED BY <2>1, BootAssumption DEF Init, Rest
<1>5. LogIntact
  <2>1. wire = <<>> /\ thr = <<>> /\ pc = 1 /\ cpu = "main"
    BY DEF Init, UartInit
  <2>2. Report = <<>>
    BY <1>3, <2>1, QuietReport DEF Init
  <2> QED BY <2>1, <2>2, LoggedUnfolds DEF LogIntact, Logged
<1> QED BY <1>1, <1>2, <1>3, <1>4, <1>5 DEF LInv

\* A step of kernel_main that prints nothing.
LEMMA AdvanceKeepsLog ==
  ASSUME LInv, pc \in 1 .. 24, Script[pc] \notin Says \cup {"int3"},
         cpu = "main", cpu' = "main", pc' = pc + 1, UNCHANGED <<wire, thr, earlier, cause>>
  PROVE  LogIntact'
<1>1. Report' = Report
  BY DEF Report, LastReport
<1>2. Logged(pc)' = Logged(pc)
  <2>1. pc \in 1 .. 25
    OBVIOUS
  <2>2. Line(pc) = <<>>
    BY QuietSteps
  <2>3. LoggedBefore[pc + 1] = LoggedBefore[pc] \o <<>> /\ LoggedBefore[pc] \in Seq(Messages)
    BY <2>1, <2>2, LoggedUnfolds, Zenon
  <2>4. LoggedBefore[pc + 1] = LoggedBefore[pc]
    BY <2>3, SequenceFacts, Zenon
  <2> QED BY <2>4 DEF Logged
<1> QED BY <1>1, <1>2 DEF LInv, LogIntact

\* A step that neither prints nor advances.
LEMMA StayKeepsLog ==
  ASSUME LInv, UNCHANGED <<wire, thr, pc, earlier>>, cpu \notin {"iret", "hcf"},
         cpu' \notin {"iret", "hcf"}
  PROVE  LogIntact'
<1>1. LastReport = <<>> /\ LastReport' = <<>>
  BY DEF LastReport
<1>2. Report' = Report
  BY <1>1 DEF Report
<1> QED BY <1>2 DEF LInv, LogIntact, Logged

\* A kernel struck after it has stopped: its first report becomes the earlier one.
LEMMA StruckAgainKeepsLog ==
  ASSUME LInv, iflag, cpu = "hcf", cpu' \notin {"iret", "hcf"}, earlier' = <<cause>>,
         UNCHANGED <<wire, thr, pc>>
  PROVE  LogIntact'
<1>1. cause \in {"panic", "no_framebuffer"} /\ earlier = <<>>
  <2>1. iflag # FALSE
    OBVIOUS
  <2> QED BY <2>1, Zenon DEF LInv, Again
<1>2. LastReport = <<cause>> /\ LastReport' = <<>>
  BY <1>1 DEF LastReport
<1>3. cause \in Messages
  BY <1>1 DEF Messages
<1>4. Report = <<cause>>
  BY <1>1, <1>2, <1>3, FirstReport
<1>5. Report' = <<cause>>
  BY <1>2, <1>3, SequenceFacts, Zenon DEF Report
<1> QED BY <1>4, <1>5 DEF LInv, LogIntact, Logged

\* One step of the machine keeps the log.
LEMMA NextLogIntact == BInv /\ LInv /\ [Next]_vars => LogIntact'
<1> SUFFICES ASSUME BInv, LInv, [Next]_vars PROVE LogIntact'
  OBVIOUS
<1> USE DEF control, segments, history, Do, uart
<1> DEFINE M == Seq(Messages)
<1>a. /\ Len(Script) = 25 /\ Len(SerialProgram) = 7 /\ pc \in 1 .. 25
      /\ Logged(pc) \in M /\ LoggedBefore[pc] = Logged(pc)
  <2>1. pc \in 1 .. 25
    BY DEF BInv, BType
  <2>2. Len(Script) = 25 /\ Len(SerialProgram) = 7
    BY ScriptOrder DEF SerialProgram
  <2>3. Logged(pc) \in M
    BY <2>1, LoggedUnfolds, Zenon DEF Logged
  <2> QED BY <2>1, <2>2, <2>3 DEF Logged
<1>b. wire \in M /\ <<>> \in M /\ wire \o <<>> = wire /\ Logged(pc) \o <<>> = Logged(pc)
  BY <1>a, SequenceFacts, Zenon DEF LInv, Wires
<1>1. CASE Fault
  <2>1. PICK what \in {"page_fault", "overflow", "stray_vector"} :
          cpu' = Entered(IF what = "overflow" THEN "page_fault" ELSE what, stack')
    BY <1>1 DEF Fault, Raise
  <2>2. cpu' \in IF pc > 6 THEN {"page_fault", "double_fault"} ELSE {"reset"}
    BY <2>1, FaultParks
  <2>3. /\ UNCHANGED <<wire, thr, pc>> /\ earlier' = IF cpu = "hcf" THEN <<cause>> ELSE <<>>
        /\ \/ cpu = "main"
           \/ iflag /\ cpu \in {"panic", "no_framebuffer", "hcf"}
    BY <1>1, Zenon DEF Fault
  <2>4. cpu' \notin {"iret", "hcf"}
    BY <2>2
  <2>5. CASE cpu = "hcf"
    BY <2>3, <2>4, <2>5, StruckAgainKeepsLog
  <2>6. CASE cpu # "hcf"
    <3>1. earlier = <<>> /\ cpu \notin {"iret", "hcf"}
      <4>1. CASE cpu = "main"
        BY <4>1 DEF LInv, Again
      <4>2. CASE iflag /\ cpu \in {"panic", "no_framebuffer", "hcf"}
        BY <2>6, <4>2 DEF LInv, Again
      <4> QED BY <2>3, <4>1, <4>2
    <3> QED BY <2>3, <2>4, <2>6, <3>1, StayKeepsLog
  <2> QED BY <2>5, <2>6
<1>2. CASE Tick
  <2>1. Enterable("timer", stack) /\ CanReturn
    BY <1>2 DEF Tick, Enterable, CanReturn, Gates, BInv, BType, Tables, Course
  <2>2. UNCHANGED <<wire, thr, pc, cpu, cause, earlier>>
    BY <1>2, <2>1 DEF Tick
  <2> QED BY <2>2 DEF LInv, LogIntact, Logged, Report, LastReport
<1>3. CASE PollThr \/ UNCHANGED vars
  <2>1. UNCHANGED <<wire, thr, pc, cpu, cause, earlier>>
    BY <1>3 DEF PollThr, vars
  <2> QED BY <2>1 DEF LInv, LogIntact, Logged, Report, LastReport
<1>4. CASE WriteByte
  <2>1. /\ Outb(0, IF cpu = "main" THEN Script[pc] ELSE cpu) /\ polled /\ Speaking
        /\ pc' = IF cpu = "main" THEN pc + 1 ELSE pc
        /\ cpu' = CASE cpu = "main" -> "main" [] cpu = "breakpoint" -> "iret" [] OTHER -> "hcf"
        /\ UNCHANGED <<cause, earlier>>
    BY <1>4, Zenon DEF WriteByte
  <2>2. thr = <<>> /\ init = 8
    BY <2>1, <1>a DEF Speaking, LInv, Wires
  <2>3. ~dlab
    BY <2>2 DEF LInv, Wires
  <2>4. wire' = wire /\ thr' = <<IF cpu = "main" THEN Script[pc] ELSE cpu>>
    BY <2>1, <2>3 DEF Outb
  <2>5. CASE cpu = "main"
    <3>1. Report = <<>> /\ Report' = <<>>
      <4>1. earlier = <<>>
        BY <2>5 DEF LInv, Again
      <4>2. LastReport = <<>> /\ LastReport' = <<>>
        BY <2>1, <2>5 DEF LastReport
      <4> QED BY <1>b, <2>1, <4>1, <4>2, SequenceFacts, Zenon DEF Report
    <3>2. Script[pc] \in Says /\ pc \in 1 .. 24
      <4>1. Script[pc] \in Says
        BY <2>1, <2>5 DEF Speaking
      <4>2. "render" \notin Says
        BY DEF Says
      <4>3. pc # 25
        BY <4>1, <4>2, <1>a, ScriptOrder, Zenon
      <4> QED BY <1>a, <4>1, <4>3
    <3>3. wire = Logged(pc)
      BY <3>1, <2>2, <1>b, Zenon DEF LInv, LogIntact
    <3>4. LoggedBefore[pc + 1] = LoggedBefore[pc] \o Line(pc) /\ Line(pc) = <<Script[pc]>>
      <4>1. Line(pc) = <<Script[pc]>>
        BY <3>2, QuietSteps
      <4> QED BY <3>2, <4>1, LoggedUnfolds, Zenon
    <3>5. wire' \o thr' = LoggedBefore[pc + 1]
      BY <2>4, <2>5, <3>3, <3>4, <1>a, Zenon
    <3>6. LoggedBefore[pc + 1] = Logged(pc)'
      BY <2>1, <2>5 DEF Logged
    <3>7. LoggedBefore[pc + 1] \in M
      <4>1. pc + 1 \in 1 .. 25
        BY <3>2
      <4> QED BY <4>1, LoggedUnfolds, Zenon
    <3> QED BY <3>1, <3>5, <3>6, <3>7, SequenceFacts, Zenon DEF LogIntact
  <2>6. CASE cpu # "main"
    <3>1. cpu \in {"breakpoint", "page_fault", "panic", "no_framebuffer"}
      BY <2>1, <2>6 DEF Speaking
    <3>2. Report = earlier /\ earlier \in M
      BY <3>1, QuietReport DEF LInv
    <3>3. wire = Logged(pc) \o earlier
      BY <3>2, <2>2, <1>b, Zenon DEF LInv, LogIntact
    <3>4. Report' = earlier \o <<cpu>>
      <4>1. LastReport' = <<cpu>>
        BY <2>1, <3>1 DEF LastReport, LInv, Reasons
      <4> QED BY <2>1, <4>1 DEF Report
    <3>5. Logged(pc)' = Logged(pc)
      BY <2>1, <2>6 DEF Logged
    <3>6. wire' \o thr' = (Logged(pc) \o earlier) \o <<cpu>>
      BY <2>4, <2>6, <3>3, Zenon
    <3>7. <<cpu>> \in M
      <4>1. cpu \in Messages
        BY <3>1 DEF Messages
      <4> QED BY <4>1, SequenceFacts, Zenon
    <3>8. (Logged(pc) \o earlier) \o <<cpu>> = Logged(pc) \o (earlier \o <<cpu>>)
      <4>1. \A s, t, u \in M : (s \o t) \o u = s \o (t \o u)
        BY SequenceFacts
      <4> HIDE DEF M
      <4> QED BY <1>a, <3>2, <3>7, <4>1, Zenon
    <3> QED BY <3>4, <3>5, <3>6, <3>8, Zenon DEF LogIntact
  <2> QED BY <2>5, <2>6
<1>5. CASE ReturnFromBreakpoint
  <2>1. CanReturn /\ pc = 8
    BY <1>5 DEF ReturnFromBreakpoint, CanReturn, BInv, Tables, Course
  <2>2. cpu = "iret" /\ cpu' = "main" /\ pc' = pc + 1 /\ UNCHANGED <<wire, thr, earlier>>
    BY <1>5, <2>1 DEF ReturnFromBreakpoint
  <2>3. Report = <<"breakpoint">> /\ Report' = <<>>
    <3>1. earlier = <<>>
      BY <2>2 DEF LInv, Again
    <3>2. LastReport = <<"breakpoint">> /\ LastReport' = <<>> /\ "breakpoint" \in Messages
      BY <2>2 DEF LastReport, Messages
    <3> QED BY <1>b, <2>2, <3>1, <3>2, SequenceFacts, Zenon DEF Report
  <2>4. 8 \in 1 .. 24 /\ 8 \in 1 .. 25 /\ 9 \in 1 .. 25 /\ 8 + 1 = 9 /\ Script[8] = "int3"
    BY ScriptOrder
  <2>5. LoggedBefore[9] = LoggedBefore[8] \o <<"breakpoint">> /\ LoggedBefore[9] \in M
    <3>1. Line(8) = <<"breakpoint">>
      BY <2>4, QuietSteps
    <3>2. LoggedBefore[8 + 1] = LoggedBefore[8] \o Line(8)
      BY <2>4, LoggedUnfolds, Zenon
    <3> QED BY <2>4, <3>1, <3>2, LoggedUnfolds, Zenon
  <2>6. pc' = 9
    BY <2>1, <2>2
  <2>7. Logged(pc)' = Logged(8) \o <<"breakpoint">> /\ Logged(pc)' \in M
    BY <2>5, <2>6 DEF Logged
  <2>8. wire \o thr = Logged(8) \o <<"breakpoint">>
    BY <2>1, <2>3 DEF LInv, LogIntact
  <2> QED BY <2>2, <2>3, <2>7, <2>8, SequenceFacts, Zenon DEF LogIntact
<1>6. CASE DoubleFault
  <2>1. cpu = "double_fault" /\ cpu' = "panic" /\ UNCHANGED <<wire, thr, pc, earlier>>
    BY <1>6 DEF DoubleFault
  <2> QED BY <2>1, StayKeepsLog
<1>7. CASE InitSerial
  <2>1. /\ init <= 7 /\ cpu = "main" /\ cpu' = "main" /\ pc' = pc /\ earlier' = earlier
        /\ Outb(SerialProgram[init][1], SerialProgram[init][2])
    BY <1>7, <1>a, Zenon DEF InitSerial
  <2>2. init \in 1 .. 7
    BY <2>1 DEF LInv, Wires
  <2>3. SerialProgram[init][1] = 0 => init = 3
    BY <2>2 DEF SerialProgram
  <2>4. UNCHANGED <<wire, thr>>
    <3>1. init = 3 => dlab
      BY <2>2 DEF LInv, Wires
    <3> QED BY <2>1, <2>3, <3>1 DEF Outb
  <2> QED BY <2>1, <2>4, StayKeepsLog
<1>8. CASE LoadSegments \/ InitIdt \/ EnableInterrupts \/ WaitTicks
  <2>1. /\ cpu = "main" /\ cpu' = "main" /\ pc' = pc + 1 /\ UNCHANGED <<wire, thr, earlier, cause>>
        /\ Script[pc] \in {"gdt", "cs", "ss", "tss", "idt", "interrupts", "ticks"}
    BY <1>8 DEF LoadSegments, InitIdt, EnableInterrupts, WaitTicks
  <2>2. pc \in 1 .. 24
    BY <2>1, <1>a, ScriptOrder
  <2>3. Script[pc] \notin Says \cup {"int3"}
    BY <2>1 DEF Says
  <2> QED BY <2>1, <2>2, <2>3, AdvanceKeepsLog
<1>9. CASE Int3
  <2>1. pc = 8 /\ cause = "none" /\ stack = "good"
    BY <1>9, ScriptOrder DEF Int3, BInv, BType, Course
  <2>2. Enterable("breakpoint", stack)
    BY <2>1 DEF Enterable, Gates, BInv, Tables
  <2>3. cpu' = "breakpoint" /\ cpu = "main" /\ UNCHANGED <<pc, wire, thr, earlier>>
    BY <1>9, <2>2 DEF Int3, Raise, Entered
  <2> QED BY <2>3, StayKeepsLog
<1>10. CASE Panic \/ NoFramebuffer
  <2>1. cpu = "main" /\ cpu' \in {"panic", "no_framebuffer"} /\ UNCHANGED <<wire, thr, pc, earlier>>
    BY <1>10 DEF Panic, NoFramebuffer
  <2> QED BY <2>1, StayKeepsLog
<1>11. ASSUME NEW names \in {{"offset", "heap", "use_heap", "pci"}, {"xhci", "line"}},
              Advance(names)
       PROVE  LogIntact'
  <2>1. /\ cpu = "main" /\ cpu' = "main" /\ pc' = pc + 1 /\ UNCHANGED <<wire, thr, earlier, cause>>
        /\ Script[pc] \in {"offset", "heap", "use_heap", "pci", "xhci", "line"}
    BY <1>11, Zenon DEF Advance
  <2>2. pc \in 1 .. 24
    BY <2>1, <1>a, ScriptOrder
  <2>3. Script[pc] \notin Says \cup {"int3"}
    BY <2>1 DEF Says
  <2> QED BY <2>1, <2>2, <2>3, AdvanceKeepsLog
<1>12. CASE Uart
  <2>1. wire' = wire \o thr /\ thr' = <<>> /\ UNCHANGED <<pc, cpu, cause, earlier>>
    BY <1>12 DEF Uart, Transmit
  <2>2. thr \in M
    BY SequenceFacts, Zenon DEF LInv, Wires
  <2>3. wire \o thr \in M
    BY <1>b, <2>2, SequenceFacts, Zenon
  <2>4. wire' \o thr' = wire \o thr
    BY <2>1, <2>3, SequenceFacts, Zenon
  <2>5. Report' = Report /\ Logged(pc)' = Logged(pc)
    BY <2>1 DEF Report, LastReport, Logged
  <2> QED BY <2>4, <2>5 DEF LInv, LogIntact
<1> QED
  BY <1>1, <1>2, <1>3, <1>4, <1>5, <1>6, <1>7, <1>8, <1>9, <1>10, <1>11, <1>12
  DEF Next, KernelMain, Work, Answer, Idle

\* One step of the machine keeps the rest of the log's invariant.
LEMMA NextReasons == BInv /\ LInv /\ [Next]_vars => Reasons' /\ Rest'
<1> SUFFICES ASSUME BInv, LInv, [Next]_vars PROVE Reasons' /\ Rest'
  OBVIOUS
<1> USE DEF control, segments, history, Do, uart
<1>a. UNCHANGED <<cause, cpu>> => Reasons'
  BY DEF LInv, Reasons
<1>b. UNCHANGED <<screen, stack, TICKS>> => Rest'
  BY DEF LInv, Rest
<1>1. CASE Fault
  <2>1. PICK what \in {"page_fault", "overflow", "stray_vector"} :
          /\ cause' = what
          /\ stack' = IF what = "overflow" THEN "overflowed" ELSE stack
          /\ cpu' = Entered(IF what = "overflow" THEN "page_fault" ELSE what, stack')
    BY <1>1, Zenon DEF Fault, Raise
  <2>2. UNCHANGED <<screen, TICKS>> /\ (cpu = "main" \/ iflag)
    BY <1>1, Zenon DEF Fault
  <2>3. stack = "good"
    BY <2>2 DEF BInv, Course
  <2>4. CASE pc > 6
    <3>1. idtCs = gdt /\ tss
      BY <2>4 DEF BInv, BType, Tables
    <3>2. cpu' = IF what = "page_fault" THEN "page_fault" ELSE "double_fault"
      BY <2>1, <2>3, <3>1 DEF Entered, Enterable, Gates
    <3> QED BY <2>1, <2>2, <3>2 DEF LInv, Reasons, Rest
  <2>5. CASE ~(pc > 6)
    <3>1. cpu' = "reset"
      BY <2>1, <2>5, FaultParks
    <3> QED BY <2>1, <2>2, <3>1 DEF LInv, Reasons, Rest
  <2> QED BY <2>4, <2>5
<1>2. CASE Tick
  <2>1. Enterable("timer", stack) /\ CanReturn
    BY <1>2 DEF Tick, Enterable, CanReturn, Gates, BInv, BType, Tables, Course
  <2>2. UNCHANGED <<cause, cpu, screen, stack>>
    BY <1>2, <2>1 DEF Tick
  <2>3. TICKS' = IF TICKS < BootTicks THEN TICKS + 1 ELSE TICKS
    BY <1>2 DEF Tick
  <2>4. TICKS' \in 0 .. BootTicks
    BY <2>3, BootAssumption DEF LInv, Rest
  <2> QED BY <1>a, <2>2, <2>4 DEF LInv, Rest
<1>3. CASE PollThr \/ InitSerial \/ Uart \/ UNCHANGED vars
  <2>1. UNCHANGED <<cause, cpu, screen, stack, TICKS>>
    BY <1>3 DEF PollThr, InitSerial, Uart, vars
  <2> QED BY <1>a, <1>b, <2>1
<1>4. CASE LoadSegments \/ InitIdt \/ EnableInterrupts \/ WaitTicks
  <2>1. UNCHANGED <<cause, cpu, screen, stack, TICKS>>
    BY <1>4 DEF LoadSegments, InitIdt, EnableInterrupts, WaitTicks
  <2> QED BY <1>a, <1>b, <2>1
<1>5. CASE WriteByte
  <2>1. /\ cpu' = CASE cpu = "main" -> "main" [] cpu = "breakpoint" -> "iret" [] OTHER -> "hcf"
        /\ UNCHANGED <<cause, screen, stack, TICKS>>
    BY <1>5 DEF WriteByte
  <2> QED BY <1>b, <2>1 DEF LInv, Reasons
<1>6. CASE ReturnFromBreakpoint
  <2>1. CanReturn
    BY <1>6 DEF ReturnFromBreakpoint, CanReturn, BInv, Tables, Course
  <2>2. cpu' = "main" /\ UNCHANGED <<cause, screen, stack, TICKS>>
    BY <1>6, <2>1 DEF ReturnFromBreakpoint
  <2> QED BY <1>b, <2>2 DEF LInv, Reasons
<1>7. CASE DoubleFault
  <2>1. cpu = "double_fault" /\ cpu' = "panic" /\ UNCHANGED <<cause, screen, stack, TICKS>>
    BY <1>7 DEF DoubleFault
  <2> QED BY <1>b, <2>1 DEF LInv, Reasons
<1>8. CASE Int3
  <2>1. pc = 8 /\ cause = "none" /\ stack = "good"
    BY <1>8, ScriptOrder DEF Int3, BInv, BType, Course
  <2>2. Enterable("breakpoint", stack)
    BY <2>1 DEF Enterable, Gates, BInv, Tables
  <2>3. cpu' = "breakpoint" /\ UNCHANGED <<cause, screen, stack, TICKS>>
    BY <1>8, <2>2 DEF Int3, Raise, Entered
  <2> QED BY <1>b, <2>3 DEF LInv, Reasons
<1>9. CASE Panic \/ NoFramebuffer
  <2>1. cpu' = cause' /\ cause' \in {"panic", "no_framebuffer"} /\ UNCHANGED <<screen, stack, TICKS>>
    BY <1>9 DEF Panic, NoFramebuffer
  <2> QED BY <1>b, <2>1 DEF Reasons
<1>10. ASSUME NEW names, Advance(names) PROVE Reasons' /\ Rest'
  <2>1. UNCHANGED <<cause, cpu, screen, stack, TICKS>>
    BY <1>10 DEF Advance
  <2> QED BY <1>a, <1>b, <2>1
<1> QED
  BY <1>1, <1>2, <1>3, <1>4, <1>5, <1>6, <1>7, <1>8, <1>9, <1>10
  DEF Next, KernelMain, Work, Answer, Idle

\* One step of the machine keeps it that a stopped kernel is struck once at most.
LEMMA NextAgain == BInv /\ LInv /\ [Next]_vars => Again'
<1> SUFFICES ASSUME BInv, LInv, [Next]_vars PROVE Again'
  OBVIOUS
<1> USE DEF control, segments, history, Do
<1>a. UNCHANGED <<cause, earlier, cpu, iflag>> => Again'
  BY DEF LInv, Again
<1>b. cpu = "main" => earlier = <<>>
  BY DEF LInv, Again
<1>c. earlier' = <<>> /\ cpu' \notin {"page_fault", "double_fault", "panic", "hcf"} => Again'
  BY DEF Again
<1>1. CASE Fault
  <2>1. iflag' = FALSE /\ earlier' = IF cpu = "hcf" THEN <<cause>> ELSE <<>>
    BY <1>1, Zenon DEF Fault, Raise
  <2>2. PICK what \in {"page_fault", "overflow", "stray_vector"} :
          /\ cpu = "main" \/ (iflag /\ what = "stray_vector")
          /\ cpu' = Entered(IF what = "overflow" THEN "page_fault" ELSE what, stack')
    BY <1>1, Zenon DEF Fault, Raise
  <2>3. CASE cpu = "hcf"
    <3>1. iflag /\ what = "stray_vector"
      BY <2>2, <2>3
    <3>2. cause \in {"panic", "no_framebuffer"}
      BY <2>3, <3>1 DEF LInv, Again
    <3>3. pc > 6
      BY <3>1 DEF BInv, BType, Course
    <3>4. idtCs = gdt /\ tss
      BY <3>3 DEF BInv, BType, Tables
    <3>5. cpu' = "double_fault"
      BY <2>2, <3>1, <3>4 DEF Entered, Enterable, Gates
    <3> QED BY <2>1, <2>3, <3>2, <3>5 DEF Again
  <2>4. CASE cpu # "hcf"
    BY <2>1, <2>4 DEF Again
  <2> QED BY <2>3, <2>4
<1>2. CASE Tick
  <2>1. Enterable("timer", stack) /\ CanReturn
    BY <1>2 DEF Tick, Enterable, CanReturn, Gates, BInv, BType, Tables, Course
  <2>2. UNCHANGED <<cause, earlier, cpu, iflag>>
    BY <1>2, <2>1 DEF Tick
  <2> QED BY <1>a, <2>2
<1>3. CASE PollThr \/ InitSerial \/ Uart \/ UNCHANGED vars
  <2>1. UNCHANGED <<cause, earlier, cpu, iflag>>
    BY <1>3 DEF PollThr, InitSerial, Uart, vars
  <2> QED BY <1>a, <2>1
<1>4. CASE LoadSegments \/ InitIdt \/ EnableInterrupts \/ WaitTicks
  <2>1. cpu = "main" /\ UNCHANGED <<earlier, cpu>>
    BY <1>4 DEF LoadSegments, InitIdt, EnableInterrupts, WaitTicks
  <2> QED BY <1>b, <1>c, <2>1
<1>5. CASE WriteByte
  <2>1. /\ cpu' = CASE cpu = "main" -> "main" [] cpu = "breakpoint" -> "iret" [] OTHER -> "hcf"
        /\ cpu \in {"main", "breakpoint", "page_fault", "panic", "no_framebuffer"}
        /\ UNCHANGED <<cause, earlier, iflag>>
    BY <1>5 DEF WriteByte, Speaking
  <2>2. earlier' # <<>> => cpu' = "hcf" /\ iflag' = FALSE
    BY <2>1 DEF LInv, Again
  <2>3. iflag' /\ cpu' = "hcf" => cause' \in {"panic", "no_framebuffer"}
    BY <2>1 DEF LInv, Again, Reasons
  <2> QED BY <2>1, <2>2, <2>3 DEF LInv, Again
<1>6. CASE ReturnFromBreakpoint
  <2>1. CanReturn
    BY <1>6 DEF ReturnFromBreakpoint, CanReturn, BInv, Tables, Course
  <2>2. cpu = "iret" /\ cpu' = "main" /\ UNCHANGED earlier
    BY <1>6, <2>1 DEF ReturnFromBreakpoint
  <2> QED BY <1>c, <2>2 DEF LInv, Again
<1>7. CASE DoubleFault
  <2>1. cpu = "double_fault" /\ cpu' = "panic" /\ UNCHANGED <<cause, earlier, iflag>>
    BY <1>7 DEF DoubleFault
  <2> QED BY <2>1 DEF LInv, Again
<1>8. CASE Int3
  <2>1. pc = 8 /\ cause = "none" /\ stack = "good"
    BY <1>8, ScriptOrder DEF Int3, BInv, BType, Course
  <2>2. Enterable("breakpoint", stack)
    BY <2>1 DEF Enterable, Gates, BInv, Tables
  <2>3. cpu = "main" /\ cpu' = "breakpoint" /\ UNCHANGED earlier
    BY <1>8, <2>2 DEF Int3, Raise, Entered
  <2> QED BY <1>b, <1>c, <2>3
<1>9. CASE Panic \/ NoFramebuffer
  <2>1. cpu = "main" /\ cpu' = cause' /\ cause' \in {"panic", "no_framebuffer"} /\ UNCHANGED earlier
    BY <1>9 DEF Panic, NoFramebuffer
  <2> QED BY <1>b, <2>1 DEF Again
<1>10. ASSUME NEW names, Advance(names) PROVE Again'
  <2>1. UNCHANGED <<cause, earlier, cpu, iflag>>
    BY <1>10 DEF Advance
  <2> QED BY <1>a, <2>1
<1> QED
  BY <1>1, <1>2, <1>3, <1>4, <1>5, <1>6, <1>7, <1>8, <1>9, <1>10
  DEF Next, KernelMain, Work, Answer, Idle

\* Who speaks is settled by kernel_main's step and by the CPU.
LEMMA NextWires == BInv /\ LInv /\ [Next]_vars => Wires'
<1> SUFFICES ASSUME BInv, LInv, [Next]_vars PROVE Wires'
  OBVIOUS
<1> USE DEF control, segments, history, Do, uart
<1>a. Len(Script) = 25 /\ Len(SerialProgram) = 7 /\ pc \in 1 .. 25
  BY ScriptOrder DEF SerialProgram, BInv, BType
<1>b. UNCHANGED <<uart, init>> /\ polled' = FALSE /\ (init < 8 => pc' = 1 /\ cpu' \in {"main", "reset"})
      => Wires'
  <2> SUFFICES ASSUME UNCHANGED <<uart, init>>, polled' = FALSE,
                      init < 8 => pc' = 1 /\ cpu' \in {"main", "reset"}
               PROVE  Wires'
    BY Zenon
  <2>1. polled' \in BOOLEAN
    BY Zenon
  <2>2. dlab' \in BOOLEAN /\ (dlab' <=> init \in 3 .. 5)
    BY DEF LInv, Wires
  <2> QED BY <2>1, <2>2 DEF LInv, Wires
<1>c. cpu \notin {"main", "reset"} => init = 8
  BY DEF LInv, Wires
<1>d. polled /\ cpu = "main" => Script[pc] \in Says
  BY DEF LInv, Wires, Speaking
<1>e. polled = FALSE \/ polled = TRUE
  BY Zenon DEF LInv, Wires
<1>1. CASE Fault
  <2>1. PICK what \in {"page_fault", "overflow", "stray_vector"} :
          cpu' = Entered(IF what = "overflow" THEN "page_fault" ELSE what, stack')
    BY <1>1 DEF Fault, Raise
  <2>2. cpu' \in IF pc > 6 THEN {"page_fault", "double_fault"} ELSE {"reset"}
    BY <2>1, FaultParks
  <2>3. polled' = FALSE /\ UNCHANGED <<uart, init, pc>>
    BY <1>1 DEF Fault, Raise
  <2>4. init < 8 => pc' = 1 /\ cpu' \in {"main", "reset"}
    BY <2>2, <2>3 DEF LInv, Wires
  <2> QED BY <1>b, <2>3, <2>4
<1>2. CASE Tick \/ UNCHANGED vars
  <2>1. Tick => Enterable("timer", stack) /\ CanReturn
    BY DEF Tick, Enterable, CanReturn, Gates, BInv, BType, Tables, Course
  <2>2. UNCHANGED <<uart, control, cpu>>
    BY <1>2, <2>1 DEF Tick, vars
  <2> QED BY <2>2 DEF LInv, Wires, Speaking
<1>3. CASE PollThr
  <2>1. Speaking /\ thr = <<>> /\ polled' = TRUE /\ UNCHANGED <<uart, pc, init, cpu>>
    BY <1>3, Zenon DEF PollThr, ThrEmpty
  <2>2. polled' \in BOOLEAN
    BY <2>1, Zenon
  <2>3. Speaking'
    BY <2>1 DEF Speaking
  <2> QED BY <2>1, <2>2, <2>3 DEF LInv, Wires
<1>4. CASE WriteByte
  <2>1. /\ Outb(0, IF cpu = "main" THEN Script[pc] ELSE cpu) /\ Speaking
        /\ polled' = FALSE /\ UNCHANGED init
    BY <1>4, Zenon DEF WriteByte
  <2>2. init = 8 /\ ~dlab
    BY <2>1, <1>a DEF Speaking, LInv, Wires
  <2>3. /\ wire' = wire /\ dlab' = dlab /\ divisor' = divisor
        /\ thr' = <<IF cpu = "main" THEN Script[pc] ELSE cpu>>
    BY <2>1, <2>2 DEF Outb
  <2>4. (IF cpu = "main" THEN Script[pc] ELSE cpu) \in Messages
    BY <2>1 DEF Speaking, Messages
  <2>5. polled' \in BOOLEAN
    BY <2>1, Zenon
  <2> QED BY <2>1, <2>2, <2>3, <2>4, <2>5 DEF LInv, Wires
<1>5. CASE ReturnFromBreakpoint
  <2>1. CanReturn
    BY <1>5 DEF ReturnFromBreakpoint, CanReturn, BInv, Tables, Course
  <2>2. cpu = "iret" /\ UNCHANGED <<uart, init, polled>>
    BY <1>5, <2>1 DEF ReturnFromBreakpoint
  <2>3. init = 8 /\ ~polled
    BY <1>c, <2>2 DEF LInv, Wires, Speaking
  <2> QED BY <1>b, <1>e, <2>2, <2>3
<1>6. CASE DoubleFault
  <2>1. cpu = "double_fault" /\ cpu' = "panic" /\ UNCHANGED <<uart, control>>
    BY <1>6 DEF DoubleFault
  <2>2. init = 8 /\ ~polled
    BY <1>c, <2>1 DEF LInv, Wires, Speaking
  <2> QED BY <1>b, <1>e, <2>1, <2>2
<1>7. CASE InitSerial
  <2>1. /\ init <= 7 /\ cpu = "main" /\ UNCHANGED <<pc, cpu, polled>> /\ init' = init + 1
        /\ Outb(SerialProgram[init][1], SerialProgram[init][2])
    BY <1>7, <1>a, Zenon DEF InitSerial
  <2>2. init \in 1 .. 7 /\ pc = 1
    BY <2>1 DEF LInv, Wires
  <2>3. ~polled
    BY <2>1, <1>a DEF LInv, Wires, Speaking
  <2>4. /\ SerialProgram[init][1] = 0 => init = 3
        /\ SerialProgram[init][1] = 3 <=> init \in {2, 5}
        /\ SerialProgram[init][2] = 128 <=> init = 2
        /\ SerialProgram[init][2] \in 0 .. 255
    BY <2>2 DEF SerialProgram
  <2>5. UNCHANGED <<wire, thr>>
    <3>1. init = 3 => dlab
      BY <2>2 DEF LInv, Wires
    <3> QED BY <2>1, <2>4, <3>1 DEF Outb
  <2>6. dlab' = IF init = 2 THEN TRUE ELSE IF init = 5 THEN FALSE ELSE dlab
    <3>1. dlab' = IF SerialProgram[init][1] = 3 THEN SerialProgram[init][2] = 128 ELSE dlab
      BY <2>1 DEF Outb
    <3>2. CASE init = 2
      <4>1. SerialProgram[init][1] = 3 /\ SerialProgram[init][2] = 128
        BY <3>2, <2>4
      <4> QED BY <3>1, <3>2, <4>1
    <3>3. CASE init = 5
      <4>1. SerialProgram[init][1] = 3 /\ SerialProgram[init][2] # 128 /\ init # 2
        BY <3>3, <2>4
      <4> QED BY <3>1, <3>3, <4>1
    <3>4. CASE init \notin {2, 5}
      <4>1. SerialProgram[init][1] # 3 /\ init # 2 /\ init # 5
        BY <3>4, <2>4
      <4> QED BY <3>1, <4>1
    <3> QED BY <3>2, <3>3, <3>4
  <2>7. dlab' \in BOOLEAN
    BY <2>6, Zenon DEF LInv, Wires
  <2>8. dlab' <=> init' \in 3 .. 5
    <3>1. dlab <=> init \in 3 .. 5
      BY DEF LInv, Wires
    <3> QED BY <2>1, <2>2, <2>6, <3>1
  <2>9. divisor' \in (0 .. 255) \X (0 .. 255)
    <3>1. divisor \in (0 .. 255) \X (0 .. 255)
      BY DEF LInv, Wires
    <3>2. ASSUME NEW r \in {0, 1}, NEW v \in 0 .. 255
          PROVE  [divisor EXCEPT ![r + 1] = v] \in (0 .. 255) \X (0 .. 255)
      <4>1. [divisor EXCEPT ![1] = v] \in (0 .. 255) \X (0 .. 255)
        BY <3>1
      <4>2. [divisor EXCEPT ![2] = v] \in (0 .. 255) \X (0 .. 255)
        BY <3>1
      <4>3. r + 1 = 1 \/ r + 1 = 2
        OBVIOUS
      <4> QED BY <4>1, <4>2, <4>3, Zenon
    <3>3. \/ divisor' = divisor
          \/ /\ SerialProgram[init][1] \in {0, 1}
             /\ divisor' = [divisor EXCEPT ![SerialProgram[init][1] + 1] = SerialProgram[init][2]]
      BY <2>1, Zenon DEF Outb
    <3> DEFINE r == SerialProgram[init][1]
               v == SerialProgram[init][2]
    <3>4. v \in 0 .. 255
      BY <2>4
    <3> HIDE DEF r, v
    <3>5. CASE r \in {0, 1} /\ divisor' = [divisor EXCEPT ![r + 1] = v]
      BY <3>2, <3>4, <3>5
    <3> QED BY <3>1, <3>3, <3>5, Zenon DEF r, v
  <2>10. init' \in 1 .. 8 /\ (polled' \in BOOLEAN) /\ ~polled'
    BY <2>1, <2>2, <2>3 DEF LInv, Wires
  <2> QED BY <2>1, <2>2, <2>5, <2>7, <2>8, <2>9, <2>10 DEF LInv, Wires
<1>8. CASE LoadSegments \/ InitIdt \/ EnableInterrupts \/ WaitTicks
  <2>1. /\ cpu = "main" /\ UNCHANGED <<uart, init, polled>> /\ init > 7
        /\ Script[pc] \in {"gdt", "cs", "ss", "tss", "idt", "interrupts", "ticks"}
    BY <1>8, <1>a DEF LoadSegments, InitIdt, EnableInterrupts, WaitTicks
  <2>2. ~polled /\ init = 8
    BY <2>1, <1>d DEF Says, LInv, Wires
  <2> QED BY <1>b, <1>e, <2>1, <2>2
<1>9. CASE Int3
  <2>1. polled' = FALSE /\ UNCHANGED <<uart, init>> /\ init > 7
    BY <1>9, <1>a, Zenon DEF Int3, Raise
  <2>2. init = 8
    BY <2>1 DEF LInv, Wires
  <2> QED BY <1>b, <2>1, <2>2
<1>10. CASE Panic \/ NoFramebuffer
  <2>1. /\ cpu = "main" /\ init > 7 /\ UNCHANGED <<uart, control>>
        /\ Script[pc] \in Panics
    BY <1>10, <1>a DEF Panic, NoFramebuffer, Panics
  <2>2. ~polled /\ init = 8
    BY <2>1, <1>d DEF Says, Panics, LInv, Wires
  <2> QED BY <1>b, <1>e, <2>1, <2>2
<1>11. ASSUME NEW names \in {{"offset", "heap", "use_heap", "pci"}, {"xhci", "line"}},
              Advance(names)
       PROVE  Wires'
  <2>1. /\ cpu = "main" /\ UNCHANGED <<uart, init, polled>> /\ init > 7
        /\ Script[pc] \in {"offset", "heap", "use_heap", "pci", "xhci", "line"}
    BY <1>11, <1>a, Zenon DEF Advance
  <2>2. ~polled /\ init = 8
    BY <2>1, <1>d DEF Says, LInv, Wires
  <2> QED BY <1>b, <1>e, <2>1, <2>2
<1>12. CASE Uart
  <2>1. /\ thr # <<>> /\ wire' = wire \o thr /\ thr' = <<>>
        /\ UNCHANGED <<dlab, divisor, control, cpu>>
    BY <1>12, Zenon DEF Uart, Transmit
  <2>2. wire' \in Seq(Messages)
    BY <2>1, SequenceFacts, Zenon DEF LInv, Wires
  <2>3. ~polled
    BY <2>1 DEF LInv, Wires
  <2> QED BY <2>1, <2>2, <2>3 DEF LInv, Wires
<1> QED
  BY <1>1, <1>2, <1>3, <1>4, <1>5, <1>6, <1>7, <1>8, <1>9, <1>10, <1>11, <1>12
  DEF Next, KernelMain, Work, Answer, Idle

\* Together: how far boot has come and what it has printed.
LEMMA BootInvariant == Spec => [](BInv /\ LInv)
<1>1. BInv /\ LInv /\ [Next]_vars => BInv' /\ LInv'
  BY NextBInv, NextLogIntact, NextReasons, NextAgain, NextWires DEF LInv
<1> QED BY InitBInv, InitLInv, <1>1, PTL DEF Spec

\* Every line kernel_main and the handlers print reaches COM1 once and in order,
\* whatever interrupts or stops them between write_str's poll of the line status
\* and its write, and however far serial::init has come when it happens.
THEOREM LogKept == Spec => []LogIntact
BY BootInvariant, PTL DEF LInv

\* The script never runs past its end, serial::init never past its program, and
\* the holding register never takes a second byte: every variable of boot keeps
\* its type, for every number of ticks waited for.
THEOREM BootTypes == Spec => []TypeOK
<1>1. BInv /\ LInv => TypeOK
  <2> SUFFICES ASSUME BInv, LInv PROVE TypeOK
    OBVIOUS
  <2>1. Len(Script) = 25 /\ Len(SerialProgram) = 7
    BY ScriptOrder DEF SerialProgram
  <2>2. Len(thr) <= 1
    <3>1. CASE thr = <<>>
      BY <3>1
    <3>2. ASSUME NEW m, thr = <<m>> PROVE Len(thr) <= 1
      BY <3>2
    <3> QED BY <3>1, <3>2 DEF LInv, Wires
  <2>3. {screen, tss, iflag} \subseteq BOOLEAN
    BY Zenon DEF BInv, BType, LInv, Rest
  <2>4. {gdt, cs, ss} \subseteq {"boot", "kernel"} /\ idtCs \in {"none", "boot", "kernel"}
    BY DEF BInv, Tables
  <2>5. dlab \in BOOLEAN /\ divisor \in (0 .. 255) \X (0 .. 255) /\ polled \in BOOLEAN
    BY Zenon DEF LInv, Wires
  <2>6. pc \in 1 .. 25 /\ init \in 1 .. 8 /\ stack \in {"good", "overflowed"}
        /\ TICKS \in 0 .. BootTicks
    BY Zenon DEF BInv, BType, LInv, Wires, Rest
  <2>7. 8 = 7 + 1
    OBVIOUS
  <2> QED BY <2>1, <2>2, <2>3, <2>4, <2>5, <2>6, <2>7, Zenon
          DEF BInv, BType, LInv, Reasons, Again, TypeOK
<1> QED BY BootInvariant, <1>1, PTL
=============================================================================
