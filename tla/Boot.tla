-------------------------------- MODULE Boot --------------------------------
(***************************************************************************)
(* kernel_main from the entry point to its last loop, with the descriptor  *)
(* tables it installs (gdt.rs, interrupts.rs), the exceptions that may     *)
(* strike at any step, the panics of its steps, and its log on COM1.       *)
(*                                                                         *)
(* Exception delivery is the CPU's, external: it needs a gate, a code      *)
(* selector that the current GDT defines and a usable stack, and a failure *)
(* to deliver becomes a double fault, then a reset.  What the phases do    *)
(* inside is modelled in Memory, Pci, Xhci, Input and Render.              *)
(***************************************************************************)
EXTENDS Serial

CONSTANTS BootTicks   \* kernel_main waits for this many ticks (10)

ASSUME BootAssumption == BootTicks \in Nat \ {0}

\* The steps of kernel_main, in order; those in Says print a message.
Script == <<"banner", "gdt", "cs", "ss", "tss", "idt", "M2_tables", "int3",
            "M2_breakpoint", "offset", "heap", "M2_heap", "use_heap", "M2_complete",
            "interrupts", "M3_enabled", "ticks", "M3_complete", "pci", "M6a_found", "xhci",
            "M6a_complete", "line", "M5_complete", "render">>
Says == {"banner", "M2_tables", "M2_breakpoint", "M2_heap", "M2_complete", "M3_enabled",
         "M3_complete", "M6a_found", "M6a_complete", "M5_complete"}

VARIABLES
  pc,      \* kernel_main's step of Script
  init,    \* the next write of serial::init
  polled,  \* write_str has seen the holding register empty
  cpu,     \* "main", a handler or last resort, "hcf", or "reset"
  cause,   \* history: what stopped the kernel last, "none" so far
  earlier, \* history: what it had reported before that, if it was stopped twice
  screen,  \* the bootloader has provided a framebuffer
  gdt, cs, ss,   \* whose GDT is loaded, whose selectors are: "boot" or "kernel"
  tss,     \* the TSS, with the double fault's stack, is loaded
  idtCs,   \* the code selector in the IDT's gates, "none" before it is loaded
  iflag,   \* the interrupt flag
  stack,   \* kernel_main's stack: "good" or "overflowed"
  TICKS

control == <<pc, init, polled>>
history == <<cause, earlier>>
segments == <<gdt, cs, ss, tss, idtCs>>
vars == <<uart, control, cpu, history, screen, segments, iflag, stack, TICKS>>

Init ==
  /\ UartInit
  /\ pc = 1 /\ init = 1 /\ polled = FALSE /\ cpu = "main"
  /\ cause = "none" /\ earlier = <<>>
  /\ screen \in BOOLEAN
  /\ gdt = "boot" /\ cs = "boot" /\ ss = "boot" /\ tss = FALSE /\ idtCs = "none"
  /\ iflag = FALSE /\ stack = "good" /\ TICKS = 0

-----------------------------------------------------------------------------
(* The CPU.                                                                *)

\* The gates of the IDT: breakpoint, page fault, double fault, timer and
\* keyboard; the double fault's has a stack of its own.
Gates == {"breakpoint", "page_fault", "double_fault", "timer"}

Enterable(v, st) ==
  /\ v \in Gates /\ idtCs = gdt
  /\ IF v = "double_fault" THEN tss ELSE st = "good"

Entered(v, st) ==
  IF Enterable(v, st) THEN v
  ELSE IF Enterable("double_fault", st) THEN "double_fault" ELSE "reset"

\* The CPU takes vector v on stack st; an interrupt gate clears the flag.
Raise(v, st) ==
  /\ cpu' = Entered(v, st)
  /\ iflag' = FALSE
  /\ polled' = FALSE

\* Something goes wrong: kernel_main touches unmapped memory, overflows its
\* stack, or a vector without a gate arrives: another exception, or an interrupt
\* nobody asked for.  The latter also strikes a kernel that panics, or waits in
\* hcf, with interrupts on.
Fault ==
  /\ \E what \in {"page_fault", "overflow", "stray_vector"} :
       /\ \/ cpu = "main" /\ cause = "none"
          \/ cpu \in {"panic", "no_framebuffer", "hcf"} /\ iflag /\ what = "stray_vector"
       /\ cause' = what
       /\ stack' = IF what = "overflow" THEN "overflowed" ELSE stack
       /\ Raise(IF what = "overflow" THEN "page_fault" ELSE what, stack')
  /\ earlier' = IF cpu = "hcf" THEN <<cause>> ELSE <<>>
  /\ UNCHANGED <<uart, pc, init, screen, segments, TICKS>>

\* iretq reloads SS, which the GDT must define: it faults otherwise.
CanReturn == ss = gdt

\* timer_handler from entry to iretq; Input has its inside.
Tick ==
  /\ iflag /\ cpu \in {"main", "panic", "no_framebuffer", "hcf"}
  /\ TICKS' = IF TICKS < BootTicks THEN TICKS + 1 ELSE TICKS
  /\ IF Enterable("timer", stack) /\ CanReturn
     THEN UNCHANGED <<cpu, iflag, polled>>
     ELSE Raise("stray_vector", stack)
  /\ UNCHANGED <<uart, pc, init, history, screen, segments, stack>>

-----------------------------------------------------------------------------
(* Printing.                                                               *)

Speaking == \/ cpu = "main" /\ init > Len(SerialProgram) /\ Script[pc] \in Says
            \/ cpu \in {"breakpoint", "page_fault", "panic", "no_framebuffer"}

PollThrAtOnce ==                                                 \* a mutant
  /\ Speaking /\ ~polled
  /\ polled' = TRUE
  /\ UNCHANGED <<uart, pc, init, cpu, history, screen, segments, iflag, stack, TICKS>>

\* The wait of write_str; interrupts may come between it and the write.
PollThr ==
  /\ Speaking /\ ~polled /\ ThrEmpty
  /\ polled' = TRUE
  /\ UNCHANGED <<uart, pc, init, cpu, history, screen, segments, iflag, stack, TICKS>>

\* The write; then kernel_main goes on, the breakpoint returns, and a last
\* resort ends in hcf.
WriteByte ==
  /\ Speaking /\ polled
  /\ Outb(0, IF cpu = "main" THEN Script[pc] ELSE cpu)
  /\ polled' = FALSE
  /\ pc' = IF cpu = "main" THEN pc + 1 ELSE pc
  /\ cpu' = CASE cpu = "main" -> "main" [] cpu = "breakpoint" -> "iret" [] OTHER -> "hcf"
  /\ UNCHANGED <<init, history, screen, segments, iflag, stack, TICKS>>

\* breakpoint_handler returns to kernel_main.
ReturnFromBreakpoint ==
  /\ cpu = "iret"
  /\ IF CanReturn THEN /\ cpu' = "main" /\ pc' = pc + 1
                       /\ UNCHANGED <<iflag, polled>>
     ELSE Raise("stray_vector", stack) /\ UNCHANGED pc
  /\ UNCHANGED <<uart, init, history, screen, segments, stack, TICKS>>

DoubleFaultSpins == cpu = "double_fault" /\ UNCHANGED vars       \* a mutant

\* double_fault_handler panics.
DoubleFault ==
  /\ cpu = "double_fault"
  /\ cpu' = "panic"
  /\ UNCHANGED <<uart, control, history, screen, segments, iflag, stack, TICKS>>

-----------------------------------------------------------------------------
(* kernel_main.                                                            *)

Do(name) == cpu = "main" /\ init > Len(SerialProgram) /\ Script[pc] = name

InitSerial ==
  /\ cpu = "main" /\ init <= Len(SerialProgram)
  /\ Outb(SerialProgram[init][1], SerialProgram[init][2])
  /\ init' = init + 1
  /\ UNCHANGED <<pc, polled, cpu, history, screen, segments, iflag, stack, TICKS>>

LoadSegmentsSs ==                          \* a mutant: SS is not reloaded
  /\ \/ Do("gdt") /\ gdt' = "kernel" /\ UNCHANGED <<cs, ss, tss, idtCs>>
     \/ Do("cs")  /\ cs' = gdt       /\ UNCHANGED <<gdt, ss, tss, idtCs>>
     \/ Do("ss")                     /\ UNCHANGED <<gdt, cs, ss, tss, idtCs>>
     \/ Do("tss") /\ tss' = TRUE     /\ UNCHANGED <<gdt, cs, ss, idtCs>>
  /\ pc' = pc + 1
  /\ UNCHANGED <<uart, init, polled, cpu, history, screen, iflag, stack, TICKS>>

\* gdt::init.
LoadSegments ==
  /\ \/ Do("gdt") /\ gdt' = "kernel" /\ UNCHANGED <<cs, ss, tss, idtCs>>
     \/ Do("cs")  /\ cs' = gdt       /\ UNCHANGED <<gdt, ss, tss, idtCs>>
     \/ Do("ss")  /\ ss' = gdt       /\ UNCHANGED <<gdt, cs, tss, idtCs>>
     \/ Do("tss") /\ tss' = TRUE     /\ UNCHANGED <<gdt, cs, ss, idtCs>>
  /\ pc' = pc + 1
  /\ UNCHANGED <<uart, init, polled, cpu, history, screen, iflag, stack, TICKS>>

InitIdtEarly ==            \* a mutant: built before gdt::init, loaded here
  /\ Do("idt")
  /\ idtCs' = "boot"
  /\ pc' = pc + 1
  /\ UNCHANGED <<uart, init, polled, cpu, history, screen, gdt, cs, ss, tss, iflag, stack,
                 TICKS>>

\* interrupts::init_idt: the table is built on first use, with the CS of then.
InitIdt ==
  /\ Do("idt")
  /\ idtCs' = cs
  /\ pc' = pc + 1
  /\ UNCHANGED <<uart, init, polled, cpu, history, screen, gdt, cs, ss, tss, iflag, stack,
                 TICKS>>

Int3 ==
  /\ Do("int3")
  /\ Raise("breakpoint", stack)
  /\ UNCHANGED <<uart, pc, init, history, screen, segments, stack, TICKS>>

\* The steps that need something they may not get: the physical memory offset,
\* frames for the heap, memory from it, or an answer of the controller.
Panics == {"offset", "heap", "use_heap", "pci", "xhci", "line", "render"}

Panic ==
  /\ cpu = "main" /\ init > Len(SerialProgram) /\ Script[pc] \in Panics
  /\ Script[pc] = "render" => screen
  /\ cpu' = "panic" /\ cause' = "panic"
  /\ UNCHANGED <<uart, control, earlier, screen, segments, iflag, stack, TICKS>>

\* A step comes to its end: of its own work, or with the answer of a port, a
\* controller or the user.
Advance(names) ==
  /\ \E name \in names : Do(name)
  /\ pc' = pc + 1
  /\ UNCHANGED <<uart, init, polled, cpu, history, screen, segments, iflag, stack, TICKS>>

Work == Advance({"offset", "heap", "use_heap", "pci"})
Answer == Advance({"xhci", "line"})

EnableInterruptsForgotten ==                                     \* a mutant
  /\ Do("interrupts")
  /\ pc' = pc + 1
  /\ UNCHANGED <<uart, init, polled, cpu, history, screen, segments, iflag, stack, TICKS>>

EnableInterrupts ==
  /\ Do("interrupts")
  /\ iflag' = TRUE
  /\ pc' = pc + 1
  /\ UNCHANGED <<uart, init, polled, cpu, history, screen, segments, stack, TICKS>>

WaitTicks ==
  /\ Do("ticks") /\ TICKS >= BootTicks
  /\ pc' = pc + 1
  /\ UNCHANGED <<uart, init, polled, cpu, history, screen, segments, iflag, stack, TICKS>>

\* Without a framebuffer kernel_main says so and stops.
NoFramebuffer ==
  /\ Do("render") /\ ~screen
  /\ cpu' = "no_framebuffer" /\ cause' = "no_framebuffer"
  /\ UNCHANGED <<uart, control, earlier, screen, segments, iflag, stack, TICKS>>

\* render::run loops, read_line waits for Enter, xHCI bring-up may spin on a
\* port, hcf halts, a reset machine is gone.
Idle ==
  /\ \/ Do("render") /\ screen
     \/ Do("line") \/ Do("xhci")
     \/ cpu \in {"hcf", "reset"}
  /\ UNCHANGED vars

KernelMain ==
  \/ InitSerial \/ LoadSegments \/ InitIdt \/ Int3 \/ Work \/ EnableInterrupts
  \/ WaitTicks \/ NoFramebuffer \/ PollThr \/ WriteByte \/ ReturnFromBreakpoint
  \/ DoubleFault

Uart == Transmit /\ UNCHANGED <<control, cpu, history, screen, segments, iflag, stack, TICKS>>

Next == KernelMain \/ Answer \/ Panic \/ Fault \/ Tick \/ Uart \/ Idle

Spec == Init /\ [][Next]_vars

\* The CPU runs, the UART sends what it holds, the PIT ticks; nothing has to
\* fail, no port has to answer and nobody has to type.
FairSpec == Spec /\ WF_vars(KernelMain) /\ WF_vars(Uart) /\ WF_vars(Tick)

-----------------------------------------------------------------------------
(* Properties.                                                             *)

Parked == {"page_fault", "double_fault", "panic", "no_framebuffer", "hcf"}

\* Every variable has a value of its type.
TypeOK ==
  /\ dlab \in BOOLEAN /\ divisor \in (0..255) \X (0..255) /\ Len(thr) <= 1
  /\ pc \in 1..Len(Script) /\ init \in 1..(Len(SerialProgram) + 1) /\ polled \in BOOLEAN
  /\ cpu \in Parked \cup {"main", "breakpoint", "iret", "reset"}
  /\ cause \in {"none", "page_fault", "overflow", "stray_vector", "panic", "no_framebuffer"}
  /\ earlier \in {<<>>, <<"panic">>, <<"no_framebuffer">>}
  /\ {gdt, cs, ss} \subseteq {"boot", "kernel"} /\ idtCs \in {"none", "boot", "kernel"}
  /\ {screen, tss, iflag} \subseteq BOOLEAN /\ stack \in {"good", "overflowed"}
  /\ TICKS \in 0..BootTicks

\* From init_idt on no fault, stack overflow or vector without a gate resets
\* the machine: the double fault's stack "can't escalate into a triple fault"
\* (gdt.rs:3-5), at whatever step it strikes.
NoTripleFault == idtCs # "none" => cpu # "reset"

\* The breakpoint and the timer return to kernel_main: the kernel only ever
\* stops because of a fault, a panic or a missing screen ("otherwise returning
\* from any interrupt double-faults", gdt.rs:54).
ParksForCause == cpu \in Parked => cause # "none"

\* What step n of kernel_main puts on COM1, the breakpoint's line included, and
\* what the steps before step n have put there.
Line(n) == IF Script[n] = "int3" THEN <<"breakpoint">>
           ELSE IF Script[n] \in Says THEN <<Script[n]>> ELSE <<>>
LoggedBefore[n \in 1..Len(Script)] ==
  IF n = 1 THEN <<>> ELSE LoggedBefore[n - 1] \o Line(n - 1)
Logged(n) == LoggedBefore[n]

\* What the handlers have put there since: a double fault comes out as a panic.
LastReport == CASE cpu = "iret" -> <<"breakpoint">>
                [] cpu = "hcf" -> <<IF cause \in {"page_fault", "no_framebuffer"} THEN cause
                                    ELSE "panic">>
                [] OTHER -> <<>>
Report == earlier \o LastReport

\* Every line that has been printed is on the wire or in the UART, once and in
\* order, whatever interrupts or stops kernel_main between the poll and the
\* write of write_str; the divisor written by serial::init is never a line.
LogIntact == wire \o thr = Logged(pc) \o Report

\* Boot never hangs at a step of its own: it comes to the controller, the
\* prompt or the animation, or parks the CPU, or resets.
Settled == Do("xhci") \/ Do("line") \/ (Do("render") /\ screen) \/ cpu \in {"hcf", "reset"}
BootSettles == []<>Settled

\* What stops the kernel once the IDT is loaded is told on COM1 in the end, also
\* when it strikes a kernel that has stopped already: the UART drains and the CPU
\* is parked by hcf.
FaultsReported ==
  (cause # "none" /\ idtCs # "none") ~> (cpu = "hcf" /\ wire = Logged(pc) \o Report)
=============================================================================
