------------------------------- MODULE Input --------------------------------
(***************************************************************************)
(* The interrupt-driven input path of the kernel: interrupts.rs, the       *)
(* driver half of keyboard.rs and the parts of kernel_main and render::run *)
(* that wait for ticks and read keys.                                      *)
(*                                                                         *)
(* One CPU runs kernel_main (`main') and, whenever the interrupt flag is   *)
(* set, the timer and keyboard handlers (`isr').  A handler is entered     *)
(* through an interrupt gate, which clears the flag until iret, so a       *)
(* handler is never interrupted; kernel_main can be, between any two of    *)
(* its steps.  The 8259 PIC, the PIT and the 8042 keyboard controller run  *)
(* beside the CPU.                                                         *)
(***************************************************************************)
EXTENDS RingBuffer, Keyboard, FiniteSets

CONSTANTS Keys,        \* the keys of the keyboard that get pressed
          MaxEvents,   \* bound: how many presses and releases happen
          FifoCap,     \* bound: scancodes waiting in the keyboard and 8042
          BootTicks    \* kernel_main waits for this many ticks (10)

ASSUME InputAssumption ==
  /\ Keys \subseteq (1 .. 127) \cup (257 .. 383)
  /\ MaxEvents \in Nat
  /\ FifoCap \in Nat
  /\ BootTicks \in Nat

Timer == 0             \* IRQ lines of the master PIC
Kbd   == 1
FirmwareOffset == 8    \* the vectors the firmware leaves in the PIC
PIC_1_OFFSET   == 32

VARIABLES
  main,       \* where kernel_main stands
  phase,      \* what it reads keys for: nothing yet, read_line, the echo loop
  isr,        \* where the running handler stands, "none" outside handlers
  iflag,      \* the CPU's interrupt flag
  offset,     \* first vector of the master PIC
  irr,        \* PIC: lines requesting an interrupt
  inService,  \* PIC: lines whose end of interrupt is awaited
  fifo,       \* scancodes sent and not yet read from port 0x60
  held,       \* keys physically down
  events,     \* presses and releases so far
  owed,       \* history: the characters of presses not pushed yet
  TICKS,      \* the tick counter
  SHIFT,      \* the shift flag
  ch,         \* the character the keyboard handler is about to push
  BUF,        \* the ring buffer
  bufLock,    \* who holds the spin lock of BUF: "none" or "main"
  picsLock,   \* who holds the spin lock of PICS: "none" or "main"
  got,        \* what the latest read_char returned
  line,       \* the line read_line has built
  consumed    \* history: the characters read_line has been given

cpu      == <<main, phase, isr, iflag>>
pic      == <<offset, irr, inService>>
keyboard == <<fifo, held, events, owed>>
driver   == <<TICKS, SHIFT, ch, BUF, bufLock, picsLock>>
reader   == <<got, line, consumed>>
vars     == <<cpu, pic, keyboard, driver, reader>>

Init ==
  /\ main = "pics" /\ phase = "boot" /\ isr = "none" /\ iflag = FALSE
  /\ offset = FirmwareOffset /\ irr = {} /\ inService = {}
  /\ fifo = <<>> /\ held = {} /\ events = 0 /\ owed = <<>>
  /\ TICKS = 0 /\ SHIFT = FALSE /\ ch = None
  /\ BUF = RingNew /\ bufLock = "none" /\ picsLock = "none"
  /\ got = None /\ line = <<>> /\ consumed = <<>>

-----------------------------------------------------------------------------
(* The devices.                                                            *)

\* A period of the PIT ends.  A request already pending absorbs it.
PitEdge ==
  /\ irr' = irr \cup {Timer}
  /\ UNCHANGED <<offset, inService, cpu, keyboard, driver, reader>>

\* The keyboard sends scancodes; the 8042 raises IRQ1 when its output buffer
\* fills, an edge, so not again while a byte waits there.
Send(codes) ==
  /\ events < MaxEvents
  /\ Len(fifo) + Len(codes) <= FifoCap
  /\ fifo' = fifo \o codes
  /\ events' = events + 1
  /\ irr' = IF fifo = <<>> THEN irr \cup {Kbd} ELSE irr
  /\ UNCHANGED <<offset, inService, cpu, driver, reader>>

ShiftHeld == held \cap ShiftKeys # {}

\* A held key repeats its make code.
KeyDown(k) ==
  /\ Send(MakeCodes(k))
  /\ held' = held \cup {k}
  /\ owed' = owed \o Types(k, ShiftHeld, None)

KeyUp(k) ==
  /\ k \in held
  /\ Send(BreakCodes(k))
  /\ held' = held \ {k}
  /\ UNCHANGED owed

\* The PIC interrupts the CPU with its most urgent request, unless a line at
\* least as urgent is in service.  The CPU enters the IDT's handler for the
\* vector ("fault" when that is an exception or absent) and leaves hlt.
Deliver(irq) ==
  /\ iflag /\ isr = "none"
  /\ irq \in irr
  /\ \A other \in irr : irq <= other
  /\ \A other \in inService : irq < other
  /\ irr' = irr \ {irq}
  /\ inService' = inService \cup {irq}
  /\ iflag' = FALSE
  /\ isr' = CASE offset + irq = PIC_1_OFFSET + Timer -> "tick"
              [] offset + irq = PIC_1_OFFSET + Kbd   -> "scan"
              [] OTHER -> "fault"
  /\ main' = IF main # "halted" THEN main
             ELSE IF phase = "boot" THEN "wait" ELSE "lock"
  /\ UNCHANGED <<phase, offset, keyboard, driver, reader>>

-----------------------------------------------------------------------------
(* The handlers.                                                           *)

\* Only `ticks() < 10' looks at the counter in this module, so it stops at
\* BootTicks here.
TimerTick ==
  /\ isr = "tick"
  /\ isr' = "eoi"
  /\ TICKS' = IF TICKS < BootTicks THEN TICKS + 1 ELSE TICKS
  /\ UNCHANGED <<main, phase, iflag, pic, keyboard, SHIFT, ch, BUF, bufLock,
                 picsLock, reader>>

\* What handle_scancode makes of a scancode: the shift flag and the character.
NextShiftSticky(sc, shifted) == sc \in ShiftKeys \/ shifted   \* a mutant

NextShift(sc, shifted) ==
  IF sc \in ShiftKeys THEN TRUE
  ELSE IF sc - 128 \in ShiftKeys THEN FALSE
  ELSE shifted

Typed(sc, shifted) ==
  IF IsBreak(sc) THEN None ELSE ScancodeToChar(sc, shifted, None)

\* Every return of handle_scancode leads to the end of interrupt.
AfterScancodeReturns(c) == IF c = None THEN "iret" ELSE "push"   \* a mutant

AfterScancode(c) == IF c = None THEN "eoi" ELSE "push"

\* A mutant: the handler returns without reading the port.
HandleScancodeUnread ==
  /\ isr = "scan" /\ isr' = "eoi"
  /\ UNCHANGED <<main, phase, iflag, pic, keyboard, driver, reader>>

\* handle_scancode up to the push.  Reading port 0x60 empties the output
\* buffer; the 8042 moves the next byte in, if there is one: a new edge.
HandleScancode ==
  /\ isr = "scan"
  /\ fifo # <<>>
  /\ fifo' = Tail(fifo)
  /\ irr' = IF Len(fifo) > 1 THEN irr \cup {Kbd} ELSE irr
  /\ SHIFT' = NextShift(Head(fifo), SHIFT)
  /\ ch' = Typed(Head(fifo), SHIFT)
  /\ isr' = AfterScancode(ch')
  /\ UNCHANGED <<main, phase, iflag, offset, inService, held, events, owed,
                 TICKS, BUF, bufLock, picsLock, reader>>

\* BUF.lock().push(c): spins, with interrupts off, while the lock is taken.
PushChar ==
  /\ isr = "push"
  /\ bufLock = "none"
  /\ BUF' = Push(BUF, ch)
  /\ owed' = SubSeq(owed, 2, Len(owed))
  /\ isr' = "eoi"
  /\ UNCHANGED <<main, phase, iflag, pic, fifo, held, events, TICKS, SHIFT, ch, bufLock,
                 picsLock, reader>>

\* PICS.lock().notify_end_of_interrupt(..): retires the line in service.
NotifyTimerOnly ==                                               \* a mutant
  /\ isr = "eoi" /\ isr' = "iret"
  /\ inService' = inService \ {Timer}
  /\ UNCHANGED <<main, phase, iflag, offset, irr, keyboard, driver, reader>>

NotifyEndOfInterrupt ==
  /\ isr = "eoi"
  /\ picsLock = "none"
  /\ inService' = {}
  /\ isr' = "iret"
  /\ UNCHANGED <<main, phase, iflag, offset, irr, keyboard, driver, reader>>

Iret ==
  /\ isr = "iret"
  /\ isr' = "none"
  /\ iflag' = TRUE
  /\ UNCHANGED <<main, phase, pic, keyboard, driver, reader>>

-----------------------------------------------------------------------------
(* kernel_main.  It runs between handlers and not while halted.            *)

Goto(from, to) ==
  /\ isr = "none"
  /\ main = from
  /\ main' = to

\* interrupts::init(): PICS.lock().initialize().  The initialisation command
\* resets the edge detectors of the 8259, so requests made so far are gone.
LockPicsAfterSti ==                        \* a mutant: interrupts already on
  /\ Goto("pics", "initialize")
  /\ iflag' = TRUE
  /\ picsLock' = "main"
  /\ UNCHANGED <<phase, isr, pic, keyboard, TICKS, SHIFT, ch, BUF, bufLock,
                 reader>>

LockPics ==
  /\ Goto("pics", "initialize")
  /\ picsLock' = "main"
  /\ UNCHANGED <<phase, isr, iflag, pic, keyboard, TICKS, SHIFT, ch, BUF,
                 bufLock, reader>>

InitializePicsKeepsGuard ==     \* a mutant: the lock's guard outlives its use
  /\ Goto("initialize", "enable")
  /\ offset' = PIC_1_OFFSET
  /\ irr' = {}
  /\ UNCHANGED <<phase, isr, iflag, inService, keyboard, driver, reader>>

InitializePics ==
  /\ Goto("initialize", "enable")
  /\ offset' = PIC_1_OFFSET
  /\ irr' = {}
  /\ picsLock' = "none"
  /\ UNCHANGED <<phase, isr, iflag, inService, keyboard, TICKS, SHIFT, ch,
                 BUF, bufLock, reader>>

\* The rest of interrupts::init(): the PIT is programmed, interrupts go on.
EnableInterrupts ==
  /\ Goto("enable", "wait")
  /\ iflag' = TRUE
  /\ UNCHANGED <<phase, isr, pic, keyboard, driver, reader>>

\* while interrupts::ticks() < 10 { hlt() }
WaitTicks ==
  /\ Goto("wait", IF TICKS < BootTicks THEN "hlt" ELSE "bringup")
  /\ UNCHANGED <<phase, isr, iflag, pic, keyboard, driver, reader>>

\* PCI and xHCI bring-up; nobody reads keys meanwhile.
BringUp ==
  /\ Goto("bringup", "lock")
  /\ phase' = "line"
  /\ UNCHANGED <<isr, iflag, pic, keyboard, driver, reader>>

\* read_char: BUF.lock().pop(), with interrupts on.
LockBuf ==
  /\ Goto("lock", "pop")
  /\ bufLock = "none"
  /\ bufLock' = "main"
  /\ UNCHANGED <<phase, isr, iflag, pic, keyboard, TICKS, SHIFT, ch, BUF,
                 picsLock, reader>>

PopChar ==
  /\ Goto("pop", "unlock")
  /\ got' = PopValue(BUF)
  /\ BUF' = PopRest(BUF)
  /\ UNCHANGED <<phase, isr, iflag, pic, keyboard, TICKS, SHIFT, ch, bufLock,
                 picsLock, line, consumed>>

UnlockBufForgotten ==                                            \* a mutant
  /\ Goto("unlock", IF got = None THEN "hlt" ELSE "use")
  /\ UNCHANGED <<phase, isr, iflag, pic, keyboard, driver, reader>>

UnlockBuf ==
  /\ Goto("unlock", IF got = None THEN "hlt" ELSE "use")
  /\ bufLock' = "none"
  /\ UNCHANGED <<phase, isr, iflag, pic, keyboard, TICKS, SHIFT, ch, BUF,
                 picsLock, reader>>

\* The window between finding nothing to do and sleeping ends.
Halt ==
  /\ Goto("hlt", "halted")
  /\ UNCHANGED <<phase, isr, iflag, pic, keyboard, driver, reader>>

\* The arms of read_line's match.
LineOfClears(l, c) == IF c = Backspace THEN <<>> ELSE Append(l, c)  \* a mutant

LineOf(l, c) ==
  IF c = Backspace THEN (IF l = <<>> THEN l ELSE SubSeq(l, 1, Len(l) - 1))
  ELSE Append(l, c)

ReadLine ==
  /\ phase = "line"
  /\ Goto("use", "lock")
  /\ \/ /\ got = Newline
        /\ phase' = "echo"
        /\ UNCHANGED <<line, consumed>>
     \/ /\ got # Newline
        /\ line' = LineOf(line, got)
        /\ consumed' = Append(consumed, got)
        /\ UNCHANGED phase
  /\ UNCHANGED <<isr, iflag, pic, keyboard, driver, got>>

\* render::run prints the character and asks for the next one.  Its frame
\* drawing, between the empty read and hlt, touches nothing modelled here.
Echo ==
  /\ phase = "echo"
  /\ Goto("use", "lock")
  /\ UNCHANGED <<phase, isr, iflag, pic, keyboard, driver, reader>>

-----------------------------------------------------------------------------
Device == PitEdge \/ \E k \in Keys : KeyDown(k) \/ KeyUp(k)

Handler == TimerTick \/ HandleScancode \/ PushChar \/ NotifyEndOfInterrupt \/ Iret

KernelMain ==
  \/ LockPics \/ InitializePics \/ EnableInterrupts \/ WaitTicks \/ BringUp
  \/ LockBuf \/ PopChar \/ UnlockBuf \/ Halt \/ ReadLine \/ Echo

Next ==
  \/ Device
  \/ \E irq \in {Timer, Kbd} : Deliver(irq)
  \/ Handler
  \/ KernelMain

Spec == Init /\ [][Next]_vars

\* A handler takes far less than the 10 ms of a timer period: as long as
\* handlers keep returning, the CPU is again and again outside a handler with
\* no tick pending.
TimerLeavesRoom ==
  []<><<Iret>>_vars => []<>(isr = "none" /\ Timer \notin irr)

\* The CPU never stops executing the code it is in, the PIT never stops, and a
\* request the PIC may deliver is delivered.  Nobody has to press a key.
Fairness ==
  /\ WF_vars(PitEdge)
  /\ WF_vars(Deliver(Timer)) /\ SF_vars(Deliver(Kbd))
  /\ WF_vars(Handler)
  /\ SF_vars(KernelMain)
  /\ TimerLeavesRoom

FairSpec == Spec /\ Fairness

-----------------------------------------------------------------------------
(* Properties.                                                             *)

MainPC == {"pics", "initialize", "enable", "wait", "bringup", "lock", "pop",
           "unlock", "use", "hlt", "halted"}

IsrPC == {"none", "tick", "scan", "push", "eoi", "iret", "fault"}

\* Type invariant of the input path: every variable stays in its type, the
\* ring indices of keyboard.rs below BUF_SIZE included.
TypeOK ==
  /\ main \in MainPC /\ phase \in {"boot", "line", "echo"}
  /\ isr \in IsrPC /\ iflag \in BOOLEAN
  /\ offset \in {FirmwareOffset, PIC_1_OFFSET}
  /\ irr \in SUBSET {Timer, Kbd} /\ inService \in SUBSET {Timer, Kbd}
  /\ fifo \in Seq(0 .. 255)
  /\ held \in SUBSET Keys /\ events \in Nat /\ owed \in Seq(Char)
  /\ TICKS \in Nat /\ SHIFT \in BOOLEAN /\ ch \in Char \cup {None}
  /\ BUF \in [data : [Slots -> Char \cup {NUL}], head : Slots, tail : Slots]
  /\ bufLock \in {"none", "main"} /\ picsLock \in {"none", "main"}
  /\ got \in Char \cup {None}
  /\ line \in Seq(Char) /\ consumed \in Seq(Char)

\* The buffer, as its interrupt-side writer and its kernel_main-side reader
\* use it, implements the FIFO of BoundedQueue with BUF_SIZE - 1 places:
\* whatever the interleaving, keys reach the reader in the order typed, once.
Queue == INSTANCE BoundedQueue
           WITH Capacity <- N - 1, NoChar <- None,
                queue <- Contents(BUF), answer <- got

BufferIsFifo == Queue!Spec

\* Every interrupt the CPU takes has a handler: none arrives on the vectors
\* the firmware left in the PIC, where IRQ0 is the double fault.
NoStrayInterrupt == isr # "fault"

\* timer_handler and keyboard_handler never find PICS locked by the code they
\* interrupted, so the end of interrupt cannot deadlock.
PicsNeverContended == isr \in {"tick", "scan", "push", "eoi"} => picsLock = "none"

\* A line is in service exactly while its handler has not acknowledged it: no
\* path through a handler skips the end of interrupt, which would silence the
\* line and every less urgent one for good.
EveryInterruptAcknowledged ==
  inService # {} <=> isr \in {"tick", "scan", "push", "eoi", "fault"}

\* IRQ1 is pending or being served exactly while a scancode waits in the 8042.
Announced == fifo # <<>> <=> Kbd \in irr \/ isr = "scan"

\* The edge that announces a scancode is lost, which leaves the keyboard dead,
\* in one way only: a key is pressed before interrupts::init() initialises the
\* PIC, whose edge detectors that resets, and nothing reads port 0x60 after it
\* (interrupts.rs:72-84).  No order of presses, ticks and handlers does it, and
\* the handler never reads an empty port.
ScancodeNotStranded == [][Announced => Announced' \/ InitializePics]_vars

\* Every character pushed is the legend of the oldest key press not yet
\* answered, under the shift held at that press ("a US QWERTY map with shift
\* awareness", keyboard.rs:3-4), and once the scancodes are handled no press is
\* unanswered: releases, repeats, prefixes and delays type nothing of their own.
DecodedAsPressed ==
  /\ isr = "push" => owed # <<>> /\ ch = Head(owed)
  /\ fifo = <<>> /\ isr # "push" => owed = <<>>

\* The line read_line has built is what remains of the characters it was
\* given once each backspace has erased the nearest character before it not
\* yet erased: position i survives if no later stretch holds more backspaces
\* than characters.
Survives(i) ==
  /\ consumed[i] # Backspace
  /\ \A j \in i + 1 .. Len(consumed) :
       LET after  == i + 1 .. j
           erases == {k \in after : consumed[k] = Backspace}
       IN  Cardinality(erases) <= Cardinality(after \ erases)

LineIsSurvivors ==
  LET kept == {i \in 1 .. Len(consumed) : Survives(i)}
  IN  /\ Len(line) = Cardinality(kept)
      /\ \A i \in kept :
           line[Cardinality({j \in kept : j <= i})] = consumed[i]

\* The keyboard handler spins on BUF's lock while the code it interrupted
\* holds it: on one CPU, with interrupts off, for ever.
SelfDeadlock == isr = "push" /\ bufLock = "main"

\* Every key typed gets to its reader: despite the window between finding the
\* buffer empty and hlt, and despite reads and pushes interleaving, scancodes
\* and buffered characters drain, unless the self-deadlock happens or a key
\* pressed before the PIC was initialised has left its scancode unannounced.
KeysReachReader ==
  (fifo # <<>> \/ ~IsEmpty(BUF))
     ~> (fifo = <<>> /\ IsEmpty(BUF)) \/ SelfDeadlock \/ ~Announced

\* kernel_main gets past its waits: the line of main.rs's smoke test is read
\* once Enter has been typed, unless the self-deadlock happens.
EnterEndsReadLine ==
  (isr = "push" /\ ch = Newline /\ ~(Count(BUF) = N - 1))
     ~> (phase = "echo" \/ SelfDeadlock)

-----------------------------------------------------------------------------
(* What comments say and the code does not do.                             *)

\* keyboard.rs:5 calls the buffer lock-free, so an interrupt could never wait
\* for the reader it interrupted.
NoSelfDeadlock == ~SelfDeadlock

\* keyboard.rs:32 says of a push "Drop the oldest if full", so the key typed
\* last would be in the buffer afterwards and the one typed first gone.
DropsOldest ==
  [][PushChar /\ Count(BUF) = N - 1
       => Contents(BUF') = Append(Tail(Contents(BUF)), ch)]_vars
=============================================================================
