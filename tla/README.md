# punkos: verification of the kernel

punkos is a single-CPU x86_64 kernel in Rust. `kernel_main` brings up memory,
the timer, the PCI bus, a USB host controller and the PS/2 keyboard one after
the other, then runs an animation that echoes keys. This directory holds TLA+
models of its parts, TLC runs that check them on small instances and TLAPS
proofs of the properties that matter most for every instance. `PROJECT.json`
lists components, runs, mutants, findings, hazards and theorems, and maps each
definition to the source lines it models.

## The system

| Part | State | Operations | Hard because |
|---|---|---|---|
| keystroke buffer (`keyboard.rs`) | ring of 256 slots, head, tail | new, push, pop | written in an interrupt, read outside; full, wrap |
| scancode decoding (`keyboard.rs`) | SHIFT | handle_scancode | early returns, two shift keys, extended codes of two bytes |
| line reader (`keyboard.rs`) | line | read_char, read_char_blocking, read_line | spin lock shared with an interrupt; check, then `hlt` |
| interrupts (`interrupts.rs`) | TICKS, PICS, IDT | init, timer and keyboard handlers | runs between any two steps of `kernel_main` |
| frames and page tables (`memory.rs`) | next, page-table memory | skip_below, allocate_frame, virt_to_phys | one allocator, two users; may run dry anywhere |
| heap (`allocator.rs`) | ALLOCATOR | init_heap | fails half-way |
| xHCI driver (`xhci.rs`) | registers, rings, ports | init, noop, initialise_ports | hardware acts concurrently; order of register writes; DMA |
| PCI (`pci.rs`) | list of devices | enumerate, read_bar, find_xhci | 64-bit BARs, bridges, devices that answer for every function |
| renderer, framebuffer (`render.rs`, `framebuffer.rs`) | canvas, framebuffer, last frame | clear, draw, present_rows, run | the display reads and the timer ticks meanwhile; clipping |
| serial (`serial.rs`) | UART | init, print | polling, interrupted anywhere; divisor latch |
| GDT, TSS, IDT (`gdt.rs`, `interrupts.rs`) | tables and selectors in force | init, init_idt, exception handlers | an exception may strike between any two of their steps |
| boot (`main.rs`) | the step reached | kernel_main, panic, hcf | order of the steps; every step may fail |
| host runner (`os/`) | none | build and start QEMU | nothing |

Interaction: the timer and keyboard handlers share BUF, SHIFT, TICKS and PICS
with `kernel_main`; `init_heap` drives the frame allocator directly and through
`map_to`; the xHCI rings live in the heap and are given to the hardware by
physical address (`virt_to_phys`); the controller reads and writes them by DMA.

What makes each part correct:

* buffer: a FIFO that loses a character only when full;
* interrupts: every interrupt taken has a handler and is acknowledged, no
  handler waits for what it interrupted, no keyboard edge is lost;
* line reader: what was typed, edited by backspaces, and it does come back;
* memory: no frame has two uses, no translation changes, the heap is handed out
  only when all of it is mapped;
* boot: an exception is reported whenever it strikes, interrupts return, the log
  is whole, and boot gets to its end or says why not;
* PCI: every function of the machine once, its BARs as they were programmed, the
  first usable controller;
* renderer: whole frames in order, for every mode, without stopping;
* xHCI: the documented bring-up order against hardware that takes its time, no
  event mistaken for another, DMA only into memory that is owned.

## Modules

`RingBuffer` — `RingBuffer<N>` as operators on its value (`Push`, `PopValue`,
`PopRest`), and the queue it stands for (`Contents`). `BoundedQueue` is the
abstract FIFO: a full queue drops the newcomer, as the code does (keyboard.rs:33);
that its comment says otherwise is the finding `input_full`.

`Keyboard` — the scancode table. A character is named by the key that types it,
plus 128 for a shifted legend; the table of the code is injective on these, so
nothing is lost by the renaming. Keys from 256 on are extended: they send 0xE0
and then a code. `Types` is what a press is meant to type, the legend of the key.

`Input` — the interrupt-driven input path. `main` and `isr` are the program
counters of `kernel_main` and of the running handler. A handler runs with
interrupts off (interrupt gate), so it is never interrupted itself;
`kernel_main` can be interrupted between any two of its actions, which are cut
at every lock, unlock and `hlt`. `Deliver` is the PIC and the CPU taking an
interrupt; `irr` and `inService` are the PIC's request and in-service
registers; `fifo` is the 8042's output buffer and what the keyboard holds behind
it. IRQ1 is an edge: it is raised when the output buffer fills, and reading
port 0x60 lets the next byte raise it again. Actions of `kernel_main`:
`LockPics`, `InitializePics`, `EnableInterrupts` (`interrupts::init`),
`WaitTicks` (the wait for ten ticks), `BringUp` (PCI and xHCI, during which
nobody reads keys), `LockBuf`, `PopChar`, `UnlockBuf` (`read_char`), `Halt`,
`ReadLine`, `Echo` (`render::run`). Handlers: `TimerTick`, `HandleScancode`,
`PushChar`, `NotifyEndOfInterrupt`, `Iret`. `owed` is a history of the characters
of key presses that have not been pushed yet. Keys may be pressed from the start:
`Announced` says that a waiting byte has an edge on its way, which the PIC's
initialisation takes from a byte that came before it. The PIC, PIT, keyboard and
8042 are external.

`Memory` — `BootInfoFrameAllocator`, `init_heap` and `virt_to_phys`, with page
tables as memory (`tables`: frame to table): `map_to` of the x86_64 crate
(external) writes them one level per step, taking frames from the same
allocator, and `VirtToPhys` walks them, 1 GiB and 2 MiB pages included. Memory
maps and the bootloader's page tables are chosen at the start; `TableAt` is the
table the walk reaches at a level, and the bootloader's tables are a tree
(`IsTree`). `AddressSpace` is
the abstract specification: heap pages get frames of their own, tables change no
translation.

`Xhci` — the driver as the sequential program it is and the controller as a
second, external actor. `Program` is the list of allocations and register writes
of init's steps 3 and 4, in the order of the code; a 64-bit register is two
halves, written one after the other. Register writes during a reset or before
the controller is ready are lost. Ports have the PORTSC bits CCS, PED, PR and
PRC; devices come and go at any time. PED, PRC and the bits of their kind are
cleared by writing 1, as xHCI has it (`Written`). Two things the hardware may do
differently are parameters: when it reads the event ring's segment table
(`ErstbaLatches`) and the USBCMD value the firmware leaves.

`Pci` — `enumerate` as the nested loops it is (`ProbeDevice`, `ProbeFunction`,
`ReadBar`, `PushDevice`; the loop over BARs is written twice in the code and once
here), then `ChooseController`, the part of `kernel_main` that picks what
`Controller::init` gets. The machine is external: functions with their headers
behind the host bridge, which takes `config_address` apart again. Base address
registers are numbers below `Word`, decoded by the arithmetic of `read_bar`;
other registers are records of their fields.

`Render` — `framebuffer::clear`, `Canvas`, the geometry, `blend`, `write_pixel`
and the loop of `run`: the echo of keys (`LockBuf`, `ReadSome`, `ReadNone`), the
test (`ReadFrame`), drawing, copying and `hlt`, with the timer ticking and keys
arriving at any point of it. A key that types while `read_char` holds its lock
ends in `spin`, the self-deadlock that `Input` has in detail. `present_rows` is one
step per pixel because the display looks on. `busy` counts the ticks since the
counter was last read, the one that ended `hlt` aside, and `delay` is its value
when the present frame was noticed. `Animation` is the abstract specification of
what is seen: the leader walks left to right, one bubble at a time; it may skip
one only when `late`, that is when the loop was busy for a whole step.

`Serial` — COM1: the register writes of `init`, the poll and the write of
`write_str` as two steps, and the UART that sends in its own time. A message
stands for a byte.

`Boot` — `kernel_main` from entry to `render::run` as the list `Script`, over
`Serial`. `LoadSegments` and `InitIdt` are the steps of `gdt::init` and
`init_idt`; `gdt`, `cs`, `ss`, `tss` and `idtCs` say whose table or selector is
in force. `Fault` lets a page fault, a stack overflow or a vector without a gate
strike at any step, and such a vector also a kernel that has stopped with
interrupts on (`earlier` keeps what had been reported by then); `Panic` lets a step that needs memory or an answer fail. How
the CPU delivers an exception is external (`Entered`): it needs a gate, a code
selector of the GDT in force and a stack, else it raises a double fault, else it
resets. The inside of the phases is in the modules above.

`MCInput`, `MCMemory`, `MCXhci`, `MCPci`, `MCRender` give the constants their
values for TLC. `RingBufferProofs`, `InputProofs`, `MemoryProofs`, `HeapProofs`,
`XhciProofs`, `PciProofs`, `RenderProofs` and `BootProofs` hold the proofs. Where liveness is
checked a module has `Spec`, which the theorems are about, and `FairSpec`, which
adds fairness to it for TLC.

Definitions marked as mutants (`PushNoWrap`, `WaitReadySkipped`, ...) are not part
of the models: each is a plausible bug in one definition, and TLC finds the
property paired with it in `PROJECT.json` violated when it replaces that
definition.

## Runs

Passing runs:

* `input` — three slots (two characters fit, so the ring fills and wraps), three key
  events of A, left shift, backspace and the keypad's Enter (an extended key),
  pressed from before the PIC is set up, one boot tick, three scancodes waiting at
  most. Checks `TypeOK`, `NoStrayInterrupt`, `PicsNeverContended`,
  `EveryInterruptAcknowledged`, `LineIsSurvivors` (the line against a declarative
  definition of which characters survive the backspaces), `DecodedAsPressed` (what is
  pushed is the legend of the key under the shift held when it was pressed, once per
  press), `ScancodeNotStranded` (no step but the PIC's initialisation loses the edge
  of a waiting byte), the refinement `BufferIsFifo` and, under `FairSpec`,
  `KeysReachReader` and `EnterEndsReadLine`.
* `memory_heap` — pages of 2 bytes and tables of 2 entries, so that the four heap
  pages cross tables on two levels; 70 memory maps, six sets of boot tables
  (free, built in part, and with a huge page or a page in the way). Too little
  memory fails at every possible request. Checks the refinement
  `HeapIsAddressSpace`, `TakenFramesAreSpare`, `HeapFullyMapped` and
  `SucceedsIffPossible` against a count of the frames needed.
* `xhci_bringup` — two ports, four TRBs, two polls, two devices coming or going,
  the controller left halted or running: `ResetWhileHalted`, `RunsConfigured`,
  `NoopTruthful`, `PortsSettled` (no port that has been passed, and whose device
  stayed, is left in reset or with its reset unacknowledged) and, under `FairSpec`,
  `BringUpEnds`.
* `pci_scan` — 228 machines of up to three functions: bridges, devices of several
  functions with a gap, devices that answer for every function, 64-bit BARs first,
  in the middle and last, I/O (4-byte granular) and empty BARs. `ScanExact`, `BarsDecoded`,
  `FirstControllerChosen`, `ScanEnds`.
* `render_loop` — four modes, one per pixel format, with bubbles that overlap, are
  cut off by the edges or have radius 0, with padded rows and buffers; a step of the
  animation is two ticks and the loop may be busy for three, so it does skip steps.
  `ScreenShowsWholeFrames` compares every pixel of the framebuffer in every state
  with an image computed from the brand's description; the refinement
  `LeaderWalks`; `AnimationGoesOn`.
* `boot` — three ticks, with and without a framebuffer, a fault or panic at any step
  and a stray vector on top of a panic or of `hcf` with interrupts on:
  `NoTripleFault`, `ParksForCause`, `LogIntact` and, under `FairSpec`,
  `BootSettles` and `FaultsReported`.

Runs that show a comment of the code not to hold (findings):

* `input_lock_free` — the handler can spin for ever on the buffer's lock.
* `input_two_shifts` — releasing one of two held shift keys clears SHIFT, and the
  letter pressed next comes out unshifted.
* `input_full` — a full buffer drops the character just typed, where keyboard.rs:32
  says "Drop the oldest if full".
* `xhci_erstsz` — the event ring's size is written after the write that uses it.
* `xhci_drop` — the controller writes events into freed memory.
* `render_tearing` — while a frame is copied the framebuffer holds it above the one
  before, where render.rs:8-10 says "no tearing"; `ScreenShowsWholeFrames` states what
  does hold.

Also met while modelling, and in the models, without a run of their own:

* a key pressed before the PIC is set up silences the keyboard: its byte waits in the
  8042, the initialisation takes its edge and nothing reads port 0x60 afterwards,
  where interrupts.rs:83-84 says "Nothing extra needed on the PIC side for PS/2".
  `ScancodeNotStranded` and `KeysReachReader` name this as their exception;
* the reset (xhci.rs:374) writes back the USBCMD value read before the stop,
  Run/Stop included;
* noop (xhci.rs:425) looks at slot 0 only, so a completion behind a port event is
  missed and a healthy controller reported as not responding;
* acknowledging a port reset (xhci.rs:457) writes the PED bit just read back as 1.
  In xHCI 1.2, which xhci.rs:4-5 refers to, PED is cleared by writing 1: the
  acknowledgement disables the port that the reset has just enabled. The model does
  so, and no property says that ports end enabled;
* main.rs:82-84 speaks of "Starting at 8 MB", the call below it passes 2 MB to
  `skip_below` (main.rs:85); `Memory` has the limit as the constant `MinAddr`;
* consecutive heap pages need not be physically consecutive, since `map_to` takes
  frames for tables between them and regions have gaps, while the controller is
  given the physical address of a ring's first byte only (xhci.rs:274);
* shift with the keypad's / types ?, as the prefix is ignored, an extended key whose
  second byte is that of a key that types (media keys) types that key's character,
  and keyboards that send fake shifts around extended keys would change SHIFT.

### Bounds

`MaxEvents`, `FifoCap`, `MaxPortEvents` and `MaxPolls` bound what would
otherwise be unbounded or huge. They are large enough for the interesting cases:
the ring fills, wraps and drops; a press, its release and a repeat are pending
together; a port event comes before, during and after the no-op. `TICKS` stops
at `BootTicks` because only `ticks() < 10` looks at it in `Input` and `Boot`; in
`Render` it runs modulo `TickCycle`, a multiple of three frames, since the loop
compares frames and takes them modulo 3. `PassTicks` bounds the ticks during which
the render loop may be busy in one pass; it is longer than a step of the animation,
so that steps are skipped, and shorter than a whole `TickCycle`, which is no part of
the code. The theorems hold for every such pair. `Word` and `PortWord` stand for 2^32 and 2^16; the machines'
addresses use both halves of a 64-bit BAR. `Buses`, `Devices` and `Functions` are
small enough to scan and large enough for a device with a gap between functions
and for controllers on two buses. In `Boot` a kernel is struck twice at most,
because a fault turns interrupts off for good. Deadlock
is checked in every passing run; the places where the program really stops or
spins for good (`Finished`, `SpinOnPort`) are explicit steps.

### Fairness

`Input`: the CPU executes the code it is in (weak fairness of handlers; strong
fairness of `kernel_main`, which handlers keep interrupting), the PIT keeps
running, and a request the PIC may deliver is delivered (strong for the
keyboard, which the timer outranks). `TimerLeavesRoom` states that a handler is
far shorter than a timer period. No key has to be pressed. The self-deadlock on
BUF defeats every one of these, and so does the PIC's initialisation over a waiting
byte, which is why `KeysReachReader` names both as its exceptions.

`Xhci`: the driver's loops spin, and the controller halts, resets, gets ready,
runs and ends port resets in finite time, as xHCI demands. It need not answer
the doorbell, since noop gives up. `BringUpEnds` names the one wait that can last
for ever: PRC of a port whose device was removed.

`Pci` and `Render`: the CPU runs the loop, and the timer ticks. In `Render` the echo
loop finds the buffer empty again and again (strong fairness of `ReadNone`): a
character takes far less time to print than to type. `AnimationGoesOn` names what
stops the animation all the same: no memory for the back buffer, the self-deadlock,
and a loop that is late again and again. `Boot`: the CPU
runs, the UART sends what it holds and the PIT ticks; no fault or panic has to
happen, no controller has to answer and nobody has to type, which is why
`BootSettles` counts waiting for them as an end.

## Proofs

`RingBufferProofs` — for every N > 0 and every set of characters: `PushAppends`,
`PopTakesHead`. The argument is about slots: `Count` and `SlotOf` describe the
occupied slots without a modulus, `NextIndex` removes the one in the code.

`InputProofs` — for every buffer size, keyboard, number of events and ticks. The
inductive invariant `IInv` adds to the properties that the slots in use hold
characters (`Filled`), and `Control`: which program counters hold which lock,
that interrupts stay off until the PIC is set up, and that handlers run with
interrupts off. From it:

* `TypeCorrect`: `Spec => []TypeOK`;
* `VectorsMovedFirst`: no stray interrupt; `HandlersNeverWait`: PICS is never
  contended; `InterruptsWellHandled`: every interrupt is acknowledged;
* `NoScancodeStranded` (`ScancodeNotStranded`): no step but `InitializePics` loses the
  edge of a waiting byte; needs `EdgeInv`, which adds that no second edge is pending
  while the handler has yet to read the port, and that an edge announces a byte that
  is there;
* `BufferImplementsFifo`: the refinement of `BoundedQueue`, from `PushAppends`
  and `PopTakesHead` under `IInv`;
* `KeysDecodedAsPressed` (`DecodedAsPressed`), under the hypothesis
  `PlainKeyboard`: at most one of the two shift keys is used (with both the
  property fails, which is the finding `input_two_shifts`), and no extended key
  sends, behind its prefix, the code of a key that types or shifts, the keypad's
  Enter apart (its slash too, if nothing is shifted: shift with the keypad's slash
  types ?). These are the keys the code decodes wrongly. `input` has such a keyboard. What is pushed is decoded long after
  the press, with the flag SHIFT as it is by then, while `owed` was written at the
  press with the key as it was held. `DecodeInv` relates the two: there are a
  course of the flag and a course of the number of characters typed along the
  scancodes still in the 8042 (`Pending`), which start at SHIFT and at what is
  being pushed, follow `handle_scancode` from code to code, and end at the shift key
  as it is held now and at all of `owed`. A key event lengthens the courses at the
  end (`ScancodeArrives`), handling a scancode cuts them at the front, and no
  recursion over the sequence is needed;
* `LineKeepsSurvivors` (`LineIsSurvivors`): `LineInv` says that the positions of the
  surviving characters, in order, are a sequence as long as the line, which holds
  those characters, and that the balance of characters against backspaces behind the
  k-th survivor is the number of survivors that follow it (`KeptAt`). This is what
  makes the invariant inductive: a backspace lowers every balance by one, and so
  erases the last survivor and no other.

`MemoryProofs` — for every memory map, every tree of page tables the bootloader
may leave, and every size of page, table and heap:

* `HeapImplementsSpace`: the refinement of `AddressSpace`;
* `TakenAreSpare` (`TakenFramesAreSpare`), `HeapIsMapped` (`HeapFullyMapped`),
  `MemoryTypes`.

The first part is about page tables alone. `Translates` restates `VirtToPhys` by
the entries a walk meets; `WriteElsewhere` says that a write to one entry is seen
only by walks that share the address bits above it, because no table is reached on
two ways; `NewTable` and `NewPage` say what `map_to`'s two kinds of write do: the
first changes no translation, the second those of one page, and the tables stay a
tree. The invariant `MInv` has four parts besides types. `MTree`: the tables are a
tree, and `map_to` stands in one of them. `MFrames`: a table or heap page that is
not the bootloader's is in a frame the allocator has handed out, and what it will
hand out lies above `MinAddr`; frames ascend in the map, so the next one is new.
`MHeap`: every byte of the pages before `page` is mapped. `MWalk`: while `map_to`
descends, the frame for the page is `Held`, which is what must hold when it
allocates further frames for tables in between.

`HeapProofs` — `HeapWhenPossible` (`SucceedsIffPossible`), for the same constants.
`Missing` is the set of tables, by level and address prefix, that the walks to the
heap's pages lack, and `HandedOut` the set of frames the allocator has given away.
`HInv` has the account (`HCount`): frames handed out and tables still missing
together are the pages mapped, the frame held for the present page, and the tables
that were missing at boot. `create_next_table` moves one from the missing to the
handed out (`MissingNext`: one write makes exactly one prefix reachable, whichever
pages share it), mapping a page moves none (`MissingSame`). So an allocator that has
run dry (`TooLittle`) has too few frames for the whole heap, and a heap that is
complete had enough. `HBoot` says that the pages before the present one were free
and that elsewhere nothing has changed since boot, so that an entry in the way is
the bootloader's; `HTables` that those pages lack no table.

`XhciProofs` — for every number of ports, TRBs, polls and port events, and both
ways of reading the segment table: `ResetIsSafe` (`ResetWhileHalted`),
`BringUpSafe` (`RunsConfigured`), `NoopNeverLies` (`NoopTruthful`),
`PortsBroughtUp` (`PortsSettled`) and `XhciTypes`. None of them is inductive.
`XInv` adds where the controller may be asked to reset or run and that it is ready
from "configure" on (`Machine`), that every step of `Program` already taken is
still in the registers (`Written64`; `ProgramSteps` says that no two steps write
the same half of a register, IMAN apart), and that the doorbell is rung once and a
completion with code 1 in the event ring means an executed command (`Command`).
`PInv` adds what a port's bits are before, at and after the port the loop is at
(`PortCourse`), and `CountTypes` ties the counters to the program counter.

`PciProofs` — for every machine of well-formed functions, every number of buses,
devices and functions within PCI's, and every word size: `ScanIsExact`
(`ScanExact`), `BarsAreDecoded`, `FirstControllerIsChosen`, `PciTypes`. The lemmas
show that `config_address` and the host bridge agree on every address, and that
`read_bar` inverts `SlotWord`. `ScanInv` says that the list holds exactly the
functions before the cursor, in order (`Listed`), that the record being filled is
right up to the BAR reached, which is never an upper half (`Filling`), and what
the loop knows of the device it is at (`Place`).

`RenderProofs` — for every mode, period of frames, cycle of the tick counter and
length of a pass: `ScreenWhole` (`ScreenShowsWholeFrames`), `LeaderWalksOn` (the
refinement of `Animation`), `RenderTypes` (which includes that no drawing or copying
leaves its buffer). `RInv`: how far TICKS can be from the frame last drawn, by the
ticks the loop was busy (`Walks`), what each pixel of the canvas holds while the
bubbles are drawn one after the other over the frame before (`Canvas`; `PaintStep` is
one bubble, and `PaintDone` says that the three repaint all that the frame before had
painted), and the property itself (`Screen`), for which `OutsideBand` shows that no
bubble leaves the rows copied.

`BootProofs` — for every number of ticks: `ExceptionsContained` (`NoTripleFault`),
`InterruptsReturn` (`ParksForCause`), `LogKept` (`LogIntact`), `BootTypes`. None is
inductive: whether an exception can be delivered depends on tables loaded many
steps before. `BInv` ties the tables in force to the step reached (`Tables`) and
says where the CPU may be at that step (`Course`): in the breakpoint handler only
at `int3`, with interrupts on only after `interrupts::init` and on a good stack,
reset only before `init_idt`. `ScriptOrder` has the places of the steps in
`kernel_main`. `LInv` adds the UART (`Wires`: the latch is open only within
`serial::init`, and a poll that said yes is not overtaken) and which handler speaks
for which cause (`Reasons`), and that a kernel struck after its report is struck
once, with interrupts off from then on (`Again`).

Each inductive invariant was model-checked on the bounds of the runs before it was
proved (`DecodeInv` also with shift keys and a keypad slash; `MInv`, whose tree condition is costly to evaluate, in two halves of the
memory maps).

Only model-checked:

* the liveness properties (`KeysReachReader`, `EnterEndsReadLine`, `BringUpEnds`,
  `ScanEnds`, `AnimationGoesOn`, `BootSettles`, `FaultsReported`): fairness and
  ENABLED are out of the prover's reach;
* what `usable_frames` computes from a memory map: an induction over data. The
  proofs take from it what `MemoryAssumption` says, and TLC evaluates that on the
  maps of `memory_heap`.

## Assumptions on the environment

* one CPU; in `Input` interrupts come from the master PIC's IRQ0 and IRQ1 only,
  any other vector is a fault in `Boot`;
* the memory map is ordered, its regions disjoint and aligned, and usable frames
  are really unused, as `BootInfoFrameAllocator::init` demands (memory.rs:39-40): no
  page table of the bootloader's lies in them and no heap address is backed by them;
* the bootloader's page tables are a tree: the kernel asks it to map physical memory
  (`mappings.physical_memory`) and for no recursive mapping, so it has no reason to
  link a table twice; no entry of the level-4 table has the huge bit, which the
  processor reserves there (`map_to` would answer ParentEntryHugePage where
  `virt_to_phys` finds no translation); the heap lies within the address space;
* a keyboard sends scancodes of set 1, extended keys with one prefix and no fake
  shifts;
* PCI functions have the headers PCI prescribes (`WellFormed`);
* the framebuffer holds `height` rows of `stride` pixels, `width <= stride`.

## Not modelled, and the plan

1. (done) RingBuffer, Keyboard, Input; Memory; Xhci; first theorems.
2. (done) Pci; Render and Animation; Serial and Boot; extended scancodes.
3. (done) Theorems for every safety property that a passing run checks, and the
   three refinements.
4. Open: the liveness properties and the computation of `usable_frames`, which stay
   with TLC; memory that is physically contiguous, which the rings need and no
   property states, since the code does nothing to obtain it.

Left out for good: `Ring::push` beyond its single call in the program (the ring of
256 TRBs never wraps), `PciConfig::write32` (no caller), class names and log
texts, the host runner (it builds disk images and starts QEMU), the heap
allocator and the other crates behind the kernel (bootloader, x86_64, pic8259,
linked_list_allocator) beyond what the code uses of them.
