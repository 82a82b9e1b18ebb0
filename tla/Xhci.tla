-------------------------------- MODULE Xhci --------------------------------
(***************************************************************************)
(* Bring-up of the xHCI USB host controller: xhci.rs and the lines of      *)
(* kernel_main that call it.                                               *)
(*                                                                         *)
(* The driver is a sequential program that talks to the controller through *)
(* registers and through rings in memory; the controller, an external      *)
(* actor, halts, resets, runs, executes commands and posts events in its   *)
(* own time, and devices come and go on its ports.  A register write made  *)
(* while the controller resets or is not ready is lost.                    *)
(***************************************************************************)
EXTENDS Integers, Sequences, FiniteSets

CONSTANTS max_ports,      \* ports of the controller
          RingSize,       \* TRBs of a ring (256)
          MaxPolls,       \* bound on noop's polls (1_000_000)
          MaxPortEvents,  \* bound: attachments and removals
          FirmwareCmd,    \* USBCMD values the firmware may leave
          ErstbaLatches   \* the controller reads the event ring's segment
                          \* table when ERSTBA's high half is written (QEMU),
                          \* otherwise when it starts to run

ASSUME XhciAssumption ==
  /\ max_ports \in Nat
  /\ RingSize \in Nat \ {0, 1}
  /\ MaxPolls \in Nat \ {0}
  /\ MaxPortEvents \in Nat
  /\ FirmwareCmd \subseteq SUBSET {"RS", "INTE", "HSEE"}
  /\ ErstbaLatches \in BOOLEAN

Ports == 1 .. max_ports
Slot  == 0 .. RingSize - 1

ZeroTrb == [type |-> "zero", cycle |-> FALSE, cc |-> 0]
Trb(type, cc) == [type |-> type, cycle |-> TRUE, cc |-> cc]

VARIABLES
  \* the driver
  pc,          \* where it stands
  step,        \* which step of Program comes next
  cmd,         \* the USBCMD value read in step 1 of init
  enqueue,     \* cmd_ring.enqueue
  polls,       \* rounds of noop's loop
  healthy,     \* what noop returned, "unknown" before
  port, sc,    \* initialise_ports: the port and the PORTSC value read
  connected,   \* ports found connected
  \* memory shared with the controller
  owned,       \* the buffers Controller owns
  cmd_ring, event_ring,
  \* the controller
  usbcmd, HCH, CNR,
  regs,        \* the two halves of its other registers
  doorbell,    \* doorbell 0 rung and not yet answered
  erOn, erEnq, \* event ring: read from the segment table; next slot to fill
  executed,    \* history: commands it has executed with success
  portsc,      \* port -> [ccs, ped, pr, prc]
  \* the world
  portEvents,  \* attachments and removals so far
  changed      \* history: ports whose device came or went since they were read

progress   == <<pc, step, cmd>>
health     == <<enqueue, polls, healthy>>
scan       == <<port, sc, connected>>
shared     == <<owned, cmd_ring, event_ring>>
machine    == <<usbcmd, HCH, CNR>>
interrupter == <<regs, doorbell, erOn, erEnq, executed>>
world      == <<portsc, portEvents, changed>>
vars == <<progress, health, scan, shared, machine, interrupter, world>>

-----------------------------------------------------------------------------
(* Steps 3 and 4 of Controller::init, in the order of the code.            *)

Alloc(buf) == [op |-> "alloc", reg |-> "none", half |-> "none", val |-> buf]
Write(reg, half, val) == [op |-> "write", reg |-> reg, half |-> half, val |-> val]
Program ==
  << Alloc("cmd_ring"), Alloc("event_ring"), Alloc("dcbaa"),
     Write("CONFIG", "lo", "max_slots"),
     Write("DCBAAP", "lo", "dcbaa"),      Write("DCBAAP", "hi", "dcbaa"),
     Write("CRCR", "lo", "cmd_ring"),     Write("CRCR", "hi", "cmd_ring"),
     Alloc("erst"),
     Write("ERSTBA", "lo", "erst"),       Write("ERSTBA", "hi", "erst"),
     Write("ERSTSZ", "lo", "one"),
     Write("ERDP", "lo", "event_ring"),   Write("ERDP", "hi", "event_ring"),
     Write("IMAN", "lo", "clear"),        Write("IMAN", "lo", "enable") >>

Registers == {"CONFIG", "DCBAAP", "CRCR", "ERSTBA", "ERSTSZ", "ERDP", "IMAN"}
Halves == Registers \X {"lo", "hi"}
Cleared == [h \in Halves |-> "none"]

\* The register holds the 64-bit address of the buffer.
Holds(reg, buf) == regs[<<reg, "lo">>] = buf /\ regs[<<reg, "hi">>] = buf

Init ==
  /\ pc = "stop" /\ step = 1 /\ cmd = {}
  /\ enqueue = 0 /\ polls = 0 /\ healthy = "unknown"
  /\ port = 1 /\ sc = [ccs |-> FALSE, ped |-> FALSE, pr |-> FALSE, prc |-> FALSE]
  /\ connected = 0
  /\ owned = {}
  /\ cmd_ring = [i \in Slot |-> ZeroTrb] /\ event_ring = [i \in Slot |-> ZeroTrb]
  /\ usbcmd \in FirmwareCmd
  /\ HCH = ("RS" \notin usbcmd)
  /\ CNR = FALSE
  /\ regs = Cleared /\ doorbell = FALSE /\ erOn = FALSE /\ erEnq = 0 /\ executed = 0
  /\ portsc \in [Ports -> [ccs : BOOLEAN, ped : {FALSE}, pr : {FALSE}, prc : {FALSE}]]
  /\ portEvents = 0 /\ changed = [p \in Ports |-> FALSE]

-----------------------------------------------------------------------------
(* The driver: Controller::init.                                           *)

Accepts == ~CNR /\ "HCRST" \notin usbcmd

Stop ==
  /\ pc = "stop"
  /\ cmd' = usbcmd
  /\ usbcmd' = usbcmd \ {"RS"}
  /\ pc' = "waithalt"
  /\ UNCHANGED <<step, health, scan, shared, HCH, CNR, interrupter, world>>

WaitHaltedSkipped ==                                             \* a mutant
  /\ pc = "waithalt"
  /\ pc' = "reset"
  /\ UNCHANGED <<step, cmd, health, scan, shared, machine, interrupter, world>>

WaitHalted ==
  /\ pc = "waithalt" /\ HCH
  /\ pc' = "reset"
  /\ UNCHANGED <<step, cmd, health, scan, shared, machine, interrupter, world>>

Reset ==
  /\ pc = "reset"
  /\ usbcmd' = cmd \cup {"HCRST"}
  /\ pc' = "waitreset"
  /\ UNCHANGED <<step, cmd, health, scan, shared, HCH, CNR, interrupter, world>>

WaitReset ==
  /\ pc = "waitreset" /\ "HCRST" \notin usbcmd
  /\ pc' = "waitready"
  /\ UNCHANGED <<step, cmd, health, scan, shared, machine, interrupter, world>>

WaitReadySkipped ==                                              \* a mutant
  /\ pc = "waitready"
  /\ pc' = "configure"
  /\ UNCHANGED <<step, cmd, health, scan, shared, machine, interrupter, world>>

WaitReady ==
  /\ pc = "waitready" /\ ~CNR
  /\ pc' = "configure"
  /\ UNCHANGED <<step, cmd, health, scan, shared, machine, interrupter, world>>

\* Ring::new, Dcbaa::new, allocate_erst: heap memory, zeroed; the allocation
\* or the translation of its address may fail, which panics.
Allocate ==
  /\ pc = "configure" /\ step <= Len(Program) /\ Program[step].op = "alloc"
  /\ \/ /\ owned' = owned \cup {Program[step].val}
        /\ step' = step + 1
        /\ UNCHANGED pc
     \/ /\ pc' = "panic"
        /\ UNCHANGED <<step, owned>>
  /\ UNCHANGED <<cmd, health, scan, cmd_ring, event_ring, machine, interrupter, world>>

\* A register write of step 4.  The high half of ERSTBA may be what makes the
\* controller read the segment table, with the size it has been told so far.
WriteRegister ==
  /\ pc = "configure" /\ step <= Len(Program) /\ Program[step].op = "write"
  /\ LET w == Program[step]
     IN  /\ regs' = IF Accepts THEN [regs EXCEPT ![<<w.reg, w.half>>] = w.val] ELSE regs
         /\ erOn' = IF ErstbaLatches /\ Accepts /\ w.reg = "ERSTBA" /\ w.half = "hi"
                    THEN regs[<<"ERSTSZ", "lo">>] = "one"
                    ELSE erOn
  /\ step' = step + 1
  /\ UNCHANGED <<pc, cmd, health, scan, shared, machine, doorbell, erEnq, executed, world>>

StartWithoutRun ==                                               \* a mutant
  /\ pc = "configure" /\ step > Len(Program)
  /\ usbcmd' = IF Accepts THEN {"INTE", "HSEE"} ELSE usbcmd
  /\ pc' = "waitrun"
  /\ UNCHANGED <<step, cmd, health, scan, shared, HCH, CNR, interrupter, world>>

Start ==
  /\ pc = "configure" /\ step > Len(Program)
  /\ usbcmd' = IF Accepts THEN {"RS", "INTE", "HSEE"} ELSE usbcmd
  /\ pc' = "waitrun"
  /\ UNCHANGED <<step, cmd, health, scan, shared, HCH, CNR, interrupter, world>>

WaitRun ==
  /\ pc = "waitrun" /\ ~HCH
  /\ pc' = "push"
  /\ UNCHANGED <<step, cmd, health, scan, shared, machine, interrupter, world>>

-----------------------------------------------------------------------------
(* Controller::noop.                                                       *)

\* Ring::push of the no-op TRB.
PushNoop ==
  /\ pc = "push"
  /\ cmd_ring' = [cmd_ring EXCEPT ![enqueue] = Trb("NO_OP_CMD", 0)]
  /\ enqueue' = (enqueue + 1) % RingSize
  /\ pc' = "doorbell"
  /\ UNCHANGED <<step, cmd, polls, healthy, scan, owned, event_ring, machine,
                 interrupter, world>>

RingDoorbell ==
  /\ pc = "doorbell"
  /\ doorbell' = TRUE
  /\ pc' = "poll"
  /\ UNCHANGED <<step, cmd, health, scan, shared, machine, regs, erOn, erEnq,
                 executed, world>>

\* What noop looks for in the first slot of the event ring.
CompletionSeenAnyType(trb) == trb.cycle                          \* a mutant

CompletionSeen(trb) == trb.cycle /\ trb.type = "COMMAND_COMPLETION"

Poll ==
  /\ pc = "poll"
  /\ \/ /\ CompletionSeen(event_ring[0])
        /\ healthy' = IF event_ring[0].cc = 1 THEN "yes" ELSE "no"
        /\ event_ring' = [event_ring EXCEPT ![0] = ZeroTrb]
        /\ pc' = "ports"
        /\ UNCHANGED polls
     \/ /\ ~CompletionSeen(event_ring[0])
        /\ polls' = polls + 1
        /\ IF polls + 1 = MaxPolls THEN pc' = "ports" /\ healthy' = "no"
                                   ELSE UNCHANGED <<pc, healthy>>
        /\ UNCHANGED event_ring
  /\ UNCHANGED <<step, cmd, enqueue, scan, owned, cmd_ring, machine, interrupter, world>>

-----------------------------------------------------------------------------
(* Controller::initialise_ports.                                           *)

ReadPort ==
  /\ pc = "ports" /\ port <= max_ports
  /\ sc' = portsc[port]
  /\ connected' = IF portsc[port].ccs THEN connected + 1 ELSE connected
  /\ IF portsc[port].ccs /\ ~portsc[port].ped
     THEN pc' = "resetport" /\ UNCHANGED port
     ELSE port' = port + 1 /\ UNCHANGED pc
  /\ UNCHANGED <<step, cmd, health, shared, machine, interrupter, world>>

\* A PORTSC write: a change bit written as 1 is cleared and so is PED, which
\* disables the port; PR starts a reset if a device is there.
Written(reg, val) ==
  [ccs |-> reg.ccs,
   ped |-> reg.ped /\ ~val.ped,
   pr  |-> reg.pr \/ (val.pr /\ reg.ccs),
   prc |-> reg.prc /\ ~val.prc]

ResetPort ==
  /\ pc = "resetport"
  /\ portsc' = [portsc EXCEPT ![port] = Written(@, [sc EXCEPT !.pr = TRUE])]
  /\ pc' = "portwait"
  /\ UNCHANGED <<step, cmd, health, scan, shared, machine, interrupter, portEvents, changed>>

WaitPortSkipped ==                       \* a mutant: does not wait for PRC
  /\ pc = "portwait"
  /\ sc' = portsc[port]
  /\ pc' = "portclear"
  /\ UNCHANGED <<step, cmd, health, port, connected, shared, machine, interrupter, world>>

WaitPort ==
  /\ pc = "portwait" /\ portsc[port].prc
  /\ sc' = portsc[port]
  /\ pc' = "portclear"
  /\ UNCHANGED <<step, cmd, health, port, connected, shared, machine, interrupter, world>>

ClearPrcStays ==                         \* a mutant: the port is read again
  /\ pc = "portclear"
  /\ portsc' = [portsc EXCEPT ![port] = Written(@, [sc EXCEPT !.prc = TRUE])]
  /\ pc' = "ports"
  /\ UNCHANGED <<step, cmd, health, scan, shared, machine, interrupter, portEvents, changed>>

\* The value read is written back, PED included: the port the reset has just
\* enabled is disabled.
ClearPrc ==
  /\ pc = "portclear"
  /\ portsc' = [portsc EXCEPT ![port] = Written(@, [sc EXCEPT !.prc = TRUE])]
  /\ port' = port + 1
  /\ pc' = "ports"
  /\ UNCHANGED <<step, cmd, health, sc, connected, shared, machine, interrupter,
                 portEvents, changed>>

\* kernel_main leaves the block that owns the Controller: its rings go back to
\* the heap.
DropController ==
  /\ pc = "ports" /\ port > max_ports
  /\ owned' = owned \ {"cmd_ring", "event_ring", "dcbaa"}
  /\ pc' = "done"
  /\ UNCHANGED <<step, cmd, health, scan, cmd_ring, event_ring, machine, interrupter, world>>

Driver ==
  \/ Stop \/ WaitHalted \/ Reset \/ WaitReset \/ WaitReady \/ Allocate
  \/ WriteRegister \/ Start \/ WaitRun \/ PushNoop \/ RingDoorbell \/ Poll
  \/ ReadPort \/ ResetPort \/ WaitPort \/ ClearPrc \/ DropController

-----------------------------------------------------------------------------
(* The controller.                                                         *)

HwHalt ==
  /\ "RS" \notin usbcmd /\ ~HCH
  /\ HCH' = TRUE
  /\ UNCHANGED <<progress, health, scan, shared, usbcmd, CNR, interrupter, world>>

HwReset ==
  /\ "HCRST" \in usbcmd
  /\ usbcmd' = {} /\ HCH' = TRUE /\ CNR' = TRUE
  /\ regs' = Cleared /\ doorbell' = FALSE /\ erOn' = FALSE /\ erEnq' = 0
  /\ portsc' = [p \in Ports |-> [portsc[p] EXCEPT !.ped = FALSE, !.pr = FALSE, !.prc = FALSE]]
  /\ UNCHANGED <<progress, health, scan, shared, executed, portEvents, changed>>

HwReady ==
  /\ CNR
  /\ CNR' = FALSE
  /\ UNCHANGED <<progress, health, scan, shared, usbcmd, HCH, interrupter, world>>

HwRun ==
  /\ "RS" \in usbcmd /\ "HCRST" \notin usbcmd /\ HCH /\ ~CNR
  /\ HCH' = FALSE
  /\ erOn' = IF ErstbaLatches THEN erOn ELSE regs[<<"ERSTSZ", "lo">>] = "one"
  /\ UNCHANGED <<progress, health, scan, shared, usbcmd, CNR, regs, doorbell, erEnq,
                 executed, world>>

\* The controller writes an event to memory, unless the ring is off or full
\* (ERDP never moves).
Post(type, cc) ==
  IF ~HCH /\ erOn /\ erEnq < RingSize - 1
  THEN /\ event_ring' = [event_ring EXCEPT ![erEnq] = Trb(type, cc)]
       /\ erEnq' = erEnq + 1
  ELSE UNCHANGED <<event_ring, erEnq>>

\* It answers the doorbell with the command in the ring it has been given,
\* which succeeds (completion code 1) or not.
HwCommand ==
  /\ ~HCH /\ doorbell
  /\ Holds("CRCR", "cmd_ring") /\ cmd_ring[0].cycle
  /\ doorbell' = FALSE
  /\ \E cc \in {1, 5} :
       /\ executed' = IF cc = 1 THEN executed + 1 ELSE executed
       /\ Post("COMMAND_COMPLETION", cc)
  /\ UNCHANGED <<progress, health, scan, owned, cmd_ring, machine, regs, erOn, world>>

PortResetDone(p) ==
  /\ portsc[p].pr
  /\ portsc' = [portsc EXCEPT ![p].pr = FALSE, ![p].prc = TRUE, ![p].ped = TRUE]
  /\ Post("PORT_STATUS_CHANGE", 1)
  /\ UNCHANGED <<progress, health, scan, owned, cmd_ring, machine, regs, doorbell,
                 erOn, executed, portEvents, changed>>

\* The driver has read PORTSC of p.
Read(p) == port > p \/ (port = p /\ pc \in {"resetport", "portwait", "portclear"})

\* A device is attached (USB 3 devices enable their port by themselves) or
\* removed, which ends a reset under way with or without PRC.
PortEvent(p) ==
  /\ portEvents < MaxPortEvents
  /\ portEvents' = portEvents + 1
  /\ changed' = [changed EXCEPT ![p] = @ \/ Read(p)]
  /\ \E on, prc \in BOOLEAN :
       portsc' = [portsc EXCEPT ![p] =
                    IF @.ccs
                    THEN [ccs |-> FALSE, ped |-> FALSE, pr |-> FALSE,
                          prc |-> @.prc \/ (@.pr /\ prc)]
                    ELSE [@ EXCEPT !.ccs = TRUE, !.ped = on]]
  /\ Post("PORT_STATUS_CHANGE", 1)
  /\ UNCHANGED <<progress, health, scan, owned, cmd_ring, machine, regs, doorbell,
                 erOn, executed>>

Hardware ==
  \/ HwHalt \/ HwReset \/ HwReady \/ HwRun \/ HwCommand
  \/ \E p \in Ports : PortResetDone(p) \/ PortEvent(p)

\* The loop on PRC has no timeout: the driver may spin in it for good.
SpinOnPort == pc = "portwait" /\ ~portsc[port].prc /\ UNCHANGED vars

\* kernel_main goes on, or has panicked.
Finished == pc \in {"done", "panic"} /\ UNCHANGED vars

Next == Driver \/ Hardware \/ SpinOnPort \/ Finished

Spec == Init /\ [][Next]_vars

\* The driver's spin loops keep running, and the controller halts, resets, gets
\* ready, runs and ends port resets in finite time, as xHCI requires of it.
Fairness ==
  /\ WF_vars(Driver)
  /\ WF_vars(HwHalt) /\ WF_vars(HwReset) /\ WF_vars(HwReady) /\ WF_vars(HwRun)
  /\ \A p \in Ports : WF_vars(PortResetDone(p))

FairSpec == Spec /\ Fairness

-----------------------------------------------------------------------------
(* Properties.                                                             *)

TrbType == {"zero", "NO_OP_CMD", "COMMAND_COMPLETION", "PORT_STATUS_CHANGE"}

\* Type invariant of the xHCI driver and its controller.
TypeOK ==
  /\ pc \in {"stop", "waithalt", "reset", "waitreset", "waitready", "configure",
             "waitrun", "push", "doorbell", "poll", "ports", "resetport",
             "portwait", "portclear", "done", "panic"}
  /\ step \in 1 .. Len(Program) + 1
  /\ cmd \in SUBSET {"RS", "INTE", "HSEE"}
  /\ enqueue \in Slot /\ polls \in 0 .. MaxPolls /\ healthy \in {"unknown", "yes", "no"}
  /\ port \in 1 .. max_ports + 1 /\ connected \in 0 .. max_ports
  /\ owned \subseteq {"cmd_ring", "event_ring", "dcbaa", "erst"}
  /\ cmd_ring \in [Slot -> [type : TrbType, cycle : BOOLEAN, cc : {0, 1, 5}]]
  /\ event_ring \in [Slot -> [type : TrbType, cycle : BOOLEAN, cc : {0, 1, 5}]]
  /\ usbcmd \in SUBSET {"RS", "INTE", "HSEE", "HCRST"}
  /\ HCH \in BOOLEAN /\ CNR \in BOOLEAN /\ doorbell \in BOOLEAN /\ erOn \in BOOLEAN
  /\ erEnq \in Slot /\ executed \in Nat
  /\ portsc \in [Ports -> [ccs : BOOLEAN, ped : BOOLEAN, pr : BOOLEAN, prc : BOOLEAN]]

\* The controller is reset only when it has halted: xHCI leaves a reset of a
\* running controller undefined.
ResetWhileHalted == pc = "waitreset" /\ "HCRST" \in usbcmd => HCH

\* Once init has reset the controller, it runs only with everything it will
\* use in place: the rings allocated and both halves of each address written,
\* none of them lost in the reset.  A panic half-way leaves it halted.
Configured ==
  /\ Holds("DCBAAP", "dcbaa") /\ Holds("CRCR", "cmd_ring")
  /\ Holds("ERSTBA", "erst") /\ Holds("ERDP", "event_ring")
  /\ regs[<<"ERSTSZ", "lo">>] = "one" /\ regs[<<"CONFIG", "lo">>] = "max_slots"

RunsConfigured ==
  pc \notin {"stop", "waithalt", "reset", "waitreset"} /\ ~HCH => Configured

\* noop says yes only if the controller has executed the command with success:
\* no stale or unrelated event, such as a port change, is taken for it.
NoopTruthful == healthy = "yes" => executed = 1

\* A port initialise_ports is done with, and whose device has not come or gone
\* since it was read, has no reset under way, by the write-back of PR neither,
\* and no reset change left unacknowledged, so that its next one is announced.
PortsSettled ==
  \A p \in Ports :
    p < port /\ portsc[p].ccs /\ ~changed[p] => ~portsc[p].pr /\ ~portsc[p].prc

\* Bring-up ends, with every port visited or in a panic: no wait of the driver
\* is for something that never happens, except the wait for PRC of a port whose
\* device went away, for which the code has no timeout.
BringUpEnds ==
  <>(pc \in {"done", "panic"} \/ (pc = "portwait" /\ changed[port]))

-----------------------------------------------------------------------------
(* What comments say and the code does not do.                             *)

\* xhci.rs:14: Controller owns the ring buffers, so the controller writes only
\* to rings that are owned.
EventsGoToOwnedRing == [][event_ring' # event_ring => "event_ring" \in owned]_vars

\* xhci.rs:147, "order matters!": once the controller runs, its event ring is
\* set up.
EventRingSetUp == pc \in {"push", "doorbell", "poll", "ports"} => erOn
=============================================================================
