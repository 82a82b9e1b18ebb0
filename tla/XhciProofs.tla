----------------------------- MODULE XhciProofs -----------------------------
(***************************************************************************)
(* Safety of the xHCI bring-up for every number of ports, ring size and    *)
(* poll count, whenever the controller answers and devices come and go.    *)
(***************************************************************************)
EXTENDS Xhci, TLAPS

Early == {"stop", "waithalt", "reset", "waitreset"}
Late  == {"waitrun", "push", "doorbell", "poll", "ports", "resetport",
          "portwait", "portclear", "done"}

PC == Early \cup {"waitready", "configure", "panic"} \cup Late

Step == 1 .. 17

\* The types the argument needs.
XType ==
  /\ pc \in PC /\ step \in Step
  /\ cmd \in SUBSET {"RS", "INTE", "HSEE"}
  /\ usbcmd \in SUBSET {"RS", "INTE", "HSEE", "HCRST"}
  /\ HCH \in BOOLEAN /\ CNR \in BOOLEAN /\ doorbell \in BOOLEAN /\ erOn \in BOOLEAN
  /\ DOMAIN regs = Halves
  /\ event_ring \in [Slot -> [type : TrbType, cycle : BOOLEAN, cc : {0, 1, 5}]]
  /\ erEnq \in Slot /\ executed \in Nat

Key(k) == <<Program[k].reg, Program[k].half>>

\* The steps of Program that write an address or a size.
Lasting == (4 .. 8) \cup (10 .. 14)

\* A reset is requested only in "waitreset"; there, and until the start, the
\* controller is halted; once it is configured it stays ready.
Machine ==
  /\ "HCRST" \in usbcmd => pc = "waitreset"
  /\ pc \in {"waithalt", "reset"} => "RS" \notin usbcmd
  /\ pc = "reset" => HCH
  /\ pc = "waitreset" => HCH /\ ("HCRST" \in usbcmd \/ usbcmd = {})
  /\ pc \in {"waitready", "configure", "panic"} => HCH /\ "RS" \notin usbcmd
  /\ pc \in Late \cup {"configure"} => ~CNR

\* What the steps of Program done so far have written is in the registers;
\* only IMAN is written twice.
Written64 ==
  /\ pc \in Early \cup {"waitready"} => step = 1
  /\ pc \in Late => step = 17
  /\ \A k \in 1 .. 16 :
       k < step /\ k \in Lasting => regs[Key(k)] = Program[k].val

\* The doorbell is rung once, for the one command, and a completion event with
\* code 1 exists only if that command was executed.
Command ==
  /\ pc \in PC \ {"poll", "ports", "resetport", "portwait", "portclear", "done"} =>
       ~doorbell /\ executed = 0
  /\ doorbell => executed = 0
  /\ executed \in {0, 1}
  /\ \A i \in Slot : event_ring[i].type = "COMMAND_COMPLETION" /\ event_ring[i].cc = 1
                       => executed = 1
  /\ healthy = "yes" => executed = 1

XInv == XType /\ Machine /\ Written64 /\ Command

\* What Program does at each step.
LEMMA ProgramSteps ==
  /\ Len(Program) = 16
  /\ \A k \in 1 .. 16 : Program[k].op = "alloc" <=> k \in {1, 2, 3, 9}
  /\ \A k \in 1 .. 16 : Program[k].op = "write" => Key(k) \in Halves
  /\ \A j, k \in 1 .. 16 :
       j \in Lasting /\ Program[k].op = "write" /\ Key(j) = Key(k) => j = k
<1>1. Len(Program) = 16
  BY DEF Program
<1>2. \A k \in 1 .. 16 : k \in {1, 2, 3, 9} =>
        Program[k].op = "alloc"
  BY DEF Program, Alloc
<1>3. /\ Program[4] = Write("CONFIG", "lo", "max_slots")
      /\ Program[5] = Write("DCBAAP", "lo", "dcbaa")
      /\ Program[6] = Write("DCBAAP", "hi", "dcbaa")
      /\ Program[7] = Write("CRCR", "lo", "cmd_ring")
      /\ Program[8] = Write("CRCR", "hi", "cmd_ring")
      /\ Program[10] = Write("ERSTBA", "lo", "erst")
      /\ Program[11] = Write("ERSTBA", "hi", "erst")
      /\ Program[12] = Write("ERSTSZ", "lo", "one")
      /\ Program[13] = Write("ERDP", "lo", "event_ring")
      /\ Program[14] = Write("ERDP", "hi", "event_ring")
      /\ Program[15] = Write("IMAN", "lo", "clear")
      /\ Program[16] = Write("IMAN", "lo", "enable")
  BY DEF Program
<1>4. \A k \in 1 .. 16 : k \notin {1, 2, 3, 9} => Program[k].op = "write"
  BY <1>3 DEF Write
<1>5. \A k \in 1 .. 16 : Program[k].op = "write" => Key(k) \in Halves
  BY <1>2, <1>3 DEF Write, Key, Halves, Registers
<1>6. \A j, k \in 1 .. 16 :
       j \in Lasting /\ Program[k].op = "write" /\ Key(j) = Key(k) => j = k
  BY <1>2, <1>3, SMTT(30) DEF Write, Key, Lasting
<1> QED BY <1>1, <1>2, <1>4, <1>5, <1>6

\* The inductive invariant holds when init is called.
LEMMA InitXInv == Init => XInv
<1> SUFFICES ASSUME Init PROVE XInv
  OBVIOUS
<1>1. XType
  <2>1. pc \in PC /\ step \in Step /\ cmd \in SUBSET {"RS", "INTE", "HSEE"}
    BY DEF Init, PC, Early, Step
  <2>2. usbcmd \in SUBSET {"RS", "INTE", "HSEE", "HCRST"}
    BY XhciAssumption DEF Init
  <2>3. HCH \in BOOLEAN /\ CNR \in BOOLEAN /\ doorbell \in BOOLEAN /\ erOn \in BOOLEAN
    BY Zenon DEF Init
  <2>4. DOMAIN regs = Halves
    BY DEF Init, Cleared
  <2>5. event_ring \in [Slot -> [type : TrbType, cycle : BOOLEAN, cc : {0, 1, 5}]]
    BY DEF Init, TrbType, ZeroTrb
  <2>6. erEnq \in Slot /\ executed \in Nat
    BY XhciAssumption DEF Init, Slot
  <2> QED BY <2>1, <2>2, <2>3, <2>4, <2>5, <2>6 DEF XType
<1>2. Machine /\ Written64
  BY XhciAssumption DEF Init, Machine, Written64, Early, Late
<1>3. Command
  BY DEF Init, Command, PC, Early, Late, ZeroTrb
<1> QED BY <1>1, <1>2, <1>3 DEF XInv

\* An event the controller posts keeps the event ring well typed, and the ring
\* holds a successful completion only if there was one or this is one.
LEMMA PostKeeps ==
  ASSUME NEW type \in TrbType, NEW cc \in {1, 5}, XType, Post(type, cc)
  PROVE  /\ event_ring' \in [Slot -> [type : TrbType, cycle : BOOLEAN, cc : {0, 1, 5}]]
         /\ erEnq' \in Slot
         /\ \A i \in Slot : \/ event_ring'[i] = event_ring[i]
                            \/ event_ring'[i].type = type /\ event_ring'[i].cc = cc
<1>1. CASE ~HCH /\ erOn /\ erEnq < RingSize - 1
  <2>1. event_ring' = [event_ring EXCEPT ![erEnq] = Trb(type, cc)] /\ erEnq' = erEnq + 1
    BY <1>1 DEF Post
  <2>2. Trb(type, cc) \in [type : TrbType, cycle : BOOLEAN, cc : {0, 1, 5}]
    BY DEF Trb
  <2>3. Trb(type, cc).type = type /\ Trb(type, cc).cc = cc
    BY DEF Trb
  <2>4. erEnq' \in Slot
    BY <1>1, <2>1, XhciAssumption DEF XType, Slot
  <2> QED BY <2>1, <2>2, <2>3, <2>4 DEF XType
<1>2. CASE ~(~HCH /\ erOn /\ erEnq < RingSize - 1)
  BY <1>2 DEF Post, XType
<1> QED BY <1>1, <1>2

\* Every step of the driver, the controller and the ports keeps it.
LEMMA NextXInv == XInv /\ [Next]_vars => XInv'
<1> SUFFICES ASSUME XInv, [Next]_vars PROVE XInv'
  OBVIOUS
<1> USE DEF XInv, PC, Early, Late, progress, health, scan, shared, machine, interrupter, world
<1>1. CASE Stop
  BY <1>1, XhciAssumption DEF Stop, XType, Machine, Written64, Command
<1>2. CASE WaitHalted
  BY <1>2, XhciAssumption DEF WaitHalted, XType, Machine, Written64, Command
<1>3. CASE Reset
  BY <1>3, XhciAssumption DEF Reset, XType, Machine, Written64, Command
<1>4. CASE WaitReset
  BY <1>4, XhciAssumption DEF WaitReset, XType, Machine, Written64, Command
<1>5. CASE WaitReady
  BY <1>5, XhciAssumption DEF WaitReady, XType, Machine, Written64, Command
<1>6. CASE Allocate
  <2>1. step \in {1, 2, 3, 9} /\ step' \in {step, step + 1} /\ pc' \in {pc, "panic"}
    BY <1>6, ProgramSteps DEF Allocate, XType, Step
  <2>2. pc = "configure" /\ UNCHANGED <<cmd, healthy, event_ring, machine, interrupter>>
    BY <1>6 DEF Allocate
  <2>3. XType' /\ Machine' /\ Command'
    BY <2>1, <2>2 DEF XType, Machine, Command, Step
  <2>4. Written64'
    BY <2>1, <2>2 DEF Written64, Lasting
  <2> QED BY <2>3, <2>4
<1>7. CASE WriteRegister
  <2> DEFINE w == Program[step]
  <2>1. step \in 1 .. 16 /\ w.op = "write" /\ pc = "configure" /\ step' = step + 1
    BY <1>7, ProgramSteps DEF WriteRegister, XType, Step
  <2>2. Key(step) \in Halves /\ regs' = [regs EXCEPT ![Key(step)] = w.val]
    BY <1>7, <2>1, ProgramSteps DEF WriteRegister, Accepts, Machine, Key
  <2>3. UNCHANGED <<pc, cmd, healthy, event_ring, machine, doorbell, erEnq, executed>>
    BY <1>7 DEF WriteRegister
  <2>4. erOn' \in BOOLEAN
    BY <1>7 DEF WriteRegister, XType
  <2>5. XType' /\ Machine' /\ Command'
    <3> HIDE DEF w
    <3> QED BY <2>1, <2>2, <2>3, <2>4 DEF XType, Machine, Command, Step
  <2>6. ASSUME NEW k \in 1 .. 16, k < step', k \in Lasting
        PROVE  regs'[Key(k)] = Program[k].val
    <3>1. CASE k = step
      BY <3>1, <2>2 DEF XType
    <3>2. CASE k # step
      <4>1. Key(k) # Key(step) /\ k < step
        BY <3>2, <2>1, <2>6, ProgramSteps
      <4> QED BY <4>1, <2>2, <2>6 DEF XType, Written64
    <3> QED BY <3>1, <3>2
  <2> QED BY <2>1, <2>3, <2>5, <2>6 DEF Written64
<1>8. CASE Start
  <2>1. step = 17 /\ step' = 17 /\ pc = "configure" /\ pc' = "waitrun"
    BY <1>8, ProgramSteps DEF Start, XType, Step
  <2>2. usbcmd' = {"RS", "INTE", "HSEE"}
    BY <1>8 DEF Start, Accepts, Machine
  <2>3. UNCHANGED <<cmd, healthy, event_ring, HCH, CNR, interrupter>>
    BY <1>8 DEF Start
  <2> QED BY <2>1, <2>2, <2>3 DEF XType, Machine, Written64, Command
<1>9. CASE WaitRun
  BY <1>9, XhciAssumption DEF WaitRun, XType, Machine, Written64, Command
<1>10. CASE PushNoop
  BY <1>10, XhciAssumption DEF PushNoop, XType, Machine, Written64, Command
<1>11. CASE RingDoorbell
  BY <1>11, XhciAssumption DEF RingDoorbell, XType, Machine, Written64, Command
<1>12. CASE Poll
  <2>1. /\ pc = "poll" /\ pc' \in {"poll", "ports"}
        /\ UNCHANGED <<step, cmd, machine, interrupter>>
    BY <1>12 DEF Poll
  <2>2. event_ring' = event_ring \/ event_ring' = [event_ring EXCEPT ![0] = ZeroTrb]
    BY <1>12 DEF Poll
  <2>3. ZeroTrb \in [type : TrbType, cycle : BOOLEAN, cc : {0, 1, 5}] /\ ZeroTrb.cc = 0
    BY DEF ZeroTrb, TrbType
  <2>4. XType' /\ Machine' /\ Written64'
    BY <2>1, <2>2, <2>3 DEF XType, Machine, Written64
  <2>5. healthy' = "yes" => executed = 1
    <3>1. 0 \in Slot
      BY XhciAssumption DEF Slot
    <3> QED BY <1>12, <3>1 DEF Poll, CompletionSeen, Command
  <2>6. \A i \in Slot : event_ring'[i] = event_ring[i] \/ event_ring'[i].cc = 0
    BY <2>2, <2>3 DEF XType
  <2> QED BY <2>1, <2>4, <2>5, <2>6 DEF Command
<1>13. CASE ReadPort
  BY <1>13, XhciAssumption DEF ReadPort, XType, Machine, Written64, Command
<1>14. CASE ResetPort
  BY <1>14, XhciAssumption DEF ResetPort, XType, Machine, Written64, Command
<1>15. CASE WaitPort
  BY <1>15, XhciAssumption DEF WaitPort, XType, Machine, Written64, Command
<1>16. CASE ClearPrc
  BY <1>16, XhciAssumption DEF ClearPrc, XType, Machine, Written64, Command
<1>17. CASE DropController
  BY <1>17, XhciAssumption DEF DropController, XType, Machine, Written64, Command
<1>18. CASE HwHalt
  BY <1>18, XhciAssumption DEF HwHalt, XType, Machine, Written64, Command
<1>19. CASE HwReset
  <2>1. pc = "waitreset" /\ step = 1 /\ UNCHANGED <<progress, healthy, event_ring, executed>>
    BY <1>19 DEF HwReset, Machine, Written64
  <2>2. /\ usbcmd' = {} /\ HCH' = TRUE /\ CNR' = TRUE
        /\ regs' = Cleared /\ doorbell' = FALSE /\ erOn' = FALSE /\ erEnq' = 0
    BY <1>19 DEF HwReset
  <2>3. XType'
    <3>1. erEnq' \in Slot /\ DOMAIN regs' = Halves
      BY <2>2, XhciAssumption DEF Cleared, Slot
    <3> QED BY <2>1, <2>2, <3>1 DEF XType
  <2>4. Machine' /\ Written64' /\ Command'
    BY <2>1, <2>2 DEF XType, Machine, Written64, Command, Lasting
  <2> QED BY <2>3, <2>4
<1>20. CASE HwReady
  BY <1>20, XhciAssumption DEF HwReady, XType, Machine, Written64, Command
<1>21. CASE HwRun
  BY <1>21, XhciAssumption DEF HwRun, XType, Machine, Written64, Command
<1>22. CASE HwCommand
  <2>1. /\ doorbell /\ doorbell' = FALSE
        /\ UNCHANGED <<progress, healthy, machine, regs, erOn>>
    BY <1>22 DEF HwCommand
  <2>2. PICK cc \in {1, 5} : /\ executed' = IF cc = 1 THEN executed + 1 ELSE executed
                             /\ Post("COMMAND_COMPLETION", cc)
    BY <1>22 DEF HwCommand
  <2>3. "COMMAND_COMPLETION" \in TrbType
    BY DEF TrbType
  <2>4. /\ event_ring' \in [Slot -> [type : TrbType, cycle : BOOLEAN, cc : {0, 1, 5}]]
        /\ erEnq' \in Slot
        /\ \A i \in Slot : event_ring'[i] = event_ring[i] \/ event_ring'[i].cc = cc
    BY <2>2, <2>3, PostKeeps
  <2>5. executed = 0 /\ executed' \in {0, 1} /\ (cc = 1 => executed' = 1)
    BY <2>1, <2>2 DEF Command
  <2>6. XType'
    <3>1. executed' \in Nat
      BY <2>5
    <3>2. doorbell' \in BOOLEAN /\ erEnq' \in Slot
      BY <2>1, <2>4
    <3> QED BY <2>1, <2>4, <3>1, <3>2, Zenon DEF XType
  <2>7. Machine' /\ Written64'
    BY <2>1 DEF Machine, Written64
  <2> QED BY <2>1, <2>4, <2>5, <2>6, <2>7 DEF Command
<1>23. ASSUME NEW p \in Ports, PortResetDone(p) \/ PortEvent(p) PROVE XInv'
  <2>1. Post("PORT_STATUS_CHANGE", 1)
    BY <1>23 DEF PortResetDone, PortEvent
  <2>2. "PORT_STATUS_CHANGE" \in TrbType /\ "COMMAND_COMPLETION" # "PORT_STATUS_CHANGE"
    BY DEF TrbType
  <2>3. /\ event_ring' \in [Slot -> [type : TrbType, cycle : BOOLEAN, cc : {0, 1, 5}]]
        /\ erEnq' \in Slot
        /\ \A i \in Slot : \/ event_ring'[i] = event_ring[i]
                           \/ event_ring'[i].type = "PORT_STATUS_CHANGE"
    BY <2>1, <2>2, PostKeeps
  <2>4. UNCHANGED <<progress, health, scan, owned, cmd_ring, machine, regs, doorbell,
                    erOn, executed>>
    BY <1>23 DEF PortResetDone, PortEvent
  <2> QED BY <2>2, <2>3, <2>4 DEF XType, Machine, Written64, Command
<1>24. CASE SpinOnPort \/ Finished \/ UNCHANGED vars
  <2>1. UNCHANGED vars
    BY <1>24 DEF SpinOnPort, Finished
  <2> QED BY <2>1 DEF vars, XType, Machine, Written64, Command
<1> QED
  BY <1>1, <1>2, <1>3, <1>4, <1>5, <1>6, <1>7, <1>8, <1>9, <1>10, <1>11, <1>12, <1>13, <1>14, <1>15, <1>16, <1>17, <1>18, <1>19, <1>20, <1>21, <1>22, <1>23, <1>24 DEF Next, Driver, Hardware

\* Controller::init never resets a controller that is not halted, whatever the
\* firmware left running.
THEOREM ResetIsSafe == Spec => []ResetWhileHalted
<1>1. XInv => ResetWhileHalted
  BY DEF XInv, Machine, ResetWhileHalted
<1> QED BY <1>1, InitXInv, NextXInv, PTL DEF Spec

\* Controller::init never lets the controller run before every ring and table is
\* in place: whatever the numbers of ports, TRBs and polls, and whichever of the
\* two ways the controller reads its segment table.
THEOREM BringUpSafe == Spec => []RunsConfigured
<1>1. XInv => RunsConfigured
  <2> SUFFICES ASSUME XInv, pc \notin Early, ~HCH PROVE Configured
    BY DEF RunsConfigured, Early
  <2>1. step = 17
    BY DEF XInv, XType, PC, Machine, Written64
  <2>2. \A k \in Lasting : k \in 1 .. 16 /\ regs[Key(k)] = Program[k].val
    BY <2>1 DEF XInv, Written64, Lasting
  <2> QED BY <2>2 DEF Lasting, Key, Program, Write, Configured, Holds
<1> QED BY <1>1, InitXInv, NextXInv, PTL DEF Spec

\* Controller::noop never reports health without a command executed with success,
\* whichever port events share the ring with its completion.
THEOREM NoopNeverLies == Spec => []NoopTruthful
<1>1. XInv => NoopTruthful
  BY DEF XInv, Command, NoopTruthful
<1> QED BY <1>1, InitXInv, NextXInv, PTL DEF Spec

-----------------------------------------------------------------------------
(* The ports.  The register of each port is looked at alone: a reset is    *)
(* under way, or over, exactly on the port initialise_ports is at, and one *)
(* that it has left is enabled unless its device came or went since, or    *)
(* writing back PED has disabled it.                                       *)

PortReg == [ccs : BOOLEAN, ped : BOOLEAN, pr : BOOLEAN, prc : BOOLEAN]
AtPort == {"resetport", "portwait", "portclear"}

PortTypes ==
  /\ portsc \in [Ports -> PortReg] /\ sc \in PortReg /\ changed \in [Ports -> BOOLEAN]
  /\ port \in 1 .. max_ports + 1 /\ connected \in 0 .. max_ports
  /\ pc \in AtPort => port \in Ports /\ connected <= port
  /\ pc \notin AtPort => connected < port
  /\ pc \in PC \ (AtPort \cup {"ports", "done"}) => port = 1

\* No reset has been asked for on a port that initialise_ports has yet to reset;
\* the reset of the port it waits for is under way, or over and not acknowledged.
PortCourse(p) ==
  /\ p > port \/ (p = port /\ pc \notin {"portwait", "portclear"}) =>
       ~portsc[p].pr /\ ~portsc[p].prc
  /\ p = port /\ pc = "resetport" /\ ~changed[p] => portsc[p].ccs
  /\ p = port /\ pc = "portwait" /\ ~changed[p] =>
       IF portsc[p].prc THEN ~portsc[p].pr ELSE portsc[p].pr
  /\ p = port /\ pc = "portclear" /\ ~changed[p] => ~portsc[p].pr /\ ~sc.pr
  /\ p < port /\ portsc[p].ccs /\ ~changed[p] => ~portsc[p].pr /\ ~portsc[p].prc

PInv == PortTypes /\ \A p \in Ports : PortCourse(p)

LEMMA InitPInv == Init => PInv
<1> SUFFICES ASSUME Init PROVE PInv
  OBVIOUS
<1>1. portsc \in [Ports -> PortReg] /\ \A p \in Ports : portsc[p].pr = FALSE /\ portsc[p].prc = FALSE
  BY DEF Init, PortReg
<1>2. sc \in PortReg /\ changed \in [Ports -> BOOLEAN]
  BY DEF Init, PortReg
<1>3. port = 1 /\ connected = 0 /\ pc = "stop"
  BY DEF Init
<1>4. PortTypes
  BY <1>1, <1>2, <1>3, XhciAssumption DEF PortTypes, AtPort
<1>5. \A p \in Ports : PortCourse(p)
  BY <1>1, <1>3, XhciAssumption DEF PortCourse, Ports
<1> QED BY <1>4, <1>5 DEF PInv

\* What a write to PORTSC makes of the register.
LEMMA WrittenReg ==
  ASSUME NEW reg \in PortReg, NEW val \in PortReg
  PROVE  /\ Written(reg, val) \in PortReg
         /\ Written(reg, val).ccs = reg.ccs
         /\ Written(reg, val).pr <=> reg.pr \/ (val.pr /\ reg.ccs)
         /\ Written(reg, val).prc <=> reg.prc /\ ~val.prc
<1>1. /\ Written(reg, val).ccs = reg.ccs
      /\ Written(reg, val).pr = (reg.pr \/ (val.pr /\ reg.ccs))
      /\ Written(reg, val).prc = (reg.prc /\ ~val.prc)
  BY DEF Written
<1>2. Written(reg, val) \in PortReg
  BY DEF Written, PortReg
<1> QED BY <1>1, <1>2

\* One step keeps the ports' invariant.
LEMMA NextPInv == XInv /\ PInv /\ [Next]_vars => PInv'
<1> SUFFICES ASSUME XInv, PInv, [Next]_vars PROVE PInv'
  OBVIOUS
<1> USE DEF progress, health, scan, shared, machine, interrupter, world
<1>a. /\ max_ports \in Nat /\ port \in 1 .. max_ports + 1 /\ portsc \in [Ports -> PortReg]
      /\ sc \in PortReg /\ changed \in [Ports -> BOOLEAN] /\ pc \in PC
  BY XhciAssumption DEF PInv, PortTypes, XInv, XType
<1>1. CASE Stop \/ WaitHalted \/ Reset \/ WaitReset \/ WaitReady \/ Allocate \/ WriteRegister
           \/ Start \/ WaitRun \/ PushNoop \/ RingDoorbell \/ Poll \/ DropController
           \/ HwHalt \/ HwReady \/ HwRun \/ HwCommand \/ SpinOnPort \/ Finished
           \/ UNCHANGED vars
  <2>1. UNCHANGED <<port, sc, connected, portsc, changed>>
    BY <1>1 DEF Stop, WaitHalted, Reset, WaitReset, WaitReady, Allocate, WriteRegister, Start,
       WaitRun, PushNoop, RingDoorbell, Poll, DropController, HwHalt, HwReady, HwRun,
       HwCommand, SpinOnPort, Finished, vars
  <2>2. \/ pc' = pc
        \/ pc' \in {"ports", "done"} /\ pc \notin AtPort
        \/ pc \in PC \ (AtPort \cup {"ports", "done"}) /\ pc' \notin AtPort
    BY <1>1 DEF Stop, WaitHalted, Reset, WaitReset, WaitReady, Allocate, WriteRegister, Start,
       WaitRun, PushNoop, RingDoorbell, Poll, DropController, HwHalt, HwReady, HwRun,
       HwCommand, SpinOnPort, Finished, vars, AtPort, PC, Early, Late
  <2>3. PortTypes'
    BY <2>1, <2>2 DEF PInv, PortTypes, AtPort
  <2>4. \A p \in Ports : PortCourse(p)'
    BY <2>1, <2>2 DEF PInv, PortCourse, AtPort
  <2> QED BY <2>3, <2>4 DEF PInv
<1>2. CASE ReadPort
  <2>1. /\ pc = "ports" /\ port \in Ports /\ sc' = portsc[port]
        /\ connected' = IF portsc[port].ccs THEN connected + 1 ELSE connected
        /\ UNCHANGED <<portsc, changed>>
    BY <1>2, <1>a DEF ReadPort, Ports
  <2>2. \/ /\ portsc[port].ccs /\ ~portsc[port].ped
           /\ pc' = "resetport" /\ port' = port
        \/ /\ ~portsc[port].ccs \/ portsc[port].ped
           /\ port' = port + 1 /\ pc' = "ports"
    BY <1>2 DEF ReadPort
  <2>3. connected' \in 0 .. port
    BY <2>1, <1>a DEF PInv, PortTypes, AtPort
  <2>4. PortTypes'
    <3>1. sc' \in PortReg
      BY <2>1, <1>a
    <3> QED BY <2>1, <2>2, <2>3, <3>1, <1>a DEF PortTypes, AtPort, Ports
  <2>5. \A p \in Ports : PortCourse(p)'
    <3> TAKE p \in Ports
    <3>1. PortCourse(p) /\ p \in Int
      BY <1>a DEF PInv, Ports
    <3> QED BY <2>1, <2>2, <3>1, <1>a DEF PortCourse
  <2> QED BY <2>4, <2>5 DEF PInv
<1>3. CASE ResetPort
  <2> DEFINE new == Written(portsc[port], [sc EXCEPT !.pr = TRUE])
  <2>1. /\ pc = "resetport" /\ pc' = "portwait" /\ portsc' = [portsc EXCEPT ![port] = new]
        /\ UNCHANGED <<port, sc, connected, changed>>
    BY <1>3 DEF ResetPort
  <2>2. port \in Ports
    BY <2>1 DEF PInv, PortTypes, AtPort
  <2>3. [sc EXCEPT !.pr = TRUE] \in PortReg /\ [sc EXCEPT !.pr = TRUE].pr = TRUE
    BY <1>a DEF PortReg
  <2>4. /\ new \in PortReg /\ new.ccs = portsc[port].ccs
        /\ new.pr <=> portsc[port].pr \/ portsc[port].ccs
        /\ new.prc => portsc[port].prc
    BY <2>2, <2>3, <1>a, WrittenReg
  <2> HIDE DEF new
  <2>5. PortTypes'
    BY <2>1, <2>2, <2>4 DEF PInv, PortTypes, AtPort
  <2>6. \A p \in Ports : PortCourse(p)'
    <3> TAKE p \in Ports
    <3>1. PortCourse(p) /\ p \in Int
      BY <1>a DEF PInv, Ports
    <3>2. CASE p = port
      <4>1. portsc'[p] = new
        BY <2>1, <2>2, <3>2, <1>a
      <4> QED BY <2>1, <2>4, <3>1, <3>2, <4>1, <1>a DEF PortCourse
    <3>3. CASE p # port
      <4>1. portsc'[p] = portsc[p]
        BY <2>1, <3>3, <1>a
      <4> QED BY <2>1, <3>1, <3>3, <4>1, <1>a DEF PortCourse
    <3> QED BY <3>2, <3>3
  <2> QED BY <2>5, <2>6 DEF PInv
<1>4. CASE WaitPort
  <2>1. /\ pc = "portwait" /\ portsc[port].prc /\ pc' = "portclear" /\ sc' = portsc[port]
        /\ UNCHANGED <<port, connected, portsc, changed>>
    BY <1>4 DEF WaitPort
  <2>2. port \in Ports
    BY <2>1 DEF PInv, PortTypes, AtPort
  <2>3. PortTypes'
    <3>1. sc' \in PortReg
      BY <2>1, <2>2, <1>a
    <3> QED BY <2>1, <3>1 DEF PInv, PortTypes, AtPort
  <2>4. \A p \in Ports : PortCourse(p)'
    BY <2>1 DEF PInv, PortCourse
  <2> QED BY <2>3, <2>4 DEF PInv
<1>5. CASE ClearPrc
  <2> DEFINE new == Written(portsc[port], [sc EXCEPT !.prc = TRUE])
  <2>1. /\ pc = "portclear" /\ pc' = "ports" /\ portsc' = [portsc EXCEPT ![port] = new]
        /\ port' = port + 1 /\ UNCHANGED <<sc, connected, changed>>
    BY <1>5 DEF ClearPrc
  <2>2. port \in Ports
    BY <2>1 DEF PInv, PortTypes, AtPort
  <2>3. /\ [sc EXCEPT !.prc = TRUE] \in PortReg
        /\ [sc EXCEPT !.prc = TRUE].prc = TRUE /\ [sc EXCEPT !.prc = TRUE].pr = sc.pr
    BY <1>a DEF PortReg
  <2>4. /\ new \in PortReg /\ ~new.prc
        /\ ~portsc[port].pr /\ ~sc.pr => ~new.pr
    BY <2>2, <2>3, <1>a, WrittenReg
  <2> HIDE DEF new
  <2>5. PortTypes'
    BY <2>1, <2>2, <2>4, <1>a DEF PInv, PortTypes, AtPort, Ports
  <2>6. \A p \in Ports : PortCourse(p)'
    <3> TAKE p \in Ports
    <3>1. PortCourse(p) /\ p \in Int
      BY <1>a DEF PInv, Ports
    <3>2. CASE p = port
      <4>1. portsc'[p] = new
        BY <2>1, <2>2, <3>2, <1>a
      <4> QED BY <2>1, <2>4, <3>1, <3>2, <4>1, <1>a DEF PortCourse
    <3>3. CASE p # port
      <4>1. portsc'[p] = portsc[p]
        BY <2>1, <3>3, <1>a
      <4> QED BY <2>1, <3>1, <3>3, <4>1, <1>a DEF PortCourse
    <3> QED BY <3>2, <3>3
  <2> QED BY <2>5, <2>6 DEF PInv
<1>6. CASE HwReset
  <2>1. /\ pc = "waitreset"
        /\ portsc' = [p \in Ports |-> [portsc[p] EXCEPT !.ped = FALSE, !.pr = FALSE, !.prc = FALSE]]
        /\ UNCHANGED <<pc, port, sc, connected, changed>>
    BY <1>6 DEF HwReset, XInv, Machine
  <2>2. port = 1
    BY <2>1 DEF PInv, PortTypes, PC, AtPort, Early
  <2>3. ASSUME NEW p \in Ports
        PROVE  portsc'[p] \in PortReg /\ portsc'[p].pr = FALSE /\ portsc'[p].prc = FALSE
    BY <2>1, <1>a DEF PortReg
  <2>4. PortTypes'
    <3>1. portsc' \in [Ports -> PortReg]
      BY <2>1, <2>3
    <3> QED BY <2>1, <3>1 DEF PInv, PortTypes
  <2>5. \A p \in Ports : PortCourse(p)'
    <3> TAKE p \in Ports
    <3>1. ~portsc'[p].pr /\ ~portsc'[p].prc
      BY <2>3
    <3>2. ~(p < port)
      BY <2>2, <1>a DEF Ports
    <3>3. pc' = "waitreset" /\ port' = port
      BY <2>1, Zenon
    <3> QED BY <3>1, <3>2, <3>3, <1>a DEF PortCourse
  <2> QED BY <2>4, <2>5 DEF PInv
<1>7. ASSUME NEW q \in Ports, PortResetDone(q) PROVE PInv'
  <2> DEFINE new == [portsc[q] EXCEPT !.pr = FALSE, !.prc = TRUE, !.ped = TRUE]
  <2>1. portsc[q].pr /\ UNCHANGED <<pc, port, sc, connected, changed>>
    BY <1>7 DEF PortResetDone
  <2>2. portsc' = [portsc EXCEPT ![q] = new]
    BY <1>7, <1>a DEF PortResetDone
  <2>3. new \in PortReg /\ new.prc = TRUE /\ new.pr = FALSE /\ new.ccs = portsc[q].ccs
    BY <1>a DEF PortReg
  <2> HIDE DEF new
  <2>4. PortTypes'
    BY <2>1, <2>2, <2>3 DEF PInv, PortTypes
  <2>5. \A p \in Ports : PortCourse(p)'
    <3> TAKE p \in Ports
    <3>1. PortCourse(p) /\ p \in Int
      BY <1>a DEF PInv, Ports
    <3>2. CASE p = q
      <4>1. portsc'[p] = new
        BY <2>2, <3>2, <1>a
      <4> QED BY <2>1, <2>3, <3>1, <3>2, <4>1, <1>a DEF PortCourse
    <3>3. CASE p # q
      <4>1. portsc'[p] = portsc[p]
        BY <2>2, <3>3, <1>a
      <4> QED BY <2>1, <3>1, <3>3, <4>1, <1>a DEF PortCourse
    <3> QED BY <3>2, <3>3
  <2> QED BY <2>4, <2>5 DEF PInv
<1>8. ASSUME NEW q \in Ports, PortEvent(q) PROVE PInv'
  <2>1. /\ UNCHANGED <<pc, port, sc, connected>>
        /\ changed' = [changed EXCEPT ![q] = changed[q] \/ Read(q)]
    BY <1>8, <1>a DEF PortEvent
  <2>2. PICK on \in BOOLEAN, prc \in BOOLEAN :
          portsc' = [portsc EXCEPT ![q] =
                       IF portsc[q].ccs
                       THEN [ccs |-> FALSE, ped |-> FALSE, pr |-> FALSE,
                             prc |-> portsc[q].prc \/ (portsc[q].pr /\ prc)]
                       ELSE [portsc[q] EXCEPT !.ccs = TRUE, !.ped = on]]
    BY <1>8, <1>a DEF PortEvent
  <2>3. PICK new \in PortReg :
          /\ portsc' = [portsc EXCEPT ![q] = new]
          /\ new.pr => portsc[q].pr
          /\ new.prc => portsc[q].prc \/ portsc[q].pr
    <3>1. CASE portsc[q].ccs
      <4> DEFINE new == [ccs |-> FALSE, ped |-> FALSE, pr |-> FALSE,
                         prc |-> portsc[q].prc \/ (portsc[q].pr /\ prc)]
      <4>1. new \in PortReg /\ new.pr = FALSE /\ (new.prc => portsc[q].prc \/ portsc[q].pr)
        BY DEF PortReg
      <4>2. portsc' = [portsc EXCEPT ![q] = new]
        BY <2>2, <3>1
      <4> HIDE DEF new
      <4> QED BY <4>1, <4>2
    <3>2. CASE ~portsc[q].ccs
      <4> DEFINE new == [portsc[q] EXCEPT !.ccs = TRUE, !.ped = on]
      <4>1. new \in PortReg /\ new.pr = portsc[q].pr /\ new.prc = portsc[q].prc
        BY <1>a DEF PortReg
      <4>2. portsc' = [portsc EXCEPT ![q] = new]
        BY <2>2, <3>2
      <4> HIDE DEF new
      <4> QED BY <4>1, <4>2
    <3> QED BY <3>1, <3>2
  <2>4. (changed[q] \/ Read(q)) \in BOOLEAN
    OBVIOUS
  <2>5. PortTypes'
    <3>1. changed' \in [Ports -> BOOLEAN]
      BY <2>1, <2>4, <1>a
    <3> QED BY <2>1, <2>3, <3>1 DEF PInv, PortTypes
  <2>6. \A p \in Ports : PortCourse(p)'
    <3> TAKE p \in Ports
    <3>1. PortCourse(p) /\ p \in Int
      BY <1>a DEF PInv, Ports
    <3>2. CASE p = q
      <4>1. portsc'[p] = new
        BY <2>3, <3>2, <1>a
      <4>2. changed'[p] <=> changed[p] \/ Read(p)
        BY <2>1, <3>2, <1>a
      <4> QED BY <2>1, <2>3, <3>1, <3>2, <4>1, <4>2, <1>a DEF PortCourse, Read
    <3>3. CASE p # q
      <4>1. portsc'[p] = portsc[p] /\ changed'[p] = changed[p]
        BY <2>1, <2>3, <3>3, <1>a
      <4> QED BY <2>1, <3>1, <3>3, <4>1, <1>a DEF PortCourse
    <3> QED BY <3>2, <3>3
  <2> QED BY <2>5, <2>6 DEF PInv
<1> QED
  BY <1>1, <1>2, <1>3, <1>4, <1>5, <1>6, <1>7, <1>8 DEF Next, Driver, Hardware

\* The numbers noop and initialise_ports count with, and the command ring.
CountTypes ==
  /\ enqueue \in Slot /\ healthy \in {"unknown", "yes", "no"}
  /\ polls \in 0 .. MaxPolls
  /\ pc \in PC \ {"ports", "resetport", "portwait", "portclear", "done"} => polls < MaxPolls
  /\ owned \subseteq {"cmd_ring", "event_ring", "dcbaa", "erst"}
  /\ cmd_ring \in [Slot -> [type : TrbType, cycle : BOOLEAN, cc : {0, 1, 5}]]

LEMMA InitCountTypes == Init => CountTypes
<1> SUFFICES ASSUME Init PROVE CountTypes
  OBVIOUS
<1>1. ZeroTrb \in [type : TrbType, cycle : BOOLEAN, cc : {0, 1, 5}]
  BY DEF ZeroTrb, TrbType
<1>2. cmd_ring \in [Slot -> [type : TrbType, cycle : BOOLEAN, cc : {0, 1, 5}]]
  BY <1>1 DEF Init
<1>3. enqueue \in Slot /\ polls = 0 /\ 0 < MaxPolls /\ MaxPolls \in Nat
  BY XhciAssumption DEF Init, Slot
<1> QED BY <1>2, <1>3 DEF Init, CountTypes

LEMMA NextCountTypes == XInv /\ CountTypes /\ [Next]_vars => CountTypes'
<1> SUFFICES ASSUME XInv, CountTypes, [Next]_vars PROVE CountTypes'
  OBVIOUS
<1> USE DEF progress, health, scan, shared, machine, interrupter, world
<1>a. pc \in PC /\ MaxPolls \in Nat
  BY XhciAssumption DEF XInv, XType
<1>1. CASE Stop \/ WaitHalted \/ Reset \/ WaitReset \/ WaitReady \/ WriteRegister
           \/ Start \/ WaitRun \/ RingDoorbell \/ ReadPort \/ ResetPort \/ WaitPort
           \/ ClearPrc \/ HwHalt \/ HwReset \/ HwReady \/ HwRun \/ HwCommand
           \/ (\E p \in Ports : PortResetDone(p) \/ PortEvent(p))
           \/ SpinOnPort \/ Finished \/ UNCHANGED vars
  <2>1. UNCHANGED <<enqueue, healthy, polls, owned, cmd_ring>>
    BY <1>1 DEF Stop, WaitHalted, Reset, WaitReset, WaitReady, WriteRegister, Start,
       WaitRun, RingDoorbell, ReadPort, ResetPort, WaitPort, ClearPrc, HwHalt, HwReset,
       HwReady, HwRun, HwCommand, PortResetDone, PortEvent, SpinOnPort, Finished, vars
  <2>2. \/ pc' = pc
        \/ pc \notin {"ports", "resetport", "portwait", "portclear", "done"}
        \/ pc' \in {"ports", "resetport", "portwait", "portclear", "done"}
    BY <1>1 DEF Stop, WaitHalted, Reset, WaitReset, WaitReady, WriteRegister, Start,
       WaitRun, RingDoorbell, ReadPort, ResetPort, WaitPort, ClearPrc, HwHalt, HwReset,
       HwReady, HwRun, HwCommand, PortResetDone, PortEvent, SpinOnPort, Finished, vars
  <2> QED BY <2>1, <2>2, <1>a DEF CountTypes
<1>2. CASE Allocate
  <2>1. /\ pc = "configure" /\ UNCHANGED <<enqueue, healthy, polls, cmd_ring>>
        /\ owned' = owned \/ owned' = owned \cup {Program[step].val}
        /\ step <= Len(Program) /\ Program[step].op = "alloc"
    BY <1>2 DEF Allocate
  <2>2. step \in {1, 2, 3, 9}
    BY <2>1, ProgramSteps DEF XInv, XType, Step
  <2>3. Program[step].val \in {"cmd_ring", "event_ring", "dcbaa", "erst"}
    BY <2>2 DEF Program, Alloc
  <2>4. owned' \subseteq {"cmd_ring", "event_ring", "dcbaa", "erst"}
    BY <2>1, <2>3 DEF CountTypes
  <2>5. polls < MaxPolls
    BY <2>1, <1>a DEF CountTypes
  <2> QED BY <2>1, <2>4, <2>5 DEF CountTypes
<1>3. CASE PushNoop
  <2>1. /\ pc = "push" /\ UNCHANGED <<healthy, polls, owned>>
        /\ cmd_ring' = [cmd_ring EXCEPT ![enqueue] = Trb("NO_OP_CMD", 0)]
        /\ enqueue' = (enqueue + 1) % RingSize
    BY <1>3 DEF PushNoop
  <2>2. Trb("NO_OP_CMD", 0) \in [type : TrbType, cycle : BOOLEAN, cc : {0, 1, 5}]
    BY DEF Trb, TrbType
  <2>3. enqueue' \in Slot
    BY <2>1, XhciAssumption DEF CountTypes, Slot
  <2>4. polls < MaxPolls
    BY <2>1, <1>a DEF CountTypes
  <2> QED BY <2>1, <2>2, <2>3, <2>4 DEF CountTypes
<1>4. CASE Poll
  <2>1. pc = "poll" /\ UNCHANGED <<enqueue, owned, cmd_ring>> /\ healthy' \in {healthy, "yes", "no"}
    BY <1>4 DEF Poll
  <2>2. \/ polls' = polls
        \/ polls' = polls + 1 /\ (polls + 1 = MaxPolls => pc' = "ports")
    BY <1>4 DEF Poll
  <2>3. polls < MaxPolls /\ polls \in Nat
    BY <2>1, <1>a DEF CountTypes
  <2> QED BY <2>1, <2>2, <2>3, <1>a DEF CountTypes
<1>5. CASE DropController
  BY <1>5, <1>a DEF DropController, CountTypes
<1> QED
  BY <1>1, <1>2, <1>3, <1>4, <1>5 DEF Next, Driver, Hardware

\* Together: the controller, its ports and what the driver counts.
LEMMA XhciInvariant == Spec => [](XInv /\ PInv /\ CountTypes)
<1>1. XInv /\ PInv /\ CountTypes /\ [Next]_vars => XInv' /\ PInv' /\ CountTypes'
  BY NextXInv, NextPInv, NextCountTypes
<1> QED BY <1>1, InitXInv, InitPInv, InitCountTypes, PTL DEF Spec

\* Every port with a device has its reset over and acknowledged when
\* initialise_ports has passed it, unless its device came or went meanwhile: for
\* any number of ports and any timing of resets, attachments and removals, although
\* the driver writes back every bit of PORTSC it has read.
THEOREM PortsBroughtUp == Spec => []PortsSettled
<1>1. PInv => PortsSettled
  BY DEF PInv, PortCourse, PortsSettled
<1> QED BY <1>1, XhciInvariant, PTL

\* noop's poll count never passes its limit, neither ring is indexed outside its
\* TRBs, and no more ports are found connected than there are: every variable of
\* the bring-up keeps its type, on either kind of controller.
THEOREM XhciTypes == Spec => []TypeOK
<1>1. XInv /\ PInv /\ CountTypes => TypeOK
  <2> SUFFICES ASSUME XInv, PInv, CountTypes PROVE TypeOK
    OBVIOUS
  <2>1. Len(Program) = 16
    BY ProgramSteps
  <2>2. step \in 1 .. Len(Program) + 1
    BY <2>1 DEF XInv, XType, Step
  <2>3. pc \in {"stop", "waithalt", "reset", "waitreset", "waitready", "configure",
             "waitrun", "push", "doorbell", "poll", "ports", "resetport",
             "portwait", "portclear", "done", "panic"}
    BY DEF XInv, XType, PC, Early, Late
  <2> QED BY <2>2, <2>3, Zenon
      DEF XInv, XType, PInv, PortTypes, PortReg, CountTypes, TypeOK
<1> QED BY <1>1, XhciInvariant, PTL
=============================================================================
