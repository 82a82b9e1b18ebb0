-------------------------------- MODULE Pci ---------------------------------
(***************************************************************************)
(* The PCI scan: pci.rs and the lines of kernel_main that pick the xHCI    *)
(* controller from its result.                                             *)
(*                                                                         *)
(* What is plugged into the bus is external: a partial map from <<bus,     *)
(* device, function>> to functions.  A function answers configuration      *)
(* reads with registers laid out as PCI prescribes; an absent one answers  *)
(* all ones, and a single-function device may ignore the function number   *)
(* and answer for all eight.  Registers 0, 2 and 3 are records of their    *)
(* fields; base address registers are numbers below Word.                  *)
(***************************************************************************)
EXTENDS Integers, Sequences

CONSTANTS Buses,      \* buses scanned (256)
          Devices,    \* devices per bus (32)
          Functions,  \* functions per device (8)
          Word,       \* values of a 32-bit register (2^32)
          PortWord,   \* values of a u16 (2^16)
          Machines    \* the machines the kernel may find itself in

Bars == 0 .. 5
Address == (0 .. Buses - 1) \X (0 .. Devices - 1) \X (0 .. Functions - 1)
Xhci == <<12, 3, 48>>     \* class 0x0C, subclass 0x03, prog-if 0x30
NoVendor == 65535         \* 0xFFFF

\* What a base address slot of a function holds.  "upper" is the upper half of
\* the 64-bit one before it, "raw" a register that is not a base address.
Slot(kind, base, prefetchable) ==
  [kind |-> kind, base |-> base, prefetchable |-> prefetchable]
Upper == Slot("upper", 0, FALSE)

\* PCI's rules for base address slot i of function f: a 64-bit one takes two; a
\* general function has six, a bridge two and other registers after them.  One
\* that is not implemented reads as 0, as a 32-bit one at address 0 does.
SlotWellFormed(f, i) ==
  LET s == f.slots[i]
  IN  /\ s.kind \in {"io", "mem32", "mem64", "upper", "raw"} /\ s.prefetchable \in BOOLEAN
      /\ s.kind = "upper" <=> i > 0 /\ f.slots[i - 1].kind = "mem64"
      /\ s.kind = "mem64" => i < (IF f.bridge THEN 1 ELSE 5)
      /\ s.kind = "raw" => f.bridge /\ i > 1
      /\ s.kind = "io" => s.base \in 0 .. PortWord - 1
      /\ s.kind = "mem32" => s.base \in 0 .. Word - 1
      /\ s.kind = "mem64" => s.base \in 0 .. Word * Word - 1
      /\ s.base % (IF s.kind = "io" THEN 4 ELSE 16) = 0

\* PCI's rules for a machine: function 0 exists and is marked if there are
\* others; a function that ignores its number is alone.
WellFormed(mach) ==
  /\ DOMAIN mach \subseteq Address
  /\ \A at \in DOMAIN mach :
       LET f == mach[at]
           zero == [at EXCEPT ![3] = 0]
       IN  /\ f.vendor # NoVendor /\ {f.multi, f.aliases, f.bridge} \subseteq BOOLEAN
           /\ zero \in DOMAIN mach
           /\ at[3] > 0 => mach[zero].multi /\ ~mach[zero].aliases
           /\ f.multi => ~f.aliases
           /\ \A i \in Bars : SlotWellFormed(f, i)

ASSUME PciAssumption ==
  /\ Buses \in 1 .. 256 /\ Devices \in 1 .. 32 /\ Functions \in 1 .. 8
  /\ Word \in Nat \ {0} /\ Word % 16 = 0
  /\ PortWord \in Nat \ {0} /\ Word % PortWord = 0
  /\ \A mach \in Machines : WellFormed(mach)

VARIABLES
  machine,    \* what is plugged in
  pc,         \* where enumerate, then kernel_main, stands
  bus, device, function,   \* the loops' counters
  bar_idx,    \* the BAR read next
  dev,        \* the Device being filled in
  more,       \* function 0 says the device has several functions
  devices,    \* the Vec<Device>
  mmio        \* the base address kernel_main gives to Controller::init

cursor == <<bus, device, function>>
vars == <<machine, pc, cursor, bar_idx, dev, more, devices, mmio>>

-----------------------------------------------------------------------------
(* Configuration space.                                                    *)

\* config_address, without its enable bit.
ConfigAddress(b, d, f, offset) ==
  b * 65536 + (d % 32) * 2048 + (f % 8) * 256 + (offset - (offset % 4))

\* The word in a base address slot, type bits included.
SlotWord(slots, i) ==
  LET s == slots[i]
      bit3 == IF s.prefetchable THEN 8 ELSE 0
  IN  CASE s.kind = "io"    -> s.base + 1
        [] s.kind = "mem32" -> s.base + bit3
        [] s.kind = "mem64" -> (s.base % Word) + bit3 + 4
        [] s.kind = "upper" -> slots[i - 1].base \div Word
        [] OTHER            -> s.base + s.bits

Register(f, r) ==
  CASE r = 0 -> [vendor |-> f.vendor]
    [] r = 2 -> f.class
    [] r = 3 -> [multi |-> f.multi]
    [] r \in 4 .. 9 -> SlotWord(f.slots, r - 4)
    [] OTHER -> f.after

\* What register r of the function at an address reads as.
BusAnswer(at, r) ==
  LET zero == [at EXCEPT ![3] = 0]
  IN  IF at \in DOMAIN machine THEN Register(machine[at], r)
      ELSE IF zero \in DOMAIN machine /\ machine[zero].aliases
           THEN Register(machine[zero], r)
           ELSE [vendor |-> NoVendor]

\* The host bridge: a read of CONFIG_DATA at the address written to
\* CONFIG_ADDRESS.
ConfigData(address) ==
  BusAnswer(<<address \div 65536, (address \div 2048) % 32, (address \div 256) % 8>>,
            (address % 256) \div 4)

read32(offset) == ConfigData(ConfigAddress(bus, device, function, offset))

vendor_id == read32(0).vendor

Io(port) == [type |-> "Io", base |-> port, prefetchable |-> FALSE]
Mem(type, base, prefetchable) ==
  [type |-> type, base |-> base, prefetchable |-> prefetchable]
NoBar == [type |-> "None"]

read_bar(i) ==
  LET raw  == read32(16 + i * 4)
      pf   == (raw \div 8) % 2 = 1
      low  == raw - (raw % 16)
      type == (raw \div 2) % 4
  IN  IF raw % 2 = 1 THEN Io((raw - (raw % 4)) % PortWord)
      ELSE CASE type = 0 -> Mem("Memory32", low, pf)
             [] type = 2 -> Mem("Memory64", low + read32(16 + i * 4 + 4) * Word, pf)
             [] OTHER    -> [type |-> "Unknown", base |-> raw, prefetchable |-> FALSE]

-----------------------------------------------------------------------------
(* enumerate.                                                              *)

Init ==
  /\ machine \in Machines
  /\ pc = "device" /\ bus = 0 /\ device = 0 /\ function = 0
  /\ bar_idx = 0 /\ dev = <<>> /\ more = FALSE
  /\ devices = <<>> /\ mmio = -1

\* The next round of the loop over devices, or of the one over buses.
NextDevicePast ==                                                \* a mutant
  /\ function' = 0
  /\ device' = IF device < Devices THEN device + 1 ELSE 0
  /\ bus' = IF device < Devices THEN bus ELSE bus + 1
  /\ pc' = IF device = Devices /\ bus + 1 = Buses THEN "scanned" ELSE "device"

NextDevice ==
  /\ function' = 0
  /\ device' = IF device + 1 < Devices THEN device + 1 ELSE 0
  /\ bus' = IF device + 1 < Devices THEN bus ELSE bus + 1
  /\ pc' = IF device + 1 = Devices /\ bus + 1 = Buses THEN "scanned" ELSE "device"

\* The next round of the loop over functions 1 to 7.
NextFunction ==
  IF function + 1 < Functions
  THEN function' = function + 1 /\ pc' = "function" /\ UNCHANGED <<bus, device>>
  ELSE NextDevice

\* The Device of the function the cursor is at, its BARs to be read.
Found ==
  /\ vendor_id # NoVendor
  /\ dev' = [at |-> cursor, class |-> read32(8), bars |-> [i \in Bars |-> NoBar]]
  /\ bar_idx' = 0
  /\ pc' = "bars"
  /\ UNCHANGED <<machine, cursor, devices, mmio>>

ProbeDevice ==
  /\ pc = "device"
  /\ \/ Found /\ more' = read32(12).multi
     \/ /\ vendor_id = NoVendor
        /\ NextDevice
        /\ UNCHANGED <<machine, bar_idx, dev, more, devices, mmio>>

ProbeFunction ==
  /\ pc = "function"
  /\ \/ Found /\ UNCHANGED more
     \/ /\ vendor_id = NoVendor
        /\ NextFunction
        /\ UNCHANGED <<machine, bar_idx, dev, more, devices, mmio>>

\* How far the loop over BARs moves on after one of the given type.
StrideOne(type) == 1                                             \* a mutant

StrideOnly64(type) == IF type = "Memory64" THEN 2 ELSE 0         \* a mutant

Stride(type) == IF type = "Memory64" THEN 2 ELSE 1

ReadBar ==
  /\ pc = "bars" /\ bar_idx < 6
  /\ dev' = [dev EXCEPT !.bars[bar_idx] = read_bar(bar_idx)]
  /\ bar_idx' = bar_idx + Stride(read_bar(bar_idx).type)
  /\ UNCHANGED <<machine, pc, cursor, more, devices, mmio>>

\* A mutant: looks for further functions whatever function 0 says.
PushDeviceAll ==
  /\ pc = "bars" /\ bar_idx >= 6
  /\ devices' = Append(devices, dev)
  /\ NextFunction
  /\ UNCHANGED <<machine, bar_idx, dev, more, mmio>>

PushDevice ==
  /\ pc = "bars" /\ bar_idx >= 6
  /\ devices' = Append(devices, dev)
  /\ IF more THEN NextFunction ELSE NextDevice
  /\ UNCHANGED <<machine, bar_idx, dev, more, mmio>>

-----------------------------------------------------------------------------
(* kernel_main: find_xhci and the choice of the controller.                *)

IsXhciAnyProgIf(d) == d.class[1] = 12 /\ d.class[2] = 3          \* a mutant

IsXhci(d) == d.class = Xhci

memory_base(bar) == IF bar.type \in {"Memory32", "Memory64"} THEN bar.base ELSE -1

Serves(d) == IsXhci(d) /\ memory_base(d.bars[0]) >= 0

\* The loop over what find_xhci returns ends with the first one that serves.
ChooseController ==
  /\ pc = "scanned"
  /\ \/ \E i \in DOMAIN devices : /\ Serves(devices[i])
                                  /\ \A j \in 1 .. i - 1 : ~Serves(devices[j])
                                  /\ mmio' = memory_base(devices[i].bars[0])
     \/ /\ \A i \in DOMAIN devices : ~Serves(devices[i])
        /\ mmio' = -1
  /\ pc' = "done"
  /\ UNCHANGED <<machine, cursor, bar_idx, dev, more, devices>>

Finished == pc = "done" /\ UNCHANGED vars

Step == ProbeDevice \/ ProbeFunction \/ ReadBar \/ PushDevice \/ ChooseController

Next == Step \/ Finished

Spec == Init /\ [][Next]_vars

\* The kernel keeps running.
FairSpec == Spec /\ WF_vars(Step)

-----------------------------------------------------------------------------
(* Properties.                                                             *)

Before(a, b) ==
  \/ a[1] < b[1]
  \/ a[1] = b[1] /\ (a[2] < b[2] \/ (a[2] = b[2] /\ a[3] < b[3]))

\* Type invariant of the scan.  Past the last BAR the index is 6, or 7 when the
\* last register of a bridge looks like the lower half of a 64-bit BAR.
TypeOK ==
  /\ pc \in {"device", "function", "bars", "scanned", "done"}
  /\ bus \in 0 .. Buses /\ device \in 0 .. Devices - 1 /\ function \in 0 .. Functions - 1
  /\ bar_idx \in 0 .. 7 /\ more \in BOOLEAN /\ mmio \in -1 .. Word * Word - 1

\* enumerate lists functions of the machine, in bus order, each once and never
\* the ghosts of a device that answers for every function number; when it ends
\* it has listed all of them.
ScanExact ==
  /\ \A i \in DOMAIN devices : devices[i].at \in DOMAIN machine
  /\ \A i, j \in DOMAIN devices : i < j => Before(devices[i].at, devices[j].at)
  /\ pc \in {"scanned", "done"} =>
       \A at \in DOMAIN machine : \E i \in DOMAIN devices : devices[i].at = at

\* read_bar gives back the base address, kind and prefetchable bit the slot
\* was programmed with, a 64-bit one from both of its registers, whose upper
\* half is never taken for a BAR of its own.
BarOf(s) ==
  CASE s.kind = "io"    -> Io(s.base)
    [] s.kind = "mem32" -> Mem("Memory32", s.base, s.prefetchable)
    [] s.kind = "mem64" -> Mem("Memory64", s.base, s.prefetchable)
    [] s.kind = "upper" -> NoBar

BarsDecoded ==
  \A i \in DOMAIN devices :
    LET f == machine[devices[i].at]
    IN  \A b \in Bars : ~(f.bridge /\ b > 1) => devices[i].bars[b] = BarOf(f.slots[b])

\* kernel_main brings up the first xHCI function in bus order whose BAR 0 is in
\* memory, at that BAR's address, and none only if there is none.
Usable == {at \in DOMAIN machine : /\ machine[at].class = Xhci
                                   /\ machine[at].slots[0].kind \in {"mem32", "mem64"}}

FirstControllerChosen ==
  pc = "done" =>
    \/ Usable = {} /\ mmio = -1
    \/ \E at \in Usable : /\ \A other \in Usable \ {at} : Before(at, other)
                          /\ mmio = machine[at].slots[0].base

\* The scan ends.
ScanEnds == <>(pc = "done")
=============================================================================
