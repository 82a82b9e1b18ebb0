----------------------------- MODULE PciProofs ------------------------------
(***************************************************************************)
(* The PCI scan on every machine that keeps PCI's rules, for every number  *)
(* of buses, devices and functions the address word has room for.          *)
(***************************************************************************)
EXTENDS Pci, TLAPS

(* The configuration address names the function and the register.          *)

LEMMA AddressFields ==
  ASSUME NEW b \in Nat, NEW d \in Nat, d < 32, NEW f \in Nat, f < 8, NEW r \in Nat, r < 64
  PROVE  LET a == ConfigAddress(b, d, f, 4 * r)
         IN  /\ a \div 65536 = b /\ (a \div 2048) % 32 = d /\ (a \div 256) % 8 = f
             /\ (a % 256) \div 4 = r
<1> DEFINE a == ConfigAddress(b, d, f, 4 * r)
<1>1. a = b * 65536 + d * 2048 + f * 256 + 4 * r
  <2>1. d % 32 = d /\ f % 8 = f /\ 4 * r - ((4 * r) % 4) = 4 * r
    OBVIOUS
  <2> QED BY <2>1 DEF ConfigAddress
<1> HIDE DEF a
<1>2. a \div 65536 = b
  BY <1>1
<1>3. a \div 2048 = b * 32 + d
  BY <1>1
<1>4. a \div 256 = b * 256 + d * 8 + f
  BY <1>1
<1>5. a % 256 = 4 * r
  BY <1>1
<1>6. (a \div 2048) % 32 = d
  BY <1>3
<1>7. (a \div 256) % 8 = f
  BY <1>4
<1>8. (a % 256) \div 4 = r
  BY <1>5
<1> QED BY <1>2, <1>6, <1>7, <1>8 DEF a

Zero(at) == <<at[1], at[2], 0>>

\* PCI's rules, for one function.
LEMMA MachineRules ==
  ASSUME NEW mach \in Machines, NEW at \in DOMAIN mach
  PROVE  /\ at \in Address /\ mach[at].vendor # NoVendor
         /\ mach[at].multi \in BOOLEAN /\ mach[at].bridge \in BOOLEAN
         /\ Zero(at) \in DOMAIN mach
         /\ at[3] > 0 => mach[Zero(at)].multi /\ ~mach[Zero(at)].aliases
         /\ mach[at].multi => ~mach[at].aliases
<1>1. WellFormed(mach)
  BY PciAssumption
<1>2. at \in Address
  BY <1>1 DEF WellFormed
<1>3. [at EXCEPT ![3] = 0] = Zero(at)
  BY <1>2 DEF Address, Zero
<1>4. /\ mach[at].vendor # NoVendor
      /\ {mach[at].multi, mach[at].aliases, mach[at].bridge} \subseteq BOOLEAN
      /\ [at EXCEPT ![3] = 0] \in DOMAIN mach
      /\ at[3] > 0 => mach[[at EXCEPT ![3] = 0]].multi /\ ~mach[[at EXCEPT ![3] = 0]].aliases
      /\ mach[at].multi => ~mach[at].aliases
  BY <1>1, Zenon DEF WellFormed
<1> QED BY <1>2, <1>3, <1>4, Zenon

LEMMA SlotRules ==
  ASSUME NEW mach \in Machines, NEW at \in DOMAIN mach, NEW i \in Bars
  PROVE  SlotWellFormed(mach[at], i)
<1>1. WellFormed(mach)
  BY PciAssumption
<1> QED BY <1>1, Zenon DEF WellFormed

-----------------------------------------------------------------------------
(* Base address registers.                                                 *)

\* read_bar, given the register and the one after it.
Decode(raw, above) ==
  LET pf   == (raw \div 8) % 2 = 1
      low  == raw - (raw % 16)
      type == (raw \div 2) % 4
  IN  IF raw % 2 = 1 THEN Io((raw - (raw % 4)) % PortWord)
      ELSE CASE type = 0 -> Mem("Memory32", low, pf)
             [] type = 2 -> Mem("Memory64", low + above * Word, pf)
             [] OTHER    -> [type |-> "Unknown", base |-> raw, prefetchable |-> FALSE]

\* The type bits leave the base address alone.
LEMMA TypeBits ==
  ASSUME NEW base \in Nat, base % 16 = 0, NEW bits \in 0 .. 15
  PROVE  LET raw == base + bits
         IN  /\ raw % 2 = bits % 2 /\ raw % 4 = bits % 4 /\ raw % 16 = bits
             /\ (raw \div 2) % 4 = (bits \div 2) % 4 /\ (raw \div 8) % 2 = (bits \div 8) % 2
<1> DEFINE k == base \div 16
           raw == base + bits
<1>1. k \in Nat /\ base = 16 * k
  OBVIOUS
<1> HIDE DEF k
<1>2. raw = 16 * k + bits
  BY <1>1
<1>3. bits \in Int /\ 0 <= bits /\ bits < 16
  OBVIOUS
<1> HIDE DEF raw
<1>4. raw % 2 = bits % 2 /\ raw % 4 = bits % 4 /\ raw % 16 = bits
  BY <1>1, <1>2, <1>3
<1>5. raw \div 2 = 8 * k + (bits \div 2) /\ raw \div 8 = 2 * k + (bits \div 8)
  BY <1>1, <1>2, <1>3
<1>6. (raw \div 2) % 4 = (bits \div 2) % 4 /\ (raw \div 8) % 2 = (bits \div 8) % 2
  BY <1>1, <1>3, <1>5
<1> QED BY <1>4, <1>6 DEF raw

LEMMA DecodesIo ==
  ASSUME NEW base \in Nat, base % 4 = 0, base < PortWord, NEW above
  PROVE  Decode(base + 1, above) = Io(base)
<1> DEFINE raw == base + 1
<1>1. raw % 2 = 1 /\ raw % 4 = 1
  OBVIOUS
<1>2. (raw - (raw % 4)) % PortWord = base
  BY <1>1, PciAssumption
<1> HIDE DEF raw
<1> QED BY <1>1, <1>2, Zenon DEF Decode, raw

LEMMA DecodesMem32 ==
  ASSUME NEW base \in Nat, base % 16 = 0, NEW p \in BOOLEAN, NEW above
  PROVE  Decode(base + (IF p THEN 8 ELSE 0), above) = Mem("Memory32", base, p)
<1> DEFINE bits == IF p THEN 8 ELSE 0
           raw == base + bits
           low == raw - (raw % 16)
           type == (raw \div 2) % 4
           bit3 == (raw \div 8) % 2
<1>1. bits \in 0 .. 15 /\ bits % 2 = 0 /\ (bits \div 2) % 4 = 0
      /\ (bits \div 8) % 2 = IF p THEN 1 ELSE 0
  OBVIOUS
<1>2. raw % 2 = 0 /\ raw % 16 = bits /\ type = 0 /\ bit3 = IF p THEN 1 ELSE 0
  <2> HIDE DEF bits
  <2> QED BY <1>1, TypeBits
<1>3. low = base
  BY <1>1, <1>2
<1>4. (bit3 = 1) = p
  <2> HIDE DEF bit3
  <2> QED BY <1>2
<1>5. raw % 2 # 1
  BY <1>2
<1>6. Decode(raw, above) = IF raw % 2 = 1 THEN Io((raw - (raw % 4)) % PortWord)
        ELSE CASE type = 0 -> Mem("Memory32", low, bit3 = 1)
               [] type = 2 -> Mem("Memory64", low + above * Word, bit3 = 1)
               [] OTHER    -> [type |-> "Unknown", base |-> raw, prefetchable |-> FALSE]
  BY Zenon DEF Decode
<1> HIDE DEF raw, low, type, bit3
<1>7. Decode(raw, above) = Mem("Memory32", low, bit3 = 1)
  BY <1>2, <1>5, <1>6
<1> QED BY <1>3, <1>4, <1>7, Zenon DEF raw

\* A 64-bit base address is put together from its two registers.
LEMMA DecodesMem64 ==
  ASSUME NEW base \in Nat, base % 16 = 0, NEW p \in BOOLEAN
  PROVE  Decode((base % Word) + (IF p THEN 8 ELSE 0) + 4, base \div Word)
           = Mem("Memory64", base, p)
<1> DEFINE lo == base % Word
           above == base \div Word
           bits == (IF p THEN 8 ELSE 0) + 4
           raw == lo + bits
           low == raw - (raw % 16)
           type == (raw \div 2) % 4
           bit3 == (raw \div 8) % 2
<1>1. Word \in Nat \ {0} /\ Word % 16 = 0
  BY PciAssumption
<1>2. lo \in Nat /\ above \in Nat /\ base = above * Word + lo
  BY <1>1
<1>3. lo % 16 = 0
  <2>1. (above * Word) % 16 = 0
    <3> DEFINE w == Word \div 16
    <3>1. w \in Nat /\ Word = 16 * w
      BY <1>1
    <3> HIDE DEF w, above
    <3>2. above * Word = 16 * (above * w) /\ above * w \in Nat
      BY <1>2, <3>1
    <3> QED BY <3>2
  <2> DEFINE aw == above * Word
  <2>2. aw \in Nat
    BY <1>1, <1>2
  <2>3. aw % 16 = 0 /\ base = aw + lo
    BY <1>2, <2>1
  <2> HIDE DEF aw, lo
  <2> QED BY <1>2, <2>2, <2>3
<1> HIDE DEF lo
<1>4. bits \in 0 .. 15 /\ bits % 2 = 0 /\ (bits \div 2) % 4 = 2
      /\ (bits \div 8) % 2 = IF p THEN 1 ELSE 0
  OBVIOUS
<1>5. raw % 2 = 0 /\ raw % 16 = bits /\ type = 2 /\ bit3 = IF p THEN 1 ELSE 0
  <2> HIDE DEF bits
  <2> QED BY <1>2, <1>3, <1>4, TypeBits
<1>6. low = lo
  BY <1>2, <1>4, <1>5
<1>7. (bit3 = 1) = p
  <2> HIDE DEF bit3
  <2> QED BY <1>5
<1>8. raw % 2 # 1
  BY <1>5
<1>9. Decode(raw, above) = IF raw % 2 = 1 THEN Io((raw - (raw % 4)) % PortWord)
        ELSE CASE type = 0 -> Mem("Memory32", low, bit3 = 1)
               [] type = 2 -> Mem("Memory64", low + above * Word, bit3 = 1)
               [] OTHER    -> [type |-> "Unknown", base |-> raw, prefetchable |-> FALSE]
  BY Zenon DEF Decode
<1>10. low + above * Word = base
  <2>1. above * Word \in Int
    BY <1>1, <1>2
  <2> QED BY <1>2, <1>6, <2>1
<1>11. raw = lo + (IF p THEN 8 ELSE 0) + 4
  BY <1>2
<1> HIDE DEF raw, low, type, bit3, above
<1>12. Decode(raw, above) = Mem("Memory64", low + above * Word, bit3 = 1)
  BY <1>5, <1>8, <1>9
<1> QED BY <1>7, <1>10, <1>11, <1>12, Zenon DEF lo, above

\* What the register of a slot decodes to, read together with the next one.
LEMMA SlotDecodes ==
  ASSUME NEW mach \in Machines, NEW at \in DOMAIN mach, NEW i \in Bars, NEW above,
         mach[at].slots[i].kind \in {"io", "mem32", "mem64"},
         mach[at].slots[i].kind = "mem64" => above = SlotWord(mach[at].slots, i + 1)
  PROVE  Decode(SlotWord(mach[at].slots, i), above) = BarOf(mach[at].slots[i])
<1> DEFINE f == mach[at]
           slots == f.slots
           s == slots[i]
<1>1. SlotWellFormed(f, i)
  BY SlotRules
<1> HIDE DEF f
<1>2. Word \in Nat \ {0} /\ PortWord \in Nat \ {0}
  BY PciAssumption
<1>3. CASE s.kind = "io"
  <2>1. SlotWord(slots, i) = s.base + 1 /\ BarOf(s) = Io(s.base)
    BY <1>3 DEF SlotWord, BarOf
  <2>2. s.base \in Nat /\ s.base < PortWord /\ s.base % 4 = 0
    BY <1>1, <1>2, <1>3 DEF SlotWellFormed
  <2> QED BY <2>1, <2>2, DecodesIo DEF f
<1>4. CASE s.kind = "mem32"
  <2>1. /\ SlotWord(slots, i) = s.base + (IF s.prefetchable THEN 8 ELSE 0)
        /\ BarOf(s) = Mem("Memory32", s.base, s.prefetchable)
    BY <1>4 DEF SlotWord, BarOf
  <2>2. s.base \in Nat /\ s.base % 16 = 0 /\ s.prefetchable \in BOOLEAN
    BY <1>1, <1>2, <1>4 DEF SlotWellFormed
  <2> QED BY <2>1, <2>2, DecodesMem32 DEF f
<1>5. CASE s.kind = "mem64"
  <2>1. /\ SlotWord(slots, i) = (s.base % Word) + (IF s.prefetchable THEN 8 ELSE 0) + 4
        /\ BarOf(s) = Mem("Memory64", s.base, s.prefetchable)
    BY <1>5 DEF SlotWord, BarOf
  <2>2. s.base \in Nat /\ s.base % 16 = 0 /\ s.prefetchable \in BOOLEAN
    BY <1>1, <1>2, <1>5 DEF SlotWellFormed
  <2>3. i + 1 \in Bars /\ (i + 1) - 1 = i /\ i + 1 > 0
    BY <1>1, <1>5 DEF SlotWellFormed, Bars
  <2>4. SlotWellFormed(f, i + 1)
    BY <2>3, SlotRules DEF f
  <2>5. slots[i + 1].kind = "upper"
    BY <1>5, <2>3, <2>4 DEF SlotWellFormed
  <2>6. SlotWord(slots, i + 1) = s.base \div Word
    BY <2>3, <2>5 DEF SlotWord
  <2>7. above = s.base \div Word
    BY <1>5, <2>6 DEF f
  <2> QED BY <2>1, <2>2, <2>7, DecodesMem64 DEF f
<1> QED BY <1>3, <1>4, <1>5 DEF f

-----------------------------------------------------------------------------
(* The inductive invariant.                                                *)

Scanning == {"device", "function", "bars"}

PType ==
  /\ machine \in Machines
  /\ pc \in Scanning \cup {"scanned", "done"}
  /\ bus \in 0 .. Buses /\ device \in 0 .. Devices - 1 /\ function \in 0 .. Functions - 1
  /\ bar_idx \in 0 .. 7 /\ more \in BOOLEAN
  /\ pc \in Scanning <=> bus < Buses
  /\ pc # "done" => mmio = -1

Here == <<bus, device, 0>>

\* What enumerate knows of the device it is at.
Place ==
  /\ pc = "device" => function = 0
  /\ pc \in {"function", "bars"} => Here \in DOMAIN machine /\ more = machine[Here].multi
  /\ pc = "function" => more
  /\ pc = "bars" => cursor \in DOMAIN machine

\* bars is what read_bar gives for function f below slot n, where the loop goes on.
BarsUpTo(f, bars, n) ==
  /\ \A b \in Bars : IF b < n THEN ~(f.bridge /\ b > 1) => bars[b] = BarOf(f.slots[b])
                     ELSE bars[b] = NoBar
  /\ n < 6 /\ ~(f.bridge /\ n > 1) => f.slots[n].kind # "upper"

\* The Device being filled in.
Filling ==
  pc = "bars" =>
    \E bars \in [Bars -> {dev.bars[b] : b \in Bars}] :
      /\ dev = [at |-> cursor, class |-> machine[cursor].class, bars |-> bars]
      /\ BarsUpTo(machine[cursor], bars, bar_idx)

\* Device d describes the function of the machine at its address.
Describes(mach, d) ==
  /\ d.at \in DOMAIN mach /\ d.class = mach[d.at].class
  /\ \A b \in Bars : ~(mach[d.at].bridge /\ b > 1) => d.bars[b] = BarOf(mach[d.at].slots[b])

\* The devices listed are the functions before the cursor, in order.
Listed ==
  /\ \E S : devices \in Seq(S)
  /\ \A i \in DOMAIN devices : Describes(machine, devices[i]) /\ Before(devices[i].at, cursor)
  /\ \A i, j \in DOMAIN devices : i < j => Before(devices[i].at, devices[j].at)
  /\ \A at \in DOMAIN machine : Before(at, cursor) => \E i \in DOMAIN devices : devices[i].at = at

PInv == PType /\ Place /\ Filling /\ Listed

-----------------------------------------------------------------------------
(* What configuration reads give.                                          *)

Answer(r) ==
  IF cursor \in DOMAIN machine THEN Register(machine[cursor], r)
  ELSE IF Here \in DOMAIN machine /\ machine[Here].aliases THEN Register(machine[Here], r)
       ELSE [vendor |-> NoVendor]

LEMMA Reads ==
  ASSUME PType, NEW r \in Nat, r < 64
  PROVE  read32(4 * r) = Answer(r)
<1> DEFINE a == ConfigAddress(bus, device, function, 4 * r)
           at == <<a \div 65536, (a \div 2048) % 32, (a \div 256) % 8>>
<1>1. bus \in Nat /\ device \in Nat /\ device < 32 /\ function \in Nat /\ function < 8
  <2>1. Buses \in Nat /\ Devices \in Nat /\ Devices <= 32 /\ Functions \in Nat /\ Functions <= 8
    BY PciAssumption
  <2> QED BY <2>1 DEF PType
<1>2. a \div 65536 = bus /\ (a \div 2048) % 32 = device /\ (a \div 256) % 8 = function
      /\ (a % 256) \div 4 = r
  BY <1>1, AddressFields
<1>3. at = cursor
  BY <1>2 DEF cursor
<1>4. [cursor EXCEPT ![3] = 0] = Here
  BY DEF cursor, Here
<1>5. read32(4 * r) = BusAnswer(at, (a % 256) \div 4)
  BY DEF read32, ConfigData
<1> HIDE DEF a, at
<1>6. read32(4 * r) = BusAnswer(cursor, r)
  BY <1>2, <1>3, <1>5
<1>7. BusAnswer(cursor, r) = Answer(r)
  BY <1>4, Zenon DEF BusAnswer, Answer
<1> QED BY <1>6, <1>7

\* A ghost answers only for a device that has one function, where the scan does not
\* look for more: what answers is there.
LEMMA VendorTells ==
  ASSUME PInv, pc \in {"device", "function"}
  PROVE  vendor_id # NoVendor <=> cursor \in DOMAIN machine
<1>1. PType /\ Place
  BY DEF PInv
<1>2. vendor_id = Answer(0).vendor
  <2>1. read32(4 * 0) = Answer(0)
    BY <1>1, Reads
  <2>2. 4 * 0 = 0
    OBVIOUS
  <2> QED BY <2>1, <2>2 DEF vendor_id
<1>3. CASE cursor \in DOMAIN machine
  <2>1. machine[cursor].vendor # NoVendor
    BY <1>1, <1>3, MachineRules DEF PType
  <2>2. Answer(0).vendor = machine[cursor].vendor
    BY <1>3 DEF Answer, Register
  <2> QED BY <1>2, <1>3, <2>1, <2>2
<1>4. CASE cursor \notin DOMAIN machine
  <2>1. ~(Here \in DOMAIN machine /\ machine[Here].aliases)
    <3>1. CASE pc = "device"
      <4>1. Here = cursor
        BY <1>1, <3>1 DEF Place, Here, cursor
      <4> QED BY <1>4, <4>1
    <3>2. CASE pc = "function"
      <4>1. Here \in DOMAIN machine /\ machine[Here].multi
        BY <1>1, <3>2, Zenon DEF Place
      <4> QED BY <1>1, <4>1, MachineRules, Zenon DEF PType
    <3> QED BY <3>1, <3>2
  <2>2. Answer(0).vendor = NoVendor
    BY <1>4, <2>1 DEF Answer
  <2> QED BY <1>2, <1>4, <2>2
<1> QED BY <1>3, <1>4

LEMMA ReadsHere ==
  ASSUME PType, cursor \in DOMAIN machine
  PROVE  /\ read32(8) = machine[cursor].class /\ read32(12).multi = machine[cursor].multi
         /\ \A i \in Bars : /\ read32(16 + i * 4) = SlotWord(machine[cursor].slots, i)
                            /\ i + 1 \in Bars => read32(16 + i * 4 + 4)
                                                   = SlotWord(machine[cursor].slots, i + 1)
<1> DEFINE f == machine[cursor]
<1>1. ASSUME NEW r \in Nat, r < 64 PROVE read32(4 * r) = Register(f, r)
  BY <1>1, Reads DEF Answer
<1>2. 8 = 4 * 2 /\ 12 = 4 * 3
  OBVIOUS
<1>3. read32(8) = f.class
  <2>1. read32(4 * 2) = Register(f, 2)
    BY <1>1
  <2> QED BY <1>2, <2>1 DEF Register
<1>4. read32(12).multi = f.multi
  <2>1. read32(4 * 3) = Register(f, 3)
    BY <1>1
  <2> QED BY <1>2, <2>1 DEF Register
<1>5. ASSUME NEW i \in Bars PROVE read32(16 + i * 4) = SlotWord(f.slots, i)
  <2>1. i + 4 \in Nat /\ i + 4 < 64 /\ 4 * (i + 4) = 16 + i * 4 /\ i + 4 \in 4 .. 9
        /\ (i + 4) - 4 = i /\ i + 4 \notin {0, 2, 3}
    BY DEF Bars
  <2>2. read32(4 * (i + 4)) = Register(f, i + 4)
    BY <1>1, <2>1
  <2>3. Register(f, i + 4) = SlotWord(f.slots, i)
    BY <2>1 DEF Register
  <2> QED BY <2>1, <2>2, <2>3
<1>6. \A i \in Bars : i + 1 \in Bars => 16 + (i + 1) * 4 = 16 + i * 4 + 4
  BY DEF Bars
<1> QED BY <1>3, <1>4, <1>5, <1>6, Zenon

-----------------------------------------------------------------------------
(* Moving on.                                                              *)

\* The functions of the device the cursor is at, from the cursor on.
Passed(at) == at[1] = bus /\ at[2] = device /\ at[3] >= function

LEMMA Sizes ==
  /\ Buses \in Nat \ {0} /\ Devices \in Nat \ {0} /\ Functions \in Nat \ {0}
BY PciAssumption

LEMMA AddressParts ==
  ASSUME NEW at \in Address
  PROVE  /\ at = <<at[1], at[2], at[3]>>
         /\ at[1] \in Nat /\ at[1] < Buses /\ at[2] \in Nat /\ at[2] < Devices
         /\ at[3] \in Nat /\ at[3] < Functions
BY Sizes DEF Address

\* The next device comes after all functions of this one and before any other.
LEMMA DeviceOrder ==
  ASSUME PType, pc \in Scanning, NextDevice
  PROVE  /\ bus' \in 0 .. Buses /\ device' \in 0 .. Devices - 1 /\ function' = 0
         /\ pc' \in {"device", "scanned"} /\ (pc' = "device" <=> bus' < Buses)
         /\ \A at \in Address : Before(at, cursor') <=> Before(at, cursor) \/ Passed(at)
<1>1. /\ bus \in Nat /\ bus < Buses /\ device \in Nat /\ device < Devices
      /\ function \in Nat
  BY Sizes DEF PType
<1>2. /\ function' = 0
      /\ device' = IF device + 1 < Devices THEN device + 1 ELSE 0
      /\ bus' = IF device + 1 < Devices THEN bus ELSE bus + 1
      /\ pc' = IF device + 1 = Devices /\ bus + 1 = Buses THEN "scanned" ELSE "device"
  BY DEF NextDevice
<1>3. /\ bus' \in 0 .. Buses /\ device' \in 0 .. Devices - 1
      /\ pc' \in {"device", "scanned"} /\ (pc' = "device" <=> bus' < Buses)
  BY <1>1, <1>2, Sizes
<1>4. ASSUME NEW at \in Address
      PROVE  Before(at, cursor') <=> Before(at, cursor) \/ Passed(at)
  <2>1. /\ at[1] \in Nat /\ at[1] < Buses /\ at[2] \in Nat /\ at[2] < Devices /\ at[3] \in Nat
    BY AddressParts
  <2>2. Before(at, cursor') <=> \/ at[1] < bus'
                                \/ at[1] = bus' /\ (at[2] < device' \/ (at[2] = device' /\ at[3] < 0))
    BY <1>2 DEF Before, cursor
  <2>3. Before(at, cursor) <=> \/ at[1] < bus
                               \/ at[1] = bus /\ (at[2] < device
                                                    \/ (at[2] = device /\ at[3] < function))
    BY DEF Before, cursor
  <2> QED BY <1>1, <1>2, <2>1, <2>2, <2>3, Sizes DEF Passed
<1> QED BY <1>2, <1>3, <1>4

LEMMA FunctionOrder ==
  ASSUME PType, pc \in Scanning, function + 1 < Functions,
         function' = function + 1, bus' = bus, device' = device
  PROVE  \A at \in Address : Before(at, cursor') <=> Before(at, cursor) \/ at = cursor
<1>1. bus \in Nat /\ device \in Nat /\ function \in Nat
  BY Sizes DEF PType
<1> TAKE at \in Address
<1>2. at = <<at[1], at[2], at[3]>> /\ at[1] \in Nat /\ at[2] \in Nat /\ at[3] \in Nat
  BY AddressParts
<1>3. Before(at, cursor') <=> \/ at[1] < bus
                              \/ at[1] = bus /\ (at[2] < device
                                                   \/ (at[2] = device /\ at[3] < function + 1))
  BY DEF Before, cursor
<1>4. Before(at, cursor) <=> \/ at[1] < bus
                             \/ at[1] = bus /\ (at[2] < device
                                                  \/ (at[2] = device /\ at[3] < function))
  BY DEF Before, cursor
<1>5. at = cursor <=> at[1] = bus /\ at[2] = device /\ at[3] = function
  BY <1>2 DEF cursor
<1> QED BY <1>1, <1>2, <1>3, <1>4, <1>5

\* NextFunction leaves no function of the device out.
LEMMA NextFunctionMoves ==
  ASSUME PType, pc \in Scanning, NextFunction
  PROVE  /\ bus' \in 0 .. Buses /\ device' \in 0 .. Devices - 1 /\ function' \in 0 .. Functions - 1
         /\ pc' \in {"device", "function", "scanned"}
         /\ pc' \in Scanning <=> bus' < Buses
         /\ pc' = "device" => function' = 0
         /\ pc' = "function" => bus' = bus /\ device' = device
         /\ \A at \in Address : Before(at, cursor') <=> Before(at, cursor) \/ at = cursor
<1>1. bus \in 0 .. Buses /\ bus < Buses /\ device \in 0 .. Devices - 1
      /\ function \in 0 .. Functions - 1
  BY DEF PType
<1>2. CASE function + 1 < Functions
  <2>1. function' = function + 1 /\ pc' = "function" /\ bus' = bus /\ device' = device
    BY <1>2 DEF NextFunction
  <2>2. \A at \in Address : Before(at, cursor') <=> Before(at, cursor) \/ at = cursor
    BY <1>2, <2>1, FunctionOrder
  <2>3. function' \in 0 .. Functions - 1
    BY <1>1, <1>2, <2>1, Sizes
  <2> QED BY <1>1, <2>1, <2>2, <2>3 DEF Scanning
<1>3. CASE ~(function + 1 < Functions)
  <2>1. NextDevice
    BY <1>3 DEF NextFunction
  <2>2. /\ bus' \in 0 .. Buses /\ device' \in 0 .. Devices - 1 /\ function' = 0
        /\ pc' \in {"device", "scanned"} /\ (pc' = "device" <=> bus' < Buses)
        /\ \A at \in Address : Before(at, cursor') <=> Before(at, cursor) \/ Passed(at)
    BY <2>1, DeviceOrder
  <2>3. ASSUME NEW at \in Address PROVE Passed(at) <=> at = cursor
    <3>1. at = <<at[1], at[2], at[3]>> /\ at[3] \in Nat /\ at[3] < Functions
      BY AddressParts
    <3>2. at[3] >= function <=> at[3] = function
      BY <1>1, <1>3, <3>1, Sizes
    <3> QED BY <3>1, <3>2 DEF Passed, cursor
  <2>4. function' \in 0 .. Functions - 1
    BY <2>2, Sizes
  <2> QED BY <2>2, <2>3, <2>4, Zenon DEF Scanning
<1> QED BY <1>2, <1>3

LEMMA InitPInv == Init => PInv
<1> SUFFICES ASSUME Init PROVE PInv
  OBVIOUS
<1>1. /\ machine \in Machines /\ pc = "device" /\ bus = 0 /\ device = 0 /\ function = 0
      /\ bar_idx = 0 /\ more = FALSE /\ devices = <<>> /\ mmio = -1
  BY DEF Init
<1>2. PType
  <2>1. bus \in 0 .. Buses /\ device \in 0 .. Devices - 1 /\ function \in 0 .. Functions - 1
        /\ bar_idx \in 0 .. 7 /\ bus < Buses
    BY <1>1, Sizes
  <2>2. more \in BOOLEAN
    BY <1>1, Zenon
  <2>3. pc \in Scanning /\ pc # "done"
    BY <1>1 DEF Scanning
  <2> QED BY <1>1, <2>1, <2>2, <2>3, Zenon DEF PType
<1>3. Place
  BY <1>1 DEF Place
<1>4. Filling
  BY <1>1 DEF Filling
<1>5. Listed
  <2>1. devices \in Seq({}) /\ DOMAIN devices = {}
    BY <1>1
  <2>2. ASSUME NEW at \in DOMAIN machine PROVE ~Before(at, cursor)
    <3>1. at[1] \in Nat /\ at[2] \in Nat /\ at[3] \in Nat
      BY <1>1, MachineRules, AddressParts
    <3> QED BY <1>1, <3>1 DEF Before, cursor
  <2> QED BY <2>1, <2>2 DEF Listed
<1> QED BY <1>2, <1>3, <1>4, <1>5 DEF PInv

-----------------------------------------------------------------------------
(* The list grows.                                                         *)

LEMMA ListedStays ==
  ASSUME Listed, machine' = machine, devices' = devices,
         \A at \in DOMAIN machine : Before(at, cursor') <=> Before(at, cursor)
  PROVE  Listed'
BY Zenon DEF Listed, Describes

LEMMA AppendFacts ==
  ASSUME NEW S, NEW s \in Seq(S), NEW e
  PROVE  /\ Append(s, e) \in Seq(S \cup {e})
         /\ DOMAIN s = 1 .. Len(s) /\ Len(s) \in Nat
         /\ DOMAIN Append(s, e) = 1 .. Len(s) + 1
         /\ \A i \in DOMAIN s : Append(s, e)[i] = s[i]
         /\ Append(s, e)[Len(s) + 1] = e
<1>1. s \in Seq(S \cup {e})
  OBVIOUS
<1> QED BY <1>1

LEMMA ListedGrows ==
  ASSUME Listed, machine' = machine, devices' = Append(devices, dev),
         dev.at = cursor, Describes(machine, dev),
         \A at \in DOMAIN machine : Before(at, cursor') <=> Before(at, cursor) \/ at = cursor
  PROVE  Listed'
<1>1. PICK S : devices \in Seq(S)
  BY DEF Listed
<1> DEFINE n == Len(devices)
<1>2. /\ devices' \in Seq(S \cup {dev}) /\ n \in Nat
      /\ DOMAIN devices = 1 .. n /\ DOMAIN devices' = 1 .. n + 1
      /\ \A i \in DOMAIN devices : devices'[i] = devices[i]
      /\ devices'[n + 1] = dev
  BY <1>1, AppendFacts
<1> HIDE DEF n
<1>3. /\ \A i \in DOMAIN devices' : i \in DOMAIN devices \/ i = n + 1
      /\ \A i \in DOMAIN devices : i \in DOMAIN devices' /\ i < n + 1
      /\ \A i \in DOMAIN devices' : ~(n + 1 < i)
      /\ n + 1 \in DOMAIN devices'
  BY <1>2
<1>4. cursor \in DOMAIN machine
  BY DEF Describes
<1>5. \A i \in DOMAIN devices' : Describes(machine, devices'[i])
  BY <1>2, <1>3, Zenon DEF Listed
<1>6. \A i \in DOMAIN devices' : Before(devices'[i].at, cursor')
  <2>1. ASSUME NEW i \in DOMAIN devices PROVE Before(devices[i].at, cursor')
    <3>1. devices[i].at \in DOMAIN machine /\ Before(devices[i].at, cursor)
      BY Zenon DEF Listed, Describes
    <3> QED BY <3>1, Zenon
  <2>2. Before(dev.at, cursor')
    BY <1>4, Zenon
  <2> QED BY <1>2, <1>3, <2>1, <2>2, Zenon
<1>7. \A i, j \in DOMAIN devices' : i < j => Before(devices'[i].at, devices'[j].at)
  <2> TAKE i, j \in DOMAIN devices'
  <2> HAVE i < j
  <2>1. i \in DOMAIN devices
    BY <1>3, Zenon
  <2>2. CASE j \in DOMAIN devices
    BY <1>2, <2>1, <2>2, Zenon DEF Listed
  <2>3. CASE j = n + 1
    <3>1. Before(devices[i].at, cursor)
      BY <2>1, Zenon DEF Listed
    <3> QED BY <1>2, <2>1, <2>3, <3>1, Zenon
  <2> QED BY <1>3, <2>2, <2>3, Zenon
<1>8. \A at \in DOMAIN machine :
        Before(at, cursor') => \E i \in DOMAIN devices' : devices'[i].at = at
  <2> SUFFICES ASSUME NEW at \in DOMAIN machine, Before(at, cursor')
               PROVE  \E i \in DOMAIN devices' : devices'[i].at = at
    BY Zenon
  <2>1. CASE Before(at, cursor)
    BY <1>2, <1>3, <2>1, Zenon DEF Listed
  <2>2. CASE at = cursor
    BY <1>2, <1>3, <2>2, Zenon
  <2> QED BY <2>1, <2>2, Zenon
<1> QED BY <1>2, <1>5, <1>6, <1>7, <1>8, Zenon DEF Listed

\* An absent function 0 means an absent device, and one that is not marked has no
\* further functions.
LEMMA AloneOrAbsent ==
  ASSUME PType, NEW at \in DOMAIN machine, Passed(at)
  PROVE  Here \in DOMAIN machine /\ (machine[Here].multi \/ at = cursor)
<1>1. /\ at \in Address /\ Zero(at) \in DOMAIN machine
      /\ at[3] > 0 => machine[Zero(at)].multi
  BY MachineRules DEF PType
<1>2. Zero(at) = Here
  BY DEF Zero, Here, Passed
<1>3. at = <<at[1], at[2], at[3]>> /\ at[3] \in Nat /\ function \in Nat
  BY <1>1, AddressParts, Sizes DEF PType
<1>4. at[3] > 0 \/ at = cursor
  BY <1>3 DEF Passed, cursor
<1> QED BY <1>1, <1>2, <1>4, Zenon

LEMMA InMachine ==
  ASSUME PType
  PROVE  DOMAIN machine \subseteq Address
BY MachineRules, Zenon DEF PType

-----------------------------------------------------------------------------
(* The loop over base address slots.                                       *)

\* A 64-bit BAR is followed by its upper half, which the loop skips; no other is.
LEMMA BarStep ==
  ASSUME NEW mach \in Machines, NEW at \in DOMAIN mach, NEW n \in Bars, NEW S,
         NEW bars \in [Bars -> S], BarsUpTo(mach[at], bars, n), NEW v,
         ~(mach[at].bridge /\ n > 1) => v = BarOf(mach[at].slots[n])
  PROVE  BarsUpTo(mach[at], [bars EXCEPT ![n] = v], n + Stride(v.type))
<1> DEFINE f == mach[at]
           new == [bars EXCEPT ![n] = v]
           k == n + Stride(v.type)
           Plain(b) == ~(f.bridge /\ b > 1)
<1>1. new[n] = v /\ \A b \in Bars : b # n => new[b] = bars[b]
  OBVIOUS
<1>2. Stride(v.type) = 1 \/ (Stride(v.type) = 2 /\ v.type = "Memory64")
  BY DEF Stride
<1>3. n \in Int /\ k \in Int /\ (k = n + 1 \/ k = n + 2)
  BY <1>2 DEF Bars
<1>4. v.type = "Memory64" <=> k = n + 2
  BY <1>2, <1>3 DEF Stride
<1>5. \A b \in Bars : IF b < n THEN Plain(b) => bars[b] = BarOf(f.slots[b]) ELSE bars[b] = NoBar
  BY Zenon DEF BarsUpTo
<1>6. n < 6 /\ Plain(n) => f.slots[n].kind # "upper"
  BY Zenon DEF BarsUpTo
<1>7. \A b \in Bars : SlotWellFormed(f, b)
  BY SlotRules, Zenon
<1>8. Plain(n) => v = BarOf(f.slots[n])
  OBVIOUS
<1> HIDE DEF f, new, k
<1>9. \A b \in Bars : b \in Int /\ 0 <= b /\ b < 6
  BY DEF Bars
<1>10. ASSUME Plain(n)
       PROVE  /\ f.slots[n].kind \in {"io", "mem32", "mem64"}
              /\ f.slots[n].kind = "mem64" <=> k = n + 2
  <2>1. f.slots[n].kind \in {"io", "mem32", "mem64"}
    BY <1>6, <1>7, <1>9, <1>10 DEF SlotWellFormed
  <2>2. BarOf(f.slots[n]).type = IF f.slots[n].kind = "io" THEN "Io"
                                 ELSE IF f.slots[n].kind = "mem32" THEN "Memory32" ELSE "Memory64"
    BY <2>1 DEF BarOf, Io, Mem
  <2>3. v.type = "Memory64" <=> f.slots[n].kind = "mem64"
    BY <1>8, <1>10, <2>1, <2>2
  <2> QED BY <2>1, <2>3, <1>4
<1>11. ASSUME NEW b \in Bars, b = n + 1, Plain(b)
       PROVE  f.slots[b].kind = "upper" <=> k = n + 2
  <2>1. Plain(n)
    BY <1>3, <1>11
  <2>2. b > 0 /\ b - 1 = n
    BY <1>3, <1>9, <1>11
  <2>3. f.slots[b].kind = "upper" <=> b > 0 /\ f.slots[b - 1].kind = "mem64"
    BY <1>7, Zenon DEF SlotWellFormed
  <2> QED BY <1>10, <2>1, <2>2, <2>3
<1>12. ASSUME NEW b \in Bars
       PROVE  IF b < k THEN Plain(b) => new[b] = BarOf(f.slots[b]) ELSE new[b] = NoBar
  <2>1. CASE b < n
    <3>1. b < k /\ b # n
      BY <1>3, <1>9, <2>1
    <3> QED BY <1>1, <1>5, <2>1, <3>1
  <2>2. CASE b = n
    <3>1. b < k
      BY <1>3, <2>2
    <3> QED BY <1>1, <1>8, <2>2, <3>1
  <2>3. CASE b = n + 1 /\ k = n + 2
    <3>1. b < k /\ ~(b < n) /\ b # n
      BY <1>3, <2>3
    <3>2. new[b] = NoBar
      BY <1>1, <1>5, <3>1
    <3>3. Plain(b) => BarOf(f.slots[b]) = NoBar
      BY <1>11, <2>3 DEF BarOf
    <3> QED BY <3>1, <3>2, <3>3
  <2>4. CASE b >= k
    <3>1. ~(b < k) /\ ~(b < n) /\ b # n
      BY <1>3, <1>9, <2>4
    <3> QED BY <1>1, <1>5, <3>1
  <2>5. b < n \/ b = n \/ (b = n + 1 /\ k = n + 2) \/ b >= k
    BY <1>3, <1>9
  <2> QED BY <2>1, <2>2, <2>3, <2>4, <2>5
<1>13. ASSUME k < 6, Plain(k) PROVE f.slots[k].kind # "upper"
  <2>1. k \in Bars
    BY <1>3, <1>9, <1>13 DEF Bars
  <2>2. CASE k = n + 1
    <3>1. k # n + 2
      BY <1>3, <2>2
    <3> QED BY <1>11, <1>13, <2>1, <2>2, <3>1
  <2>3. CASE k = n + 2
    <3>1. n + 1 \in Bars /\ k - 1 = n + 1
      BY <1>3, <1>9, <1>13, <2>3 DEF Bars
    <3>2. Plain(n + 1)
      BY <1>3, <1>13, <2>3
    <3>3. f.slots[n + 1].kind = "upper"
      BY <1>11, <2>3, <3>1, <3>2
    <3>4. f.slots[k].kind = "upper" => f.slots[k - 1].kind = "mem64"
      BY <1>7, <2>1, Zenon DEF SlotWellFormed
    <3> QED BY <3>1, <3>3, <3>4
  <2> QED BY <1>3, <2>2, <2>3
<1>14. BarsUpTo(f, new, k)
  BY <1>12, <1>13, Zenon DEF BarsUpTo
<1> QED BY <1>14 DEF f, new, k

\* Wherever a BAR is due, read_bar gives back what the slot was programmed with.
LEMMA ReadBarExact ==
  ASSUME PType, cursor \in DOMAIN machine, NEW n \in Bars,
         machine[cursor].slots[n].kind # "upper", ~(machine[cursor].bridge /\ n > 1)
  PROVE  read_bar(n) = BarOf(machine[cursor].slots[n])
<1> DEFINE slots == machine[cursor].slots
           above == read32(16 + n * 4 + 4)
<1>1. machine \in Machines
  BY DEF PType
<1>2. SlotWellFormed(machine[cursor], n)
  BY <1>1, SlotRules
<1>3. slots[n].kind \in {"io", "mem32", "mem64"} /\ (slots[n].kind = "mem64" => n < 5)
  <2>1. n \in Int
    BY DEF Bars
  <2>2. slots[n].kind \in {"io", "mem32", "mem64"}
    BY <1>2 DEF SlotWellFormed
  <2>3. ASSUME slots[n].kind = "mem64" PROVE n < 5
    <3>1. n < (IF machine[cursor].bridge THEN 1 ELSE 5)
      BY <1>2, <2>3, Zenon DEF SlotWellFormed
    <3> QED BY <2>1, <3>1
  <2> QED BY <2>2, <2>3
<1>4. n < 5 => n + 1 \in Bars
  BY DEF Bars
<1>5. read32(16 + n * 4) = SlotWord(slots, n) /\ (n < 5 => above = SlotWord(slots, n + 1))
  BY <1>4, ReadsHere
<1>6. read_bar(n) = Decode(read32(16 + n * 4), above)
  BY DEF read_bar, Decode
<1> HIDE DEF above
<1> QED BY <1>1, <1>3, <1>5, <1>6, SlotDecodes

-----------------------------------------------------------------------------
(* One step of enumerate.                                                  *)

LEMMA FoundKeeps ==
  ASSUME PInv, pc \in {"device", "function"}, Found,
         more' = IF pc = "device" THEN read32(12).multi ELSE more
  PROVE  PInv'
<1>1. PType /\ Place /\ Listed
  BY DEF PInv
<1>2. cursor \in DOMAIN machine
  BY VendorTells DEF Found
<1>3. /\ dev' = [at |-> cursor, class |-> read32(8), bars |-> [i \in Bars |-> NoBar]]
      /\ bar_idx' = 0 /\ pc' = "bars" /\ machine' = machine /\ cursor' = cursor
      /\ devices' = devices /\ mmio' = mmio
  BY Zenon DEF Found
<1>4. bus' = bus /\ device' = device /\ function' = function
  BY <1>3 DEF cursor
<1>5. read32(8) = machine[cursor].class /\ read32(12).multi = machine[cursor].multi
  BY <1>1, <1>2, ReadsHere
<1>6. Here \in DOMAIN machine /\ more' = machine[Here].multi
  <2>1. CASE pc = "device"
    <3>1. Here = cursor
      BY <1>1, <2>1 DEF Place, Here, cursor
    <3> QED BY <1>2, <1>5, <2>1, <3>1, Zenon
  <2>2. CASE pc = "function"
    <3>1. pc # "device"
      BY <2>2
    <3> QED BY <1>1, <2>2, <3>1, Zenon DEF Place
  <2> QED BY <2>1, <2>2
<1>7. PType'
  <2>1. more' \in BOOLEAN
    BY <1>1, <1>6, MachineRules, Zenon DEF PType
  <2>2. bar_idx' \in 0 .. 7
    BY <1>3
  <2>3. pc' \in Scanning /\ pc \in Scanning /\ pc' # "done" /\ pc # "done"
    BY <1>3 DEF Scanning
  <2> QED BY <1>1, <1>3, <1>4, <2>1, <2>2, <2>3, Zenon DEF PType
<1>8. Place'
  <2>1. Here' = Here
    BY <1>4 DEF Here
  <2>2. pc' # "device" /\ pc' # "function"
    BY <1>3
  <2> QED BY <1>2, <1>3, <1>6, <2>1, <2>2, Zenon DEF Place
<1>9. Filling'
  <2> DEFINE bars == [i \in Bars |-> NoBar]
  <2>1. dev'.bars = bars
    BY <1>3
  <2>2. bars \in [Bars -> {dev'.bars[b] : b \in Bars}]
    <3>1. \A b \in Bars : dev'.bars[b] = NoBar /\ bars[b] = NoBar
      BY <2>1
    <3> QED BY <3>1
  <2>3. BarsUpTo(machine[cursor], bars, 0)
    <3>1. \A b \in Bars : ~(b < 0) /\ bars[b] = NoBar
      BY DEF Bars
    <3>2. machine[cursor].slots[0].kind # "upper"
      <4>1. 0 \in Bars /\ ~(0 > 0)
        BY DEF Bars
      <4>2. SlotWellFormed(machine[cursor], 0)
        BY <1>1, <1>2, <4>1, SlotRules DEF PType
      <4> QED BY <4>1, <4>2, Zenon DEF SlotWellFormed
    <3> QED BY <3>1, <3>2, Zenon DEF BarsUpTo
  <2> HIDE DEF bars
  <2>4. dev' = [at |-> cursor', class |-> machine'[cursor'].class, bars |-> bars]
    BY <1>3, <1>5, Zenon DEF bars
  <2>5. BarsUpTo(machine'[cursor'], bars, bar_idx')
    BY <1>3, <2>3, Zenon
  <2> QED BY <2>2, <2>4, <2>5, Zenon DEF Filling
<1>10. Listed'
  BY <1>1, <1>3, ListedStays, Zenon
<1> QED BY <1>7, <1>8, <1>9, <1>10 DEF PInv

LEMMA ProbeDeviceKeeps ==
  ASSUME PInv, ProbeDevice
  PROVE  PInv'
<1>1. PType /\ Place /\ Listed /\ pc = "device"
  BY DEF PInv, ProbeDevice
<1>2. CASE Found /\ more' = read32(12).multi
  BY <1>1, <1>2, FoundKeeps
<1>3. CASE /\ vendor_id = NoVendor /\ NextDevice
           /\ UNCHANGED <<machine, bar_idx, dev, more, devices, mmio>>
  <2>1. cursor \notin DOMAIN machine /\ Here = cursor
    BY <1>1, <1>3, VendorTells DEF Place, Here, cursor
  <2>2. /\ bus' \in 0 .. Buses /\ device' \in 0 .. Devices - 1 /\ function' = 0
        /\ pc' \in {"device", "scanned"} /\ (pc' = "device" <=> bus' < Buses)
        /\ \A at \in Address : Before(at, cursor') <=> Before(at, cursor) \/ Passed(at)
    BY <1>1, <1>3, DeviceOrder DEF Scanning
  <2>3. \A at \in DOMAIN machine : Before(at, cursor') <=> Before(at, cursor)
    BY <1>1, <2>1, <2>2, AloneOrAbsent, InMachine, Zenon
  <2>4. Listed'
    BY <1>1, <1>3, <2>3, ListedStays, Zenon
  <2>5. PType'
    <3>1. function' \in 0 .. Functions - 1
      BY <2>2, Sizes
    <3>2. pc' \in Scanning \cup {"scanned", "done"} /\ (pc' \in Scanning <=> pc' = "device")
          /\ pc' # "done" /\ pc # "done"
      BY <1>1, <2>2 DEF Scanning
    <3> QED BY <1>1, <1>3, <2>2, <3>1, <3>2, Zenon DEF PType
  <2>6. Place' /\ Filling'
    BY <2>2 DEF Place, Filling
  <2> QED BY <2>4, <2>5, <2>6 DEF PInv
<1> QED BY <1>2, <1>3 DEF ProbeDevice

\* After NextFunction, whether a function was listed or found absent.
LEMMA NextFunctionKeeps ==
  ASSUME PInv, pc \in {"function", "bars"}, more, NextFunction, Listed',
         UNCHANGED <<machine, bar_idx, dev, more, mmio>>
  PROVE  PInv'
<1>1. PType /\ Place
  BY DEF PInv
<1>2. /\ bus' \in 0 .. Buses /\ device' \in 0 .. Devices - 1 /\ function' \in 0 .. Functions - 1
      /\ pc' \in {"device", "function", "scanned"}
      /\ pc' \in Scanning <=> bus' < Buses
      /\ pc' = "device" => function' = 0
      /\ pc' = "function" => bus' = bus /\ device' = device
  <2>1. pc \in Scanning
    BY DEF Scanning
  <2> QED BY <1>1, <2>1, NextFunctionMoves, Zenon
<1>3. PType'
  <2>1. pc' \in Scanning \cup {"scanned", "done"} /\ pc' # "done" /\ pc # "done"
    BY <1>2 DEF Scanning
  <2> QED BY <1>1, <1>2, <2>1, Zenon DEF PType
<1>4. Place'
  <2>1. pc' = "function" => Here' = Here
    BY <1>2 DEF Here
  <2>2. Here \in DOMAIN machine /\ more = machine[Here].multi
    BY <1>1, Zenon DEF Place
  <2>3. pc' \notin {"bars"}
    BY <1>2
  <2> QED BY <1>2, <2>1, <2>2, <2>3, Zenon DEF Place
<1>5. Filling'
  BY <1>2 DEF Filling
<1> QED BY <1>3, <1>4, <1>5 DEF PInv

LEMMA ProbeFunctionKeeps ==
  ASSUME PInv, ProbeFunction
  PROVE  PInv'
<1>1. PType /\ Place /\ Listed /\ pc = "function"
  BY DEF PInv, ProbeFunction
<1>2. CASE Found /\ UNCHANGED more
  BY <1>1, <1>2, FoundKeeps
<1>3. CASE /\ vendor_id = NoVendor /\ NextFunction
           /\ UNCHANGED <<machine, bar_idx, dev, more, devices, mmio>>
  <2>1. cursor \notin DOMAIN machine
    BY <1>1, <1>3, VendorTells
  <2>2. \A at \in Address : Before(at, cursor') <=> Before(at, cursor) \/ at = cursor
    BY <1>1, <1>3, NextFunctionMoves DEF Scanning
  <2>3. \A at \in DOMAIN machine : Before(at, cursor') <=> Before(at, cursor)
    BY <1>1, <2>1, <2>2, InMachine, Zenon
  <2>4. Listed'
    BY <1>1, <1>3, <2>3, ListedStays, Zenon
  <2>5. more
    BY <1>1, Zenon DEF Place
  <2>6. pc \in {"function", "bars"}
    BY <1>1
  <2> QED BY <1>3, <2>4, <2>5, <2>6, NextFunctionKeeps, Zenon
<1> QED BY <1>2, <1>3 DEF ProbeFunction

LEMMA ReadBarKeeps ==
  ASSUME PInv, ReadBar
  PROVE  PInv'
<1>1. PType /\ Place /\ Filling /\ Listed /\ pc = "bars" /\ bar_idx < 6
  BY DEF PInv, ReadBar
<1> DEFINE f == machine[cursor]
           v == read_bar(bar_idx)
<1>2. cursor \in DOMAIN machine /\ machine \in Machines
  BY <1>1 DEF Place, PType
<1>3. bar_idx \in Bars
  BY <1>1 DEF PType, Bars
<1>4. PICK bars \in [Bars -> {dev.bars[b] : b \in Bars}] :
           /\ dev = [at |-> cursor, class |-> f.class, bars |-> bars]
           /\ BarsUpTo(f, bars, bar_idx)
  BY <1>1 DEF Filling
<1>5. ~(f.bridge /\ bar_idx > 1) => v = BarOf(f.slots[bar_idx])
  <2> SUFFICES ASSUME ~(f.bridge /\ bar_idx > 1) PROVE v = BarOf(f.slots[bar_idx])
    BY Zenon
  <2>1. f.slots[bar_idx].kind # "upper"
    BY <1>1, <1>4, Zenon DEF BarsUpTo
  <2> QED BY <1>1, <1>2, <1>3, <2>1, ReadBarExact, Zenon
<1>6. /\ dev' = [dev EXCEPT !.bars[bar_idx] = v]
      /\ bar_idx' = bar_idx + Stride(v.type)
      /\ machine' = machine /\ pc' = pc /\ cursor' = cursor /\ more' = more
      /\ devices' = devices /\ mmio' = mmio
  BY Zenon DEF ReadBar
<1>7. bus' = bus /\ device' = device /\ function' = function
  BY <1>6 DEF cursor
<1> HIDE DEF v, f
<1> DEFINE new == [bars EXCEPT ![bar_idx] = v]
<1>8. BarsUpTo(f, new, bar_idx')
  BY <1>2, <1>3, <1>4, <1>5, <1>6, BarStep DEF f
<1>9. dev' = [at |-> cursor, class |-> f.class, bars |-> new]
  BY <1>4, <1>6
<1>10. new \in [Bars -> {dev'.bars[b] : b \in Bars}]
  <2>1. dev'.bars = new /\ DOMAIN new = Bars
    BY <1>9
  <2>2. new = [b \in Bars |-> new[b]]
    OBVIOUS
  <2> HIDE DEF new
  <2> QED BY <2>1, <2>2
<1>11. Filling'
  <2> HIDE DEF new
  <2>1. cursor' = cursor /\ machine'[cursor'] = f
    BY <1>6 DEF f
  <2> QED BY <1>8, <1>9, <1>10, <2>1, Zenon DEF Filling
<1>12. PType'
  <2>1. bar_idx' \in 0 .. 7
    BY <1>3, <1>6 DEF Stride, Bars
  <2> QED BY <1>1, <1>6, <1>7, <2>1, Zenon DEF PType
<1>13. Place'
  <2>1. Here' = Here
    BY <1>7 DEF Here
  <2> QED BY <1>1, <1>6, <1>7, <2>1, Zenon DEF Place
<1>14. Listed'
  BY <1>1, <1>6, ListedStays, Zenon
<1> QED BY <1>11, <1>12, <1>13, <1>14 DEF PInv

LEMMA PushDeviceKeeps ==
  ASSUME PInv, PushDevice
  PROVE  PInv'
<1>1. PType /\ Place /\ Filling /\ Listed /\ pc = "bars" /\ bar_idx >= 6
  BY DEF PInv, PushDevice
<1>2. /\ devices' = Append(devices, dev)
      /\ UNCHANGED <<machine, bar_idx, dev, more, mmio>>
  BY Zenon DEF PushDevice
<1>3. cursor \in DOMAIN machine /\ Here \in DOMAIN machine /\ more = machine[Here].multi
  BY <1>1, Zenon DEF Place
<1>4. Describes(machine, dev) /\ dev.at = cursor
  <2>1. PICK bars \in [Bars -> {dev.bars[b] : b \in Bars}] :
             /\ dev = [at |-> cursor, class |-> machine[cursor].class, bars |-> bars]
             /\ BarsUpTo(machine[cursor], bars, bar_idx)
    BY <1>1 DEF Filling
  <2>2. dev.at = cursor /\ dev.class = machine[cursor].class /\ dev.bars = bars
    BY <2>1
  <2>3. \A b \in Bars : b < bar_idx
    BY <1>1 DEF Bars, PType
  <2>4. \A b \in Bars : ~(machine[cursor].bridge /\ b > 1) => bars[b] = BarOf(machine[cursor].slots[b])
    BY <2>1, <2>3, Zenon DEF BarsUpTo
  <2> QED BY <1>3, <2>2, <2>4, Zenon DEF Describes
<1>5. pc \in Scanning /\ pc \in {"function", "bars"}
  BY <1>1 DEF Scanning
<1>6. CASE more
  <2>1. NextFunction
    BY <1>6, Zenon DEF PushDevice
  <2>2. \A at \in DOMAIN machine : Before(at, cursor') <=> Before(at, cursor) \/ at = cursor
    BY <1>1, <1>5, <2>1, NextFunctionMoves, InMachine, Zenon
  <2>3. Listed'
    BY <1>1, <1>2, <1>4, <2>2, ListedGrows, Zenon
  <2> QED BY <1>2, <1>5, <1>6, <2>1, <2>3, NextFunctionKeeps, Zenon
<1>7. CASE ~more
  <2>1. NextDevice
    BY <1>7, Zenon DEF PushDevice
  <2>2. /\ bus' \in 0 .. Buses /\ device' \in 0 .. Devices - 1 /\ function' = 0
        /\ pc' \in {"device", "scanned"} /\ (pc' = "device" <=> bus' < Buses)
        /\ \A at \in Address : Before(at, cursor') <=> Before(at, cursor) \/ Passed(at)
    BY <1>1, <1>5, <2>1, DeviceOrder, Zenon
  <2>3. \A at \in DOMAIN machine : Passed(at) => at = cursor
    BY <1>1, <1>3, <1>7, AloneOrAbsent, Zenon
  <2>4. Passed(cursor)
    <3>1. function \in Int
      BY <1>1 DEF PType
    <3> QED BY <3>1 DEF Passed, cursor
  <2>5. \A at \in DOMAIN machine : Before(at, cursor') <=> Before(at, cursor) \/ at = cursor
    BY <1>1, <2>2, <2>3, <2>4, InMachine, Zenon
  <2>6. Listed'
    BY <1>1, <1>2, <1>4, <2>5, ListedGrows, Zenon
  <2>7. PType'
    <3>1. function' \in 0 .. Functions - 1
      BY <2>2, Sizes
    <3>2. pc' \in Scanning \cup {"scanned", "done"} /\ (pc' \in Scanning <=> pc' = "device")
          /\ pc' # "done" /\ pc # "done"
      BY <1>1, <2>2 DEF Scanning
    <3> QED BY <1>1, <1>2, <2>2, <3>1, <3>2, Zenon DEF PType
  <2>8. Place' /\ Filling'
    BY <2>2 DEF Place, Filling
  <2> QED BY <2>6, <2>7, <2>8 DEF PInv
<1> QED BY <1>6, <1>7

-----------------------------------------------------------------------------
(* The choice of the controller.                                           *)

Base(at) == machine[at].slots[0].base

\* find_xhci and memory_base pick out the functions a driver can use.
LEMMA ServesExactly ==
  ASSUME PInv, NEW i \in DOMAIN devices
  PROVE  /\ Serves(devices[i]) <=> devices[i].at \in Usable
         /\ Serves(devices[i]) => /\ memory_base(devices[i].bars[0]) = Base(devices[i].at)
                                  /\ Base(devices[i].at) \in 0 .. Word * Word - 1
<1> DEFINE d == devices[i]
           f == machine[d.at]
           s == f.slots[0]
<1>1. machine \in Machines /\ Describes(machine, d)
  BY DEF PInv, PType, Listed
<1>2. 0 \in Bars /\ ~(0 > 0) /\ ~(0 > 1)
  BY DEF Bars
<1>3. d.at \in DOMAIN machine /\ d.class = f.class /\ d.bars[0] = BarOf(s)
  BY <1>1, <1>2, Zenon DEF Describes
<1>4. SlotWellFormed(f, 0)
  BY <1>1, <1>2, <1>3, SlotRules
<1> HIDE DEF d, f
<1>5. /\ s.kind \in {"io", "mem32", "mem64"}
      /\ s.kind = "mem32" => s.base \in 0 .. Word - 1
      /\ s.kind = "mem64" => s.base \in 0 .. Word * Word - 1
  BY <1>2, <1>4 DEF SlotWellFormed
<1>6. s.kind \in {"mem32", "mem64"} => s.base \in 0 .. Word * Word - 1
  <2>1. Word \in Nat \ {0}
    BY PciAssumption
  <2>2. Word \in Nat /\ Word * Word \in Nat /\ Word <= Word * Word
    BY <2>1
  <2> QED BY <1>5, <2>2
<1>7. s.kind \in {"mem32", "mem64"} => memory_base(BarOf(s)) = s.base
  BY DEF memory_base, BarOf, Mem
<1>8. s.kind = "io" => memory_base(BarOf(s)) = -1
  BY DEF memory_base, BarOf, Io
<1>9. memory_base(BarOf(s)) >= 0 <=> s.kind \in {"mem32", "mem64"}
  <2>1. CASE s.kind = "io"
    BY <1>8, <2>1
  <2>2. CASE s.kind \in {"mem32", "mem64"}
    <3>1. s.base >= 0
      <4> DEFINE n == Word * Word - 1
      <4>1. s.base \in 0 .. n
        BY <1>6, <2>2
      <4> HIDE DEF n
      <4> QED BY <4>1
    <3> QED BY <1>7, <2>2, <3>1
  <2> QED BY <1>5, <2>1, <2>2
<1>10. Serves(d) <=> f.class = Xhci /\ s.kind \in {"mem32", "mem64"}
  BY <1>3, <1>9, Zenon DEF Serves, IsXhci
<1>11. d.at \in Usable <=> f.class = Xhci /\ s.kind \in {"mem32", "mem64"}
  BY <1>3, Zenon DEF Usable, f
<1> QED BY <1>3, <1>6, <1>7, <1>10, <1>11, Zenon DEF d, f, Base

\* When the scan has ended, all of the machine is before the cursor.
LEMMA AllListed ==
  ASSUME PInv, pc \in {"scanned", "done"}
  PROVE  \A at \in DOMAIN machine : \E i \in DOMAIN devices : devices[i].at = at
<1> SUFFICES ASSUME NEW at \in DOMAIN machine
             PROVE  \E i \in DOMAIN devices : devices[i].at = at
  BY Zenon
<1>1. PType /\ Listed
  BY DEF PInv
<1>2. at[1] \in Nat /\ at[1] < Buses
  BY <1>1, MachineRules, AddressParts DEF PType
<1>3. bus \in Nat /\ ~(bus < Buses)
  BY <1>1, Sizes DEF PType, Scanning
<1>4. Before(at, cursor)
  BY <1>2, <1>3, Sizes DEF Before, cursor
<1> QED BY <1>1, <1>4, Zenon DEF Listed

MmioInRange == mmio \in -1 .. Word * Word - 1

LEMMA ChooseKeeps ==
  ASSUME PInv, ChooseController
  PROVE  PInv' /\ FirstControllerChosen' /\ MmioInRange'
<1>1. PType /\ Place /\ Listed /\ pc = "scanned" /\ pc' = "done"
  BY DEF PInv, ChooseController
<1>2. UNCHANGED <<machine, cursor, bar_idx, dev, more, devices>>
  BY Zenon DEF ChooseController
<1>3. bus' = bus /\ device' = device /\ function' = function
  BY <1>2 DEF cursor
<1>4. PInv'
  <2>1. PType'
    <3>1. pc' \in Scanning \cup {"scanned", "done"} /\ (pc' \in Scanning <=> pc \in Scanning)
          /\ ~(pc' # "done")
      BY <1>1 DEF Scanning
    <3> QED BY <1>1, <1>2, <1>3, <3>1, Zenon DEF PType
  <2>2. Place' /\ Filling'
    BY <1>1 DEF Place, Filling
  <2>3. Listed'
    BY <1>1, <1>2, ListedStays, Zenon
  <2> QED BY <2>1, <2>2, <2>3 DEF PInv
<1>5. \A at \in Usable : \E i \in DOMAIN devices : devices[i].at = at
  <2>1. Usable \subseteq DOMAIN machine
    BY Zenon DEF Usable
  <2> QED BY <1>1, <2>1, AllListed
<1>6. CASE /\ \A i \in DOMAIN devices : ~Serves(devices[i])
           /\ mmio' = -1
  <2>1. Usable = {}
    BY <1>5, <1>6, ServesExactly, Zenon
  <2>2. Usable' = {}
    BY <1>2, <2>1 DEF Usable
  <2>3. -1 \in -1 .. Word * Word - 1
    <3>1. Word \in Nat
      BY PciAssumption
    <3>2. Word * Word \in Nat
      BY <3>1
    <3> QED BY <3>2
  <2>4. MmioInRange'
    BY <1>6, <2>3 DEF MmioInRange
  <2>5. FirstControllerChosen'
    BY <1>6, <2>2, Zenon DEF FirstControllerChosen
  <2> QED BY <1>4, <2>4, <2>5
<1>7. ASSUME NEW i \in DOMAIN devices, Serves(devices[i]),
             \A j \in 1 .. i - 1 : ~Serves(devices[j]),
             mmio' = memory_base(devices[i].bars[0])
      PROVE  FirstControllerChosen' /\ MmioInRange'
  <2> DEFINE at == devices[i].at
  <2>1. at \in Usable /\ mmio' = Base(at) /\ Base(at) \in 0 .. Word * Word - 1
    BY <1>7, ServesExactly
  <2>2. ASSUME NEW other \in Usable \ {at} PROVE Before(at, other)
    <3>1. PICK j \in DOMAIN devices : devices[j].at = other
      BY <1>5
    <3>2. Serves(devices[j])
      BY <3>1, ServesExactly
    <3>3. j # i
      BY <3>1
    <3>4. i < j
      <4>1. PICK S : devices \in Seq(S)
        BY <1>1 DEF Listed
      <4>2. i \in Int /\ j \in Int /\ 1 <= j
        BY <4>1
      <4>3. j \notin 1 .. i - 1
        BY <1>7, <3>2
      <4> QED BY <3>3, <4>2, <4>3
    <3> QED BY <1>1, <3>1, <3>4, Zenon DEF Listed
  <2>3. Usable' = Usable /\ mmio' = machine'[at].slots[0].base
    BY <1>2, <2>1 DEF Usable, Base
  <2> HIDE DEF at
  <2>4. FirstControllerChosen'
    BY <2>1, <2>2, <2>3, Zenon DEF FirstControllerChosen
  <2>5. MmioInRange'
    <3> DEFINE n == Word * Word - 1
    <3>1. mmio' \in 0 .. n
      BY <2>1
    <3> HIDE DEF n
    <3>2. mmio' \in -1 .. n
      BY <3>1
    <3> QED BY <3>2 DEF MmioInRange, n
  <2> QED BY <2>4, <2>5
<1> QED BY <1>4, <1>6, <1>7 DEF ChooseController

ScanInv == PInv /\ FirstControllerChosen /\ MmioInRange

LEMMA ScanInvariant == Spec => []ScanInv
<1>1. ASSUME PInv, pc # "done" PROVE FirstControllerChosen /\ MmioInRange
  <2>1. mmio = -1
    BY <1>1 DEF PInv, PType
  <2>2. Word \in Nat
    BY PciAssumption
  <2>3. Word * Word \in Nat
    BY <2>2
  <2>4. MmioInRange
    BY <2>1, <2>3 DEF MmioInRange
  <2> QED BY <1>1, <2>4 DEF FirstControllerChosen
<1>2. Init => ScanInv
  <2> SUFFICES ASSUME Init PROVE ScanInv
    OBVIOUS
  <2>1. PInv /\ pc # "done"
    BY InitPInv DEF Init
  <2> QED BY <1>1, <2>1 DEF ScanInv
<1>3. ScanInv /\ [Next]_vars => ScanInv'
  <2> SUFFICES ASSUME ScanInv, [Next]_vars PROVE ScanInv'
    OBVIOUS
  <2>1. PInv
    BY DEF ScanInv
  <2>2. CASE ChooseController
    BY <2>1, <2>2, ChooseKeeps DEF ScanInv
  <2>3. CASE ProbeDevice \/ ProbeFunction \/ ReadBar \/ PushDevice
    <3>1. PInv'
      BY <2>1, <2>3, ProbeDeviceKeeps, ProbeFunctionKeeps, ReadBarKeeps, PushDeviceKeeps
    <3>2. mmio' = mmio /\ pc # "done" /\ pc' # "done"
      BY <2>3 DEF ProbeDevice, ProbeFunction, ReadBar, PushDevice, Found, NextDevice, NextFunction
    <3>3. mmio' \in -1 .. Word * Word - 1
      BY <3>2 DEF ScanInv, MmioInRange
    <3> QED BY <3>1, <3>2, <3>3 DEF ScanInv, FirstControllerChosen, MmioInRange
  <2>4. CASE UNCHANGED vars
    <3>1. /\ machine' = machine /\ pc' = pc /\ cursor' = cursor /\ bar_idx' = bar_idx
          /\ dev' = dev /\ more' = more /\ devices' = devices /\ mmio' = mmio
      BY <2>4, Zenon DEF vars
    <3>2. bus' = bus /\ device' = device /\ function' = function
      BY <3>1 DEF cursor
    <3>3. PType' /\ Place'
      BY <2>1, <3>1, <3>2, Zenon DEF PInv, PType, Place, Here
    <3>4. Filling' /\ Listed'
      BY <2>1, <3>1, Zenon DEF PInv, Filling, Listed
    <3>5. FirstControllerChosen' /\ MmioInRange'
      BY <3>1, Zenon DEF ScanInv, FirstControllerChosen, MmioInRange, Usable
    <3> QED BY <3>3, <3>4, <3>5 DEF PInv, ScanInv
  <2> QED BY <2>2, <2>3, <2>4, Zenon DEF Next, Step, Finished
<1> QED BY <1>2, <1>3, PTL DEF Spec

-----------------------------------------------------------------------------
(* Results.                                                                *)

\* On every machine, enumerate's counters stay within the bus, the BAR index never
\* goes beyond the seventh register, and the address kernel_main hands to the xHCI
\* driver is none or a 64-bit one.
THEOREM PciTypes == Spec => []TypeOK
<1>1. ScanInv => TypeOK
  BY Zenon DEF ScanInv, PInv, PType, MmioInRange, Scanning, TypeOK
<1> QED BY ScanInvariant, <1>1, PTL

\* On every machine, enumerate lists the functions that are there, in bus order,
\* each once, without the ghosts of devices that ignore the function number, and
\* when it ends it has listed them all.
THEOREM ScanIsExact == Spec => []ScanExact
<1>1. ScanInv => ScanExact
  <2> SUFFICES ASSUME ScanInv PROVE ScanExact
    OBVIOUS
  <2>1. PInv /\ Listed
    BY DEF ScanInv, PInv
  <2> QED BY <2>1, AllListed, Zenon DEF ScanExact, Listed, Describes
<1> QED BY ScanInvariant, <1>1, PTL

\* read_bar inverts the encoding of every base address register, whatever the
\* word sizes, and the loop never takes the upper half of a 64-bit BAR for a BAR.
THEOREM BarsAreDecoded == Spec => []BarsDecoded
<1>1. ScanInv => BarsDecoded
  BY Zenon DEF ScanInv, PInv, Listed, Describes, BarsDecoded
<1> QED BY ScanInvariant, <1>1, PTL

\* kernel_main brings up the first xHCI function in bus order that has its
\* registers in memory, at their address, and none only if there is none.
THEOREM FirstControllerIsChosen == Spec => []FirstControllerChosen
BY ScanInvariant, PTL DEF ScanInv
=============================================================================
