------------------------------- MODULE MCPci --------------------------------
(***************************************************************************)
(* Pci for TLC: two buses of two devices with three functions, registers   *)
(* of 64 values.  One device is a bridge or has one or several functions,  *)
(* another is an xHCI controller alone on the second bus.                  *)
(***************************************************************************)
EXTENDS Pci

Mem32(b) == Slot("mem32", b, TRUE)
Mem64(b) == Slot("mem64", b, FALSE)
Empty    == Slot("mem32", 0, FALSE)
Raw(b, bits) == [kind |-> "raw", base |-> b, prefetchable |-> FALSE, bits |-> bits]
Slots6(s) == [i \in Bars |-> s[i + 1]]

\* 64-bit BARs first and last, an I/O BAR first, none at all.
Layouts == {Slots6(<<Mem64(16 + 32 * 3), Upper, Mem32(16), Empty, Mem64(32 * 5), Upper>>),
            Slots6(<<Slot("io", 20, FALSE), Mem64(16 + 32 * 2), Upper, Empty, Empty, Mem32(16)>>),
            Slots6(<<Mem32(16), Empty, Empty, Empty, Empty, Empty>>)}

\* A bridge: bus numbers and windows where others have BARs, one of which looks
\* like a 64-bit BAR in the last slot.
BridgeSlots == Slots6(<<Mem64(16), Upper, Raw(16, 1), Raw(0, 6), Raw(16, 8), Raw(0, 4)>>)

General(class, slots, multi, aliases) ==
  [vendor |-> 1, class |-> class, multi |-> multi, aliases |-> aliases,
   bridge |-> FALSE, slots |-> slots, after |-> 17]
Bridge == [General(<<6, 4, 0>>, BridgeSlots, FALSE, FALSE) EXCEPT !.bridge = TRUE]

Ehci == <<12, 3, 32>>
Single == {General(c, s, FALSE, a) : c \in {Xhci, Ehci}, s \in Layouts, a \in BOOLEAN}
Marked == {General(c, s, TRUE, FALSE) : c \in {Xhci, Ehci}, s \in Layouts}
Other  == {General(Xhci, s, FALSE, FALSE) : s \in Layouts}

Lone    == <<1, 0, 0>>
Several == <<0, 1, 0>>
Last    == <<0, 1, 2>>

MCMachines ==
  { [at \in {<<0, 0, 0>>, Lone} |-> IF at = Lone THEN a ELSE Bridge] : a \in Single }
  \cup { [at \in {Several, Last, Lone} |->
             CASE at = Several -> m [] at = Last -> o [] OTHER -> a]
         : m \in Marked, o \in Other, a \in Single }
=============================================================================
