---------------------------- MODULE AddressSpace ----------------------------
(***************************************************************************)
(* What the memory code promises: the kernel heap's pages are mapped one   *)
(* by one, each to a frame of its own that is no page table; building page *)
(* tables changes no translation; and an address once mapped keeps its     *)
(* translation.                                                            *)
(***************************************************************************)
EXTENDS Integers

CONSTANTS PageSize,
          Virt,      \* the virtual addresses
          Frames,    \* start addresses of the physical frames
          HeapBases, \* start addresses of the heap's pages
          Unmapped   \* the translation of an address that has none

VARIABLES translation,  \* the physical address behind each virtual address
          tableFrames   \* the frames in use as page tables

Page(base) == base .. base + PageSize - 1

Spare(f) ==
  /\ f \notin tableFrames
  /\ \A base \in HeapBases : translation[base] # f

MapPage(base) ==
  \E f \in Frames :
    /\ Spare(f)
    /\ \A v \in Page(base) : translation[v] = Unmapped
    /\ translation' = [v \in Virt |-> IF v \in Page(base) THEN f + (v - base)
                                      ELSE translation[v]]
    /\ UNCHANGED tableFrames

AddTable ==
  \E f \in Frames :
    /\ Spare(f)
    /\ tableFrames' = tableFrames \cup {f}
    /\ UNCHANGED translation

Init == \A v \in DOMAIN translation : translation[v] = Unmapped \/ translation[v] >= 0

Next == AddTable \/ \E base \in HeapBases : MapPage(base)

Spec == Init /\ [][Next]_<<translation, tableFrames>>
=============================================================================
