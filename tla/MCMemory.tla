------------------------------ MODULE MCMemory ------------------------------
(***************************************************************************)
(* Memory for TLC: pages of two bytes and tables of two entries, so that   *)
(* four heap pages cross level-1 and level-2 tables; maps of two usable    *)
(* regions and one of the bootloader's, with too little memory and enough. *)
(***************************************************************************)
EXTENDS Memory

\* The bootloader maps physical memory from virtual address 0: a 1 GiB page, a
\* 2 MiB page and two 4 KiB pages, scaled.  Its tables are frames 0 to 3.
PhysicalMap ==
  0 :> <<Maps(2), Unused>> @@ 2 :> <<Huge(0), Maps(4)>>
  @@ 4 :> <<Huge(8), Maps(6)>> @@ 6 :> <<Maps(12), Maps(14)>>

ZeroBased(T) == [f \in DOMAIN T |-> [i \in 0 .. 1 |-> T[f][i + 1]]]

\* The heap's addresses are free; the tables on the way to them are built in
\* part; a huge page, or a page, is in the way.
MCBootTables ==
  LET below(e) == [ZeroBased(PhysicalMap) EXCEPT ![0][1] = Maps(8)]
                    @@ 8 :> (0 :> e @@ 1 :> Unused)
  IN  { ZeroBased(PhysicalMap),
        below(Unused), below(Huge(8)),
        below(Maps(10)) @@ 10 :> (0 :> Unused @@ 1 :> Huge(12)),
        below(Maps(10)) @@ 10 :> (0 :> Maps(12) @@ 1 :> Unused)
                        @@ 12 :> (0 :> Maps(14) @@ 1 :> Unused),
        below(Maps(10)) @@ 10 :> (0 :> Unused @@ 1 :> Maps(12))
                        @@ 12 :> (0 :> Unused @@ 1 :> Maps(14)) }

Bounds == {16, 20, 26, 34, 40}

MCMemoryMaps ==
  { <<[kind |-> "Bootloader", start |-> 0, end |-> 16],
      [kind |-> "Usable", start |-> b[1], end |-> b[2]],
      [kind |-> "Usable", start |-> b[3], end |-> b[4]]>> :
    b \in {c \in [1 .. 4 -> Bounds] : \A i \in 1 .. 3 : c[i] <= c[i + 1]} }
=============================================================================
