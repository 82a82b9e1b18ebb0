----------------------------- MODULE Animation ------------------------------
(***************************************************************************)
(* What the animation of render.rs promises: once the mark appears, the    *)
(* leader walks left to right, one bubble at a time unless the renderer is *)
(* late, and never stops.                                                  *)
(***************************************************************************)
EXTENDS Integers

VARIABLES shown,   \* the bubble that leads in the last whole frame, -1 before
          late     \* whether the renderer was too busy to be in time for a step

Init == shown = -1

Appear == shown = -1 /\ shown' \in 0 .. 2

Walk == shown >= 0 /\ shown' = (shown + 1) % 3

Skip == late /\ shown >= 0 /\ shown' \in 0 .. 2

Spec == Init /\ [][Appear \/ Walk \/ Skip]_shown

GoesOn == \A bubble \in 0 .. 2 : []<>(shown = bubble)
=============================================================================
