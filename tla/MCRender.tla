------------------------------ MODULE MCRender ------------------------------
(***************************************************************************)
(* Render for TLC: screens small enough that bubbles of radius 1 and 2     *)
(* overlap, touch the edges or are cut off by them, with and without       *)
(* padding at the end of a row and of the buffer.                          *)
(***************************************************************************)
EXTENDS Render

Mode(w, h, s, p, f) == [width |-> w, height |-> h, stride |-> s, pixels |-> p, format |-> f]

MCInfos == {Mode(7, 13, 7, 91, "Rgb"), Mode(4, 12, 5, 63, "Bgr"),
            Mode(6, 24, 6, 144, "U8"), Mode(3, 5, 4, 20, "Unknown")}
=============================================================================
