------------------------------- MODULE MCXhci -------------------------------
(***************************************************************************)
(* Xhci for TLC: two ports, rings of four TRBs, two polls, two devices     *)
(* coming or going; the firmware leaves the controller halted or running.  *)
(***************************************************************************)
EXTENDS Xhci

AnyCmd == {{}, {"RS", "INTE"}}
=============================================================================
