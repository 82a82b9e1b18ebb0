------------------------------- MODULE Serial -------------------------------
(***************************************************************************)
(* COM1 as serial.rs uses it: the registers of the 16550 that init writes  *)
(* and the transmit holding register that write_str polls.  The UART,      *)
(* which sends a byte in its own time, is external.  A byte is a message.  *)
(***************************************************************************)
EXTENDS Integers, Sequences

VARIABLES dlab,     \* the divisor latch is at registers 0 and 1
          divisor,  \* its low and high byte
          thr,      \* the byte in the transmit holding register, if any
          wire      \* what has been sent

uart == <<dlab, divisor, thr, wire>>

UartInit == dlab = FALSE /\ divisor = <<0, 0>> /\ thr = <<>> /\ wire = <<>>

\* init, as pairs of register and value.
SerialProgram == <<<<1, 0>>, <<3, 128>>, <<0, 3>>, <<1, 0>>, <<3, 3>>, <<2, 199>>, <<4, 11>>>>

\* What the UART does with a byte written to one of its registers.  A byte
\* written to a full holding register replaces the one there.
Outb(reg, val) ==
  /\ dlab' = IF reg = 3 THEN val = 128 ELSE dlab
  /\ divisor' = IF dlab /\ reg \in {0, 1} THEN [divisor EXCEPT ![reg + 1] = val] ELSE divisor
  /\ thr' = IF ~dlab /\ reg = 0 THEN <<val>> ELSE thr
  /\ UNCHANGED wire

\* Bit 5 of the line status register.
ThrEmpty == thr = <<>>

Transmit ==
  /\ thr # <<>>
  /\ wire' = wire \o thr
  /\ thr' = <<>>
  /\ UNCHANGED <<dlab, divisor>>
=============================================================================
