------------------------------ MODULE MCInput -------------------------------
(***************************************************************************)
(* Input for TLC: a ring of three slots, so that it fills, wraps and       *)
(* drops; a typing key (A), the keypad's Enter, which is extended,         *)
(* backspace and the shift keys.                                           *)
(***************************************************************************)
EXTENDS Input

KeyA == 30

TypingKeys == {KeyA, KeypadEnter, Backspace, LeftShift}
TwoKeys == {KeyA, Newline}
BothShiftKeys == {KeyA, LeftShift, RightShift}
=============================================================================
