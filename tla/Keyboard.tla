------------------------------ MODULE Keyboard ------------------------------
(***************************************************************************)
(* The scancode decoding of keyboard.rs (scancode set 1, US QWERTY).       *)
(*                                                                         *)
(* A character is the number of the key that types it, plus 128 for the    *)
(* shifted legend of a key that has one: the table of scancode_to_char     *)
(* gives every such pair a character of its own, so this only renames      *)
(* characters.  Enter and backspace, which read_line tells apart, are the  *)
(* numbers of their keys.                                                  *)
(***************************************************************************)
EXTENDS Integers, Sequences

LeftShift  == 42      \* 0x2A
RightShift == 54      \* 0x36
ShiftKeys  == {LeftShift, RightShift}

Newline   == 28       \* 0x1C, '\n'
Backspace == 14       \* 0x0E, '\x08'

\* Keys with one legend: escape, backspace, tab, enter, space.
PlainKeys == {1, Backspace, 15, Newline, 57}

\* Keys with two: number row, the three letter rows and their punctuation.
LegendKeys == (2 .. 13) \cup (16 .. 27) \cup (30 .. 40) \cup (43 .. 53)

Char == PlainKeys \cup LegendKeys \cup {k + 128 : k \in LegendKeys}

\* The scancodes a key sends when pressed and when released.  Keys from 256 on
\* are the extended ones, such as the arrows, which send 0xE0 first.
Extended == 256
Prefix   == 224
KeypadEnter == Extended + Newline
KeypadSlash == Extended + 53

MakeCodes(k) == IF k < Extended THEN <<k>> ELSE <<Prefix, k - Extended>>

BreakCodes(k) == IF k < Extended THEN <<k + 128>> ELSE <<Prefix, k - Extended + 128>>

IsBreak(sc) == sc >= 128

\* What scancode_to_char returns; none stands for Option::None.
ScancodeToChar(sc, shifted, none) ==
  IF sc \in PlainKeys THEN sc
  ELSE IF sc \in LegendKeys THEN (IF shifted THEN sc + 128 ELSE sc)
  ELSE none

\* What a press is meant to type: the legend of the key.
Types(k, shifted, none) ==
  LET c == CASE k < Extended    -> ScancodeToChar(k, shifted, none)
             [] k = KeypadEnter -> Newline
             [] k = KeypadSlash -> KeypadSlash - Extended
             [] OTHER           -> none
  IN  IF c = none THEN <<>> ELSE <<c>>
=============================================================================
