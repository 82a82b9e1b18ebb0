----------------------------- MODULE RingBuffer -----------------------------
(***************************************************************************)
(* RingBuffer<N> of keyboard.rs as operators on its value: an array of N   *)
(* characters, the index `head' of the next write and the index `tail' of  *)
(* the next read.  One slot always stays free, so that head = tail means   *)
(* empty and never full.                                                   *)
(***************************************************************************)
EXTENDS Integers, Sequences

CONSTANT N            \* BUF_SIZE, the number of slots

ASSUME NAssumption == N \in Nat \ {0}

NUL == 0              \* '\0', the filler of an unused slot
None == -1            \* Option::None

Slots == 0 .. N - 1

RingNew == [data |-> [i \in Slots |-> NUL], head |-> 0, tail |-> 0]

\* Mutants of Push: the full test forgotten; the wrap forgotten.
PushOverwrites(b, c) == [b EXCEPT !.data[b.head] = c, !.head = (b.head + 1) % N]

PushNoWrap(b, c) ==
  IF b.head + 1 = b.tail
  THEN b
  ELSE [b EXCEPT !.data[b.head] = c, !.head = b.head + 1]

Push(b, c) ==
  LET next == (b.head + 1) % N
  IN  IF next = b.tail
      THEN b
      ELSE [b EXCEPT !.data[b.head] = c, !.head = next]

IsEmpty(b) == b.head = b.tail

\* pop() returns an option and advances the tail: two operators here.
PopValue(b) == IF IsEmpty(b) THEN None ELSE b.data[b.tail]

PopRest(b) == IF IsEmpty(b) THEN b ELSE [b EXCEPT !.tail = (b.tail + 1) % N]

-----------------------------------------------------------------------------
(* The abstraction: the queue of characters a ring value stands for.       *)

Count(b) == IF b.head >= b.tail THEN b.head - b.tail ELSE b.head + N - b.tail

SlotOf(b, i) == IF b.tail + i - 1 < N THEN b.tail + i - 1 ELSE b.tail + i - 1 - N

Contents(b) == [i \in 1 .. Count(b) |-> b.data[SlotOf(b, i)]]
=============================================================================
