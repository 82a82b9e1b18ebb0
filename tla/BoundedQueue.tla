---------------------------- MODULE BoundedQueue ----------------------------
(***************************************************************************)
(* What the keystroke buffer of keyboard.rs promises its reader: a FIFO of *)
(* at most Capacity characters.  A character that arrives when the queue   *)
(* is full is lost and the ones already queued are kept; nothing else is   *)
(* ever lost, repeated, reordered or invented.                             *)
(***************************************************************************)
EXTENDS Integers, Sequences

CONSTANTS Capacity,  \* how many characters the queue holds
          Char,      \* the characters
          NoChar     \* the answer of an empty queue

VARIABLES queue,     \* characters accepted and not yet read, oldest first
          answer     \* what the latest read returned

Init == queue = <<>> /\ answer = NoChar

Put(c) ==
  /\ queue' = IF Len(queue) < Capacity THEN Append(queue, c) ELSE queue
  /\ UNCHANGED answer

Take ==
  /\ queue # <<>>
  /\ answer' = Head(queue)
  /\ queue'  = Tail(queue)

TakeNothing ==
  /\ queue = <<>>
  /\ answer' = NoChar
  /\ UNCHANGED queue

Next == (\E c \in Char : Put(c)) \/ Take \/ TakeNothing

Spec == Init /\ [][Next]_<<queue, answer>>
=============================================================================
