-------------------------- MODULE RingBufferProofs --------------------------
(***************************************************************************)
(* For every number of slots and every set of characters, the ring buffer  *)
(* of keyboard.rs is a FIFO of N - 1 places.                               *)
(***************************************************************************)
EXTENDS RingBuffer, SequenceTheorems, TLAPS

Ring(C) == [data : [Slots -> C \cup {NUL}], head : Slots, tail : Slots]

\* Advancing an index of the ring: by one, and from the last slot to the first.
LEMMA NextIndex ==
  ASSUME NEW i \in Slots
  PROVE  /\ (i + 1) % N = IF i + 1 = N THEN 0 ELSE i + 1
         /\ (i + 1) % N \in Slots
<1>1. CASE i + 1 = N
  BY <1>1, NAssumption, Z3 DEF Slots
<1>2. CASE i + 1 # N
  <2>1. i + 1 \in 0 .. N - 1
    BY <1>2, NAssumption DEF Slots
  <2>2. (i + 1) % N = i + 1
    BY <2>1, NAssumption, Z3
  <2> QED BY <1>2, <2>1, <2>2 DEF Slots
<1> QED BY <1>1, <1>2

\* The queue a ring value stands for is a sequence of at most N - 1 characters
\* if the slots between tail and head hold characters.
Filled(b, C) == \A i \in 1 .. Count(b) : b.data[SlotOf(b, i)] \in C

LEMMA ContentsType ==
  ASSUME NEW C, NEW b \in Ring(C), Filled(b, C)
  PROVE  /\ Count(b) \in 0 .. N - 1
         /\ Contents(b) \in Seq(C)
         /\ Len(Contents(b)) = Count(b)
         /\ \A i \in 1 .. Count(b) : SlotOf(b, i) \in Slots
         /\ IsEmpty(b) <=> Contents(b) = <<>>
<1>1. Count(b) \in 0 .. N - 1
  BY NAssumption DEF Count, Ring, Slots
<1>2. Contents(b) \in Seq(C) /\ Len(Contents(b)) = Count(b)
  <2>1. Contents(b) \in [1 .. Count(b) -> C]
    BY DEF Contents, Filled
  <2> QED BY <1>1, <2>1
<1>3. \A i \in 1 .. Count(b) : SlotOf(b, i) \in Slots
  BY <1>1, NAssumption DEF Count, SlotOf, Ring, Slots
<1>4. IsEmpty(b) <=> Count(b) = 0
  BY NAssumption DEF Count, IsEmpty, Ring, Slots
<1>5. Count(b) = 0 <=> Contents(b) = <<>>
  BY <1>1, <1>2, EmptySeq
<1> QED BY <1>1, <1>2, <1>3, <1>4, <1>5

\* The ring starts empty.
LEMMA NewIsEmpty ==
  ASSUME NEW C
  PROVE  RingNew \in Ring(C) /\ Filled(RingNew, C) /\ Contents(RingNew) = <<>>
<1>1. RingNew \in Ring(C)
  BY NAssumption DEF RingNew, Ring, Slots, NUL
<1>2. Count(RingNew) = 0
  BY DEF RingNew, Count
<1>3. Filled(RingNew, C)
  BY <1>2 DEF Filled
<1>4. IsEmpty(RingNew)
  BY DEF IsEmpty, RingNew
<1> QED BY <1>1, <1>3, <1>4, ContentsType

\* push() keeps the ring well formed and appends the character, or leaves the
\* ring alone when N - 1 characters are queued.
THEOREM PushAppends ==
  ASSUME NEW C, NEW b \in Ring(C), Filled(b, C), NEW c \in C
  PROVE  /\ Push(b, c) \in Ring(C)
         /\ Filled(Push(b, c), C)
         /\ Contents(Push(b, c)) = IF Len(Contents(b)) < N - 1
                                   THEN Append(Contents(b), c)
                                   ELSE Contents(b)
<1> DEFINE next == (b.head + 1) % N
           d == Push(b, c)
<1>1. /\ b.head \in Slots /\ b.tail \in Slots
      /\ b.data \in [Slots -> C \cup {NUL}]
  BY DEF Ring
<1>2. next = (IF b.head + 1 = N THEN 0 ELSE b.head + 1) /\ next \in Slots
  BY <1>1, NextIndex
<1> HIDE DEF next
<1>3. /\ Count(b) \in 0 .. N - 1
      /\ Contents(b) \in Seq(C) /\ Len(Contents(b)) = Count(b)
      /\ \A i \in 1 .. Count(b) : SlotOf(b, i) \in Slots
  BY ContentsType
<1>4. next = b.tail <=> Count(b) = N - 1
  BY <1>1, <1>2, NAssumption DEF Count, Slots
<1>5. CASE next = b.tail
  BY <1>3, <1>4, <1>5, NAssumption DEF Push, next
<1>6. CASE next # b.tail
  <2>1. d = [b EXCEPT !.data[b.head] = c, !.head = next]
    BY <1>6 DEF Push, next
  <2>2. /\ d.head = next /\ d.tail = b.tail
        /\ d.data = [b.data EXCEPT ![b.head] = c]
        /\ d \in Ring(C)
    <3> HIDE DEF d
    <3>1. [b.data EXCEPT ![b.head] = c] \in [Slots -> C \cup {NUL}]
      BY <1>1
    <3>2. d = [data |-> [b.data EXCEPT ![b.head] = c], head |-> next, tail |-> b.tail]
      BY <2>1 DEF Ring
    <3> QED BY <1>1, <1>2, <3>1, <3>2 DEF Ring
  <2>3. Count(d) = Count(b) + 1 /\ Count(b) + 1 <= N - 1
    <3> HIDE DEF d
    <3>1. Count(b) + 1 <= N - 1
      BY <1>3, <1>4, <1>6, NAssumption
    <3>2. Count(d) = IF next >= b.tail THEN next - b.tail ELSE next + N - b.tail
      BY <2>2 DEF Count
    <3>3. Count(b) = IF b.head >= b.tail THEN b.head - b.tail ELSE b.head + N - b.tail
      BY DEF Count
    <3>4. /\ b.head \in Int /\ b.tail \in Int /\ N \in Int
          /\ 0 <= b.tail /\ b.tail < N /\ 0 <= b.head /\ b.head < N
      BY <1>1, NAssumption DEF Slots
    <3>5. CASE b.head + 1 = N
      BY <1>2, <1>6, <3>2, <3>3, <3>4, <3>5, <3>1
    <3>6. CASE b.head + 1 # N
      BY <1>2, <1>6, <3>2, <3>3, <3>4, <3>6, <3>1
    <3> QED BY <3>5, <3>6
  <2>4. \A i \in 1 .. Count(b) + 1 : SlotOf(d, i) = SlotOf(b, i)
    BY <2>2 DEF SlotOf
  <2>5. SlotOf(b, Count(b) + 1) = b.head
    BY <1>1, NAssumption DEF SlotOf, Count, Slots
  <2>6. \A i \in 1 .. Count(b) : SlotOf(b, i) # b.head
    BY <1>1, <1>3, NAssumption DEF SlotOf, Count, Slots
  <2>7. \A i \in 1 .. Count(b) : d.data[SlotOf(d, i)] = b.data[SlotOf(b, i)]
    BY <1>1, <1>3, <2>2, <2>4, <2>6
  <2>8. d.data[SlotOf(d, Count(b) + 1)] = c
    BY <1>1, <1>3, <2>2, <2>4, <2>5
  <2>9. Filled(d, C)
    BY <1>3, <2>3, <2>7, <2>8 DEF Filled
  <2>10. Contents(d) = Append(Contents(b), c)
    <3>1. /\ Contents(d) \in Seq(C) /\ Len(Contents(d)) = Count(b) + 1
          /\ \A i \in 1 .. Count(b) + 1 : Contents(d)[i] = d.data[SlotOf(d, i)]
      BY <2>2, <2>3, <2>9, ContentsType DEF Contents
    <3>2. /\ Append(Contents(b), c) \in Seq(C)
          /\ Len(Append(Contents(b), c)) = Count(b) + 1
          /\ \A i \in 1 .. Count(b) : Append(Contents(b), c)[i] = b.data[SlotOf(b, i)]
          /\ Append(Contents(b), c)[Count(b) + 1] = c
      BY <1>3, AppendProperties DEF Contents
    <3>3. \A i \in 1 .. Count(b) + 1 : Contents(d)[i] = Append(Contents(b), c)[i]
      BY <1>3, <2>7, <2>8, <3>1, <3>2
    <3> QED BY <1>3, <3>1, <3>2, <3>3, SeqEqual
  <2> QED BY <1>3, <2>2, <2>3, <2>9, <2>10, NAssumption
<1> QED BY <1>5, <1>6

\* pop() keeps the ring well formed, returns the oldest character and removes
\* it; on an empty ring it returns None and changes nothing.
THEOREM PopTakesHead ==
  ASSUME NEW C, NEW b \in Ring(C), Filled(b, C)
  PROVE  /\ PopRest(b) \in Ring(C)
         /\ Filled(PopRest(b), C)
         /\ IF Contents(b) = <<>>
            THEN PopValue(b) = None /\ Contents(PopRest(b)) = <<>>
            ELSE /\ PopValue(b) = Head(Contents(b))
                 /\ PopValue(b) \in C
                 /\ Contents(PopRest(b)) = Tail(Contents(b))
<1> DEFINE next == (b.tail + 1) % N
           d == PopRest(b)
<1>1. /\ b.head \in Slots /\ b.tail \in Slots
      /\ b.data \in [Slots -> C \cup {NUL}]
  BY DEF Ring
<1>2. next = (IF b.tail + 1 = N THEN 0 ELSE b.tail + 1) /\ next \in Slots
  BY <1>1, NextIndex
<1> HIDE DEF next
<1>3. /\ Count(b) \in 0 .. N - 1
      /\ Contents(b) \in Seq(C) /\ Len(Contents(b)) = Count(b)
      /\ IsEmpty(b) <=> Contents(b) = <<>>
  BY ContentsType
<1>4. CASE IsEmpty(b)
  BY <1>3, <1>4 DEF PopValue, PopRest
<1>5. CASE ~IsEmpty(b)
  <2>1. d = [b EXCEPT !.tail = next]
    BY <1>5 DEF PopRest, next
  <2>2. /\ d.head = b.head /\ d.tail = next /\ d.data = b.data
        /\ d \in Ring(C)
    BY <1>1, <1>2, <2>1 DEF Ring
  <2>3. Count(d) = Count(b) - 1 /\ Count(b) >= 1
    BY <1>1, <1>2, <1>5, <2>2, NAssumption DEF Count, Slots, IsEmpty
  <2>4. \A i \in 1 .. Count(b) - 1 : SlotOf(d, i) = SlotOf(b, i + 1)
    BY <1>1, <1>2, <1>3, <2>2, NAssumption DEF SlotOf, Slots
  <2>5. Filled(d, C)
    BY <1>3, <2>2, <2>3, <2>4 DEF Filled
  <2>6. SlotOf(b, 1) = b.tail
    BY <1>1, NAssumption DEF SlotOf, Slots
  <2>7. PopValue(b) = Contents(b)[1] /\ PopValue(b) \in C
    BY <1>3, <1>5, <2>3, <2>6 DEF PopValue, Contents, Filled
  <2>8. Contents(d) = Tail(Contents(b))
    <3>1. /\ Contents(d) \in Seq(C) /\ Len(Contents(d)) = Count(b) - 1
          /\ \A i \in 1 .. Count(b) - 1 : Contents(d)[i] = b.data[SlotOf(b, i + 1)]
      BY <2>2, <2>3, <2>4, <2>5, ContentsType DEF Contents
    <3>2. /\ Tail(Contents(b)) \in Seq(C)
          /\ Len(Tail(Contents(b))) = Count(b) - 1
          /\ \A i \in 1 .. Count(b) - 1 : Tail(Contents(b))[i] = Contents(b)[i + 1]
      BY <1>3, <1>5, HeadTailProperties
    <3>3. \A i \in 1 .. Count(b) - 1 : Contents(b)[i + 1] = b.data[SlotOf(b, i + 1)]
      BY <1>3 DEF Contents
    <3> QED BY <1>3, <2>3, <3>1, <3>2, <3>3, SeqEqual
  <2> QED BY <1>3, <1>5, <2>2, <2>5, <2>7, <2>8
<1> QED BY <1>4, <1>5
=============================================================================
