---------------------------- MODULE InputProofs -----------------------------
(***************************************************************************)
(* Safety of the input path for every buffer size, every keyboard and any  *)
(* number of key events and ticks: the locks and interrupts, the buffer,   *)
(* and then that what is typed is what is read.                            *)
(***************************************************************************)
EXTENDS Input, RingBufferProofs, FiniteSetTheorems

\* The locks are held where the code holds them, interrupts stay off until
\* the PIC is set up, and handlers run with interrupts off.
Control ==
  /\ bufLock = "main" <=> main \in {"pop", "unlock"}
  /\ picsLock = "main" <=> main = "initialize"
  /\ offset = PIC_1_OFFSET <=> main \notin {"pics", "initialize"}
  /\ main \in {"pics", "initialize", "enable"} => ~iflag /\ isr = "none"
  /\ iflag => isr = "none"
  /\ isr = "push" => ch \in Char
  /\ main = "use" => got \in Char

IInv ==
  /\ TypeOK
  /\ Filled(BUF, Char)
  /\ Control
  /\ NoStrayInterrupt
  /\ EveryInterruptAcknowledged

\* None of read_char is no character.
LEMMA NoneIsNoChar == None \notin Char
BY DEF None, Char, PlainKeys, LegendKeys, Newline, Backspace

\* scancode_to_char returns a character or None.
LEMMA DecodedType ==
  ASSUME NEW sc, NEW shifted
  PROVE  ScancodeToChar(sc, shifted, None) \in Char \cup {None}
<1>1. CASE sc \in LegendKeys
  BY <1>1, Zenon DEF ScancodeToChar, Char
<1>2. CASE sc \notin LegendKeys
  BY <1>2, Zenon DEF ScancodeToChar, Char
<1> QED BY <1>1, <1>2

\* The character handle_scancode finds is a character or None.
LEMMA TypedType ==
  ASSUME NEW sc, NEW shifted
  PROVE  Typed(sc, shifted) \in Char \cup {None}
BY DecodedType, Zenon DEF Typed

\* The bytes a key sends and the characters its press is meant to type.
LEMMA KeyType ==
  ASSUME NEW k \in Keys, NEW shifted
  PROVE  /\ MakeCodes(k) \in Seq(0 .. 255) /\ Len(MakeCodes(k)) > 0
         /\ BreakCodes(k) \in Seq(0 .. 255) /\ Len(BreakCodes(k)) > 0
         /\ Types(k, shifted, None) \in Seq(Char)
<1>1. k \in (1 .. 127) \cup (257 .. 383)
  BY InputAssumption
<1>2. ASSUME NEW a \in 0 .. 255, NEW b \in 0 .. 255
      PROVE  /\ <<a>> \in Seq(0 .. 255) /\ Len(<<a>>) > 0
             /\ <<a, b>> \in Seq(0 .. 255) /\ Len(<<a, b>>) > 0
  OBVIOUS
<1>3. /\ MakeCodes(k) \in Seq(0 .. 255) /\ Len(MakeCodes(k)) > 0
      /\ BreakCodes(k) \in Seq(0 .. 255) /\ Len(BreakCodes(k)) > 0
  <2>1. CASE k < Extended
    <3>1. k \in 0 .. 255 /\ k + 128 \in 0 .. 255
      BY <1>1, <2>1 DEF Extended
    <3>2. MakeCodes(k) = <<k>> /\ BreakCodes(k) = <<k + 128>>
      BY <2>1 DEF MakeCodes, BreakCodes
    <3> QED BY <1>2, <3>1, <3>2
  <2>2. CASE ~(k < Extended)
    <3>1. k - Extended \in 0 .. 255 /\ k - Extended + 128 \in 0 .. 255 /\ Prefix \in 0 .. 255
      BY <1>1, <2>2 DEF Extended, Prefix
    <3>2. MakeCodes(k) = <<Prefix, k - Extended>> /\ BreakCodes(k) = <<Prefix, k - Extended + 128>>
      BY <2>2 DEF MakeCodes, BreakCodes
    <3>3. /\ <<Prefix, k - Extended>> \in Seq(0 .. 255)
          /\ Len(<<Prefix, k - Extended>>) > 0
      BY <1>2, <3>1, Zenon
    <3>4. /\ <<Prefix, k - Extended + 128>> \in Seq(0 .. 255)
          /\ Len(<<Prefix, k - Extended + 128>>) > 0
      BY <1>2, <3>1, Zenon
    <3> QED BY <3>2, <3>3, <3>4, Zenon
  <2> QED BY <2>1, <2>2
<1>4. Types(k, shifted, None) \in Seq(Char)
  <2> DEFINE c == CASE k < Extended    -> ScancodeToChar(k, shifted, None)
                    [] k = KeypadEnter -> Newline
                    [] k = KeypadSlash -> KeypadSlash - Extended
                    [] OTHER           -> None
  <2>1. Newline \in Char /\ KeypadSlash - Extended \in Char
    BY DEF Newline, KeypadSlash, Extended, Char, PlainKeys, LegendKeys
  <2>2. c \in Char \cup {None}
    <3>1. CASE k < Extended
      BY <3>1, DecodedType DEF Extended, KeypadEnter, KeypadSlash, Newline
    <3>2. CASE ~(k < Extended)
      BY <2>1, <3>2, <1>1 DEF Extended, KeypadEnter, KeypadSlash, Newline
    <3> QED BY <3>1, <3>2
  <2>3. Types(k, shifted, None) = IF c = None THEN <<>> ELSE <<c>>
    BY DEF Types
  <2> HIDE DEF c
  <2> QED BY <2>2, <2>3
<1> QED BY <1>3, <1>4

\* The typed buffer is a ring in the sense of the buffer's theorems.
LEMMA TypeIsRing == TypeOK => BUF \in Ring(Char)
BY DEF TypeOK, Ring

\* The inductive invariant holds when kernel_main starts.
LEMMA InitIInv == Init => IInv
<1> SUFFICES ASSUME Init PROVE IInv
  OBVIOUS
<1>1. BUF \in Ring(Char) /\ Filled(BUF, Char)
  BY NewIsEmpty DEF Init
<1>2. TypeOK
  <2>1. main \in MainPC /\ isr \in IsrPC
    BY DEF Init, MainPC, IsrPC
  <2>2. /\ fifo \in Seq(0 .. 255) /\ owed \in Seq(Char)
        /\ line \in Seq(Char) /\ consumed \in Seq(Char)
    BY EmptySeq DEF Init
  <2>3. held \in SUBSET Keys /\ irr \in SUBSET {Timer, Kbd} /\ inService \in SUBSET {Timer, Kbd}
    BY DEF Init
  <2>4. events \in Nat /\ TICKS \in Nat /\ SHIFT \in BOOLEAN /\ iflag \in BOOLEAN
    BY DEF Init
  <2> QED BY <1>1, <2>1, <2>2, <2>3, <2>4, Zenon DEF Init, TypeOK, Ring
<1>3. Control /\ NoStrayInterrupt /\ EveryInterruptAcknowledged
  BY DEF Init, Control, NoStrayInterrupt, EveryInterruptAcknowledged,
         FirmwareOffset, PIC_1_OFFSET
<1> QED BY <1>1, <1>2, <1>3 DEF IInv

\* One step of the system keeps the inductive invariant.
LEMMA NextIInv == IInv /\ [Next]_vars => IInv'
<1> SUFFICES ASSUME IInv, [Next]_vars PROVE IInv'
  OBVIOUS
<1> USE DEF IInv, Control, NoStrayInterrupt, EveryInterruptAcknowledged, TypeOK,
            MainPC, IsrPC, cpu, pic, keyboard, driver, reader, Timer, Kbd,
            FirmwareOffset, PIC_1_OFFSET
<1>1. CASE PitEdge
  BY <1>1 DEF PitEdge
<1>2. ASSUME NEW k \in Keys, KeyDown(k) PROVE IInv'
  <2>1. fifo' \in Seq(0 .. 255) /\ owed' \in Seq(Char)
    BY <1>2, KeyType, ConcatProperties DEF KeyDown, Send
  <2> QED BY <1>2, <2>1 DEF KeyDown, Send
<1>3. ASSUME NEW k \in Keys, KeyUp(k) PROVE IInv'
  <2>1. fifo' \in Seq(0 .. 255)
    BY <1>3, KeyType, ConcatProperties DEF KeyUp, Send
  <2> QED BY <1>3, <2>1 DEF KeyUp, Send
<1>4. ASSUME NEW irq \in {Timer, Kbd}, Deliver(irq) PROVE IInv'
  BY <1>4 DEF Deliver
<1>5. CASE TimerTick
  BY <1>5, InputAssumption DEF TimerTick
<1>6. CASE HandleScancode
  <2>1. fifo' \in Seq(0 .. 255)
    BY <1>6, HeadTailProperties DEF HandleScancode
  <2>2. SHIFT' \in BOOLEAN
    BY <1>6 DEF HandleScancode, NextShift
  <2>3. ch' \in Char \cup {None}
    BY <1>6, TypedType DEF HandleScancode
  <2>4. isr' \in {"eoi", "push"} /\ (isr' = "push" => ch' # None)
    BY <1>6 DEF HandleScancode, AfterScancode
  <2> QED BY <1>6, <2>1, <2>2, <2>3, <2>4 DEF HandleScancode
<1>7. CASE PushChar
  <2>1. BUF' \in Ring(Char) /\ Filled(BUF', Char)
    BY <1>7, TypeIsRing, PushAppends DEF PushChar
  <2>2. owed' \in Seq(Char)
    BY <1>7 DEF PushChar
  <2> QED BY <1>7, <2>1, <2>2 DEF PushChar, Ring
<1>8. CASE NotifyEndOfInterrupt
  BY <1>8 DEF NotifyEndOfInterrupt
<1>9. CASE Iret
  BY <1>9 DEF Iret
<1>10. CASE LockPics
  BY <1>10 DEF LockPics, Goto
<1>11. CASE InitializePics
  BY <1>11 DEF InitializePics, Goto
<1>12. CASE EnableInterrupts
  BY <1>12 DEF EnableInterrupts, Goto
<1>13. CASE WaitTicks
  BY <1>13 DEF WaitTicks, Goto
<1>14. CASE BringUp
  BY <1>14 DEF BringUp, Goto
<1>15. CASE LockBuf
  BY <1>15 DEF LockBuf, Goto
<1>16. CASE PopChar
  <2>1. BUF' \in Ring(Char) /\ Filled(BUF', Char) /\ got' \in Char \cup {None}
    BY <1>16, TypeIsRing, PopTakesHead DEF PopChar
  <2> QED BY <1>16, <2>1 DEF PopChar, Goto, Ring
<1>17. CASE UnlockBuf
  BY <1>17 DEF UnlockBuf, Goto
<1>18. CASE Halt
  BY <1>18 DEF Halt, Goto
<1>19. CASE ReadLine
  <2>1. got \in Char
    BY <1>19 DEF ReadLine, Goto
  <2>2. LineOf(line, got) \in Seq(Char)
    <3>1. CASE line = <<>>
      BY <2>1, <3>1, AppendProperties DEF LineOf
    <3>2. CASE line # <<>>
      <4>1. SubSeq(line, 1, Len(line) - 1) \in Seq(Char)
        BY <3>2, EmptySeq, LenProperties, SubSeqProperties
      <4> QED BY <2>1, <4>1, AppendProperties DEF LineOf
    <3> QED BY <3>1, <3>2
  <2>3. Append(consumed, got) \in Seq(Char)
    BY <2>1, AppendProperties
  <2> QED BY <1>19, <2>2, <2>3 DEF ReadLine, Goto
<1>20. CASE Echo
  BY <1>20 DEF Echo, Goto
<1>21. CASE UNCHANGED vars
  BY <1>21 DEF vars
<1> QED
  BY <1>1, <1>2, <1>3, <1>4, <1>5, <1>6, <1>7, <1>8, <1>9, <1>10, <1>11, <1>12,
     <1>13, <1>14, <1>15, <1>16, <1>17, <1>18, <1>19, <1>20, <1>21
     DEF Next, Device, Handler, KernelMain

\* The input path never leaves its types: whatever is typed, whenever it is
\* interrupted, the ring indices of keyboard.rs stay below BUF_SIZE.
THEOREM TypeCorrect == Spec => []TypeOK
<1>1. IInv => TypeOK
  BY DEF IInv
<1> QED BY InitIInv, NextIInv, <1>1, PTL DEF Spec

\* No interrupt arrives before the PIC's vectors have been moved.
THEOREM VectorsMovedFirst == Spec => []NoStrayInterrupt
<1>1. IInv => NoStrayInterrupt
  BY DEF IInv, Control, NoStrayInterrupt, TypeOK
<1> QED BY InitIInv, NextIInv, <1>1, PTL DEF Spec

\* No handler ever waits for PICS: kernel_main is not interrupted while it holds
\* the lock the handlers take.
THEOREM HandlersNeverWait == Spec => []PicsNeverContended
<1>1. IInv => PicsNeverContended
  BY DEF IInv, Control, PicsNeverContended, TypeOK
<1> QED BY InitIInv, NextIInv, <1>1, PTL DEF Spec

\* Every path through a handler acknowledges its line before it returns.
THEOREM InterruptsWellHandled == Spec => []EveryInterruptAcknowledged
<1>1. IInv => EveryInterruptAcknowledged
  BY DEF IInv, Control, EveryInterruptAcknowledged, TypeOK
<1> QED BY InitIInv, NextIInv, <1>1, PTL DEF Spec

-----------------------------------------------------------------------------
(* No scancode is stranded in the 8042 but by the PIC's initialisation.    *)
(* While the handler has yet to read the port no other edge can be         *)
(* pending, and an edge announces a byte that is there.                    *)

EdgeInv ==
  /\ isr = "scan" => Kbd \notin irr
  /\ Kbd \in irr \/ isr = "scan" => fifo # <<>>

EdgeKept == Announced => Announced'

\* One step keeps the edge invariant and, unless it initialises the PIC,
\* leaves no scancode unannounced that was announced.
LEMMA NextEdgeInv ==
  IInv /\ EdgeInv /\ [Next]_vars => EdgeInv' /\ (EdgeKept \/ InitializePics)
<1> SUFFICES ASSUME IInv, EdgeInv, [Next]_vars
             PROVE  EdgeInv' /\ (EdgeKept \/ InitializePics)
  OBVIOUS
<1> USE DEF EdgeInv, EdgeKept, Announced, cpu, pic, keyboard, driver, reader, Kbd,
            Timer, FirmwareOffset, PIC_1_OFFSET
<1>1. ASSUME NEW codes \in Seq(0 .. 255), Len(codes) > 0, Send(codes) PROVE EdgeInv' /\ EdgeKept
  <2>1. fifo' # <<>>
    BY <1>1, ConcatProperties, EmptySeq, LenProperties DEF Send, IInv, TypeOK
  <2> QED BY <1>1, <2>1 DEF Send
<1>2. ASSUME NEW irq \in {Timer, Kbd}, Deliver(irq) PROVE EdgeInv' /\ EdgeKept
  <2>1. offset = PIC_1_OFFSET
    BY <1>2 DEF Deliver, IInv, Control, TypeOK
  <2>2. isr' = IF irq = Kbd THEN "scan" ELSE "tick"
    BY <1>2, <2>1 DEF Deliver
  <2> QED BY <1>2, <2>1, <2>2 DEF Deliver
<1>3. CASE HandleScancode
  <2>1. fifo' # <<>> <=> Len(fifo) > 1
    <3>1. fifo \in Seq(0 .. 255)
      BY DEF IInv, TypeOK
    <3>2. Len(Tail(fifo)) = Len(fifo) - 1 /\ Len(fifo) \in Nat
          /\ Tail(fifo) \in Seq(0 .. 255)
      BY <1>3, <3>1, HeadTailProperties, LenProperties DEF HandleScancode
    <3>3. ASSUME NEW s \in Seq(0 .. 255) PROVE s # <<>> <=> Len(s) > 0
      BY EmptySeq, LenProperties
    <3>4. fifo' = Tail(fifo)
      BY <1>3 DEF HandleScancode
    <3>5. fifo' # <<>> <=> Len(Tail(fifo)) > 0
      BY <3>2, <3>3, <3>4
    <3> QED BY <3>2, <3>5
  <2>2. isr' \in {"eoi", "push"}
    BY <1>3 DEF HandleScancode, AfterScancode
  <2>3. offset = PIC_1_OFFSET
    BY <1>3 DEF HandleScancode, IInv, Control, TypeOK
  <2> QED BY <1>3, <2>1, <2>2, <2>3 DEF HandleScancode
<1>4. CASE InitializePics
  BY <1>4 DEF InitializePics, Goto, IInv, Control, TypeOK
<1>5. CASE PitEdge
  BY <1>5 DEF PitEdge
<1>6. CASE TimerTick \/ PushChar \/ NotifyEndOfInterrupt \/ Iret
  BY <1>6 DEF TimerTick, PushChar, NotifyEndOfInterrupt, Iret
<1>7. CASE UNCHANGED <<isr, irr, fifo, offset>>
  BY <1>7
<1>8. KernelMain => InitializePics \/ UNCHANGED <<isr, irr, fifo, offset>>
  BY DEF KernelMain, LockPics, EnableInterrupts, WaitTicks, BringUp, LockBuf,
         PopChar, UnlockBuf, Halt, ReadLine, Echo
<1>9. UNCHANGED vars => UNCHANGED <<isr, irr, fifo, offset>>
  BY DEF vars
<1>10. ASSUME NEW k \in Keys, KeyDown(k) \/ KeyUp(k) PROVE EdgeInv' /\ EdgeKept
  BY <1>1, <1>10, KeyType, Zenon DEF KeyDown, KeyUp
<1> QED
  BY <1>2, <1>3, <1>4, <1>5, <1>6, <1>7, <1>8, <1>9, <1>10 DEF Next, Device, Handler

\* The edge that announces a scancode is lost only when interrupts::init()
\* initialises the PIC over a byte that is already waiting, for every keyboard
\* and whenever its keys are pressed.
THEOREM NoScancodeStranded == Spec => ScancodeNotStranded
<1>1. Init => EdgeInv
  BY DEF Init, EdgeInv, Kbd
<1>2. IInv /\ EdgeInv /\ [Next]_vars => EdgeInv'
  BY NextEdgeInv
<1>3. IInv /\ EdgeInv /\ [Next]_vars => [Announced => Announced' \/ InitializePics]_vars
  BY NextEdgeInv DEF EdgeKept
<1> QED BY InitIInv, NextIInv, <1>1, <1>2, <1>3, PTL DEF Spec, ScancodeNotStranded

-----------------------------------------------------------------------------
\* The ring buffer between the keyboard handler and read_char implements the
\* bounded FIFO, whatever the interleaving and for every size: only PushChar
\* and PopChar touch it, each under the lock.
THEOREM BufferImplementsFifo == Spec => BufferIsFifo
<1>1. Init => Queue!Init
  BY NewIsEmpty DEF Init, Queue!Init
<1>2. IInv /\ [Next]_vars => [Queue!Next]_<<Contents(BUF), got>>
  <2> SUFFICES ASSUME IInv, [Next]_vars
               PROVE  [Queue!Next]_<<Contents(BUF), got>>
    OBVIOUS
  <2>0. BUF \in Ring(Char) /\ Filled(BUF, Char)
    BY TypeIsRing DEF IInv
  <2>1. CASE PushChar
    <3>1. ch \in Char
      BY <2>1 DEF PushChar, IInv, Control
    <3>2. /\ Contents(BUF') = IF Len(Contents(BUF)) < N - 1
                              THEN Append(Contents(BUF), ch) ELSE Contents(BUF)
          /\ got' = got
      BY <2>0, <2>1, <3>1, PushAppends DEF PushChar, reader
    <3>3. Queue!Put(ch)
      BY <3>2 DEF Queue!Put
    <3> QED BY <3>1, <3>3 DEF Queue!Next
  <2>2. CASE PopChar
    <3>1. IF Contents(BUF) = <<>>
          THEN got' = None /\ Contents(BUF') = <<>>
          ELSE got' = Head(Contents(BUF)) /\ Contents(BUF') = Tail(Contents(BUF))
      BY <2>0, <2>2, PopTakesHead DEF PopChar
    <3> QED BY <3>1 DEF Queue!Next, Queue!Take, Queue!TakeNothing
  <2>3. CASE UNCHANGED <<BUF, got>>
    BY <2>3
  <2>4. Next => PushChar \/ PopChar \/ UNCHANGED <<BUF, got>>
    BY DEF Next, Device, Handler, KernelMain, PitEdge, KeyDown, KeyUp, Send, Deliver,
           TimerTick, HandleScancode, NotifyEndOfInterrupt, Iret, LockPics,
           InitializePics, EnableInterrupts, WaitTicks, BringUp, LockBuf, UnlockBuf,
           Halt, ReadLine, Echo, driver, reader
  <2> QED BY <2>1, <2>2, <2>3, <2>4 DEF vars, driver, reader
<1> QED BY InitIInv, NextIInv, <1>1, <1>2, PTL DEF Spec, BufferIsFifo, Queue!Spec

-----------------------------------------------------------------------------
(* Decoding.  The scancodes on their way, decoded from the current shift   *)
(* flag, type the characters still owed and leave the flag as the keys     *)
(* that are down say.                                                      *)

\* shift[i] is the flag before the i-th scancode of f is handled, typed[i]
\* how many characters of o have been typed by then.
Decodes(f, o, shift, typed) ==
  /\ \A i \in 1 .. Len(f) : shift[i + 1] = NextShift(f[i], shift[i])
  /\ \A i \in 1 .. Len(f) :
       IF Typed(f[i], shift[i]) = None
       THEN typed[i + 1] = typed[i]
       ELSE /\ typed[i + 1] = typed[i] + 1
            /\ o[typed[i + 1]] = Typed(f[i], shift[i])
  /\ \A i, j \in 1 .. Len(f) + 1 : i <= j => typed[i] <= typed[j]

\* Handling the scancodes f with the flag at first, after the characters of o
\* up to done, types the rest of o and leaves the flag at last.
Pending(f, o, first, done, last) ==
  \E shift \in [1 .. Len(f) + 1 -> BOOLEAN], typed \in [1 .. Len(f) + 1 -> 0 .. Len(o)] :
    /\ shift[1] = first /\ typed[1] = done
    /\ shift[Len(f) + 1] = last /\ typed[Len(f) + 1] = Len(o)
    /\ Decodes(f, o, shift, typed)

DecodeInv ==
  /\ Pending(fifo, owed, SHIFT, IF isr = "push" THEN 1 ELSE 0, ShiftHeld)
  /\ isr = "push" => owed # <<>> /\ ch = Head(owed)

\* A keyboard with one shift key, on which no extended key sends, after its
\* prefix, the code of a key that types or of a shift key, except the keypad's
\* Enter and, if nothing is ever shifted, its slash.
PlainKeyboard ==
  /\ ~(ShiftKeys \subseteq Keys)
  /\ \A k \in Keys :
       k < Extended \/ k = KeypadEnter
         \/ (k = KeypadSlash /\ Keys \cap ShiftKeys = {})
         \/ k - Extended \notin PlainKeys \cup LegendKeys \cup ShiftKeys

\* o2 is o and the character c typed, if any.
Types1(o, c, o2) ==
  IF c = None
  THEN o2 = o
  ELSE /\ Len(o2) = Len(o) + 1 /\ o2[Len(o2)] = c
       /\ \A i \in 1 .. Len(o) : o2[i] = o[i]

\* One more scancode arrives, and what it types is owed as well.
LEMMA ScancodeArrives ==
  ASSUME NEW f \in Seq(0 .. 255), NEW o \in Seq(Char), NEW o2 \in Seq(Char),
         NEW first, NEW done, NEW last \in BOOLEAN, NEW c \in 0 .. 255,
         Pending(f, o, first, done, last),
         Types1(o, Typed(c, last), o2)
  PROVE  Pending(Append(f, c), o2, first, done, NextShift(c, last))
<1> DEFINE n == Len(f)
           g == Append(f, c)
<1>1. PICK shift \in [1 .. n + 1 -> BOOLEAN], typed \in [1 .. n + 1 -> 0 .. Len(o)] :
        /\ shift[1] = first /\ typed[1] = done
        /\ shift[n + 1] = last /\ typed[n + 1] = Len(o)
        /\ Decodes(f, o, shift, typed)
  BY Zenon DEF Pending
<1>2. /\ n \in Nat /\ g \in Seq(0 .. 255) /\ Len(g) = n + 1
      /\ g[n + 1] = c /\ \A i \in 1 .. n : g[i] = f[i]
  BY AppendProperties, LenProperties
<1>3. /\ Len(o) \in Nat /\ Len(o2) \in Nat /\ Len(o) <= Len(o2)
      /\ \A i \in 1 .. Len(o) : o2[i] = o[i]
  BY LenProperties DEF Types1
<1> DEFINE shift2 == [i \in 1 .. n + 2 |-> IF i <= n + 1 THEN shift[i] ELSE NextShift(c, last)]
           typed2 == [i \in 1 .. n + 2 |-> IF i <= n + 1 THEN typed[i] ELSE Len(o2)]
<1>4. NextShift(c, last) \in BOOLEAN
  BY DEF NextShift
<1>5. shift2 \in [1 .. n + 2 -> BOOLEAN]
  BY <1>1, <1>2, <1>4
<1>6. typed2 \in [1 .. n + 2 -> 0 .. Len(o2)]
  BY <1>1, <1>2, <1>3
<1>7. \A i \in 1 .. n + 1 : shift2[i] = shift[i] /\ typed2[i] = typed[i]
  BY <1>2
<1>8. shift2[n + 2] = NextShift(c, last) /\ typed2[n + 2] = Len(o2)
  BY <1>2
<1>9. n + 1 \in 1 .. n + 1 /\ 1 \in 1 .. n + 1 /\ (n + 1) + 1 = n + 2
  BY <1>2
<1> HIDE DEF n, g, shift2, typed2
<1>10. ASSUME NEW i \in 1 .. n + 1
       PROVE  /\ shift2[i + 1] = NextShift(g[i], shift2[i])
              /\ IF Typed(g[i], shift2[i]) = None
                 THEN typed2[i + 1] = typed2[i]
                 ELSE /\ typed2[i + 1] = typed2[i] + 1
                      /\ o2[typed2[i + 1]] = Typed(g[i], shift2[i])
  <2>1. CASE i = n + 1
    <3>1. shift2[i] = last /\ typed2[i] = Len(o) /\ g[i] = c /\ i + 1 = n + 2
      BY <1>1, <1>2, <1>7, <1>9, <2>1
    <3>2. Types1(o, Typed(g[i], shift2[i]), o2)
      BY <3>1
    <3> QED BY <1>8, <3>1, <3>2 DEF Types1
  <2>2. CASE i \in 1 .. n
    <3>1. i + 1 \in 1 .. n + 1 /\ i \in 1 .. n + 1
      BY <1>2, <2>2
    <3>2. g[i] = f[i]
      BY <1>2, <2>2
    <3>3. shift2[i] = shift[i] /\ typed2[i] = typed[i]
          /\ shift2[i + 1] = shift[i + 1] /\ typed2[i + 1] = typed[i + 1]
      BY <1>7, <3>1
    <3>4. /\ shift[i + 1] = NextShift(f[i], shift[i])
          /\ IF Typed(f[i], shift[i]) = None
             THEN typed[i + 1] = typed[i]
             ELSE typed[i + 1] = typed[i] + 1 /\ o[typed[i + 1]] = Typed(f[i], shift[i])
      BY <1>1, <2>2, Zenon DEF Decodes, n
    <3>5. typed[i] \in 0 .. Len(o) /\ typed[i + 1] \in 0 .. Len(o)
      BY <1>1, <3>1
    <3>6. typed[i + 1] = typed[i] + 1 => o2[typed[i + 1]] = o[typed[i + 1]]
      BY <1>3, <3>5
    <3> QED BY <3>2, <3>3, <3>4, <3>6
  <2> QED BY <1>2, <2>1, <2>2
<1>11. ASSUME NEW i \in 1 .. n + 2, NEW j \in 1 .. n + 2, i <= j
       PROVE  typed2[i] <= typed2[j]
  <2>1. CASE j = n + 2
    BY <1>6, <1>8, <1>3, <2>1
  <2>2. CASE j # n + 2
    <3>1. i \in 1 .. n + 1 /\ j \in 1 .. n + 1
      BY <1>2, <1>11, <2>2
    <3>2. typed[i] <= typed[j]
      BY <1>1, <1>11, <3>1 DEF Decodes, n
    <3> QED BY <1>7, <3>1, <3>2
  <2> QED BY <2>1, <2>2
<1>12. Decodes(g, o2, shift2, typed2)
  BY <1>2, <1>9, <1>10, <1>11 DEF Decodes
<1>13. Len(g) + 1 = n + 2
  BY <1>2
<1>14. shift2[1] = first /\ typed2[1] = done
  BY <1>1, <1>7, <1>9
<1> QED BY <1>5, <1>6, <1>8, <1>12, <1>13, <1>14, Zenon DEF Pending, g

\* The handler takes the first scancode: it finds the oldest character owed, or
\* none, and what is on its way after it decodes from the flag it leaves.
LEMMA ScancodeTaken ==
  ASSUME NEW f \in Seq(0 .. 255), f # <<>>, NEW o \in Seq(Char),
         NEW first, NEW last, Pending(f, o, first, 0, last)
  PROVE  LET c == Typed(Head(f), first)
         IN  /\ Pending(Tail(f), o, NextShift(Head(f), first), IF c = None THEN 0 ELSE 1, last)
             /\ c # None => Len(o) > 0 /\ o[1] = c
<1> DEFINE n == Len(f)
           g == Tail(f)
           c == Typed(Head(f), first)
<1>1. PICK shift \in [1 .. n + 1 -> BOOLEAN], typed \in [1 .. n + 1 -> 0 .. Len(o)] :
        /\ shift[1] = first /\ typed[1] = 0
        /\ shift[n + 1] = last /\ typed[n + 1] = Len(o)
        /\ Decodes(f, o, shift, typed)
  BY Zenon DEF Pending
<1>2. /\ n \in Nat /\ n > 0 /\ g \in Seq(0 .. 255) /\ Len(g) = n - 1 /\ Head(f) = f[1]
      /\ \A i \in 1 .. n - 1 : g[i] = f[i + 1]
  BY HeadTailProperties, LenProperties, EmptySeq
<1>3. Len(o) \in Nat
  BY LenProperties
<1> DEFINE shift2 == [i \in 1 .. n |-> shift[i + 1]]
           typed2 == [i \in 1 .. n |-> typed[i + 1]]
<1>4. shift2 \in [1 .. n -> BOOLEAN] /\ typed2 \in [1 .. n -> 0 .. Len(o)]
  BY <1>1, <1>2
<1>5. \A i \in 1 .. n : shift2[i] = shift[i + 1] /\ typed2[i] = typed[i + 1]
  BY <1>2
<1>6. 1 \in 1 .. n /\ n \in 1 .. n /\ 1 + 1 = 2 /\ 0 + 1 = 1
      /\ 2 \in 1 .. n + 1 /\ n + 1 \in 1 .. n + 1 /\ (n - 1) + 1 = n
  BY <1>2
<1> HIDE DEF n, g, shift2, typed2
<1>7. /\ shift[2] = NextShift(f[1], shift[1])
      /\ IF Typed(f[1], shift[1]) = None
         THEN typed[2] = typed[1]
         ELSE typed[2] = typed[1] + 1 /\ o[typed[2]] = Typed(f[1], shift[1])
  BY <1>1, <1>6 DEF Decodes, n
<1>8. /\ shift2[1] = NextShift(Head(f), first) /\ typed2[1] = (IF c = None THEN 0 ELSE 1)
      /\ shift2[n] = last /\ typed2[n] = Len(o)
      /\ c # None => o[1] = c
  BY <1>1, <1>2, <1>5, <1>6, <1>7
<1>9. c # None => Len(o) > 0
  <2>1. typed2[1] \in 0 .. Len(o)
    BY <1>4, <1>6
  <2> QED BY <1>3, <1>8, <2>1
<1>10. Decodes(g, o, shift2, typed2)
  <2>1. ASSUME NEW i \in 1 .. n - 1
        PROVE  /\ shift2[i + 1] = NextShift(g[i], shift2[i])
               /\ IF Typed(g[i], shift2[i]) = None
                  THEN typed2[i + 1] = typed2[i]
                  ELSE typed2[i + 1] = typed2[i] + 1 /\ o[typed2[i + 1]] = Typed(g[i], shift2[i])
    <3>1. i + 1 \in 1 .. n /\ i \in 1 .. n
      BY <1>2
    <3>2. g[i] = f[i + 1] /\ shift2[i] = shift[i + 1] /\ typed2[i] = typed[i + 1]
          /\ shift2[i + 1] = shift[(i + 1) + 1] /\ typed2[i + 1] = typed[(i + 1) + 1]
      BY <1>2, <1>5, <3>1
    <3>3. /\ shift[(i + 1) + 1] = NextShift(f[i + 1], shift[i + 1])
          /\ IF Typed(f[i + 1], shift[i + 1]) = None
             THEN typed[(i + 1) + 1] = typed[i + 1]
             ELSE /\ typed[(i + 1) + 1] = typed[i + 1] + 1
                  /\ o[typed[(i + 1) + 1]] = Typed(f[i + 1], shift[i + 1])
      BY <1>1, <3>1, Zenon DEF Decodes, n
    <3> QED BY <3>2, <3>3, Zenon
  <2>2. ASSUME NEW i \in 1 .. n, NEW j \in 1 .. n, i <= j
        PROVE  typed2[i] <= typed2[j]
    <3>1. i + 1 \in 1 .. n + 1 /\ j + 1 \in 1 .. n + 1 /\ i + 1 <= j + 1
      BY <1>2, <2>2
    <3>2. typed[i + 1] <= typed[j + 1]
      BY <1>1, <3>1 DEF Decodes, n
    <3> QED BY <1>5, <3>2
  <2> QED BY <1>2, <1>6, <2>1, <2>2 DEF Decodes
<1>11. Len(g) + 1 = n
  BY <1>2
<1>12. Pending(g, o, NextShift(Head(f), first), IF c = None THEN 0 ELSE 1, last)
  BY <1>4, <1>8, <1>10, <1>11, Zenon DEF Pending
<1> QED BY <1>8, <1>9, <1>12 DEF g

\* The handler pushes the oldest character owed.
LEMMA CharPushed ==
  ASSUME NEW f \in Seq(0 .. 255), NEW o \in Seq(Char), NEW first, NEW last,
         Pending(f, o, first, 1, last)
  PROVE  Pending(f, SubSeq(o, 2, Len(o)), first, 0, last)
<1> DEFINE n == Len(f)
           q == SubSeq(o, 2, Len(o))
<1>1. PICK shift \in [1 .. n + 1 -> BOOLEAN], typed \in [1 .. n + 1 -> 0 .. Len(o)] :
        /\ shift[1] = first /\ typed[1] = 1
        /\ shift[n + 1] = last /\ typed[n + 1] = Len(o)
        /\ Decodes(f, o, shift, typed)
  BY Zenon DEF Pending
<1>2. n \in Nat /\ Len(o) \in Nat
  BY LenProperties
<1>3. \A i \in 1 .. n + 1 : typed[i] \in 1 .. Len(o)
  <2> SUFFICES ASSUME NEW i \in 1 .. n + 1 PROVE typed[i] \in 1 .. Len(o)
    OBVIOUS
  <2>1. 1 \in 1 .. n + 1 /\ 1 <= i
    BY <1>2
  <2>2. typed[1] <= typed[i]
    BY <1>1, <2>1 DEF Decodes
  <2>3. typed[i] \in 0 .. Len(o)
    BY <1>1
  <2> QED BY <1>1, <2>2, <2>3
<1>4. Len(o) > 0
  BY <1>1, <1>2, <1>3
<1>5. Len(q) = Len(o) - 1 /\ \A i \in 1 .. Len(o) - 1 : q[i] = o[i + 1]
  <2>1. 2 \in 1 .. Len(o) + 1 /\ Len(o) \in 1 .. Len(o)
    BY <1>2, <1>4
  <2>2. q = Tail(o)
    BY <1>2, <1>4, EmptySeq
  <2>3. Len(Tail(o)) = Len(o) - 1 /\ \A i \in 1 .. Len(o) - 1 : Tail(o)[i] = o[i + 1]
    BY <1>2, <1>4, HeadTailProperties, EmptySeq
  <2> HIDE DEF q
  <2> QED BY <2>2, <2>3
<1> DEFINE typed2 == [i \in 1 .. n + 1 |-> typed[i] - 1]
<1>6. typed2 \in [1 .. n + 1 -> 0 .. Len(q)]
  BY <1>2, <1>3, <1>5
<1>7. \A i \in 1 .. n + 1 : typed2[i] = typed[i] - 1
  OBVIOUS
<1> HIDE DEF n, q, typed2
<1>8. Decodes(f, q, shift, typed2)
  <2>1. ASSUME NEW i \in 1 .. n
        PROVE  IF Typed(f[i], shift[i]) = None
               THEN typed2[i + 1] = typed2[i]
               ELSE typed2[i + 1] = typed2[i] + 1 /\ q[typed2[i + 1]] = Typed(f[i], shift[i])
    <3>1. i \in 1 .. n + 1 /\ i + 1 \in 1 .. n + 1
      BY <1>2
    <3>2. IF Typed(f[i], shift[i]) = None
          THEN typed[i + 1] = typed[i]
          ELSE typed[i + 1] = typed[i] + 1 /\ o[typed[i + 1]] = Typed(f[i], shift[i])
      BY <1>1, Zenon DEF Decodes, n
    <3>3. typed2[i] = typed[i] - 1 /\ typed2[i + 1] = typed[i + 1] - 1
          /\ typed[i] \in 1 .. Len(o) /\ typed[i + 1] \in 1 .. Len(o)
      BY <1>3, <1>7, <3>1
    <3>4. typed[i + 1] = typed[i] + 1 => q[typed2[i + 1]] = o[typed[i + 1]]
      BY <1>2, <1>5, <3>3
    <3> QED BY <3>2, <3>3, <3>4
  <2>2. ASSUME NEW i \in 1 .. n + 1, NEW j \in 1 .. n + 1, i <= j
        PROVE  typed2[i] <= typed2[j]
    <3>1. typed[i] <= typed[j]
      BY <1>1, <2>2 DEF Decodes, n
    <3> QED BY <1>3, <1>7, <3>1
  <2>3. \A i \in 1 .. n : shift[i + 1] = NextShift(f[i], shift[i])
    BY <1>1, Zenon DEF Decodes, n
  <2> QED BY <2>1, <2>2, <2>3, Zenon DEF Decodes, n
<1>9. typed2[1] = 0 /\ typed2[n + 1] = Len(q)
  <2>1. 1 \in 1 .. n + 1 /\ n + 1 \in 1 .. n + 1
    BY <1>2
  <2> QED BY <1>1, <1>2, <1>5, <1>7, <2>1
<1> QED BY <1>1, <1>6, <1>8, <1>9, Zenon DEF Pending, n, q

\* With no scancode on its way nothing is owed beyond what has been typed.
LEMMA NothingPending ==
  ASSUME NEW o, NEW first, NEW done, NEW last, Pending(<<>>, o, first, done, last)
  PROVE  Len(o) = done
<1>1. Len(<<>>) + 1 = 1
  OBVIOUS
<1> QED BY <1>1 DEF Pending

\* A make code is decoded as a key, and never as the release of a shift key.
LEMMA MakeCode ==
  ASSUME NEW c \in 1 .. 127, NEW shifted
  PROVE  Typed(c, shifted) = ScancodeToChar(c, shifted, None) /\ c - 128 \notin ShiftKeys
<1>1. ~(c >= 128) /\ c - 128 # 42 /\ c - 128 # 54
  OBVIOUS
<1> QED BY <1>1 DEF Typed, IsBreak, ShiftKeys, LeftShift, RightShift

\* What a press sends adds the character it is meant to type, under the shift
\* held, and its shift.
LEMMA PressArrives ==
  ASSUME PlainKeyboard, NEW k \in Keys, NEW held1 \in BOOLEAN,
         held1 => Keys \cap ShiftKeys # {},
         NEW f \in Seq(0 .. 255), NEW o \in Seq(Char), NEW first, NEW done,
         Pending(f, o, first, done, held1)
  PROVE  Pending(f \o MakeCodes(k), o \o Types(k, held1, None), first, done,
                 held1 \/ k \in ShiftKeys)
<1> DEFINE o2 == o \o Types(k, held1, None)
<1>0. k \in (1 .. 127) \cup (257 .. 383)
  BY InputAssumption
<1>1. o2 \in Seq(Char)
  BY KeyType, ConcatProperties
<1>2. ASSUME NEW c \in Char \cup {None}, Types(k, held1, None) = IF c = None THEN <<>> ELSE <<c>>
      PROVE  Types1(o, c, o2)
  <2>1. CASE c = None
    BY <1>2, <2>1 DEF Types1
  <2>2. CASE c # None
    <3>1. Types(k, held1, None) = <<c>> /\ <<c>> \in Seq(Char)
      BY <1>2, <2>2
    <3> QED BY <2>2, <3>1 DEF Types1
  <2> QED BY <2>1, <2>2
<1> HIDE DEF o2
<1>3. CASE k < Extended
  <2>1. k \in 1 .. 127
    BY <1>0, <1>3 DEF Extended
  <2>2. MakeCodes(k) = <<k>>
    BY <1>3 DEF MakeCodes
  <2>3. f \o <<k>> = Append(f, k)
    BY <2>1
  <2>4. NextShift(k, held1) = (held1 \/ k \in ShiftKeys)
    <3>1. k - 128 \notin ShiftKeys
      BY <2>1, MakeCode
    <3> QED BY <3>1, Zenon DEF NextShift
  <2>5. Typed(k, held1) = ScancodeToChar(k, held1, None)
    BY <2>1, MakeCode
  <2>6. Types(k, held1, None) = IF Typed(k, held1) = None THEN <<>> ELSE <<Typed(k, held1)>>
    BY <1>3, <2>1, <2>5 DEF Types, Extended, KeypadEnter, KeypadSlash, Newline
  <2>7. Types1(o, Typed(k, held1), o2)
    BY <1>2, <2>6, TypedType
  <2>8. k \in 0 .. 255
    BY <2>1
  <2>9. Pending(Append(f, k), o2, first, done, NextShift(k, held1))
    BY <1>1, <2>7, <2>8, ScancodeArrives
  <2> QED BY <2>2, <2>3, <2>4, <2>9 DEF o2
<1>4. CASE ~(k < Extended)
  <2> DEFINE c == k - Extended
  <2>1. c \in 1 .. 127 /\ Prefix \in 0 .. 255 /\ k \notin ShiftKeys
    BY <1>0, <1>4 DEF Extended, Prefix, ShiftKeys, LeftShift, RightShift
  <2>2. MakeCodes(k) = <<Prefix, c>>
    BY <1>4 DEF MakeCodes
  <2>3. f \o <<Prefix, c>> = Append(Append(f, Prefix), c) /\ Append(f, Prefix) \in Seq(0 .. 255)
    BY <2>1 DEF Prefix
  <2>4. NextShift(Prefix, held1) = held1 /\ Typed(Prefix, held1) = None
    BY DEF NextShift, Typed, IsBreak, Prefix, ShiftKeys, LeftShift, RightShift
  <2>5. Pending(Append(f, Prefix), o, first, done, held1)
    <3>1. Types1(o, Typed(Prefix, held1), o)
      BY <2>4 DEF Types1
    <3>2. Pending(Append(f, Prefix), o, first, done, NextShift(Prefix, held1))
      BY <2>1, <3>1, ScancodeArrives
    <3> QED BY <2>4, <3>2
  <2>6. c \notin ShiftKeys
    BY <2>1 DEF PlainKeyboard, KeypadEnter, KeypadSlash, Extended, Newline, ShiftKeys,
                LeftShift, RightShift
  <2>7. NextShift(c, held1) = held1
    <3>1. c - 128 \notin ShiftKeys
      BY <2>1, MakeCode
    <3> QED BY <2>6, <3>1, Zenon DEF NextShift
  <2>8. Typed(c, held1) = ScancodeToChar(c, held1, None)
    BY <2>1, MakeCode
  <2>9. Types(k, held1, None) = IF Typed(c, held1) = None THEN <<>> ELSE <<Typed(c, held1)>>
    <3>1. CASE k = KeypadEnter
      BY <1>4, <2>8, <3>1 DEF Types, ScancodeToChar, KeypadEnter, Extended, PlainKeys, Newline, None
    <3>2. CASE k = KeypadSlash /\ Keys \cap ShiftKeys = {}
      <4>1. c = 53 /\ 53 \notin PlainKeys /\ 53 \in LegendKeys /\ KeypadSlash - Extended = 53
            /\ KeypadSlash # KeypadEnter /\ 53 # None
        BY <3>2 DEF KeypadSlash, KeypadEnter, Extended, PlainKeys, LegendKeys, Newline, Backspace, None
      <4>2. held1 = FALSE
        BY <3>2
      <4>3. Typed(c, held1) = 53
        BY <2>8, <4>1, <4>2 DEF ScancodeToChar
      <4>4. Types(k, held1, None) = <<53>>
        BY <1>4, <3>2, <4>1 DEF Types
      <4> QED BY <4>1, <4>3, <4>4
    <3>3. CASE c \notin PlainKeys \cup LegendKeys
      <4>1. 28 \in PlainKeys /\ 53 \in LegendKeys
        BY DEF PlainKeys, LegendKeys, Newline
      <4>2. k # KeypadEnter /\ k # KeypadSlash
        BY <3>3, <4>1, <1>0 DEF KeypadEnter, KeypadSlash, Extended, Newline
      <4>3. Typed(c, held1) = None
        BY <2>8, <3>3 DEF ScancodeToChar
      <4> QED BY <1>4, <4>2, <4>3 DEF Types
    <3> QED BY <1>4, <3>1, <3>2, <3>3 DEF PlainKeyboard
  <2>10. Types1(o, Typed(c, held1), o2)
    BY <1>2, <2>9, TypedType
  <2>11. c \in 0 .. 255
    BY <2>1
  <2> HIDE DEF c
  <2>12. Pending(Append(Append(f, Prefix), c), o2, first, done, NextShift(c, held1))
    BY <1>1, <2>3, <2>5, <2>10, <2>11, ScancodeArrives
  <2>13. (held1 \/ k \in ShiftKeys) = held1
    BY <2>1
  <2> QED BY <2>2, <2>3, <2>7, <2>12, <2>13, Zenon DEF o2
<1> QED BY <1>3, <1>4

\* What a release sends types nothing and ends its shift.
LEMMA ReleaseArrives ==
  ASSUME PlainKeyboard, NEW k \in Keys, NEW held1 \in BOOLEAN,
         NEW f \in Seq(0 .. 255), NEW o \in Seq(Char), NEW first, NEW done,
         Pending(f, o, first, done, held1)
  PROVE  Pending(f \o BreakCodes(k), o, first, done, held1 /\ k \notin ShiftKeys)
<1>0. k \in (1 .. 127) \cup (257 .. 383)
  BY InputAssumption
<1>1. ASSUME NEW c \in 128 .. 255, NEW g \in Seq(0 .. 255), NEW last \in BOOLEAN,
             Pending(g, o, first, done, last)
      PROVE  Pending(Append(g, c), o, first, done, NextShift(c, last))
  <2>1. Typed(c, last) = None
    BY DEF Typed, IsBreak
  <2>2. Types1(o, Typed(c, last), o) /\ c \in 0 .. 255
    BY <2>1 DEF Types1
  <2> QED BY <1>1, <2>2, ScancodeArrives
<1>2. CASE k < Extended
  <2>1. k \in 1 .. 127 /\ k + 128 \in 128 .. 255 /\ (k + 128) - 128 = k
    BY <1>0, <1>2 DEF Extended
  <2>2. BreakCodes(k) = <<k + 128>>
    BY <1>2 DEF BreakCodes
  <2>3. f \o <<k + 128>> = Append(f, k + 128)
    BY <2>1
  <2>4. NextShift(k + 128, held1) = (held1 /\ k \notin ShiftKeys)
    <3>1. k + 128 \notin ShiftKeys
      BY <2>1 DEF ShiftKeys, LeftShift, RightShift
    <3> QED BY <2>1, <3>1 DEF NextShift
  <2>5. Pending(Append(f, k + 128), o, first, done, NextShift(k + 128, held1))
    BY <1>1, <2>1
  <2> QED BY <2>2, <2>3, <2>4, <2>5
<1>3. CASE ~(k < Extended)
  <2> DEFINE c == k - Extended + 128
  <2>1. c \in 128 .. 255 /\ Prefix \in 128 .. 255 /\ k \notin ShiftKeys /\ c - 128 = k - Extended
    BY <1>0, <1>3 DEF Extended, Prefix, ShiftKeys, LeftShift, RightShift
  <2>2. BreakCodes(k) = <<Prefix, c>>
    BY <1>3 DEF BreakCodes
  <2>3. f \o <<Prefix, c>> = Append(Append(f, Prefix), c) /\ Append(f, Prefix) \in Seq(0 .. 255)
    BY <2>1 DEF Prefix
  <2>4. NextShift(Prefix, held1) = held1
    BY DEF NextShift, Prefix, ShiftKeys, LeftShift, RightShift
  <2>5. Pending(Append(f, Prefix), o, first, done, held1)
    BY <1>1, <2>1, <2>4
  <2>6. c - 128 \notin ShiftKeys /\ c \notin ShiftKeys
    <3>1. k - Extended \notin ShiftKeys
      BY <1>3 DEF PlainKeyboard, KeypadEnter, KeypadSlash, Extended, Newline, ShiftKeys,
                  LeftShift, RightShift
    <3>2. ASSUME NEW x \in 128 .. 255 PROVE x \notin ShiftKeys
      BY DEF ShiftKeys, LeftShift, RightShift
    <3> QED BY <2>1, <3>1, <3>2
  <2>7. NextShift(c, held1) = held1
    BY <2>6, Zenon DEF NextShift
  <2> HIDE DEF c
  <2>8. Pending(Append(Append(f, Prefix), c), o, first, done, held1)
    BY <1>1, <2>1, <2>3, <2>5, <2>7
  <2>9. (held1 /\ k \notin ShiftKeys) = held1
    BY <2>1
  <2> QED BY <2>2, <2>3, <2>8, <2>9, Zenon
<1> QED BY <1>2, <1>3

\* One step keeps the decoding invariant.
LEMMA NextDecodeInv ==
  ASSUME PlainKeyboard
  PROVE  IInv /\ DecodeInv /\ [Next]_vars => DecodeInv'
<1> SUFFICES ASSUME IInv, DecodeInv, [Next]_vars PROVE DecodeInv'
  OBVIOUS
<1> USE DEF cpu, pic, keyboard, driver, reader
<1>0. /\ fifo \in Seq(0 .. 255) /\ owed \in Seq(Char) /\ held \subseteq Keys
      /\ ShiftHeld \in BOOLEAN
  BY DEF IInv, TypeOK, ShiftHeld
<1>1. ASSUME NEW k \in Keys, KeyDown(k) PROVE DecodeInv'
  <2>1. ShiftHeld' = (ShiftHeld \/ k \in ShiftKeys)
    BY <1>1 DEF KeyDown, ShiftHeld
  <2>2. ShiftHeld => Keys \cap ShiftKeys # {}
    BY <1>0 DEF ShiftHeld
  <2>3. Pending(fifo', owed', SHIFT, IF isr = "push" THEN 1 ELSE 0, ShiftHeld \/ k \in ShiftKeys)
    <3>1. Pending(fifo, owed, SHIFT, IF isr = "push" THEN 1 ELSE 0, ShiftHeld)
      BY DEF DecodeInv
    <3>2. fifo' = fifo \o MakeCodes(k) /\ owed' = owed \o Types(k, ShiftHeld, None)
      BY <1>1 DEF KeyDown, Send
    <3> HIDE DEF ShiftHeld
    <3> QED BY <1>0, <2>2, <3>1, <3>2, PressArrives
  <2>4. isr = "push" => owed' # <<>> /\ ch = Head(owed')
    <3>1. Types(k, ShiftHeld, None) \in Seq(Char)
      BY KeyType
    <3>2. ASSUME NEW t \in Seq(Char), owed # <<>>
          PROVE  owed \o t # <<>> /\ Head(owed \o t) = Head(owed)
      <4>1. Len(owed) > 0 /\ Len(owed) \in Nat
        BY <1>0, <3>2, EmptySeq, LenProperties
      <4>2. /\ owed \o t \in Seq(Char) /\ Len(owed \o t) = Len(owed) + Len(t)
            /\ (owed \o t)[1] = owed[1]
        BY <1>0, <4>1, ConcatProperties, LenProperties
      <4>3. ASSUME NEW s \in Seq(Char) PROVE Head(s) = s[1]
        OBVIOUS
      <4>4. Head(owed \o t) = (owed \o t)[1] /\ Head(owed) = owed[1]
        BY <1>0, <4>2, <4>3
      <4> QED BY <4>1, <4>2, <4>4, EmptySeq, LenProperties
    <3> QED BY <1>1, <3>1, <3>2 DEF KeyDown, DecodeInv
  <2>5. UNCHANGED <<SHIFT, isr, ch>>
    BY <1>1 DEF KeyDown, Send
  <2> QED BY <2>1, <2>3, <2>4, <2>5 DEF DecodeInv
<1>2. ASSUME NEW k \in Keys, KeyUp(k) PROVE DecodeInv'
  <2>1. ShiftHeld' = (ShiftHeld /\ k \notin ShiftKeys)
    <3>1. held' = held \ {k} /\ k \in held
      BY <1>2 DEF KeyUp
    <3>2. \A x, y \in held : x \in ShiftKeys /\ y \in ShiftKeys => x = y
      BY <1>0 DEF PlainKeyboard, ShiftKeys
    <3> QED BY <3>1, <3>2 DEF ShiftHeld
  <2>2. Pending(fifo', owed, SHIFT, IF isr = "push" THEN 1 ELSE 0, ShiftHeld /\ k \notin ShiftKeys)
    <3>1. Pending(fifo, owed, SHIFT, IF isr = "push" THEN 1 ELSE 0, ShiftHeld)
      BY DEF DecodeInv
    <3>2. fifo' = fifo \o BreakCodes(k)
      BY <1>2 DEF KeyUp, Send
    <3> HIDE DEF ShiftHeld
    <3> QED BY <1>0, <3>1, <3>2, ReleaseArrives
  <2>3. UNCHANGED <<SHIFT, isr, ch, owed>>
    BY <1>2 DEF KeyUp, Send
  <2> QED BY <2>1, <2>2, <2>3 DEF DecodeInv
<1>3. CASE HandleScancode
  <2>1. isr # "push" /\ fifo # <<>> /\ fifo' = Tail(fifo) /\ SHIFT' = NextShift(Head(fifo), SHIFT)
        /\ ch' = Typed(Head(fifo), SHIFT) /\ isr' = AfterScancode(ch')
        /\ UNCHANGED <<owed, held>>
    BY <1>3 DEF HandleScancode
  <2>2. Pending(fifo, owed, SHIFT, 0, ShiftHeld)
    BY <2>1 DEF DecodeInv
  <2>3. /\ Pending(fifo', owed, SHIFT', IF ch' = None THEN 0 ELSE 1, ShiftHeld)
        /\ ch' # None => Len(owed) > 0 /\ owed[1] = ch'
    <3> HIDE DEF ShiftHeld
    <3> QED BY <1>0, <2>1, <2>2, ScancodeTaken
  <2>4. isr' = "push" <=> ch' # None
    BY <2>1 DEF AfterScancode
  <2>5. isr' = "push" => owed # <<>> /\ ch' = Head(owed)
    BY <1>0, <2>3, <2>4, EmptySeq
  <2>6. ShiftHeld' = ShiftHeld
    BY <2>1 DEF ShiftHeld
  <2>7. (IF isr' = "push" THEN 1 ELSE 0) = (IF ch' = None THEN 0 ELSE 1)
    BY <2>4
  <2> QED BY <2>1, <2>3, <2>5, <2>6, <2>7 DEF DecodeInv
<1>4. CASE PushChar
  <2>1. isr = "push" /\ isr' = "eoi" /\ owed' = SubSeq(owed, 2, Len(owed))
        /\ UNCHANGED <<fifo, held, SHIFT>>
    BY <1>4 DEF PushChar
  <2>2. Pending(fifo, owed, SHIFT, 1, ShiftHeld)
    BY <2>1 DEF DecodeInv
  <2>3. Pending(fifo, owed', SHIFT, 0, ShiftHeld)
    BY <1>0, <2>1, <2>2, CharPushed
  <2>4. ShiftHeld' = ShiftHeld
    BY <2>1 DEF ShiftHeld
  <2> QED BY <2>1, <2>3, <2>4 DEF DecodeInv
<1>5. CASE UNCHANGED <<fifo, owed, SHIFT, ch, held>> /\ (isr' = "push" <=> isr = "push")
  BY <1>5 DEF DecodeInv, ShiftHeld
<1>6. PitEdge \/ KernelMain \/ UNCHANGED vars => UNCHANGED <<fifo, owed, SHIFT, ch, held, isr>>
  BY DEF PitEdge, KernelMain, LockPics, InitializePics, EnableInterrupts, WaitTicks, BringUp,
         LockBuf, PopChar, UnlockBuf, Halt, ReadLine, Echo, vars
<1>7. TimerTick \/ NotifyEndOfInterrupt \/ Iret
        => UNCHANGED <<fifo, owed, SHIFT, ch, held>> /\ (isr' = "push" <=> isr = "push")
  BY DEF TimerTick, NotifyEndOfInterrupt, Iret
<1>8. ASSUME NEW irq \in {Timer, Kbd}, Deliver(irq)
      PROVE  UNCHANGED <<fifo, owed, SHIFT, ch, held>> /\ (isr' = "push" <=> isr = "push")
  BY <1>8 DEF Deliver
<1> QED
  BY <1>1, <1>2, <1>3, <1>4, <1>5, <1>6, <1>7, <1>8 DEF Next, Device, Handler

\* Every character the keyboard handler pushes is the legend of the oldest key
\* press not yet answered, and no press goes unanswered, whatever the delays and
\* repeats, for a PlainKeyboard: one shift key in use, and of the extended keys
\* none whose second code keyboard.rs takes for another key.  The hypothesis is
\* needed: handle_scancode decodes the other keyboards wrongly, since it keeps
\* one flag for two shift keys and drops the prefix 0xE0.
THEOREM KeysDecodedAsPressed ==
  ASSUME PlainKeyboard
  PROVE  Spec => []DecodedAsPressed
<1>1. Init => DecodeInv
  <2> SUFFICES ASSUME Init PROVE DecodeInv
    OBVIOUS
  <2>1. fifo = <<>> /\ owed = <<>> /\ SHIFT = FALSE /\ isr = "none" /\ ShiftHeld = FALSE
    BY DEF Init, ShiftHeld
  <2>2. Pending(<<>>, <<>>, FALSE, 0, FALSE)
    <3> DEFINE shift == [i \in 1 .. 1 |-> FALSE]
               typed == [i \in 1 .. 1 |-> 0]
    <3>1. Len(<<>>) = 0 /\ Len(<<>>) + 1 = 1 /\ 1 \in 1 .. 1
      OBVIOUS
    <3>2. shift \in [1 .. 1 -> BOOLEAN] /\ typed \in [1 .. 1 -> 0 .. 0]
          /\ shift[1] = FALSE /\ typed[1] = 0
      OBVIOUS
    <3> HIDE DEF shift, typed
    <3>3. Decodes(<<>>, <<>>, shift, typed)
      BY <3>1, <3>2 DEF Decodes
    <3> QED BY <3>1, <3>2, <3>3 DEF Pending
  <2> QED BY <2>1, <2>2 DEF DecodeInv
<1>2. IInv /\ DecodeInv => DecodedAsPressed
  <2> SUFFICES ASSUME IInv, DecodeInv, fifo = <<>>, isr # "push" PROVE owed = <<>>
    BY DEF DecodedAsPressed, DecodeInv
  <2>1. Pending(<<>>, owed, SHIFT, 0, ShiftHeld)
    BY DEF DecodeInv
  <2>2. Len(owed) = 0
    BY <2>1, NothingPending
  <2> QED BY <2>2, EmptySeq DEF IInv, TypeOK
<1>3. PlainKeyboard
  OBVIOUS
<1>4. IInv /\ DecodeInv /\ [Next]_vars => DecodeInv'
  BY <1>3, NextDecodeInv
<1> QED BY InitIInv, NextIInv, <1>1, <1>2, <1>4, PTL DEF Spec
-----------------------------------------------------------------------------
(* The line.  Counting characters as one and backspaces as minus one, a    *)
(* position of what read_line was given survives if no stretch after it    *)
(* sums to less than zero; the stretch from the k-th survivor to the end   *)
(* sums to the number of survivors after it.                               *)

Erases(c, i, j) == {k \in i + 1 .. j : c[k] = Backspace}

Balance(c, i, j) ==
  Cardinality((i + 1 .. j) \ Erases(c, i, j)) - Cardinality(Erases(c, i, j))

SurvivesIn(c, i) ==
  /\ c[i] # Backspace
  /\ \A j \in i + 1 .. Len(c) : Balance(c, i, j) >= 0

\* The k-th character of the line l is the one at position pos[k] of c.
KeptAt(c, l, pos) ==
  /\ \A k, m \in 1 .. Len(l) : k < m => pos[k] < pos[m]
  /\ \A k \in 1 .. Len(l) :
       /\ SurvivesIn(c, pos[k]) /\ l[k] = c[pos[k]]
       /\ Balance(c, pos[k], Len(c)) = Len(l) - k
  /\ \A i \in 1 .. Len(c) : SurvivesIn(c, i) => \E k \in 1 .. Len(l) : pos[k] = i

Kept(c, l) == \E pos \in [1 .. Len(l) -> 1 .. Len(c)] : KeptAt(c, l, pos)

LineInv == Kept(consumed, line)

\* A balance is an integer, that of the empty stretch is zero.
LEMMA BalanceType ==
  ASSUME NEW c, NEW i \in Nat, NEW j \in Nat
  PROVE  /\ IsFiniteSet(Erases(c, i, j)) /\ IsFiniteSet((i + 1 .. j) \ Erases(c, i, j))
         /\ Cardinality(Erases(c, i, j)) \in Nat
         /\ Cardinality((i + 1 .. j) \ Erases(c, i, j)) \in Nat
         /\ Balance(c, i, j) \in Int
         /\ i >= j => Balance(c, i, j) = 0
<1>1. IsFiniteSet(i + 1 .. j)
  BY FS_Interval
<1>2. Erases(c, i, j) \in SUBSET (i + 1 .. j) /\ (i + 1 .. j) \ Erases(c, i, j) \in SUBSET (i + 1 .. j)
  BY DEF Erases
<1>3. IsFiniteSet(Erases(c, i, j)) /\ IsFiniteSet((i + 1 .. j) \ Erases(c, i, j))
  BY <1>1, <1>2, FS_Subset
<1>4. Cardinality(Erases(c, i, j)) \in Nat /\ Cardinality((i + 1 .. j) \ Erases(c, i, j)) \in Nat
  BY <1>3, FS_CardinalityType
<1>5. ASSUME i >= j PROVE Balance(c, i, j) = 0
  <2>1. i + 1 .. j = {}
    BY <1>5
  <2>2. Erases(c, i, j) = {} /\ (i + 1 .. j) \ Erases(c, i, j) = {}
    BY <1>2, <2>1
  <2> QED BY <2>2, FS_EmptySet DEF Balance
<1> QED BY <1>3, <1>4, <1>5 DEF Balance

\* A stretch that is the same in two histories has the same balance.
LEMMA BalanceSame ==
  ASSUME NEW c, NEW d, NEW i \in Nat, NEW j \in Nat,
         \A k \in i + 1 .. j : d[k] = c[k]
  PROVE  Balance(d, i, j) = Balance(c, i, j)
<1>1. Erases(d, i, j) = Erases(c, i, j)
  BY DEF Erases
<1> QED BY <1>1 DEF Balance

\* One more character adds one to the balance, one more backspace takes one.
LEMMA BalanceNext ==
  ASSUME NEW c, NEW i \in Nat, NEW j \in Nat, i <= j
  PROVE  Balance(c, i, j + 1) = Balance(c, i, j) + (IF c[j + 1] = Backspace THEN -1 ELSE 1)
<1> DEFINE E == Erases(c, i, j)
           K == (i + 1 .. j) \ E
           E2 == Erases(c, i, j + 1)
           K2 == (i + 1 .. j + 1) \ E2
<1>0. /\ IsFiniteSet(E) /\ IsFiniteSet(K) /\ Cardinality(E) \in Nat /\ Cardinality(K) \in Nat
      /\ Balance(c, i, j) = Cardinality(K) - Cardinality(E)
      /\ Balance(c, i, j + 1) = Cardinality(K2) - Cardinality(E2)
  BY BalanceType DEF Balance
<1>1. i + 1 .. j + 1 = (i + 1 .. j) \cup {j + 1} /\ j + 1 \notin i + 1 .. j
  OBVIOUS
<1>2. j + 1 \notin E /\ j + 1 \notin K
  BY <1>1 DEF Erases
<1>3. CASE c[j + 1] = Backspace
  <2>1. E2 = E \cup {j + 1} /\ K2 = K
    BY <1>1, <1>3 DEF Erases
  <2> HIDE DEF E, K, E2, K2
  <2>2. Cardinality(E2) = Cardinality(E) + 1
    BY <1>0, <1>2, <2>1, FS_AddElement
  <2> QED BY <1>0, <1>3, <2>1, <2>2
<1>4. CASE c[j + 1] # Backspace
  <2>1. E2 = E /\ K2 = K \cup {j + 1}
    BY <1>1, <1>4 DEF Erases
  <2> HIDE DEF E, K, E2, K2
  <2>2. Cardinality(K2) = Cardinality(K) + 1
    BY <1>0, <1>2, <2>1, FS_AddElement
  <2> QED BY <1>0, <1>4, <2>1, <2>2
<1> QED BY <1>3, <1>4

\* What one more character or backspace g does to the survivors of c.
LEMMA SurvivorsNext ==
  ASSUME NEW c \in Seq(Char), NEW g \in Char, NEW i \in 1 .. Len(c)
  PROVE  /\ SurvivesIn(Append(c, g), i) <=>
              SurvivesIn(c, i) /\ (g = Backspace => Balance(c, i, Len(c)) > 0)
         /\ Balance(Append(c, g), i, Len(c) + 1) =
              Balance(c, i, Len(c)) + (IF g = Backspace THEN -1 ELSE 1)
         /\ Append(c, g)[i] = c[i]
<1> DEFINE n == Len(c)
           d == Append(c, g)
<1>1. /\ n \in Nat /\ i \in Nat /\ i <= n /\ Len(d) = n + 1 /\ d[n + 1] = g
      /\ \A k \in 1 .. n : d[k] = c[k]
  BY AppendProperties, LenProperties
<1> HIDE DEF n, d
<1>2. ASSUME NEW j \in i .. n PROVE Balance(d, i, j) = Balance(c, i, j)
  <2>1. j \in Nat /\ \A k \in i + 1 .. j : d[k] = c[k]
    BY <1>1
  <2> QED BY <1>1, <2>1, BalanceSame
<1>3. Balance(d, i, n + 1) = Balance(c, i, n) + (IF g = Backspace THEN -1 ELSE 1)
  <2>1. Balance(d, i, n + 1) = Balance(d, i, n) + (IF d[n + 1] = Backspace THEN -1 ELSE 1)
    BY <1>1, BalanceNext
  <2>2. Balance(d, i, n) = Balance(c, i, n)
    BY <1>1, <1>2
  <2> QED BY <1>1, <2>1, <2>2
<1>4. d[i] = c[i]
  BY <1>1 DEF n
<1>5. Balance(c, i, n) \in Int /\ (i = n => Balance(c, i, n) = 0)
  BY <1>1, BalanceType
<1>6. i + 1 .. n + 1 = (i + 1 .. n) \cup {n + 1}
  BY <1>1
<1>7. SurvivesIn(d, i) <=> SurvivesIn(c, i) /\ Balance(d, i, n + 1) >= 0
  <2>1. \A j \in i + 1 .. n : Balance(d, i, j) = Balance(c, i, j)
    BY <1>1, <1>2
  <2>2. SurvivesIn(d, i) <=> c[i] # Backspace /\ \A j \in i + 1 .. n + 1 : Balance(d, i, j) >= 0
    BY <1>1, <1>4 DEF SurvivesIn
  <2>3. SurvivesIn(c, i) <=> c[i] # Backspace /\ \A j \in i + 1 .. n : Balance(c, i, j) >= 0
    BY DEF SurvivesIn, n
  <2> QED BY <1>6, <2>1, <2>2, <2>3
<1>8. SurvivesIn(c, i) => Balance(c, i, n) >= 0
  <2>1. CASE i = n
    BY <1>5, <2>1
  <2>2. CASE i # n
    BY <1>1, <2>2 DEF SurvivesIn, n
  <2> QED BY <2>1, <2>2
<1>9. SurvivesIn(d, i) <=> SurvivesIn(c, i) /\ (g = Backspace => Balance(c, i, n) > 0)
  <2>1. CASE g = Backspace
    BY <1>3, <1>5, <1>7, <2>1
  <2>2. CASE g # Backspace
    BY <1>3, <1>5, <1>7, <1>8, <2>2
  <2> QED BY <2>1, <2>2
<1> QED BY <1>3, <1>4, <1>9 DEF n, d
\* A character given to read_line joins the line and erases nothing.
LEMMA KeptAppend ==
  ASSUME NEW c \in Seq(Char), NEW l \in Seq(Char), NEW g \in Char, g # Backspace, Kept(c, l)
  PROVE  Kept(Append(c, g), Append(l, g))
<1> DEFINE n == Len(c)
           z == Len(l)
           d == Append(c, g)
           l2 == Append(l, g)
<1>1. PICK pos \in [1 .. z -> 1 .. n] : KeptAt(c, l, pos)
  BY Zenon DEF Kept
<1>2. /\ n \in Nat /\ z \in Nat /\ Len(d) = n + 1 /\ Len(l2) = z + 1
      /\ d[n + 1] = g /\ l2[z + 1] = g /\ \A k \in 1 .. z : l2[k] = l[k]
  BY AppendProperties, LenProperties
<1> DEFINE pos2 == [k \in 1 .. z + 1 |-> IF k <= z THEN pos[k] ELSE n + 1]
<1>3. pos2 \in [1 .. z + 1 -> 1 .. n + 1] /\ pos2[z + 1] = n + 1
      /\ \A k \in 1 .. z : pos2[k] = pos[k]
  BY <1>1, <1>2
<1>4. \A i \in 1 .. n : /\ SurvivesIn(d, i) <=> SurvivesIn(c, i)
                        /\ Balance(d, i, n + 1) = Balance(c, i, n) + 1
                        /\ d[i] = c[i]
  BY SurvivorsNext
<1>5. SurvivesIn(d, n + 1) /\ Balance(d, n + 1, n + 1) = 0
  <2>1. n + 1 \in Nat /\ (n + 1) + 1 .. n + 1 = {}
    BY <1>2
  <2>2. Balance(d, n + 1, n + 1) = 0
    <3> HIDE DEF n, d
    <3>1. n + 1 >= n + 1
      BY <2>1
    <3> QED BY <2>1, <3>1, BalanceType
  <2> QED BY <1>2, <2>1, <2>2 DEF SurvivesIn
<1> HIDE DEF n, z, d, l2, pos2
<1>6. /\ \A k, m \in 1 .. z : k < m => pos[k] < pos[m]
      /\ \A k \in 1 .. z : /\ SurvivesIn(c, pos[k]) /\ l[k] = c[pos[k]]
                           /\ Balance(c, pos[k], n) = z - k
      /\ \A i \in 1 .. n : SurvivesIn(c, i) => \E k \in 1 .. z : pos[k] = i
  BY <1>1, Zenon DEF KeptAt, n, z
<1>7. ASSUME NEW k \in 1 .. z + 1, NEW m \in 1 .. z + 1, k < m
      PROVE  pos2[k] < pos2[m]
  <2>1. k \in 1 .. z
    BY <1>2, <1>7
  <2>2. pos2[k] = pos[k] /\ pos[k] \in 1 .. n
    BY <1>1, <1>3, <2>1
  <2>3. CASE m = z + 1
    BY <1>2, <1>3, <2>2, <2>3
  <2>4. CASE m \in 1 .. z
    BY <1>3, <1>6, <1>7, <2>1, <2>4
  <2> QED BY <1>2, <2>3, <2>4
<1>8. ASSUME NEW k \in 1 .. z + 1
      PROVE  /\ SurvivesIn(d, pos2[k]) /\ l2[k] = d[pos2[k]]
             /\ Balance(d, pos2[k], n + 1) = (z + 1) - k
  <2>1. CASE k = z + 1
    BY <1>2, <1>3, <1>5, <2>1
  <2>2. CASE k \in 1 .. z
    <3>1. pos2[k] = pos[k] /\ pos[k] \in 1 .. n /\ l2[k] = l[k]
      BY <1>1, <1>2, <1>3, <2>2
    <3>2. /\ SurvivesIn(c, pos[k]) /\ l[k] = c[pos[k]]
          /\ Balance(c, pos[k], n) = z - k
      BY <1>6, <2>2, Zenon
    <3>3. /\ SurvivesIn(d, pos[k]) /\ d[pos[k]] = c[pos[k]]
          /\ Balance(d, pos[k], n + 1) = (z - k) + 1
      BY <1>4, <3>1, <3>2
    <3> QED BY <1>2, <3>1, <3>2, <3>3
  <2> QED BY <1>2, <2>1, <2>2
<1>9. ASSUME NEW i \in 1 .. n + 1, SurvivesIn(d, i)
      PROVE  \E k \in 1 .. z + 1 : pos2[k] = i
  <2>1. CASE i = n + 1
    BY <1>2, <1>3, <2>1
  <2>2. CASE i \in 1 .. n
    <3>1. PICK k \in 1 .. z : pos[k] = i
      BY <1>4, <1>6, <1>9, <2>2
    <3>2. k \in 1 .. z + 1 /\ pos2[k] = i
      BY <1>2, <1>3, <3>1
    <3> QED BY <3>2
  <2> QED BY <1>2, <2>1, <2>2
<1>10. KeptAt(d, l2, pos2)
  BY <1>2, <1>7, <1>8, <1>9 DEF KeptAt
<1> QED BY <1>2, <1>3, <1>10 DEF Kept, d, l2

\* A backspace erases the last character of the line, if there is one.
LEMMA KeptErase ==
  ASSUME NEW c \in Seq(Char), NEW l \in Seq(Char), NEW l2 \in Seq(Char), Backspace \in Char,
         Kept(c, l), Len(l2) = (IF Len(l) = 0 THEN 0 ELSE Len(l) - 1),
         \A k \in 1 .. Len(l2) : l2[k] = l[k]
  PROVE  Kept(Append(c, Backspace), l2)
<1> DEFINE n == Len(c)
           z == Len(l)
           y == Len(l2)
           d == Append(c, Backspace)
<1>1. PICK pos \in [1 .. z -> 1 .. n] : KeptAt(c, l, pos)
  BY Zenon DEF Kept
<1>2. /\ n \in Nat /\ z \in Nat /\ y \in Nat /\ Len(d) = n + 1 /\ d[n + 1] = Backspace
      /\ y <= z /\ (z > 0 => y = z - 1) /\ y + 1 >= z
  BY AppendProperties, LenProperties
<1> DEFINE pos2 == [k \in 1 .. y |-> pos[k]]
<1>3. pos2 \in [1 .. y -> 1 .. n + 1] /\ \A k \in 1 .. y : pos2[k] = pos[k]
  BY <1>1, <1>2
<1>4. \A i \in 1 .. n : /\ SurvivesIn(d, i) <=> SurvivesIn(c, i) /\ Balance(c, i, n) > 0
                        /\ Balance(d, i, n + 1) = Balance(c, i, n) + (-1)
                        /\ d[i] = c[i]
  BY SurvivorsNext
<1>5. ~SurvivesIn(d, n + 1)
  BY <1>2 DEF SurvivesIn
<1> HIDE DEF n, z, y, d, pos2
<1>6. /\ \A k, m \in 1 .. z : k < m => pos[k] < pos[m]
      /\ \A k \in 1 .. z : /\ SurvivesIn(c, pos[k]) /\ l[k] = c[pos[k]]
                           /\ Balance(c, pos[k], n) = z - k
      /\ \A i \in 1 .. n : SurvivesIn(c, i) => \E k \in 1 .. z : pos[k] = i
  BY <1>1, Zenon DEF KeptAt, n, z
<1>7. ASSUME NEW k \in 1 .. y, NEW m \in 1 .. y, k < m
      PROVE  pos2[k] < pos2[m]
  BY <1>2, <1>3, <1>6, <1>7
<1>8. ASSUME NEW k \in 1 .. y
      PROVE  /\ SurvivesIn(d, pos2[k]) /\ l2[k] = d[pos2[k]]
             /\ Balance(d, pos2[k], n + 1) = y - k
  <2>1. k \in 1 .. z /\ z - k > 0 /\ (z - k) + (-1) = y - k
    BY <1>2
  <2>2. pos2[k] = pos[k] /\ pos[k] \in 1 .. n /\ l2[k] = l[k]
    BY <1>1, <1>3, <2>1 DEF y
  <2>3. /\ SurvivesIn(c, pos[k]) /\ l[k] = c[pos[k]] /\ Balance(c, pos[k], n) = z - k
    BY <1>6, <2>1, Zenon
  <2>4. /\ SurvivesIn(d, pos[k]) /\ d[pos[k]] = c[pos[k]]
        /\ Balance(d, pos[k], n + 1) = (z - k) + (-1)
    BY <1>4, <2>1, <2>2, <2>3
  <2> QED BY <2>1, <2>2, <2>3, <2>4
<1>9. ASSUME NEW i \in 1 .. n + 1, SurvivesIn(d, i)
      PROVE  \E k \in 1 .. y : pos2[k] = i
  <2>1. i \in 1 .. n
    BY <1>2, <1>5, <1>9
  <2>2. SurvivesIn(c, i) /\ Balance(c, i, n) > 0
    BY <1>4, <1>9, <2>1
  <2>3. PICK k \in 1 .. z : pos[k] = i
    BY <1>6, <2>1, <2>2
  <2>4. z - k > 0
    BY <1>6, <2>2, <2>3
  <2>5. k \in 1 .. y
    BY <1>2, <2>3, <2>4
  <2> QED BY <1>3, <2>3, <2>5
<1>10. KeptAt(d, l2, pos2)
  BY <1>2, <1>7, <1>8, <1>9 DEF KeptAt, y
<1> QED BY <1>2, <1>3, <1>10 DEF Kept, d, y

\* An increasing enumeration counts what it enumerates.
LEMMA Enumerated ==
  ASSUME NEW m \in Nat, NEW S \in SUBSET Nat, NEW p \in [1 .. m -> S],
         \A k, h \in 1 .. m : k < h => p[k] < p[h],
         \A s \in S : \E k \in 1 .. m : p[k] = s
  PROVE  Cardinality(S) = m
<1>1. \A k, h \in 1 .. m : p[k] = p[h] => k = h
  <2> SUFFICES ASSUME NEW k \in 1 .. m, NEW h \in 1 .. m, p[k] = p[h] PROVE k = h
    OBVIOUS
  <2>1. p[k] \in Nat /\ p[h] \in Nat
    OBVIOUS
  <2> QED BY <2>1
<1>2. p \in Bijection(1 .. m, S)
  BY <1>1, Zenon DEF Bijection, Injection, Surjection, IsInjective
<1> QED BY <1>2, FS_CountingElements DEF ExistsBijection

\* One step keeps the line invariant.
LEMMA NextLineInv == IInv /\ LineInv /\ [Next]_vars => LineInv'
<1> SUFFICES ASSUME IInv, LineInv, [Next]_vars PROVE LineInv'
  OBVIOUS
<1> USE DEF cpu, pic, keyboard, driver, reader
<1>0. line \in Seq(Char) /\ consumed \in Seq(Char) /\ Kept(consumed, line)
  BY DEF IInv, TypeOK, LineInv
<1>1. CASE UNCHANGED <<line, consumed>>
  BY <1>1 DEF LineInv
<1>2. CASE ReadLine /\ got # Newline
  <2>1. got \in Char
    BY <1>2 DEF ReadLine, Goto, IInv, Control
  <2>2. line' = LineOf(line, got) /\ consumed' = Append(consumed, got)
    BY <1>2 DEF ReadLine
  <2>3. CASE got # Backspace
    <3>1. line' = Append(line, got)
      BY <2>2, <2>3 DEF LineOf
    <3> QED BY <1>0, <2>1, <2>2, <2>3, <3>1, KeptAppend DEF LineInv
  <2>4. CASE got = Backspace
    <3>1. line' \in Seq(Char) /\ Len(line') = (IF Len(line) = 0 THEN 0 ELSE Len(line) - 1)
          /\ \A k \in 1 .. Len(line') : line'[k] = line[k]
      <4>1. CASE line = <<>>
        BY <1>0, <2>2, <2>4, <4>1 DEF LineOf
      <4>2. CASE line # <<>>
        <5>1. Len(line) \in Nat /\ Len(line) # 0
          BY <1>0, <4>2, EmptySeq, LenProperties
        <5>2. line' = SubSeq(line, 1, Len(line) - 1)
          BY <2>2, <2>4, <4>2 DEF LineOf
        <5>3. ASSUME NEW s \in Seq(Char), NEW m \in Nat, Len(s) = m + 1
              PROVE  /\ SubSeq(s, 1, m) \in Seq(Char) /\ Len(SubSeq(s, 1, m)) = m
                     /\ \A k \in 1 .. m : SubSeq(s, 1, m)[k] = s[k]
          BY <5>3
        <5>4. Len(line) - 1 \in Nat /\ Len(line) = (Len(line) - 1) + 1
          BY <5>1
        <5>5. /\ line' \in Seq(Char) /\ Len(line') = Len(line) - 1
              /\ \A k \in 1 .. Len(line) - 1 : line'[k] = line[k]
          BY <1>0, <5>2, <5>3, <5>4
        <5> QED BY <5>1, <5>5
      <4> QED BY <4>1, <4>2
    <3>2. Kept(Append(consumed, Backspace), line')
      BY <1>0, <2>1, <2>4, <3>1, KeptErase
    <3> QED BY <2>2, <2>4, <3>2 DEF LineInv
  <2> QED BY <2>3, <2>4
<1>3. Next => (ReadLine /\ got # Newline) \/ UNCHANGED <<line, consumed>>
  BY DEF Next, Device, Handler, KernelMain, PitEdge, KeyDown, KeyUp, Send, Deliver,
         TimerTick, HandleScancode, PushChar, NotifyEndOfInterrupt, Iret, LockPics,
         InitializePics, EnableInterrupts, WaitTicks, BringUp, LockBuf, PopChar,
         UnlockBuf, Halt, ReadLine, Echo
<1> QED BY <1>1, <1>2, <1>3 DEF vars

\* The line read_line has built is always what remains of the characters it was
\* given once each backspace has erased the nearest one before it, for any
\* number of characters and backspaces.
THEOREM LineKeepsSurvivors == Spec => []LineIsSurvivors
<1>1. Init => LineInv
  <2> SUFFICES ASSUME Init PROVE LineInv
    OBVIOUS
  <2>1. line = <<>> /\ consumed = <<>> /\ Len(<<>>) = 0
    BY DEF Init
  <2> DEFINE pos == [k \in 1 .. 0 |-> 0]
  <2>2. pos \in [1 .. 0 -> 1 .. 0]
    OBVIOUS
  <2>3. KeptAt(<<>>, <<>>, pos)
    BY <2>1 DEF KeptAt
  <2> QED BY <2>1, <2>2, <2>3 DEF LineInv, Kept
<1>2. IInv /\ LineInv => LineIsSurvivors
  <2> SUFFICES ASSUME IInv, LineInv PROVE LineIsSurvivors
    OBVIOUS
  <2> DEFINE n == Len(consumed)
             z == Len(line)
             kept == {i \in 1 .. n : Survives(i)}
  <2>1. n \in Nat /\ z \in Nat
    BY LenProperties DEF IInv, TypeOK
  <2>2. PICK pos \in [1 .. z -> 1 .. n] : KeptAt(consumed, line, pos)
    BY Zenon DEF LineInv, Kept
  <2>3. ASSUME NEW i \in 1 .. n PROVE Survives(i) <=> SurvivesIn(consumed, i)
    <3>1. ASSUME NEW j \in i + 1 .. n
          PROVE  Balance(consumed, i, j) >= 0 <=>
                   LET after  == i + 1 .. j
                       erases == {k \in after : consumed[k] = Backspace}
                   IN  Cardinality(erases) <= Cardinality(after \ erases)
      <4> DEFINE E == Erases(consumed, i, j)
                 K == (i + 1 .. j) \ E
      <4>1. i \in Nat /\ j \in Nat
        BY <2>1
      <4>2. Cardinality(E) \in Nat /\ Cardinality(K) \in Nat
        BY <4>1, BalanceType
      <4>3. Balance(consumed, i, j) = Cardinality(K) - Cardinality(E)
        BY DEF Balance
      <4>4. Balance(consumed, i, j) >= 0 <=> Cardinality(E) <= Cardinality(K)
        BY <4>2, <4>3
      <4> QED BY <4>4, Zenon DEF Erases
    <3> QED BY <3>1, Zenon DEF Survives, SurvivesIn
  <2> HIDE DEF n, z
  <2>4. /\ \A k, m \in 1 .. z : k < m => pos[k] < pos[m]
        /\ \A k \in 1 .. z : SurvivesIn(consumed, pos[k]) /\ line[k] = consumed[pos[k]]
        /\ \A i \in 1 .. n : SurvivesIn(consumed, i) => \E k \in 1 .. z : pos[k] = i
    BY <2>2, Zenon DEF KeptAt, n, z
  <2>5. /\ kept \in SUBSET Nat
        /\ \A k \in 1 .. z : pos[k] \in kept
        /\ \A i \in kept : \E k \in 1 .. z : pos[k] = i
    <3>1. kept \in SUBSET Nat
      BY <2>1
    <3>2. ASSUME NEW i PROVE i \in kept <=> i \in 1 .. n /\ SurvivesIn(consumed, i)
      BY <2>3
    <3>3. \A k \in 1 .. z : pos[k] \in 1 .. n
      BY <2>2
    <3> HIDE DEF kept
    <3> QED BY <2>4, <3>1, <3>2, <3>3
  <2> HIDE DEF kept
  <2>6. Cardinality(kept) = z
    <3>1. pos \in [1 .. z -> kept]
      BY <2>2, <2>5
    <3> QED BY <2>1, <2>4, <2>5, <3>1, Enumerated
  <2>7. ASSUME NEW i \in kept
        PROVE  line[Cardinality({j \in kept : j <= i})] = consumed[i]
    <3>1. PICK k \in 1 .. z : pos[k] = i
      BY <2>5
    <3> DEFINE upTo == {j \in kept : j <= i}
               first == [m \in 1 .. k |-> pos[m]]
    <3>2. k \in Nat /\ \A m \in 1 .. k : m \in 1 .. z
      BY <2>1, <3>1
    <3>3. ASSUME NEW m \in 1 .. k PROVE pos[m] \in upTo
      <4>1. m \in 1 .. z /\ pos[m] \in kept /\ pos[m] \in Nat /\ pos[k] \in Nat
        BY <2>5, <3>1, <3>2
      <4>2. m < k => pos[m] < pos[k]
        BY <2>4, <3>1, <4>1
      <4> QED BY <3>1, <3>2, <4>1, <4>2
    <3>4. ASSUME NEW j \in upTo PROVE \E m \in 1 .. k : pos[m] = j
      <4>1. PICK m \in 1 .. z : pos[m] = j
        BY <2>5
      <4>2. ~(k < m)
        <5>1. k < m => pos[k] < pos[m]
          BY <2>4, <3>1
        <5>2. pos[m] <= pos[k] /\ pos[m] \in Nat /\ pos[k] \in Nat
          BY <2>5, <3>1, <4>1
        <5> QED BY <5>1, <5>2
      <4> QED BY <2>1, <3>2, <4>1, <4>2
    <3>5. first \in [1 .. k -> upTo] /\ \A m \in 1 .. k : first[m] = pos[m]
      BY <3>3
    <3>6. upTo \in SUBSET Nat
      BY <2>5
    <3> HIDE DEF upTo, first
    <3>7. Cardinality(upTo) = k
      <4>1. \A m, h \in 1 .. k : m < h => first[m] < first[h]
        BY <2>4, <3>2, <3>5
      <4>2. \A j \in upTo : \E m \in 1 .. k : first[m] = j
        BY <3>4, <3>5
      <4> QED BY <3>2, <3>5, <3>6, <4>1, <4>2, Enumerated
    <3> QED BY <2>4, <3>1, <3>7 DEF upTo
  <2> QED BY <2>6, <2>7 DEF LineIsSurvivors, kept, n, z
<1> QED BY InitIInv, NextIInv, NextLineInv, <1>1, <1>2, PTL DEF Spec
=============================================================================
