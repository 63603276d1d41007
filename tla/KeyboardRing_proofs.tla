------------------------- MODULE KeyboardRing_proofs -------------------------
(***************************************************************************)
(* Theorems about KeyboardRing for every ring size and every keyboard.     *)
(***************************************************************************)
EXTENDS KeyboardRing, TLAPS, SequenceTheorems

(* Stepping an index around the ring, without the modulus. *)
LEMMA SuccInRing ==
  ASSUME NEW i \in Slot
  PROVE  /\ Succ(i) = IF i + 1 = BufSize THEN 0 ELSE i + 1
         /\ Succ(i) \in Slot
<1> USE BufSizeAssumption DEF Slot, Succ
<1>1. CASE i + 1 = BufSize
  BY <1>1
<1>2. CASE i + 1 < BufSize
  BY <1>2
<1> QED  BY <1>1, <1>2

(* A byte's decoding is well typed. *)
LEMMA DecodeTypes ==
  ASSUME NEW b \in Byte, NEW s \in BOOLEAN
  PROVE  /\ NextShift(b, s) \in BOOLEAN
         /\ CharOf(b, s) \in Char
<1>1. IsMake(b) \in BOOLEAN
  BY DEF IsMake
<1>2. NextShift(b, s) \in BOOLEAN
  BY <1>1, Zenon DEF NextShift
<1>3. KeyOf(b) \in 0 .. 127
  BY DEF KeyOf, Byte
<1>4. \A c \in 0 .. 127, t \in BOOLEAN : <<c, t>> \in Char
  BY Zenon DEF Char
<1>5. NUL \in Char
  <2>1. 0 \in 0 .. 127
    OBVIOUS
  <2> QED  BY <1>4, <2>1, Zenon DEF NUL
<1>6. ScancodeToChar(KeyOf(b), s) \in Char
  <2>1. (s /\ KeyOf(b) \notin SameShifted) \in BOOLEAN
    BY Zenon
  <2> QED  BY <1>3, <1>4, <1>5, <2>1, Zenon DEF ScancodeToChar
<1> QED  BY <1>2, <1>5, <1>6, Zenon DEF CharOf

-------------------------------------------------------------------------------
(* No step takes a variable out of its type: in particular head and tail,  *)
(* moved by two different actors, always index the ring.                   *)
LEMMA TypeStep ==
  ASSUME TypeOK, [Next]_vars
  PROVE  TypeOK'
<1> USE DEF TypeOK
<1>1. ASSUME NEW k \in Keys, KeyArrives(k)
      PROVE  TypeOK'
  BY <1>1, KeysAssumption DEF KeyArrives, mainVars, ringVars
<1>2. CASE IrqHandler
  <2>1. Succ(head) \in Slot
    BY SuccInRing
  <2>2. port \in Byte /\ port' = NoByte
    BY <1>2 DEF IrqHandler
  <2>3. head' \in Slot /\ buf' \in [Slot -> Byte]
    BY <1>2, <2>1, <2>2 DEF IrqHandler, PushScancode, ringVars
  <2> QED  BY <1>2, <2>2, <2>3 DEF IrqHandler, mainVars
<1>3. CASE Test
  BY <1>3 DEF Test, ringVars, MainPC
<1>4. CASE Fetch
  BY <1>4 DEF Fetch, ringVars, MainPC
<1>5. CASE Advance
  <2>1. Succ(tail) \in Slot
    BY SuccInRing
  <2> QED  BY <1>5, <2>1 DEF Advance, ringVars, MainPC
<1>6. CASE Decode
  <2>1. NextShift(sc, shift) \in BOOLEAN /\ CharOf(sc, shift) \in Char
    BY DecodeTypes
  <2>2. shift' \in BOOLEAN
    BY <1>6, <2>1, Zenon DEF Decode
  <2>3. ret' \in Char
    BY <1>6, <2>1, Zenon DEF Decode
  <2>4. pc' \in {"test", "return"}
    BY <1>6, Zenon DEF Decode
  <2>5. UNCHANGED <<port, buf, head, tail>> /\ sc' = 0
    BY <1>6, Zenon DEF Decode, ringVars
  <2>6. pc' \in MainPC /\ 0 \in Byte
    BY <2>4 DEF MainPC, Byte
  <2> QED  BY <2>2, <2>3, <2>5, <2>6, Zenon
<1>7. CASE Again
  <2>1. 0 \in 0 .. 127 /\ FALSE \in BOOLEAN
    OBVIOUS
  <2>2. NUL \in Char
    BY <2>1, Zenon DEF NUL, Char
  <2>3. UNCHANGED <<port, buf, head, tail, shift, sc>> /\ ret' = NUL /\ pc' \in MainPC
    BY <1>7 DEF Again, ringVars, MainPC
  <2> QED  BY <2>2, <2>3, Zenon
<1>8. CASE UNCHANGED vars
  BY <1>8 DEF vars
<1> QED
  BY <1>1, <1>2, <1>3, <1>4, <1>5, <1>6, <1>7, <1>8 DEF Next, Main

(* The initial state is well typed. *)
LEMMA TypeInit == Init => TypeOK
<1> SUFFICES ASSUME Init PROVE TypeOK
  OBVIOUS
<1>1. 0 \in Slot /\ 0 \in Byte
  BY BufSizeAssumption DEF Slot, Byte
<1>2. NUL \in Char
  <2>1. 0 \in 0 .. 127
    OBVIOUS
  <2> QED  BY <2>1, Zenon DEF NUL, Char
<1>3. pc \in MainPC
  BY DEF Init, MainPC
<1>4. buf \in [Slot -> Byte]
  BY <1>1, Zenon DEF Init
<1> QED  BY <1>1, <1>2, <1>3, <1>4, Zenon DEF Init, TypeOK

(* The state of the driver is well typed, whatever the ring's size.        *)
THEOREM TypeCorrect == Spec => []TypeOK
<1> QED  BY TypeInit, TypeStep, PTL DEF Spec

-------------------------------------------------------------------------------
(* FetchedIsHead is inductive given the types: the handler writes only the *)
(* slot at head, which is not the slot at tail while the ring is not       *)
(* empty, and never moves head onto tail.                                  *)
LEMMA FetchedStep ==
  ASSUME TypeOK, FetchedIsHead, [Next]_vars
  PROVE  FetchedIsHead'
<1> USE DEF FetchedIsHead
<1>1. ASSUME NEW k \in Keys, KeyArrives(k)
      PROVE  FetchedIsHead'
  BY <1>1 DEF KeyArrives, mainVars, ringVars
<1>2. CASE IrqHandler
  <2>1. UNCHANGED <<tail, pc, sc>>
    BY <1>2 DEF IrqHandler, mainVars
  <2>2. CASE Succ(head) # tail
    <3>1. head' # tail'
      BY <1>2, <2>1, <2>2 DEF IrqHandler, PushScancode
    <3>2. ASSUME head # tail
          PROVE  buf'[tail'] = buf[tail]
      BY <1>2, <2>1, <2>2, <3>2 DEF IrqHandler, PushScancode, TypeOK
    <3> QED  BY <2>1, <3>1, <3>2
  <2>3. CASE Succ(head) = tail
    BY <1>2, <2>1, <2>3 DEF IrqHandler, PushScancode, ringVars
  <2> QED  BY <2>2, <2>3
<1>3. CASE Test
  BY <1>3 DEF Test, ringVars
<1>4. CASE Fetch
  BY <1>4 DEF Fetch, ringVars
<1>5. CASE Advance
  BY <1>5 DEF Advance, ringVars
<1>6. CASE Decode
  <2>1. pc' \in {"test", "return"}
    BY <1>6, Zenon DEF Decode
  <2> QED  BY <2>1
<1>7. CASE Again
  BY <1>7 DEF Again, ringVars
<1>8. CASE UNCHANGED vars
  BY <1>8 DEF vars
<1> QED
  BY <1>1, <1>2, <1>3, <1>4, <1>5, <1>6, <1>7, <1>8 DEF Next, Main

(* The byte poll() is reading is never overwritten, and the ring never     *)
(* empties between its test and its read, for every ring size.             *)
THEOREM FetchSafe == Spec => []FetchedIsHead
<1>1. Init => FetchedIsHead
  BY DEF Init, FetchedIsHead
<1> QED  BY <1>1, TypeCorrect, FetchedStep, PTL DEF Spec

-------------------------------------------------------------------------------
(* The ring implements the bounded FIFO queue.  First, what the contents   *)
(* of a ring are.                                                          *)
LEMMA ContentsShape ==
  ASSUME NEW b \in [Slot -> Byte], NEW h \in Slot, NEW t \in Slot
  PROVE  /\ CountOf(h, t) \in 0 .. BufSize - 1
         /\ CountOf(h, t) = 0 <=> h = t
         /\ Contents(b, h, t) \in Seq(Byte)
         /\ Len(Contents(b, h, t)) = CountOf(h, t)
         /\ \A i \in 1 .. CountOf(h, t) : Contents(b, h, t)[i] = b[Wrap(t + i - 1)]
<1> USE BufSizeAssumption DEF Slot
<1>1. /\ CountOf(h, t) \in 0 .. BufSize - 1
      /\ CountOf(h, t) = 0 <=> h = t
  BY DEF CountOf
<1>2. \A i \in 0 .. BufSize - 1 : Wrap(t + i) \in Slot
  BY DEF Wrap
<1>3. \A i \in 1 .. CountOf(h, t) : b[Wrap(t + i - 1)] \in Byte
  <2> TAKE i \in 1 .. CountOf(h, t)
  <2>1. i - 1 \in 0 .. BufSize - 1 /\ t + i - 1 = t + (i - 1)
    BY <1>1
  <2>2. Wrap(t + i - 1) \in Slot
    BY <1>2, <2>1
  <2> QED  BY <2>2
<1>4. Contents(b, h, t) \in Seq(Byte) /\ Len(Contents(b, h, t)) = CountOf(h, t)
  BY <1>1, <1>3 DEF Contents
<1>5. \A i \in 1 .. CountOf(h, t) : Contents(b, h, t)[i] = b[Wrap(t + i - 1)]
  BY DEF Contents
<1> QED  BY <1>1, <1>4, <1>5

(* Writing the slot at head and moving head on appends, while there is a   *)
(* place: the slot written is none of those that hold queued bytes.        *)
LEMMA PushAppends ==
  ASSUME NEW b \in [Slot -> Byte], NEW h \in Slot, NEW t \in Slot,
         NEW v \in Byte, Succ(h) # t
  PROVE  /\ CountOf(h, t) < BufSize - 1
         /\ Contents([b EXCEPT ![h] = v], Succ(h), t) = Append(Contents(b, h, t), v)
<1> DEFINE b2 == [b EXCEPT ![h] = v]
           n == CountOf(h, t)
           old == Contents(b, h, t)
           new == Contents(b2, Succ(h), t)
<1>1. Succ(h) \in Slot /\ Succ(h) = IF h + 1 = BufSize THEN 0 ELSE h + 1
  BY SuccInRing
<1>2. n \in 0 .. BufSize - 1 /\ n < BufSize - 1 /\ CountOf(Succ(h), t) = n + 1
  BY <1>1, BufSizeAssumption DEF Slot, CountOf
<1>3. /\ old \in Seq(Byte) /\ Len(old) = n
      /\ \A i \in 1 .. n : old[i] = b[Wrap(t + i - 1)]
  BY ContentsShape
<1>4. /\ new \in Seq(Byte) /\ Len(new) = n + 1
      /\ \A i \in 1 .. n + 1 : new[i] = b2[Wrap(t + i - 1)]
  <2>1. b2 \in [Slot -> Byte]
    OBVIOUS
  <2> HIDE DEF b2
  <2>2. /\ new \in Seq(Byte) /\ Len(new) = CountOf(Succ(h), t)
        /\ \A i \in 1 .. CountOf(Succ(h), t) : new[i] = b2[Wrap(t + i - 1)]
    BY <1>1, <2>1, ContentsShape, SMTT(20)
  <2> QED  BY <1>2, <2>2
<1>5. \A i \in 1 .. n : Wrap(t + i - 1) # h /\ Wrap(t + i - 1) \in Slot
  BY <1>2, BufSizeAssumption DEF Slot, CountOf, Wrap
<1>6. Wrap(t + (n + 1) - 1) = h
  BY BufSizeAssumption DEF Slot, CountOf, Wrap
<1>7. Append(old, v) \in Seq(Byte) /\ Len(Append(old, v)) = n + 1
  BY <1>3, <1>2
<1>8. ASSUME NEW i \in 1 .. n + 1
      PROVE  new[i] = Append(old, v)[i]
  <2>1. CASE i = n + 1
    <3>1. new[i] = v
      BY <1>2, <1>4, <1>6, <2>1
    <3>2. Append(old, v)[i] = v
      BY <1>2, <1>3, <2>1
    <3> QED  BY <3>1, <3>2
  <2>2. CASE i \in 1 .. n
    <3>1. new[i] = b[Wrap(t + i - 1)]
      BY <1>2, <1>4, <1>5, <2>2
    <3>2. Append(old, v)[i] = old[i]
      BY <1>2, <1>3, <2>2
    <3> QED  BY <1>3, <2>2, <3>1, <3>2
  <2>3. i = n + 1 \/ i \in 1 .. n
    BY <1>2
  <2> QED  BY <2>1, <2>2, <2>3, Zenon
<1>9. new = Append(old, v)
  <2>1. Len(new) = Len(Append(old, v)) /\ \A i \in 1 .. Len(new) : new[i] = Append(old, v)[i]
    BY <1>4, <1>7, <1>8
  <2> QED  BY <1>4, <1>7, <2>1, SeqEqual
<1> QED  BY <1>2, <1>9

(* No place is left exactly when head's successor is tail. *)
LEMMA FullCount ==
  ASSUME NEW h \in Slot, NEW t \in Slot, Succ(h) = t
  PROVE  CountOf(h, t) = BufSize - 1
BY SuccInRing, BufSizeAssumption DEF Slot, CountOf

(* Moving tail on takes the oldest byte. *)
LEMMA AdvanceTakes ==
  ASSUME NEW b \in [Slot -> Byte], NEW h \in Slot, NEW t \in Slot, h # t
  PROVE  /\ Contents(b, h, t) # << >>
         /\ Head(Contents(b, h, t)) = b[t]
         /\ Contents(b, h, Succ(t)) = Tail(Contents(b, h, t))
<1> DEFINE n == CountOf(h, t)
           old == Contents(b, h, t)
           new == Contents(b, h, Succ(t))
<1>1. Succ(t) \in Slot /\ Succ(t) = IF t + 1 = BufSize THEN 0 ELSE t + 1
  BY SuccInRing
<1>2. n \in 1 .. BufSize - 1 /\ CountOf(h, Succ(t)) = n - 1
  BY <1>1, BufSizeAssumption DEF Slot, CountOf
<1>3. /\ old \in Seq(Byte) /\ Len(old) = n
      /\ \A i \in 1 .. n : old[i] = b[Wrap(t + i - 1)]
  BY ContentsShape
<1>4. /\ new \in Seq(Byte) /\ Len(new) = n - 1
      /\ \A i \in 1 .. n - 1 : new[i] = b[Wrap(Succ(t) + i - 1)]
  BY <1>1, <1>2, ContentsShape, SMTT(20)
<1>5. old # << >>
  BY <1>2, <1>3
<1>6. Head(old) = b[t]
  <2>1. Wrap(t + 1 - 1) = t
    BY BufSizeAssumption DEF Slot, Wrap
  <2>2. old[1] = b[t]
    BY <1>2, <1>3, <2>1
  <2> QED  BY <1>3, <1>5, <2>2
<1>7. /\ Tail(old) \in Seq(Byte) /\ Len(Tail(old)) = n - 1
      /\ \A i \in 1 .. n - 1 : Tail(old)[i] = old[i + 1]
  BY <1>2, <1>3, <1>5, HeadTailProperties
<1>8. ASSUME NEW i \in 1 .. n - 1
      PROVE  new[i] = Tail(old)[i]
  <2>1. Wrap(Succ(t) + i - 1) = Wrap(t + (i + 1) - 1)
    BY <1>1, <1>2, BufSizeAssumption DEF Slot, Wrap
  <2>2. old[i + 1] = b[Wrap(t + (i + 1) - 1)]
    BY <1>2, <1>3
  <2> QED  BY <1>4, <1>7, <2>1, <2>2
<1>9. new = Tail(old)
  <2>1. Len(new) = Len(Tail(old)) /\ \A i \in 1 .. Len(new) : new[i] = Tail(old)[i]
    BY <1>4, <1>7, <1>8
  <2> QED  BY <1>4, <1>7, <2>1, SeqEqual
<1> QED  BY <1>5, <1>6, <1>9

(* The initial ring is the empty queue. *)
LEMMA FifoInit == Init => Fifo!Init
<1> SUFFICES ASSUME Init PROVE Fifo!Init
  OBVIOUS
<1>1. TypeOK
  BY TypeInit
<1>2. Queue \in Seq(Byte) /\ Len(Queue) = 0
  BY <1>1, ContentsShape DEF Init, Queue, TypeOK
<1>3. Queue = << >>
  BY <1>2
<1> QED  BY <1>3 DEF Fifo!Init, Init, Hand

(* What the handler does to the queue. *)
LEMMA IrqPushes ==
  ASSUME TypeOK, IrqHandler
  PROVE  /\ port \in Byte /\ port' = NoByte /\ UNCHANGED mainVars
         /\ Queue \in Seq(Byte)
         /\ \/ Queue' = Append(Queue, port) /\ Len(Queue) < BufSize - 1
            \/ Queue' = Queue /\ Len(Queue) = BufSize - 1
<1>t. buf \in [Slot -> Byte] /\ head \in Slot /\ tail \in Slot
  BY DEF TypeOK
<1>1. port \in Byte /\ port' = NoByte /\ PushScancode(port) /\ UNCHANGED mainVars
  BY DEF IrqHandler, TypeOK
<1>2. UNCHANGED tail
  BY <1>1 DEF mainVars
<1>3. Queue \in Seq(Byte) /\ Len(Queue) = CountOf(head, tail)
  BY <1>t, ContentsShape DEF Queue
<1>4. CASE Succ(head) # tail
  <2>1. buf' = [buf EXCEPT ![head] = port] /\ head' = Succ(head)
    BY <1>1, <1>4 DEF PushScancode
  <2>2. Queue' = Append(Queue, port) /\ CountOf(head, tail) < BufSize - 1
    BY <1>t, <1>1, <1>2, <1>4, <2>1, PushAppends DEF Queue
  <2> QED  BY <1>1, <1>3, <2>2
<1>5. CASE Succ(head) = tail
  <2>1. Queue' = Queue
    BY <1>1, <1>2, <1>5 DEF PushScancode, ringVars, Queue
  <2> QED  BY <1>t, <1>1, <1>3, <1>5, <2>1, FullCount
<1> QED  BY <1>4, <1>5

(* What poll() does to it when it releases the slot. *)
LEMMA AdvancePops ==
  ASSUME TypeOK, FetchedIsHead, Advance
  PROVE  Queue # << >> /\ Head(Queue) = sc /\ Queue' = Tail(Queue) /\ Queue \in Seq(Byte)
<1>t. buf \in [Slot -> Byte] /\ head \in Slot /\ tail \in Slot
  BY DEF TypeOK
<1>1. tail' = Succ(tail) /\ UNCHANGED <<buf, head>> /\ head # tail /\ sc = buf[tail]
  BY DEF Advance, ringVars, FetchedIsHead
<1> QED  BY <1>t, <1>1, AdvanceTakes, ContentsShape DEF Queue

(* Every step of the driver is a step of the queue or leaves it alone.     *)
LEMMA FifoStep ==
  ASSUME TypeOK, FetchedIsHead, [Next]_vars
  PROVE  [Fifo!Next]_(Fifo!fifoVars)
<1>t. /\ port \in Byte \cup {NoByte} /\ sc \in Byte
      /\ NoByte \notin Byte
  BY DEF TypeOK, NoByte, Byte
<1>1. ASSUME NEW k \in Keys, KeyArrives(k)
      PROVE  Fifo!Arrive(k)
  BY <1>1 DEF KeyArrives, Fifo!Arrive, mainVars, ringVars, Queue, Hand
<1>2. CASE IrqHandler
  <2>1. /\ port \in Byte /\ port' = NoByte
        /\ \/ Queue' = Append(Queue, port) /\ Len(Queue) < BufSize - 1
           \/ Queue' = Queue /\ Len(Queue) = BufSize - 1
    BY <1>2, IrqPushes
  <2>2. Hand' = Hand
    BY <1>2 DEF IrqHandler, mainVars, Hand
  <2>3. CASE Queue' = Append(Queue, port) /\ Len(Queue) < BufSize - 1
    <3>1. Fifo!Accept
      BY <1>t, <2>1, <2>2, <2>3 DEF Fifo!Accept, Fifo!Occupied
    <3> QED  BY <3>1 DEF Fifo!Next
  <2>4. CASE Queue' = Queue /\ Len(Queue) = BufSize - 1
    <3>1. Fifo!Refuse
      BY <1>t, <2>1, <2>2, <2>4, BufSizeAssumption DEF Fifo!Refuse, Fifo!Occupied
    <3> QED  BY <3>1 DEF Fifo!Next
  <2> QED  BY <2>1, <2>3, <2>4
<1>3. CASE Test
  BY <1>3 DEF Test, ringVars, Fifo!fifoVars, Queue, Hand
<1>4. CASE Fetch
  BY <1>4 DEF Fetch, ringVars, Fifo!fifoVars, Queue, Hand
<1>5. CASE Advance
  <2>1. pc = "advance" /\ pc' = "decode" /\ UNCHANGED <<port, sc>>
    BY <1>5 DEF Advance
  <2>2. Queue # << >> /\ Head(Queue) = sc /\ Queue' = Tail(Queue)
    BY <1>5, AdvancePops
  <2>3. Hand = NoByte /\ Hand' = sc
    BY <2>1 DEF Hand
  <2>4. Fifo!Take
    BY <2>1, <2>2, <2>3 DEF Fifo!Take
  <2> QED  BY <2>4 DEF Fifo!Next
<1>6. CASE Decode
  <2>1. pc = "decode" /\ pc' \in {"test", "return"}
        /\ UNCHANGED <<port, buf, head, tail>>
    BY <1>6, Zenon DEF Decode, ringVars
  <2>2. Hand # NoByte /\ Hand' = NoByte
    BY <1>t, <2>1 DEF Hand
  <2>3. Fifo!Finish
    BY <2>1, <2>2 DEF Fifo!Finish, Queue
  <2> QED  BY <2>3 DEF Fifo!Next
<1>7. CASE Again
  BY <1>7 DEF Again, ringVars, Fifo!fifoVars, Queue, Hand
<1>8. CASE UNCHANGED vars
  BY <1>8 DEF vars, Fifo!fifoVars, Queue, Hand
<1>9. (\E k \in Keys : KeyArrives(k)) => Fifo!Next
  BY <1>1, KeysAssumption DEF Fifo!Next
<1> QED
  BY <1>2, <1>3, <1>4, <1>5, <1>6, <1>7, <1>8, <1>9 DEF Next, Main

(* For every ring size the driver's ring is a FIFO queue of BufSize - 1    *)
(* places: whatever the interleaving of the interrupt handler and poll(),  *)
(* no byte is reordered, duplicated or overwritten, and one is dropped     *)
(* only when every place is taken.                                         *)
THEOREM RingImplementsFifo == Spec => RingIsFifo
<1> QED
  BY FifoInit, FifoStep, TypeCorrect, FetchSafe, PTL
     DEF Spec, RingIsFifo, Fifo!Spec

-------------------------------------------------------------------------------
(* Decoding late is decoding early.                                        *)

(* What one byte does to the shift flag, and how that composes. *)
LEMMA NextShiftIs ==
  ASSUME NEW b \in Byte, NEW s \in BOOLEAN
  PROVE  /\ NextShift(b, s) <=> b \in {42, 54} \/ (s /\ b \notin {170, 182})
         /\ NextShift(b, s) <=> NextShift(b, FALSE) \/ (s /\ NextShift(b, TRUE))
         /\ NextShift(b, s) \in BOOLEAN
<1>1. /\ IsMake(b) <=> b < 128
      /\ b < 128 => KeyOf(b) = b
      /\ b >= 128 => KeyOf(b) = b - 128
  BY DEF IsMake, KeyOf, Byte
<1>2. b # ExtPrefix /\ KeyOf(b) \in ShiftCodes <=> b \in {42, 54, 170, 182}
  BY <1>1 DEF ExtPrefix, ShiftCodes, Byte
<1>3. (b \in {42, 54} => IsMake(b) = TRUE) /\ (b \in {170, 182} => IsMake(b) = FALSE)
  BY DEF IsMake
<1>4. \A t : NextShift(b, t) = IF b \in {42, 54, 170, 182} THEN IsMake(b) ELSE t
  BY <1>2, Zenon DEF NextShift
<1>5. /\ b \in {42, 54, 170, 182} <=> b \in {42, 54} \/ b \in {170, 182}
      /\ b \in {42, 54} => b \notin {170, 182}
  OBVIOUS
<1>6. CASE b \in {42, 54}
  <2>1. IsMake(b) = TRUE /\ b \in {42, 54, 170, 182}
    BY <1>3, <1>6
  <2>2. NextShift(b, s) = TRUE /\ NextShift(b, FALSE) = TRUE
    BY <1>4, <2>1, Zenon
  <2> QED  BY <1>6, <2>2, Zenon
<1>7. CASE b \in {170, 182}
  <2>1. IsMake(b) = FALSE /\ b \in {42, 54, 170, 182} /\ b \notin {42, 54}
    BY <1>3, <1>7
  <2>2. \A t : NextShift(b, t) = FALSE
    BY <1>4, <2>1
  <2>3. NextShift(b, s) = FALSE /\ NextShift(b, FALSE) = FALSE
    BY <2>2
  <2> QED  BY <1>7, <2>1, <2>2, <2>3, Zenon
<1>8. CASE b \notin {42, 54, 170, 182}
  <2>1. NextShift(b, s) = s /\ NextShift(b, FALSE) = FALSE /\ NextShift(b, TRUE) = TRUE
    BY <1>4, <1>8, Zenon
  <2> QED  BY <1>5, <1>8, <2>1, Zenon
<1> QED  BY <1>5, <1>6, <1>7, <1>8, Zenon

(* A byte's character is its meaning. *)
LEMMA CharIsMeaning ==
  ASSUME NEW b \in Byte, NEW s \in BOOLEAN
  PROVE  CharOf(b, s) = Line!Meaning(b, s)
<1>1. CASE b >= 128
  <2>1. CharOf(b, s) = NUL
    BY <1>1 DEF CharOf, IsMake, Byte
  <2>2. b \notin Line!Letterlike /\ b \notin Line!Caseless
    BY <1>1 DEF Line!Letterlike, Line!Caseless, Byte
  <2> QED  BY <2>1, <2>2 DEF Line!Meaning, Line!Nothing, NUL
<1>2. CASE b < 128
  <2>1. KeyOf(b) = b /\ IsMake(b) /\ b # ExtPrefix
    BY <1>2 DEF KeyOf, IsMake, ExtPrefix, Byte
  <2>2. CharOf(b, s) = IF b \in ShiftCodes THEN NUL ELSE ScancodeToChar(b, s)
    BY <2>1, Zenon DEF CharOf
  <2>3. CASE b \in Line!Letterlike
    <3>1. b \notin ShiftCodes /\ b \in Mapped /\ b \notin SameShifted
      BY <2>3 DEF Line!Letterlike, ShiftCodes, Mapped, SameShifted
    <3>2. CharOf(b, s) = <<b, s>>
      BY <2>2, <3>1, Zenon DEF ScancodeToChar
    <3> QED  BY <2>3, <3>2 DEF Line!Meaning, Line!Letterlike, Line!Caseless
  <2>4. CASE b \in Line!Caseless
    <3>1. b \notin ShiftCodes /\ b \in Mapped /\ b \in SameShifted /\ b \notin Line!Letterlike
      BY <2>4 DEF Line!Caseless, Line!Letterlike, ShiftCodes, Mapped, SameShifted
    <3>2. CharOf(b, s) = <<b, FALSE>>
      BY <2>2, <3>1, Zenon DEF ScancodeToChar
    <3> QED  BY <2>4, <3>1, <3>2 DEF Line!Meaning
  <2>5. CASE b \notin Line!Letterlike /\ b \notin Line!Caseless
    <3>1. b \in ShiftCodes \/ b \notin Mapped
      BY <1>2, <2>5 DEF Line!Caseless, Line!Letterlike, ShiftCodes, Mapped, Byte
    <3>2. CharOf(b, s) = NUL
      BY <2>2, <3>1, Zenon DEF ScancodeToChar
    <3> QED  BY <2>5, <3>2 DEF Line!Meaning, Line!Nothing, NUL
  <2> QED  BY <2>3, <2>4, <2>5
<1> QED  BY <1>1, <1>2 DEF Byte

(* One more byte at the end: what was decided before it stays, and it      *)
(* changes the flag as it would when it is decoded.                        *)
LEMMA ShiftAppend ==
  ASSUME NEW p \in Seq(Byte), NEW sh \in BOOLEAN, NEW b \in Byte
  PROVE  /\ \A i \in 1 .. Len(p) + 1 :
               ShiftBefore(Append(p, b), sh, i) <=> ShiftBefore(p, sh, i)
         /\ ShiftBefore(Append(p, b), sh, Len(p) + 2)
              <=> NextShift(b, ShiftBefore(p, sh, Len(p) + 1))
<1> DEFINE n == Len(p)
           q == Append(p, b)
           h == ShiftBefore(p, sh, n + 1)
<1>1. n \in Nat /\ (\A j \in 1 .. n : q[j] = p[j]) /\ q[n + 1] = b
  OBVIOUS
<1> HIDE DEF n, q
<1>2. ASSUME NEW i \in 1 .. n + 1
      PROVE  ShiftBefore(q, sh, i) <=> ShiftBefore(p, sh, i)
  <2>1. \A j \in 0 .. i - 1 : j = 0 \/ q[j] = p[j]
    BY <1>1
  <2>2. \A j \in 0 .. i - 1 : \A k \in j + 1 .. i - 1 : q[k] = p[k]
    BY <1>1
  <2> QED  BY <2>1, <2>2, Zenon DEF ShiftBefore
<1>3. ShiftBefore(q, sh, n + 2) <=> NextShift(b, FALSE) \/ (h /\ NextShift(b, TRUE))
  <2>1. (n + 2) - 1 = n + 1 /\ (n + 1) - 1 = n
    BY <1>1
  <2>2. \A j \in 0 .. n : j = 0 \/ q[j] = p[j]
    BY <1>1
  <2>3. \A j \in 0 .. n : \A k \in j + 1 .. n : q[k] = p[k] /\ k \in j + 1 .. n + 1
    BY <1>1
  <2>4. ShiftBefore(q, sh, n + 2) <=>
          \E j \in 0 .. n + 1 : /\ IF j = 0 THEN sh ELSE NextShift(q[j], FALSE)
                                /\ \A k \in j + 1 .. n + 1 : NextShift(q[k], TRUE)
    BY <2>1 DEF ShiftBefore
  <2>5. h <=> \E j \in 0 .. n : /\ IF j = 0 THEN sh ELSE NextShift(p[j], FALSE)
                                /\ \A k \in j + 1 .. n : NextShift(p[k], TRUE)
    BY <2>1 DEF ShiftBefore
  <2>6. ASSUME NEW j \in 0 .. n
        PROVE  (\A k \in j + 1 .. n + 1 : NextShift(q[k], TRUE))
                 <=> (\A k \in j + 1 .. n : NextShift(p[k], TRUE)) /\ NextShift(b, TRUE)
    <3>1. /\ n + 1 \in j + 1 .. n + 1
          /\ \A k \in j + 1 .. n + 1 : k = n + 1 \/ k \in j + 1 .. n
      BY <1>1
    <3> QED  BY <1>1, <2>3, <3>1, Zenon
  <2>7. (\A k \in (n + 1) + 1 .. n + 1 : NextShift(q[k], TRUE)) /\ n + 1 # 0
    <3>1. n + 1 # 0 /\ \A k \in (n + 1) + 1 .. n + 1 : FALSE
      BY <1>1
    <3> QED  BY <3>1, Zenon
  <2>8. n + 1 \in 0 .. n + 1 /\ \A j \in 0 .. n + 1 : j = n + 1 \/ j \in 0 .. n
    BY <1>1
  <2>9. \A j \in 0 .. n : j \in 0 .. n + 1
    BY <1>1
  <2> HIDE DEF h
  <2>10. ASSUME ShiftBefore(q, sh, n + 2)
         PROVE  NextShift(b, FALSE) \/ (h /\ NextShift(b, TRUE))
    <3>1. PICK j \in 0 .. n + 1 : /\ IF j = 0 THEN sh ELSE NextShift(q[j], FALSE)
                                  /\ \A k \in j + 1 .. n + 1 : NextShift(q[k], TRUE)
      BY <2>4, <2>10
    <3>2. CASE j = n + 1
      BY <1>1, <2>7, <3>1, <3>2, Zenon
    <3>3. CASE j \in 0 .. n
      BY <2>2, <2>5, <2>6, <3>1, <3>3, Zenon
    <3> QED  BY <2>8, <3>2, <3>3
  <2>11. ASSUME NextShift(b, FALSE)
         PROVE  ShiftBefore(q, sh, n + 2)
    BY <1>1, <2>4, <2>7, <2>8, <2>11, Zenon
  <2>12. ASSUME h, NextShift(b, TRUE)
         PROVE  ShiftBefore(q, sh, n + 2)
    <3>1. PICK j \in 0 .. n : /\ IF j = 0 THEN sh ELSE NextShift(p[j], FALSE)
                              /\ \A k \in j + 1 .. n : NextShift(p[k], TRUE)
      BY <2>5, <2>12
    <3> QED  BY <2>2, <2>4, <2>6, <2>9, <2>12, <3>1, Zenon
  <2> QED  BY <2>10, <2>11, <2>12
<1>4. h \in BOOLEAN
  BY Zenon DEF ShiftBefore
<1>5. NextShift(b, h) <=> NextShift(b, FALSE) \/ (h /\ NextShift(b, TRUE))
  <2>1. \A s \in BOOLEAN : NextShift(b, s) <=> NextShift(b, FALSE) \/ (s /\ NextShift(b, TRUE))
    BY NextShiftIs, ZenonT(40)
  <2> HIDE DEF h
  <2> QED  BY <1>4, <2>1, Zenon
<1> QED  BY <1>2, <1>3, <1>5, Zenon DEF n, q

(* The oldest byte decoded: the flag it leaves stands for it. *)
LEMMA ShiftTail ==
  ASSUME NEW p \in Seq(Byte), NEW sh \in BOOLEAN, p # << >>, NEW i \in 1 .. Len(p)
  PROVE  ShiftBefore(Tail(p), NextShift(Head(p), sh), i) <=> ShiftBefore(p, sh, i + 1)
<1> DEFINE b == Head(p)
           q == Tail(p)
           s == NextShift(b, sh)
<1>1. /\ b = p[1] /\ b \in Byte /\ i \in Nat /\ i >= 1 /\ (i + 1) - 1 = i
      /\ \A k \in 1 .. i - 1 : q[k] = p[k + 1]
  BY HeadTailProperties
<1>2. s <=> NextShift(b, FALSE) \/ (sh /\ NextShift(b, TRUE))
  BY <1>1, NextShiftIs
<1> HIDE DEF b, q, s
<1>3. \A k \in 2 .. i : k - 1 \in 1 .. i - 1 /\ q[k - 1] = p[k]
  BY <1>1
<1>4. ShiftBefore(q, s, i) <=>
        \E j \in 0 .. i - 1 : /\ IF j = 0 THEN s ELSE NextShift(q[j], FALSE)
                              /\ \A k \in j + 1 .. i - 1 : NextShift(q[k], TRUE)
  BY DEF ShiftBefore
<1>5. ShiftBefore(p, sh, i + 1) <=>
        \E j \in 0 .. i : /\ IF j = 0 THEN sh ELSE NextShift(p[j], FALSE)
                          /\ \A k \in j + 1 .. i : NextShift(p[k], TRUE)
  BY <1>1 DEF ShiftBefore
<1>6. ASSUME NEW j \in 0 .. i - 1
      PROVE  (\A k \in j + 1 .. i - 1 : NextShift(q[k], TRUE))
               <=> (\A k \in (j + 1) + 1 .. i : NextShift(p[k], TRUE))
  <2>1. \A k \in j + 1 .. i - 1 : k + 1 \in (j + 1) + 1 .. i /\ q[k] = p[k + 1]
    BY <1>1
  <2>2. \A k \in (j + 1) + 1 .. i : k - 1 \in j + 1 .. i - 1 /\ p[k] = q[k - 1]
    BY <1>1, <1>3
  <2> QED  BY <2>1, <2>2, Zenon
<1>7. ASSUME ShiftBefore(q, s, i)
      PROVE  ShiftBefore(p, sh, i + 1)
  <2>1. PICK j \in 0 .. i - 1 : /\ IF j = 0 THEN s ELSE NextShift(q[j], FALSE)
                                /\ \A k \in j + 1 .. i - 1 : NextShift(q[k], TRUE)
    BY <1>4, <1>7
  <2>2. \A k \in (j + 1) + 1 .. i : NextShift(p[k], TRUE)
    BY <1>6, <2>1
  <2>3. CASE j # 0 \/ NextShift(b, FALSE)
    <3>1. j + 1 \in 0 .. i /\ j + 1 # 0
      BY <1>1
    <3>2. NextShift(p[j + 1], FALSE)
      <4>1. j # 0 => q[j] = p[j + 1]
        BY <1>1
      <4>2. j = 0 => p[j + 1] = b
        BY <1>1
      <4> QED  BY <2>1, <2>3, <4>1, <4>2, Zenon
    <3> QED  BY <1>5, <2>2, <3>1, <3>2, Zenon
  <2>4. CASE j = 0 /\ ~NextShift(b, FALSE)
    <3>1. sh /\ NextShift(b, TRUE)
      BY <1>2, <2>1, <2>4, Zenon
    <3>2. 0 \in 0 .. i /\ \A k \in 0 + 1 .. i : k = 1 \/ k \in (j + 1) + 1 .. i
      BY <1>1, <2>4
    <3>3. \A k \in 0 + 1 .. i : NextShift(p[k], TRUE)
      BY <1>1, <2>2, <3>1, <3>2, Zenon
    <3> QED  BY <1>5, <3>1, <3>2, <3>3, Zenon
  <2> QED  BY <2>3, <2>4, Zenon
<1>8. ASSUME ShiftBefore(p, sh, i + 1)
      PROVE  ShiftBefore(q, s, i)
  <2>1. PICK j \in 0 .. i : /\ IF j = 0 THEN sh ELSE NextShift(p[j], FALSE)
                            /\ \A k \in j + 1 .. i : NextShift(p[k], TRUE)
    BY <1>5, <1>8
  <2>2. CASE j = 0
    <3>1. 1 \in j + 1 .. i /\ (\A k \in (0 + 1) + 1 .. i : k \in j + 1 .. i) /\ 0 \in 0 .. i - 1
      BY <1>1, <2>2
    <3>2. s
      BY <1>1, <1>2, <2>1, <2>2, <3>1, Zenon
    <3>3. \A k \in 0 + 1 .. i - 1 : NextShift(q[k], TRUE)
      BY <1>6, <2>1, <3>1, Zenon
    <3> QED  BY <1>4, <3>1, <3>2, <3>3, Zenon
  <2>3. CASE j # 0
    <3>1. j - 1 \in 0 .. i - 1 /\ (j - 1) + 1 = j /\ j \in 1 .. i
      BY <1>1, <2>3
    <3>2. \A k \in (j - 1) + 1 .. i - 1 : NextShift(q[k], TRUE)
      BY <1>6, <2>1, <3>1
    <3>3. IF j - 1 = 0 THEN s ELSE NextShift(q[j - 1], FALSE)
      <4>1. j - 1 = 0 => p[j] = b
        BY <1>1, <3>1
      <4>2. j - 1 # 0 => q[j - 1] = p[j]
        BY <1>1, <1>3, <3>1
      <4> QED  BY <1>2, <2>1, <2>3, <4>1, <4>2, Zenon
    <3> QED  BY <1>4, <3>1, <3>2, <3>3, Zenon
  <2> QED  BY <2>2, <2>3
<1> QED  BY <1>7, <1>8 DEF b, q, s

(* The characters follow the bytes. *)
LEMMA DecodedShape ==
  ASSUME NEW p \in Seq(Byte), NEW sh \in BOOLEAN
  PROVE  /\ Decoded(p, sh) \in Seq(Char) /\ Len(Decoded(p, sh)) = Len(p)
         /\ \A i \in 1 .. Len(p) : Decoded(p, sh)[i] = CharOf(p[i], ShiftBefore(p, sh, i))
<1>1. \A i \in 1 .. Len(p) : CharOf(p[i], ShiftBefore(p, sh, i)) \in Char
  <2> TAKE i \in 1 .. Len(p)
  <2>1. ShiftBefore(p, sh, i) \in BOOLEAN
    BY Zenon DEF ShiftBefore
  <2>2. p[i] \in Byte
    OBVIOUS
  <2> QED  BY <2>1, <2>2, DecodeTypes
<1> QED  BY <1>1 DEF Decoded

LEMMA ShiftIsBoolean ==
  ASSUME NEW p, NEW sh, NEW i
  PROVE  ShiftBefore(p, sh, i) \in BOOLEAN
BY Zenon DEF ShiftBefore

LEMMA DecodedAppend ==
  ASSUME NEW p \in Seq(Byte), NEW sh \in BOOLEAN, NEW b \in Byte
  PROVE  Decoded(Append(p, b), sh)
           = Append(Decoded(p, sh), CharOf(b, ShiftBefore(p, sh, Len(p) + 1)))
<1> DEFINE n == Len(p)
           q == Append(p, b)
           c == CharOf(b, ShiftBefore(p, sh, n + 1))
           old == Decoded(p, sh)
           new == Decoded(q, sh)
<1>1. n \in Nat /\ q \in Seq(Byte) /\ Len(q) = n + 1
      /\ (\A i \in 1 .. n : q[i] = p[i]) /\ q[n + 1] = b
  OBVIOUS
<1>2. old \in Seq(Char) /\ Len(old) = n
      /\ \A i \in 1 .. n : old[i] = CharOf(p[i], ShiftBefore(p, sh, i))
  BY DecodedShape
<1>3. new \in Seq(Char) /\ Len(new) = n + 1
      /\ \A i \in 1 .. n + 1 : new[i] = CharOf(q[i], ShiftBefore(q, sh, i))
  BY <1>1, DecodedShape
<1>4. \A i \in 1 .. n + 1 : ShiftBefore(q, sh, i) = ShiftBefore(p, sh, i)
  <2>1. \A i \in 1 .. n + 1 : ShiftBefore(q, sh, i) <=> ShiftBefore(p, sh, i)
    BY ShiftAppend
  <2> QED  BY <2>1, ShiftIsBoolean, Zenon
<1>5. c \in Char
  BY ShiftIsBoolean, DecodeTypes
<1> HIDE DEF n, q, c, old, new
<1>6. Append(old, c) \in Seq(Char) /\ Len(Append(old, c)) = n + 1
  BY <1>2, <1>5
<1>7. ASSUME NEW i \in 1 .. n + 1
      PROVE  new[i] = Append(old, c)[i]
  <2>1. CASE i = n + 1
    <3>1. n + 1 \in 1 .. n + 1
      BY <1>1
    <3>2. new[i] = c
      BY <1>1, <1>3, <1>4, <2>1, <3>1 DEF c
    <3>3. Append(old, c)[i] = c
      BY <1>2, <1>5, <2>1
    <3> QED  BY <3>2, <3>3
  <2>2. CASE i \in 1 .. n
    BY <1>1, <1>2, <1>3, <1>4, <1>5, <2>2
  <2>3. i = n + 1 \/ i \in 1 .. n
    BY <1>1
  <2> QED  BY <2>1, <2>2, <2>3
<1>8. new = Append(old, c)
  BY <1>3, <1>6, <1>7, SeqEqual
<1> QED  BY <1>8 DEF n, q, c, old, new

LEMMA DecodedTail ==
  ASSUME NEW p \in Seq(Byte), NEW sh \in BOOLEAN, p # << >>
  PROVE  /\ Decoded(p, sh) # << >>
         /\ Decoded(Tail(p), NextShift(Head(p), sh)) = Tail(Decoded(p, sh))
<1> DEFINE n == Len(p)
           q == Tail(p)
           s == NextShift(Head(p), sh)
           old == Decoded(p, sh)
           new == Decoded(q, s)
<1>1. n \in Nat /\ n >= 1 /\ q \in Seq(Byte) /\ Len(q) = n - 1
      /\ \A i \in 1 .. n - 1 : q[i] = p[i + 1]
  BY HeadTailProperties
<1>2. s \in BOOLEAN
  <2>1. Head(p) \in Byte
    BY HeadTailProperties
  <2> QED  BY <2>1, DecodeTypes
<1>3. old \in Seq(Char) /\ Len(old) = n
      /\ \A i \in 1 .. n : old[i] = CharOf(p[i], ShiftBefore(p, sh, i))
  BY DecodedShape
<1>4. new \in Seq(Char) /\ Len(new) = n - 1
      /\ \A i \in 1 .. n - 1 : new[i] = CharOf(q[i], ShiftBefore(q, s, i))
  BY <1>1, <1>2, DecodedShape
<1>5. \A i \in 1 .. n - 1 : ShiftBefore(q, s, i) = ShiftBefore(p, sh, i + 1)
  <2>1. \A i \in 1 .. n - 1 : i \in 1 .. n
    BY <1>1
  <2>2. \A i \in 1 .. n : ShiftBefore(q, s, i) <=> ShiftBefore(p, sh, i + 1)
    BY ShiftTail
  <2> QED  BY <2>1, <2>2, ShiftIsBoolean, Zenon
<1> HIDE DEF n, q, s, old, new
<1>6. old # << >>
  BY <1>1, <1>3
<1>7. /\ Tail(old) \in Seq(Char) /\ Len(Tail(old)) = n - 1
      /\ \A i \in 1 .. n - 1 : Tail(old)[i] = old[i + 1]
  BY <1>1, <1>3, <1>6, HeadTailProperties
<1>8. ASSUME NEW i \in 1 .. n - 1
      PROVE  new[i] = Tail(old)[i]
  <2>1. i + 1 \in 1 .. n
    BY <1>1
  <2> QED  BY <1>1, <1>3, <1>4, <1>5, <1>7, <2>1
<1>9. new = Tail(old)
  BY <1>4, <1>7, <1>8, SeqEqual
<1> QED  BY <1>6, <1>9 DEF q, s, old, new

(* What every step keeps of the types of the line. *)
LEMMA LineShape ==
  ASSUME TypeOK
  PROVE  /\ Queue \in Seq(Byte) /\ Pending \in Seq(Byte)
         /\ shift \in BOOLEAN /\ sc \in Byte
         /\ pc = "decode" => /\ Pending # << >> /\ Head(Pending) = sc /\ Tail(Pending) = Queue
                             /\ Len(Pending) = Len(Queue) + 1
         /\ pc # "decode" => Pending = Queue
<1>1. Queue \in Seq(Byte) /\ shift \in BOOLEAN /\ sc \in Byte
  BY ContentsShape DEF TypeOK, Queue
<1>2. CASE pc = "decode"
  BY <1>1, <1>2 DEF Pending
<1>3. CASE pc # "decode"
  BY <1>1, <1>3 DEF Pending
<1> QED  BY <1>1, <1>2, <1>3

(* The line's variables. *)
HeldOf == ShiftBefore(Pending, shift, Len(Pending) + 1)
LineOf == IF pc = "decode" THEN Tail(Chars) ELSE Chars
HandOf == IF pc = "decode" THEN <<Head(Chars)>> ELSE << >>

LEMMA LineKept ==
  ASSUME UNCHANGED <<Pending, shift, pc>>
  PROVE  UNCHANGED <<HeldOf, LineOf, HandOf>>
BY DEF HeldOf, LineOf, HandOf, Chars

LEMMA LineInit == Init => Line!Init
<1> SUFFICES ASSUME Init PROVE Line!Init
  OBVIOUS
<1>1. TypeOK
  BY TypeInit
<1>2. Queue \in Seq(Byte) /\ Len(Queue) = 0
  BY <1>1, ContentsShape DEF Init, Queue, TypeOK
<1>3. Pending = << >> /\ shift = FALSE /\ pc = "test" /\ port = NoByte
  BY <1>2 DEF Init, Pending
<1>4. ShiftBefore(<< >>, FALSE, 0 + 1) = FALSE
  <2>1. (0 + 1) - 1 = 0 /\ \A j \in 0 .. 0 : j = 0
    OBVIOUS
  <2>2. ~ShiftBefore(<< >>, FALSE, 0 + 1)
    BY <2>1, Zenon DEF ShiftBefore
  <2> QED  BY <2>2, ShiftIsBoolean, Zenon
<1>5. Len(Pending) = 0
  BY <1>3
<1>6. HeldOf = FALSE
  BY <1>3, <1>4, <1>5 DEF HeldOf
<1>7. Chars = << >>
  <2>1. Decoded(Pending, shift) \in Seq(Char) /\ Len(Decoded(Pending, shift)) = 0
    BY <1>1, <1>5, LineShape, DecodedShape
  <2> QED  BY <2>1 DEF Chars
<1>8. LineOf = << >> /\ HandOf = << >>
  BY <1>3, <1>7 DEF LineOf, HandOf
<1> QED  BY <1>3, <1>6, <1>8 DEF Line!Init, HeldOf, LineOf, HandOf

(* A byte that the handler pushes is decoded with the shift keys as they   *)
(* are then; one that it drops changes nothing.                            *)
LEMMA PushedBehind ==
  ASSUME TypeOK, IrqHandler, Queue' = Append(Queue, port)
  PROVE  /\ Pending' = Append(Pending, port)
         /\ Chars' = Append(Chars, CharOf(port, HeldOf))
         /\ HeldOf' <=> NextShift(port, HeldOf)
<1>1. port \in Byte /\ UNCHANGED <<pc, shift, sc>>
  BY IrqPushes DEF mainVars
<1>2. /\ Queue \in Seq(Byte) /\ Pending \in Seq(Byte) /\ shift \in BOOLEAN /\ sc \in Byte
      /\ pc = "decode" => Pending # << >>
  BY LineShape
<1>3. Pending' = Append(Pending, port)
  <2>1. CASE pc = "decode"
    BY <1>1, <1>2, <2>1 DEF Pending
  <2>2. CASE pc # "decode"
    BY <1>1, <1>2, <2>2 DEF Pending
  <2> QED  BY <2>1, <2>2
<1>4. Chars' = Append(Chars, CharOf(port, HeldOf))
  BY <1>1, <1>2, <1>3, DecodedAppend DEF Chars, HeldOf
<1>5. HeldOf' <=> NextShift(port, HeldOf)
  <2>1. Len(Pending') + 1 = Len(Pending) + 2
    BY <1>1, <1>2, <1>3
  <2> QED  BY <1>1, <1>2, <1>3, <2>1, ShiftAppend DEF HeldOf
<1> QED  BY <1>3, <1>4, <1>5

LEMMA DroppedKeeps ==
  ASSUME TypeOK, IrqHandler, Queue' = Queue
  PROVE  UNCHANGED <<Pending, Chars, HeldOf>>
<1>1. UNCHANGED <<pc, shift, sc>>
  BY IrqPushes DEF mainVars
<1>2. UNCHANGED Pending
  BY <1>1 DEF Pending
<1> QED  BY <1>1, <1>2 DEF Chars, HeldOf

(* Taking a byte out of the ring leaves what is still to be decoded. *)
LEMMA TakingKeeps ==
  ASSUME TypeOK, FetchedIsHead, Advance
  PROVE  UNCHANGED <<Pending, Chars, HeldOf>>
<1>1. pc = "advance" /\ pc' = "decode" /\ UNCHANGED <<port, shift, sc>>
  BY DEF Advance
<1>2. Queue # << >> /\ Head(Queue) = sc /\ Queue' = Tail(Queue) /\ Queue \in Seq(Byte)
  BY AdvancePops
<1>3. Pending' = Pending
  <2>1. Pending = Queue
    BY <1>1, LineShape
  <2>2. Pending' = <<sc>> \o Tail(Queue)
    BY <1>1, <1>2 DEF Pending
  <2>3. <<Head(Queue)>> \o Tail(Queue) = Queue
    BY <1>2
  <2> QED  BY <1>2, <2>1, <2>2, <2>3
<1> QED  BY <1>1, <1>3 DEF Chars, HeldOf

(* Decoding a byte brings the flag to where the characters behind it were  *)
(* taken to be.                                                            *)
LEMMA DecodingKeeps ==
  ASSUME TypeOK, Decode
  PROVE  /\ Pending \in Seq(Byte) /\ Pending # << >> /\ Head(Pending) = sc
         /\ Pending' = Tail(Pending) /\ Chars' = Tail(Chars) /\ HeldOf' = HeldOf
<1>1. /\ pc = "decode" /\ pc' \in {"test", "return"} /\ shift' = NextShift(sc, shift)
      /\ UNCHANGED <<port, buf, head, tail>>
  BY Zenon DEF Decode, ringVars
<1>2. /\ Pending \in Seq(Byte) /\ Pending # << >> /\ Head(Pending) = sc
      /\ Tail(Pending) = Queue /\ Len(Pending) = Len(Queue) + 1
      /\ shift \in BOOLEAN /\ sc \in Byte /\ Queue \in Seq(Byte)
  BY <1>1, LineShape
<1>3. Pending' = Tail(Pending)
  <2>1. Queue' = Queue /\ pc' # "decode"
    BY <1>1 DEF Queue
  <2>2. Pending' = << >> \o Queue
    BY <2>1 DEF Pending
  <2> QED  BY <1>2, <2>2
<1>4. Chars' = Tail(Chars)
  BY <1>1, <1>2, <1>3, DecodedTail DEF Chars
<1>5. HeldOf' = HeldOf
  <2> DEFINE n == Len(Pending)
  <2>1. Len(Pending') + 1 = n /\ n \in 1 .. n
    BY <1>2, <1>3
  <2>2. HeldOf' <=> HeldOf
    BY <1>1, <1>2, <1>3, <2>1, ShiftTail DEF HeldOf
  <2> QED  BY <2>2, ShiftIsBoolean, Zenon DEF HeldOf
<1> QED  BY <1>2, <1>3, <1>4, <1>5

(* The rest of poll() touches neither the bytes nor the flag. *)
LEMMA RestKeeps ==
  ASSUME Test \/ Fetch \/ Again \/ UNCHANGED vars
  PROVE  /\ UNCHANGED <<port, Pending, Chars, HeldOf>>
         /\ pc' = pc \/ (pc # "decode" /\ pc' # "decode")
<1>1. UNCHANGED <<port, buf, head, tail, shift>>
  BY DEF Test, Fetch, Again, vars, ringVars
<1>2. (pc' = pc \/ (pc # "decode" /\ pc' # "decode")) /\ (pc = "decode" => UNCHANGED sc)
  <2>1. CASE Test \/ Fetch \/ Again
    BY <2>1 DEF Test, Fetch, Again
  <2>2. CASE UNCHANGED vars
    BY <2>2 DEF vars
  <2> QED  BY <2>1, <2>2
<1>3. UNCHANGED Pending
  BY <1>1, <1>2 DEF Pending, Queue
<1> QED  BY <1>1, <1>2, <1>3 DEF Chars, HeldOf

(* The handler accepts the byte with the shift keys as they are. *)
LEMMA IrqLine ==
  ASSUME TypeOK, IrqHandler
  PROVE  Line!Accept \/ Line!Refuse
<1>1. /\ port \in Byte /\ port' = NoByte /\ UNCHANGED <<pc, shift, sc>>
      /\ \/ Queue' = Append(Queue, port) /\ Len(Queue) < BufSize - 1
         \/ Queue' = Queue /\ Len(Queue) = BufSize - 1
      /\ port # NoByte
  BY IrqPushes DEF mainVars, IrqHandler
<1>2. /\ Queue \in Seq(Byte) /\ Pending \in Seq(Byte) /\ shift \in BOOLEAN /\ sc \in Byte
      /\ pc = "decode" => Pending # << >>
  BY LineShape
<1>3. Chars \in Seq(Char) /\ Len(Chars) = Len(Pending) /\ (Chars = << >> <=> Pending = << >>)
  BY <1>2, DecodedShape DEF Chars
<1>4. Len(LineOf) = Len(Queue)
  <2>1. CASE pc = "decode"
    <3>1. Chars # << >> /\ Len(Pending) = Len(Queue) + 1
      BY <1>2, <1>3, <2>1, LineShape
    <3>2. Len(Tail(Chars)) = Len(Chars) - 1
      BY <1>3, <3>1, HeadTailProperties
    <3> QED  BY <1>2, <1>3, <2>1, <3>1, <3>2 DEF LineOf
  <2>2. CASE pc # "decode"
    BY <1>3, <2>2, LineShape DEF LineOf
  <2> QED  BY <2>1, <2>2
<1>5. CASE Queue' = Append(Queue, port) /\ Len(Queue) < BufSize - 1
  <2>1. HeldOf' <=> NextShift(port, HeldOf)
    BY <1>5, PushedBehind
  <2>2. Chars' = Append(Chars, CharOf(port, HeldOf))
    BY <1>5, PushedBehind
  <2>3. HeldOf \in BOOLEAN /\ HeldOf' \in BOOLEAN
    BY ShiftIsBoolean DEF HeldOf
  <2>4. CharOf(port, HeldOf) = Line!Meaning(port, HeldOf) /\ CharOf(port, HeldOf) \in Char
    BY <1>1, <2>3, CharIsMeaning, DecodeTypes
  <2>5. HeldOf' = (port \in Line!ShiftPress \/ (HeldOf /\ port \notin Line!ShiftRelease))
    <3>1. NextShift(port, HeldOf) <=> port \in {42, 54} \/ (HeldOf /\ port \notin {170, 182})
      <4>1. \A s \in BOOLEAN :
               NextShift(port, s) <=> port \in {42, 54} \/ (s /\ port \notin {170, 182})
        BY <1>1, NextShiftIs, ZenonT(40)
      <4> QED  BY <2>3, <4>1, Zenon
    <3> QED  BY <2>1, <2>3, <3>1, Zenon DEF Line!ShiftPress, Line!ShiftRelease
  <2>6. LineOf' = Append(LineOf, Line!Meaning(port, HeldOf)) /\ HandOf' = HandOf
    <3>1. CASE pc = "decode"
      <4>1. Chars # << >>
        BY <1>2, <1>3, <3>1
      <4>2. Tail(Append(Chars, CharOf(port, HeldOf))) = Append(Tail(Chars), CharOf(port, HeldOf))
            /\ Head(Append(Chars, CharOf(port, HeldOf))) = Head(Chars)
        <5>1. Len(Chars) \in Nat /\ Len(Chars) # 0
          BY <1>3, <4>1, EmptySeq
        <5> QED  BY <1>3, <2>4, <4>1, <5>1
      <4> QED  BY <1>1, <2>2, <2>4, <3>1, <4>2 DEF LineOf, HandOf
    <3>2. CASE pc # "decode"
      BY <1>1, <2>2, <2>4, <3>2 DEF LineOf, HandOf
    <3> QED  BY <3>1, <3>2
  <2> QED
    BY <1>1, <1>4, <1>5, <2>5, <2>6 DEF Line!Accept, HeldOf, LineOf, HandOf
<1>6. CASE Queue' = Queue /\ Len(Queue) = BufSize - 1
  <2>1. UNCHANGED <<Chars, HeldOf>>
    BY <1>6, DroppedKeeps
  <2>2. UNCHANGED <<LineOf, HandOf>>
    BY <1>1, <2>1 DEF LineOf, HandOf
  <2> QED  BY <1>1, <1>4, <1>6, <2>1, <2>2 DEF Line!Refuse, HeldOf, LineOf, HandOf
<1> QED  BY <1>1, <1>5, <1>6

LEMMA AdvanceLine ==
  ASSUME TypeOK, FetchedIsHead, Advance
  PROVE  Line!Take
<1>1. pc = "advance" /\ pc' = "decode" /\ UNCHANGED port
  BY DEF Advance
<1>2. Pending # << >> /\ Pending \in Seq(Byte) /\ shift \in BOOLEAN
  BY <1>1, AdvancePops, LineShape
<1>3. UNCHANGED <<Chars, HeldOf>> /\ Chars # << >>
  BY <1>2, TakingKeeps, DecodedTail DEF Chars
<1>4. LineOf = Chars /\ HandOf = << >> /\ LineOf' = Tail(Chars) /\ HandOf' = <<Head(Chars)>>
  BY <1>1, <1>3 DEF LineOf, HandOf
<1> QED  BY <1>1, <1>3, <1>4 DEF Line!Take, HeldOf, LineOf, HandOf

LEMMA DecodeLine ==
  ASSUME TypeOK, Decode
  PROVE  Line!Finish
<1>1. pc = "decode" /\ pc' \in {"test", "return"} /\ UNCHANGED port
  BY Zenon DEF Decode
<1>2. Chars' = Tail(Chars) /\ HeldOf' = HeldOf
  BY DecodingKeeps
<1>3. LineOf' = LineOf /\ HandOf = <<Head(Chars)>> /\ HandOf' = << >>
  BY <1>1, <1>2 DEF LineOf, HandOf
<1> QED  BY <1>1, <1>2, <1>3 DEF Line!Finish, HeldOf, LineOf, HandOf

LEMMA LineStep ==
  ASSUME TypeOK, FetchedIsHead, [Next]_vars
  PROVE  [Line!Next]_(Line!lineVars)
<1>1. ASSUME NEW k \in Keys, KeyArrives(k)
      PROVE  Line!Next
  <2>1. port = NoByte /\ port' = k /\ UNCHANGED <<Pending, shift, pc>>
    BY <1>1 DEF KeyArrives, mainVars, ringVars, Pending, Queue
  <2>2. Line!Arrive(k)
    BY <2>1, LineKept DEF Line!Arrive, HeldOf, LineOf, HandOf
  <2> QED  BY <2>2 DEF Line!Next
<1>2. CASE IrqHandler
  BY <1>2, IrqLine DEF Line!Next
<1>3. CASE Advance
  BY <1>3, AdvanceLine DEF Line!Next
<1>4. CASE Decode
  BY <1>4, DecodeLine DEF Line!Next
<1>5. CASE Test \/ Fetch \/ Again \/ UNCHANGED vars
  <2>1. /\ UNCHANGED <<port, Chars, HeldOf>>
        /\ pc' = pc \/ (pc # "decode" /\ pc' # "decode")
    BY <1>5, RestKeeps
  <2>2. UNCHANGED <<LineOf, HandOf>>
    BY <2>1 DEF LineOf, HandOf
  <2> QED  BY <2>1, <2>2 DEF Line!lineVars, HeldOf, LineOf, HandOf
<1> QED  BY <1>1, <1>2, <1>3, <1>4, <1>5 DEF Next, Main

(* For every ring size and every keyboard: each character read() returns   *)
(* is the one its key stood for when the interrupt took it, with the shift *)
(* keys as they were then, however long it waited in the ring.             *)
THEOREM DecodingMayWait == Spec => DecodesAsTyped
<1> QED
  BY LineInit, LineStep, TypeCorrect, FetchSafe, PTL
     DEF Spec, DecodesAsTyped, Line!Spec
==============================================================================
