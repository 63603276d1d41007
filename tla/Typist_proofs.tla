---------------------------- MODULE Typist_proofs -----------------------------
(***************************************************************************)
(* Theorems about Typist, for every ring size, any of the keys in the      *)
(* typist's hands and any number of bytes under way.                       *)
(***************************************************************************)
EXTENDS Typist, KeyboardRing_proofs

(* The bytes the driver has not taken yet, oldest first. *)
OnTheWay == (IF port = NoByte THEN << >> ELSE <<port>>) \o wire

(* The bytes that stand for a letter or another key that has two cases. *)
Letters == Line!Letterlike

-------------------------------------------------------------------------------
(* The inductive invariant.  The shift flag that the bytes on their way    *)
(* will leave is computed twice: from nothing, as if the last byte of all  *)
(* before them had been the release of a shift key, and from what the      *)
(* driver has taken, which a dropped byte may have falsified.              *)

HandsInv ==
    /\ down \subseteq Hands /\ faked \in BOOLEAN /\ lost \in BOOLEAN
    /\ faked => "print_screen" \in down
    /\ wire \in Seq(Byte) /\ marks \in Seq(BOOLEAN)
    /\ Len(marks) <= UnderWay
    /\ Len(marks) = Len(Pending) + Len(OnTheWay)

FlagAt(f, i) == ShiftBefore(OnTheWay, f, i)

(* When the flag will be set, a key that sent a shift press is down.       *)
SentInv ==
    /\ FlagAt(FALSE, Len(OnTheWay) + 1) => ShiftSent
    /\ FlagAt(HeldOf, Len(OnTheWay) + 1) => ShiftSent \/ lost

(* A letter that will find the flag set was struck with such a key down.   *)
StruckInv ==
    \A i \in 1 .. Len(OnTheWay) :
        OnTheWay[i] \in Letters =>
            /\ FlagAt(FALSE, i) => marks[Len(Pending) + i]
            /\ FlagAt(HeldOf, i) => marks[Len(Pending) + i] \/ lost

(* So was a letter that the driver has taken with the flag set, or a shift *)
(* byte before it was dropped.                                             *)
TakenInv == \A i \in 1 .. Len(Pending) : Chars[i][2] => marks[i]

RingOK == TypeOK /\ FetchedIsHead

TypistInv == RingOK /\ HandsInv /\ SentInv /\ StruckInv /\ TakenInv

-------------------------------------------------------------------------------
(* The flag along a sequence of bytes. *)

LEMMA FlagStarts ==
  ASSUME NEW p, NEW f \in BOOLEAN
  PROVE  ShiftBefore(p, f, 1) <=> f
<1>1. \A j \in 0 .. 1 - 1 : j = 0 /\ j + 1 .. 1 - 1 = {}
  OBVIOUS
<1>2. 0 \in 0 .. 1 - 1
  OBVIOUS
<1> QED  BY <1>1, <1>2, Zenon DEF ShiftBefore

(* The flag is set if it is with none set before. *)
LEMMA FlagGrows ==
  ASSUME NEW p, NEW f \in BOOLEAN, NEW i, ShiftBefore(p, FALSE, i)
  PROVE  ShiftBefore(p, f, i)
BY Zenon DEF ShiftBefore

(* What a byte leaves of the flag. *)
LEMMA ShiftBytes ==
  ASSUME NEW b \in Byte, NEW f \in BOOLEAN
  PROVE  /\ IsShiftByte(b) => NextShift(b, f) = NextShift(b, FALSE)
         /\ ~IsShiftByte(b) => NextShift(b, f) = f
BY Zenon DEF IsShiftByte, NextShift

(* More bytes behind p: what was before stays, and at the end ... *)
LEMMA FlagBehind ==
  ASSUME NEW p \in Seq(Byte), NEW b \in Seq(Byte), NEW f \in BOOLEAN
  PROVE  \A i \in 1 .. Len(p) + 1 : ShiftBefore(p \o b, f, i) <=> ShiftBefore(p, f, i)
<1> DEFINE q == p \o b
<1>1. Len(p) \in Nat /\ \A k \in 1 .. Len(p) : q[k] = p[k]
  OBVIOUS
<1> HIDE DEF q
<1>2. ASSUME NEW i \in 1 .. Len(p) + 1
      PROVE  ShiftBefore(q, f, i) <=> ShiftBefore(p, f, i)
  <2>1. \A j \in 0 .. i - 1 : j = 0 \/ q[j] = p[j]
    BY <1>1
  <2>2. \A j \in 0 .. i - 1 : \A k \in j + 1 .. i - 1 : q[k] = p[k]
    BY <1>1
  <2> QED  BY <2>1, <2>2, Zenon DEF ShiftBefore
<1> QED  BY <1>2 DEF q

(* ... it is what it was behind p, if none of them is a shift byte, ...    *)
LEMMA FlagKept ==
  ASSUME NEW p \in Seq(Byte), NEW b \in Seq(Byte), NEW f \in BOOLEAN,
         \A k \in 1 .. Len(b) : ~IsShiftByte(b[k])
  PROVE  ShiftBefore(p \o b, f, Len(p \o b) + 1) <=> ShiftBefore(p, f, Len(p) + 1)
<1> DEFINE q == p \o b
           n == Len(p)
           l == Len(q)
<1>1. /\ n \in Nat /\ Len(b) \in Nat /\ l = n + Len(b) /\ l \in Nat
      /\ \A k \in 1 .. n : q[k] = p[k]
      /\ \A k \in n + 1 .. l : k - n \in 1 .. Len(b) /\ q[k] = b[k - n]
  OBVIOUS
<1> HIDE DEF q
<1>2. ASSUME NEW k \in n + 1 .. l
      PROVE  NextShift(q[k], TRUE) /\ ~NextShift(q[k], FALSE)
  <2>1. q[k] \in Byte /\ ~IsShiftByte(q[k])
    BY <1>1
  <2> QED  BY <2>1, ShiftBytes
<1> HIDE DEF n, l
<1>3. (l + 1) - 1 = l /\ (n + 1) - 1 = n
  BY <1>1
<1>4. ASSUME ShiftBefore(q, f, l + 1) PROVE ShiftBefore(p, f, n + 1)
  <2>1. PICK j \in 0 .. l : /\ IF j = 0 THEN f ELSE NextShift(q[j], FALSE)
                            /\ \A k \in j + 1 .. l : NextShift(q[k], TRUE)
    BY <1>3, <1>4 DEF ShiftBefore
  <2>2. j \in 0 .. n
    <3>1. j # 0 => j \notin n + 1 .. l
      BY <1>2, <2>1
    <3> QED  BY <1>1, <3>1
  <2>3. IF j = 0 THEN f ELSE NextShift(p[j], FALSE)
    <3>1. j # 0 => q[j] = p[j]
      BY <1>1, <2>2
    <3> QED  BY <2>1, <3>1, Zenon
  <2>4. \A k \in j + 1 .. n : NextShift(p[k], TRUE)
    <3>1. \A k \in j + 1 .. n : k \in j + 1 .. l /\ q[k] = p[k]
      BY <1>1, <2>2
    <3> QED  BY <2>1, <3>1
  <2> QED  BY <1>3, <2>2, <2>3, <2>4 DEF ShiftBefore
<1>5. ASSUME ShiftBefore(p, f, n + 1) PROVE ShiftBefore(q, f, l + 1)
  <2>1. PICK j \in 0 .. n : /\ IF j = 0 THEN f ELSE NextShift(p[j], FALSE)
                            /\ \A k \in j + 1 .. n : NextShift(p[k], TRUE)
    BY <1>3, <1>5 DEF ShiftBefore
  <2>2. j \in 0 .. l /\ (j # 0 => q[j] = p[j])
    BY <1>1
  <2>3. \A k \in j + 1 .. l : NextShift(q[k], TRUE)
    <3>1. \A k \in j + 1 .. l : (k \in j + 1 .. n /\ q[k] = p[k]) \/ k \in n + 1 .. l
      BY <1>1
    <3> QED  BY <1>2, <2>1, <3>1
  <2> QED  BY <1>3, <2>1, <2>2, <2>3 DEF ShiftBefore
<1> QED  BY <1>4, <1>5 DEF q, n, l

(* ... and off, if they end with a release.                                *)
ShiftReleases == {170, 182}

LEMMA ReleaseByte ==
  ASSUME NEW c \in ShiftReleases
  PROVE  NextShift(c, TRUE) = FALSE /\ NextShift(c, FALSE) = FALSE
<1>1. c # ExtPrefix /\ KeyOf(c) \in ShiftCodes /\ IsMake(c) = FALSE
  BY DEF ExtPrefix, KeyOf, ShiftCodes, IsMake, ShiftReleases
<1> QED  BY <1>1, Zenon DEF NextShift

LEMMA FlagEnds ==
  ASSUME NEW p \in Seq(Byte), NEW b \in Seq(Byte), NEW f \in BOOLEAN,
         NEW r \in 1 .. Len(b), \A k \in r .. Len(b) : b[k] \in ShiftReleases
  PROVE  ~ShiftBefore(p \o b, f, Len(p \o b) + 1)
<1> DEFINE q == p \o b
           n == Len(p)
           l == Len(q)
<1>1. /\ n \in Nat /\ Len(b) \in Nat /\ l = n + Len(b) /\ l \in Nat
      /\ \A k \in n + 1 .. l : k - n \in 1 .. Len(b) /\ q[k] = b[k - n]
  OBVIOUS
<1> HIDE DEF q, n, l
<1>2. n + r \in 1 .. l /\ n + r \in n + 1 .. l /\ (n + r) - n = r
  BY <1>1
<1>3. \A k \in n + r .. l : q[k] \in ShiftReleases /\ k # 0
  <2>1. ASSUME NEW k \in n + r .. l PROVE q[k] \in ShiftReleases /\ k # 0
    <3>1. k - n \in r .. Len(b) /\ k \in n + 1 .. l /\ k # 0
      BY <1>1
    <3> QED  BY <1>1, <3>1
  <2> QED  BY <2>1
<1>4. n + r \in n + r .. l
  BY <1>2
<1>5. SUFFICES ASSUME ShiftBefore(q, f, l + 1) PROVE FALSE
  BY DEF q, l
<1>6. PICK j \in 0 .. l : /\ IF j = 0 THEN f ELSE NextShift(q[j], FALSE)
                          /\ \A k \in j + 1 .. l : NextShift(q[k], TRUE)
  <2>1. (l + 1) - 1 = l
    BY <1>1
  <2> QED  BY <1>5, <2>1 DEF ShiftBefore
<1>7. CASE j < n + r
  <2>1. n + r \in j + 1 .. l
    BY <1>1, <1>2, <1>7
  <2>2. NextShift(q[n + r], TRUE) /\ q[n + r] \in ShiftReleases
    BY <1>3, <1>4, <1>6, <2>1
  <2> QED  BY <2>2, ReleaseByte
<1>8. CASE ~(j < n + r)
  <2>1. j \in n + r .. l
    BY <1>1, <1>2, <1>8
  <2>2. NextShift(q[j], FALSE) /\ q[j] \in ShiftReleases
    BY <1>3, <1>6, <2>1
  <2> QED  BY <2>2, ReleaseByte
<1> QED  BY <1>7, <1>8

(* Only a letter is upper case, and only with the flag set. *)
LEMMA UpperCase ==
  ASSUME NEW b \in Byte, NEW f \in BOOLEAN, CharOf(b, f)[2]
  PROVE  b \in Letters /\ f
<1>1. CharOf(b, f) = Line!Meaning(b, f)
  BY CharIsMeaning
<1>2. b \in Line!Letterlike \/ Line!Meaning(b, f)[2] = FALSE
  BY DEF Line!Meaning, Line!Nothing
<1>3. b \in Line!Letterlike => Line!Meaning(b, f) = <<b, f>>
  <2>1. b \in Line!Letterlike => b \notin Line!Caseless
    BY DEF Line!Letterlike, Line!Caseless
  <2> QED  BY <2>1, Zenon DEF Line!Meaning
<1>4. <<b, f>>[2] = f
  OBVIOUS
<1> QED  BY <1>1, <1>2, <1>3, <1>4, Zenon DEF Letters

-------------------------------------------------------------------------------
(* The driver's steps. *)

LEMMA WayTypes ==
  ASSUME TypeOK, wire \in Seq(Byte)
  PROVE  /\ OnTheWay \in Seq(Byte)
         /\ port = NoByte => OnTheWay = wire
         /\ port # NoByte => /\ port \in Byte /\ OnTheWay # << >> /\ Len(OnTheWay) = Len(wire) + 1
                             /\ Head(OnTheWay) = port /\ Tail(OnTheWay) = wire
                             /\ OnTheWay[1] = port
<1>1. CASE port = NoByte
  BY <1>1 DEF OnTheWay
<1>2. CASE port # NoByte
  <2>1. port \in Byte
    BY <1>2 DEF TypeOK
  <2>2. OnTheWay = <<port>> \o wire
    BY <1>2 DEF OnTheWay
  <2> QED  BY <1>2, <2>1, <2>2
<1> QED  BY <1>1, <1>2

LEMMA PendingTypes ==
  ASSUME TypeOK
  PROVE  /\ Pending \in Seq(Byte) /\ Chars \in Seq(Char) /\ Len(Chars) = Len(Pending)
         /\ Len(Pending) \in Nat /\ HeldOf \in BOOLEAN /\ shift \in BOOLEAN
         /\ \A i \in 1 .. Len(Pending) : Chars[i] = CharOf(Pending[i], ShiftBefore(Pending, shift, i))
BY LineShape, DecodedShape, ShiftIsBoolean DEF Chars, HeldOf

(* The ring's own invariant holds under the typist's hands. *)
LEMMA RingStep ==
  ASSUME RingOK, wire \in Seq(Byte), [TypistNext]_typistVars
  PROVE  RingOK'
<1> USE DEF RingOK
<1>1. CASE WireToPort
  <2>1. /\ port' = Head(wire) /\ Head(wire) \in Byte
        /\ UNCHANGED <<mainVars, ringVars>>
    BY <1>1 DEF WireToPort, KeyArrives
  <2>2. UNCHANGED <<buf, head, tail, shift, pc, sc, ret>>
    BY <2>1 DEF mainVars, ringVars
  <2>3. TypeOK'
    BY <2>1, <2>2, Zenon DEF TypeOK
  <2>4. FetchedIsHead'
    BY <2>2 DEF FetchedIsHead
  <2> QED  BY <2>3, <2>4
<1>2. CASE ~WireToPort
  <2>1. [Next]_vars
    BY <1>2 DEF TypistNext, Press, Release, Send, Irq, DecodeNext, Rest, typistVars, Next, Main
  <2> QED  BY <2>1, TypeStep, FetchedStep
<1> QED  BY <1>1, <1>2

Others == HandsInv /\ SentInv /\ StruckInv /\ TakenInv

(* Steps of which the typist's bytes know nothing. *)
LEMMA NothingMoves ==
  ASSUME Others, wire' \in Seq(Byte),
         UNCHANGED <<OnTheWay, Pending, Chars, HeldOf, down, faked, marks, lost>>
  PROVE  Others'
<1>1. HandsInv' /\ TakenInv'
  BY DEF Others, HandsInv, TakenInv
<1>2. SentInv' /\ StruckInv'
  BY DEF Others, SentInv, StruckInv, FlagAt, ShiftSent
<1> QED  BY <1>1, <1>2 DEF Others

LEMMA RestStep ==
  ASSUME RingOK, Others, Rest \/ UNCHANGED typistVars
  PROVE  Others'
<1>1. UNCHANGED hands /\ (Test \/ Fetch \/ Advance \/ Again \/ UNCHANGED vars)
  BY DEF Rest, typistVars
<1>2. UNCHANGED <<down, faked, wire, marks, lost>>
  BY <1>1 DEF hands
<1>3. UNCHANGED <<port, Pending, Chars, HeldOf>>
  <2>1. CASE Advance
    BY <2>1, TakingKeeps DEF Advance, RingOK
  <2>2. CASE Test \/ Fetch \/ Again \/ UNCHANGED vars
    BY <2>2, RestKeeps
  <2> QED  BY <1>1, <2>1, <2>2
<1>4. UNCHANGED OnTheWay
  BY <1>2, <1>3 DEF OnTheWay
<1>5. wire' \in Seq(Byte)
  BY <1>2 DEF Others, HandsInv
<1> QED  BY <1>2, <1>3, <1>4, <1>5, NothingMoves

LEMMA WireStep ==
  ASSUME RingOK, Others, WireToPort
  PROVE  Others'
<1>1. /\ wire # << >> /\ wire \in Seq(Byte) /\ wire' = Tail(wire)
      /\ port = NoByte /\ port' = Head(wire)
      /\ UNCHANGED <<down, faked, marks, lost>> /\ UNCHANGED <<buf, head, tail, shift, pc, sc, ret>>
  BY DEF WireToPort, KeyArrives, mainVars, ringVars, Others, HandsInv
<1>2. UNCHANGED <<Pending, Chars, HeldOf>>
  <2>1. UNCHANGED Pending
    BY <1>1 DEF Pending, Queue
  <2> QED  BY <1>1, <2>1 DEF Chars, HeldOf
<1>3. OnTheWay' = OnTheWay
  <2>1. Head(wire) \in Byte /\ Head(wire) # NoByte
    <3>1. Head(wire) \in Byte
      BY <1>1, HeadTailProperties
    <3> QED  BY <3>1 DEF Byte, NoByte
  <2>2. OnTheWay = wire
    BY <1>1 DEF OnTheWay
  <2>3. OnTheWay' = <<Head(wire)>> \o Tail(wire)
    BY <1>1, <2>1 DEF OnTheWay
  <2> QED  BY <1>1, <2>2, <2>3
<1>4. wire' \in Seq(Byte)
  BY <1>1
<1> QED  BY <1>1, <1>2, <1>3, <1>4, NothingMoves

(* The oldest byte leaves with its mark. *)
LEMMA DecodeStep ==
  ASSUME RingOK, Others, DecodeNext
  PROVE  Others'
<1>1. /\ Decode /\ marks' = Tail(marks) /\ UNCHANGED <<down, faked, wire, lost, port>>
  BY Zenon DEF DecodeNext, Decode
<1>2. /\ Pending \in Seq(Byte) /\ Pending # << >>
      /\ Pending' = Tail(Pending) /\ Chars' = Tail(Chars) /\ HeldOf' = HeldOf
  BY <1>1, DecodingKeeps DEF RingOK
<1>3. UNCHANGED OnTheWay
  BY <1>1 DEF OnTheWay
<1>4. /\ OnTheWay \in Seq(Byte) /\ Len(OnTheWay) \in Nat
      /\ Len(Pending) \in Nat /\ Len(Pending) # 0 /\ Len(Pending') = Len(Pending) - 1
      /\ Len(marks) = Len(Pending) + Len(OnTheWay) /\ marks \in Seq(BOOLEAN)
  <2>1. OnTheWay \in Seq(Byte)
    BY WayTypes DEF RingOK, Others, HandsInv
  <2>2. Len(Pending) # 0 /\ Len(Tail(Pending)) = Len(Pending) - 1 /\ Len(Pending) \in Nat
    BY <1>2, EmptySeq, HeadTailProperties
  <2> QED  BY <1>2, <2>1, <2>2 DEF Others, HandsInv
<1>5. /\ marks' \in Seq(BOOLEAN) /\ Len(marks') = Len(marks) - 1
      /\ \A i \in 1 .. Len(marks) - 1 : marks'[i] = marks[i + 1]
  <2>1. marks # << >>
    BY <1>4
  <2> QED  BY <1>1, <1>4, <2>1, HeadTailProperties
<1>6. HandsInv'
  <2>1. Len(marks') <= UnderWay
    BY <1>4, <1>5, UnderWayAssumption DEF Others, HandsInv
  <2>2. Len(marks') = Len(Pending') + Len(OnTheWay')
    BY <1>3, <1>4, <1>5
  <2> QED  BY <1>1, <1>5, <2>1, <2>2 DEF Others, HandsInv
<1>7. SentInv'
  BY <1>1, <1>2, <1>3 DEF Others, SentInv, FlagAt, ShiftSent
<1>8. StruckInv'
  <2>1. \A i \in 1 .. Len(OnTheWay) : marks'[Len(Pending') + i] = marks[Len(Pending) + i]
    <3>1. ASSUME NEW i \in 1 .. Len(OnTheWay)
          PROVE  marks'[Len(Pending') + i] = marks[Len(Pending) + i]
      <4>1. Len(Pending') + i \in 1 .. Len(marks) - 1 /\ (Len(Pending') + i) + 1 = Len(Pending) + i
        BY <1>4
      <4> QED  BY <1>5, <4>1
    <3> QED  BY <3>1
  <2> QED  BY <1>1, <1>2, <1>3, <2>1 DEF Others, StruckInv, FlagAt
<1>9. TakenInv'
  <2>1. ASSUME NEW i \in 1 .. Len(Pending') PROVE Chars'[i] = Chars[i + 1] /\ marks'[i] = marks[i + 1]
        /\ i + 1 \in 1 .. Len(Pending)
    <3>1. Chars \in Seq(Char) /\ Len(Chars) = Len(Pending)
      BY PendingTypes DEF RingOK
    <3>2. i \in 1 .. Len(Chars) - 1 /\ Chars # << >> /\ i \in 1 .. Len(marks) - 1
          /\ i + 1 \in 1 .. Len(Pending)
      BY <1>4, <3>1
    <3> QED  BY <1>2, <1>5, <3>1, <3>2, HeadTailProperties
  <2> QED  BY <2>1 DEF Others, TakenInv
<1> QED  BY <1>6, <1>7, <1>8, <1>9 DEF Others

(* Taking one element out of a sequence. *)
LEMMA RemoveAtShape ==
  ASSUME NEW S, NEW s \in Seq(S), NEW n \in 1 .. Len(s)
  PROVE  /\ RemoveAt(s, n) \in Seq(S) /\ Len(RemoveAt(s, n)) = Len(s) - 1
         /\ \A i \in 1 .. n - 1 : RemoveAt(s, n)[i] = s[i]
         /\ \A i \in n .. Len(s) - 1 : RemoveAt(s, n)[i] = s[i + 1]
<1> DEFINE p == SubSeq(s, 1, n - 1)
           q == SubSeq(s, n + 1, Len(s))
<1>1. n \in Nat /\ n >= 1 /\ n <= Len(s) /\ Len(s) \in Nat
  OBVIOUS
<1>2. /\ p \in Seq(S) /\ Len(p) = n - 1
      /\ \A i \in 1 .. n - 1 : p[i] = s[i]
  <2>1. \A i \in 1 .. n - 1 : i \in 1 .. Len(s)
    BY <1>1
  <2> QED  BY <1>1, <2>1, SMTT(20)
<1>3. /\ q \in Seq(S) /\ Len(q) = Len(s) - n
      /\ \A i \in 1 .. Len(s) - n : q[i] = s[i + n]
  BY <1>1
<1>4. RemoveAt(s, n) = p \o q
  BY DEF RemoveAt
<1> HIDE DEF p, q
<1>5. /\ p \o q \in Seq(S) /\ Len(p \o q) = Len(s) - 1
      /\ \A i \in 1 .. Len(s) - 1 : (p \o q)[i] = IF i <= n - 1 THEN p[i] ELSE q[i - (n - 1)]
  <2>1. /\ p \o q \in Seq(S) /\ Len(p \o q) = Len(p) + Len(q)
        /\ \A i \in 1 .. Len(p) + Len(q) : (p \o q)[i] = IF i <= Len(p) THEN p[i] ELSE q[i - Len(p)]
    BY <1>2, <1>3, ConcatProperties
  <2>2. Len(p) + Len(q) = Len(s) - 1
    BY <1>1, <1>2, <1>3
  <2> QED  BY <1>2, <2>1, <2>2, Zenon
<1>6. ASSUME NEW i \in n .. Len(s) - 1 PROVE (p \o q)[i] = s[i + 1]
  <2>1. i - (n - 1) \in 1 .. Len(s) - n /\ i \in 1 .. Len(s) - 1 /\ ~(i <= n - 1)
        /\ (i - (n - 1)) + n = i + 1
    BY <1>1
  <2> QED  BY <1>3, <1>5, <2>1
<1>7. ASSUME NEW i \in 1 .. n - 1 PROVE (p \o q)[i] = s[i]
  <2>1. i \in 1 .. Len(s) - 1 /\ i <= n - 1
    BY <1>1
  <2> QED  BY <1>2, <1>5, <2>1
<1> QED  BY <1>4, <1>5, <1>6, <1>7

(* The flag along the bytes on their way, when the first of them goes. *)
LEMMA FlagPasses ==
  ASSUME NEW w \in Seq(Byte), w # << >>, NEW f \in BOOLEAN, NEW i \in 1 .. Len(w)
  PROVE  LET b == Head(w)
             p == Tail(w)
         IN  /\ ShiftBefore(p, FALSE, i) => ShiftBefore(w, FALSE, i + 1)
             /\ ShiftBefore(p, NextShift(b, f), i) => ShiftBefore(w, f, i + 1)
             /\ IsShiftByte(b) /\ ShiftBefore(p, NextShift(b, f), i)
                  => ShiftBefore(w, FALSE, i + 1)
             /\ ~IsShiftByte(b) /\ ShiftBefore(p, f, i) => ShiftBefore(w, f, i + 1)
<1> DEFINE b == Head(w)
           p == Tail(w)
<1>1. b \in Byte
  BY HeadTailProperties
<1>2. \A g \in BOOLEAN : ShiftBefore(p, NextShift(b, g), i) <=> ShiftBefore(w, g, i + 1)
  BY ShiftTail
<1> HIDE DEF b, p
<1>3. /\ IsShiftByte(b) => NextShift(b, f) = NextShift(b, FALSE)
      /\ ~IsShiftByte(b) => NextShift(b, f) = f
  BY <1>1, ShiftBytes
<1>4. NextShift(b, FALSE) \in BOOLEAN
  BY <1>1, DecodeTypes
<1>5. ShiftBefore(p, FALSE, i) => ShiftBefore(w, FALSE, i + 1)
  BY <1>2, <1>4, FlagGrows
<1>6. IsShiftByte(b) /\ ShiftBefore(p, NextShift(b, f), i) => ShiftBefore(w, FALSE, i + 1)
  BY <1>2, <1>3
<1>7. ~IsShiftByte(b) /\ ShiftBefore(p, f, i) => ShiftBefore(w, f, i + 1)
  BY <1>2, <1>3
<1> QED  BY <1>2, <1>5, <1>6, <1>7 DEF b, p

(* What the interrupt finds: the oldest byte on its way, with its mark.    *)
LEMMA IrqFinds ==
  ASSUME RingOK, Others, Irq
  PROVE  /\ IrqHandler /\ UNCHANGED <<down, faked, wire>>
         /\ OnTheWay \in Seq(Byte) /\ OnTheWay # << >> /\ Head(OnTheWay) = port
         /\ OnTheWay[1] = port /\ OnTheWay' = Tail(OnTheWay)
         /\ Len(OnTheWay) \in Nat /\ Len(OnTheWay) >= 1 /\ Len(OnTheWay') = Len(OnTheWay) - 1
         /\ \A i \in 1 .. Len(OnTheWay') : OnTheWay'[i] = OnTheWay[i + 1]
         /\ Len(Pending) \in Nat /\ Len(Pending) + 1 \in 1 .. Len(marks)
         /\ marks \in Seq(BOOLEAN) /\ Len(marks) = Len(Pending) + Len(OnTheWay)
         /\ Len(marks) <= UnderWay /\ Len(marks) \in Nat /\ lost \in BOOLEAN
         /\ port \in Byte
<1>1. /\ IrqHandler /\ port # NoByte /\ port' = NoByte /\ UNCHANGED <<down, faked, wire>>
  BY DEF Irq, IrqHandler
<1>2. /\ wire \in Seq(Byte) /\ marks \in Seq(BOOLEAN)
      /\ Len(marks) = Len(Pending) + Len(OnTheWay)
      /\ Len(marks) <= UnderWay /\ lost \in BOOLEAN
  BY DEF Others, HandsInv
<1>3. /\ OnTheWay \in Seq(Byte) /\ port \in Byte /\ OnTheWay # << >>
      /\ Head(OnTheWay) = port /\ Tail(OnTheWay) = wire /\ OnTheWay[1] = port
  BY <1>1, <1>2, WayTypes DEF RingOK
<1>4. OnTheWay' = wire
  BY <1>1 DEF OnTheWay
<1>5. /\ Len(OnTheWay) \in Nat /\ Len(OnTheWay) # 0 /\ Len(OnTheWay') = Len(OnTheWay) - 1
      /\ \A i \in 1 .. Len(OnTheWay) - 1 : OnTheWay'[i] = OnTheWay[i + 1]
  BY <1>3, <1>4, EmptySeq, HeadTailProperties
<1>6. Len(Pending) \in Nat
  BY PendingTypes DEF RingOK
<1>7. Len(marks) \in Nat /\ Len(Pending) + 1 \in 1 .. Len(marks)
  BY <1>2, <1>5, <1>6
<1> QED  BY <1>1, <1>2, <1>3, <1>4, <1>5, <1>6, <1>7

(* Either the byte is pushed, and head moves, or it is dropped.            *)
LEMMA PushedOrDropped ==
  ASSUME RingOK, Irq
  PROVE  LET place == Len(Pending) + 1 IN
         \/ /\ Queue' = Queue
            /\ marks' = RemoveAt(marks, place) /\ lost' = (lost \/ IsShiftByte(port))
         \/ /\ Queue' = Append(Queue, port)
            /\ marks' = [marks EXCEPT ![place] = marks[place] \/ lost]
            /\ lost'  = (lost /\ ~IsShiftByte(port))
<1>1. /\ TypeOK /\ IrqHandler /\ PushScancode(port) /\ UNCHANGED tail /\ port \in Byte
      /\ buf \in [Slot -> Byte] /\ head \in Slot /\ tail \in Slot
  BY IrqPushes DEF RingOK, Irq, IrqHandler, mainVars, TypeOK
<1>2. CASE head' = head
  <2>1. Succ(head) = tail
    <3>1. Succ(head) # head
      BY <1>1, SuccInRing, BufSizeAssumption DEF Slot
    <3> QED  BY <1>1, <1>2, <3>1 DEF PushScancode
  <2>2. Queue' = Queue
    BY <1>1, <2>1 DEF PushScancode, ringVars, Queue
  <2> QED  BY <1>2, <2>2 DEF Irq
<1>3. CASE head' # head
  <2>1. /\ Succ(head) # tail /\ buf' = [buf EXCEPT ![head] = port] /\ head' = Succ(head)
    BY <1>1, <1>3 DEF PushScancode, ringVars
  <2>2. Queue' = Append(Queue, port)
    BY <1>1, <2>1, PushAppends DEF Queue
  <2> QED  BY <1>3, <2>2 DEF Irq
<1> QED  BY <1>2, <1>3

LEMMA AcceptStep ==
  ASSUME RingOK, Others, Irq, Queue' = Append(Queue, port),
         marks' = [marks EXCEPT ![Len(Pending) + 1] = marks[Len(Pending) + 1] \/ lost],
         lost'  = (lost /\ ~IsShiftByte(port))
  PROVE  Others'
<1>1. /\ IrqHandler /\ UNCHANGED <<down, faked, wire>>
      /\ OnTheWay \in Seq(Byte) /\ OnTheWay # << >> /\ Head(OnTheWay) = port
      /\ OnTheWay[1] = port /\ OnTheWay' = Tail(OnTheWay)
      /\ Len(OnTheWay) \in Nat /\ Len(OnTheWay) >= 1 /\ Len(OnTheWay') = Len(OnTheWay) - 1
      /\ \A i \in 1 .. Len(OnTheWay') : OnTheWay'[i] = OnTheWay[i + 1]
      /\ Len(Pending) \in Nat /\ Len(Pending) + 1 \in 1 .. Len(marks) /\ marks \in Seq(BOOLEAN)
      /\ Len(marks) = Len(Pending) + Len(OnTheWay) /\ Len(marks) <= UnderWay /\ Len(marks) \in Nat
      /\ lost \in BOOLEAN /\ port \in Byte
  BY IrqFinds
<1>2. /\ Pending' = Append(Pending, port) /\ Chars' = Append(Chars, CharOf(port, HeldOf))
      /\ HeldOf' <=> NextShift(port, HeldOf)
  BY <1>1, PushedBehind DEF RingOK
<1>3. /\ Pending \in Seq(Byte) /\ Chars \in Seq(Char) /\ Len(Chars) = Len(Pending) /\ HeldOf \in BOOLEAN
  BY PendingTypes DEF RingOK
<1>4. Len(Pending') = Len(Pending) + 1 /\ CharOf(port, HeldOf) \in Char
  BY <1>1, <1>2, <1>3, DecodeTypes
<1>5. HeldOf' = NextShift(port, HeldOf)
  <2>1. HeldOf' \in BOOLEAN /\ NextShift(port, HeldOf) \in BOOLEAN
    BY <1>1, <1>3, ShiftIsBoolean, DecodeTypes DEF HeldOf
  <2>2. \A a, b \in BOOLEAN : (a <=> b) => a = b
    OBVIOUS
  <2> QED  BY <1>2, <2>1, <2>2
<1>6. /\ marks' \in Seq(BOOLEAN) /\ Len(marks') = Len(marks)
      /\ marks'[Len(Pending) + 1] = (marks[Len(Pending) + 1] \/ lost)
      /\ \A i \in 1 .. Len(marks) : i # Len(Pending) + 1 => marks'[i] = marks[i]
  <2>1. (marks[Len(Pending) + 1] \/ lost) \in BOOLEAN
    BY <1>1
  <2> QED  BY <1>1, <2>1
(* The flag before a byte still on its way. *)
<1>7. ASSUME NEW i \in 1 .. Len(OnTheWay)
      PROVE  /\ ShiftBefore(OnTheWay', FALSE, i) => ShiftBefore(OnTheWay, FALSE, i + 1)
             /\ ShiftBefore(OnTheWay', HeldOf', i) =>
                                      \/ ShiftBefore(OnTheWay, FALSE, i + 1)
                                      \/ ShiftBefore(OnTheWay, HeldOf, i + 1) /\ lost' = lost
  <2>1. HeldOf' = NextShift(Head(OnTheWay), HeldOf) /\ OnTheWay' = Tail(OnTheWay)
    BY <1>1, <1>5
  <2>2. ~IsShiftByte(port) => lost' = lost
    BY <1>1, Zenon
  <2> QED  BY <1>1, <1>3, <2>1, <2>2, FlagPasses
<1>8. HandsInv'
  <2>1. lost' \in BOOLEAN
    BY <1>1
  <2>2. Len(marks') = Len(Pending') + Len(OnTheWay')
    <3>1. /\ Len(marks') = Len(Pending) + Len(OnTheWay) /\ Len(Pending') = Len(Pending) + 1
          /\ Len(OnTheWay') = Len(OnTheWay) - 1
      BY <1>1, <1>4, <1>6
    <3>2. Len(Pending) \in Nat /\ Len(OnTheWay) \in Nat
      BY <1>1
    <3>3. (Len(Pending) + 1) + (Len(OnTheWay) - 1) = Len(Pending) + Len(OnTheWay)
      BY <3>2
    <3> QED  BY <3>1, <3>3, Zenon
  <2> QED  BY <1>1, <1>6, <2>1, <2>2 DEF Others, HandsInv
<1>9. SentInv'
  <2>1. Len(OnTheWay) \in 1 .. Len(OnTheWay) /\ Len(OnTheWay') + 1 = Len(OnTheWay)
    BY <1>1
  <2>2. /\ ShiftBefore(OnTheWay, FALSE, Len(OnTheWay) + 1) => ShiftSent
        /\ ShiftBefore(OnTheWay, HeldOf, Len(OnTheWay) + 1) => ShiftSent \/ lost
    BY DEF Others, SentInv, FlagAt
  <2>3. ShiftSent' <=> ShiftSent
    BY <1>1 DEF ShiftSent
  <2>4. /\ ShiftBefore(OnTheWay', FALSE, Len(OnTheWay)) => ShiftSent'
        /\ ShiftBefore(OnTheWay', HeldOf', Len(OnTheWay)) => ShiftSent' \/ lost'
    BY <1>7, <2>1, <2>2, <2>3
  <2> QED  BY <2>1, <2>4 DEF SentInv, FlagAt
<1>10. StruckInv'
  <2>1. ASSUME NEW i \in 1 .. Len(OnTheWay'), OnTheWay'[i] \in Letters
        PROVE  /\ ShiftBefore(OnTheWay', FALSE, i) => marks'[Len(Pending') + i]
               /\ ShiftBefore(OnTheWay', HeldOf', i) => marks'[Len(Pending') + i] \/ lost'
    <3>1. i + 1 \in 1 .. Len(OnTheWay) /\ i \in 1 .. Len(OnTheWay) /\ OnTheWay'[i] = OnTheWay[i + 1]
          /\ Len(Pending) + (i + 1) \in 1 .. Len(marks) /\ Len(Pending) + (i + 1) # Len(Pending) + 1
          /\ Len(Pending') + i = Len(Pending) + (i + 1)
      BY <1>1, <1>4
    <3>2. /\ ShiftBefore(OnTheWay, FALSE, i + 1) => marks[Len(Pending) + (i + 1)]
          /\ ShiftBefore(OnTheWay, HeldOf, i + 1) => marks[Len(Pending) + (i + 1)] \/ lost
      BY <2>1, <3>1 DEF Others, StruckInv, FlagAt
    <3>3. marks'[Len(Pending') + i] = marks[Len(Pending) + (i + 1)]
      BY <1>6, <3>1
    <3> QED  BY <1>7, <3>1, <3>2, <3>3
  <2> QED  BY <2>1 DEF StruckInv, FlagAt
<1>11. TakenInv'
  <2>1. ASSUME NEW i \in 1 .. Len(Pending) + 1, Chars'[i][2] PROVE marks'[i]
    <3>1. CASE i = Len(Pending) + 1
      <4>1. CharOf(port, HeldOf)[2]
        BY <1>2, <1>3, <1>4, <2>1, <3>1
      <4>2. port \in Letters /\ HeldOf
        BY <1>1, <1>3, <4>1, UpperCase
      <4>3. ShiftBefore(OnTheWay, HeldOf, 1)
        BY <1>3, <4>2, FlagStarts
      <4>4. 1 \in 1 .. Len(OnTheWay)
        BY <1>1
      <4>5. marks[Len(Pending) + 1] \/ lost
        BY <1>1, <4>2, <4>3, <4>4 DEF Others, StruckInv, FlagAt
      <4> QED  BY <1>6, <3>1, <4>5
    <3>2. CASE i \in 1 .. Len(Pending)
      <4>1. Chars'[i] = Chars[i]
        BY <1>2, <1>3, <1>4, <3>2
      <4>2. i \in 1 .. Len(marks) /\ i # Len(Pending) + 1
        BY <1>1, <3>2
      <4> QED  BY <1>6, <2>1, <3>2, <4>1, <4>2 DEF Others, TakenInv
    <3>3. i = Len(Pending) + 1 \/ i \in 1 .. Len(Pending)
      BY <1>1
    <3> QED  BY <3>1, <3>2, <3>3
  <2> QED  BY <1>4, <2>1 DEF TakenInv
<1> QED  BY <1>8, <1>9, <1>10, <1>11 DEF Others

LEMMA RejectStep ==
  ASSUME RingOK, Others, Irq, Queue' = Queue,
         marks' = RemoveAt(marks, Len(Pending) + 1),
         lost'  = (lost \/ IsShiftByte(port))
  PROVE  Others'
<1>1. /\ IrqHandler /\ UNCHANGED <<down, faked, wire>>
      /\ OnTheWay \in Seq(Byte) /\ OnTheWay # << >> /\ Head(OnTheWay) = port
      /\ OnTheWay' = Tail(OnTheWay)
      /\ Len(OnTheWay) \in Nat /\ Len(OnTheWay) >= 1 /\ Len(OnTheWay') = Len(OnTheWay) - 1
      /\ \A i \in 1 .. Len(OnTheWay') : OnTheWay'[i] = OnTheWay[i + 1]
      /\ Len(Pending) \in Nat /\ Len(Pending) + 1 \in 1 .. Len(marks)
      /\ marks \in Seq(BOOLEAN) /\ Len(marks) = Len(Pending) + Len(OnTheWay)
      /\ Len(marks) <= UnderWay /\ Len(marks) \in Nat
      /\ lost \in BOOLEAN /\ port \in Byte
  BY IrqFinds
<1>2. UNCHANGED <<Pending, Chars, HeldOf>>
  BY <1>1, DroppedKeeps DEF RingOK
<1>3. HeldOf \in BOOLEAN
  BY PendingTypes DEF RingOK
<1>4. lost' \in BOOLEAN /\ (lost => lost') /\ (IsShiftByte(port) => lost')
  <2>1. IsShiftByte(port) \in BOOLEAN
    BY Zenon DEF IsShiftByte
  <2> QED  BY <1>1, <2>1
<1>5. /\ marks' \in Seq(BOOLEAN) /\ Len(marks') = Len(marks) - 1
      /\ \A i \in 1 .. Len(Pending) : marks'[i] = marks[i]
      /\ \A i \in Len(Pending) + 1 .. Len(marks) - 1 : marks'[i] = marks[i + 1]
  <2>1. (Len(Pending) + 1) - 1 = Len(Pending)
    BY <1>1
  <2>2. /\ marks' \in Seq(BOOLEAN) /\ Len(marks') = Len(marks) - 1
        /\ \A i \in 1 .. (Len(Pending) + 1) - 1 : marks'[i] = marks[i]
        /\ \A i \in Len(Pending) + 1 .. Len(marks) - 1 : marks'[i] = marks[i + 1]
    BY <1>1, RemoveAtShape, Zenon
  <2> QED  BY <2>1, <2>2
(* The flag before a byte still on its way. *)
<1>6. ASSUME NEW i \in 1 .. Len(OnTheWay)
      PROVE  /\ ShiftBefore(OnTheWay', FALSE, i) => ShiftBefore(OnTheWay, FALSE, i + 1)
             /\ ShiftBefore(OnTheWay', HeldOf', i) =>
                  lost' \/ ShiftBefore(OnTheWay, HeldOf, i + 1)
  <2>1. HeldOf' = HeldOf /\ OnTheWay' = Tail(OnTheWay)
    BY <1>1, <1>2
  <2> QED  BY <1>1, <1>3, <1>4, <2>1, FlagPasses
<1>7. HandsInv'
  <2>1. Len(marks') = Len(Pending') + Len(OnTheWay')
    <3>1. /\ Len(marks') = Len(Pending) + Len(OnTheWay) - 1 /\ Len(Pending') = Len(Pending)
          /\ Len(OnTheWay') = Len(OnTheWay) - 1
      BY <1>1, <1>2, <1>5
    <3>2. Len(Pending) \in Nat /\ Len(OnTheWay) \in Nat
      BY <1>1
    <3> QED  BY <3>1, <3>2
  <2>2. Len(marks') <= UnderWay
    BY <1>1, <1>5, UnderWayAssumption
  <2> QED  BY <1>1, <1>4, <1>5, <2>1, <2>2 DEF Others, HandsInv
<1>8. SentInv'
  <2>1. Len(OnTheWay) \in 1 .. Len(OnTheWay) /\ Len(OnTheWay') + 1 = Len(OnTheWay)
    BY <1>1
  <2>2. /\ ShiftBefore(OnTheWay, FALSE, Len(OnTheWay) + 1) => ShiftSent
        /\ ShiftBefore(OnTheWay, HeldOf, Len(OnTheWay) + 1) => ShiftSent \/ lost
    BY DEF Others, SentInv, FlagAt
  <2>3. ShiftSent' <=> ShiftSent
    BY <1>1 DEF ShiftSent
  <2>4. /\ ShiftBefore(OnTheWay', FALSE, Len(OnTheWay)) => ShiftSent'
        /\ ShiftBefore(OnTheWay', HeldOf', Len(OnTheWay)) => ShiftSent' \/ lost'
    BY <1>4, <1>6, <2>1, <2>2, <2>3
  <2> QED  BY <2>1, <2>4 DEF SentInv, FlagAt
<1>9. StruckInv'
  <2>1. ASSUME NEW i \in 1 .. Len(OnTheWay'), OnTheWay'[i] \in Letters
        PROVE  /\ ShiftBefore(OnTheWay', FALSE, i) => marks'[Len(Pending') + i]
               /\ ShiftBefore(OnTheWay', HeldOf', i) => marks'[Len(Pending') + i] \/ lost'
    <3>1. i + 1 \in 1 .. Len(OnTheWay) /\ i \in 1 .. Len(OnTheWay)
          /\ OnTheWay'[i] = OnTheWay[i + 1]
          /\ Len(Pending) + i \in Len(Pending) + 1 .. Len(marks) - 1
          /\ (Len(Pending) + i) + 1 = Len(Pending) + (i + 1)
      BY <1>1
    <3>2. /\ ShiftBefore(OnTheWay, FALSE, i + 1) => marks[Len(Pending) + (i + 1)]
          /\ ShiftBefore(OnTheWay, HeldOf, i + 1) => marks[Len(Pending) + (i + 1)] \/ lost
      BY <2>1, <3>1 DEF Others, StruckInv, FlagAt
    <3>3. marks'[Len(Pending) + i] = marks[Len(Pending) + (i + 1)]
      BY <1>5, <3>1
    <3>4. Len(Pending') = Len(Pending)
      BY <1>2
    <3> QED  BY <1>4, <1>6, <3>1, <3>2, <3>3, <3>4
  <2> QED  BY <2>1 DEF StruckInv, FlagAt
<1>10. TakenInv'
  BY <1>2, <1>5 DEF Others, TakenInv
<1> QED  BY <1>7, <1>8, <1>9, <1>10 DEF Others

LEMMA IrqStep ==
  ASSUME RingOK, Others, Irq
  PROVE  Others'
BY PushedOrDropped, AcceptStep, RejectStep

-------------------------------------------------------------------------------
(* The typist's steps: bytes are sent behind those on their way. *)

LEMMA SentBehind ==
  ASSUME TypeOK, wire \in Seq(Byte), NEW b \in Seq(Byte), wire' = wire \o b, UNCHANGED port
  PROVE  /\ OnTheWay' = OnTheWay \o b /\ wire' \in Seq(Byte)
         /\ OnTheWay \in Seq(Byte)
         /\ Len(OnTheWay) \in Nat /\ Len(b) \in Nat /\ Len(OnTheWay') = Len(OnTheWay) + Len(b)
         /\ \A i \in 1 .. Len(OnTheWay) : OnTheWay'[i] = OnTheWay[i]
         /\ \A i \in Len(OnTheWay) + 1 .. Len(OnTheWay') :
               i - Len(OnTheWay) \in 1 .. Len(b) /\ OnTheWay'[i] = b[i - Len(OnTheWay)]
<1>1. OnTheWay \in Seq(Byte) /\ Len(OnTheWay) \in Nat /\ Len(b) \in Nat
  BY WayTypes
<1>2. OnTheWay' = OnTheWay \o b
  <2>1. CASE port = NoByte
    BY <2>1 DEF OnTheWay
  <2>2. CASE port # NoByte
    <3>1. port \in Byte /\ OnTheWay = <<port>> \o wire /\ OnTheWay' = <<port>> \o (wire \o b)
      BY <2>2 DEF OnTheWay, TypeOK
    <3>2. <<port>> \in Seq(Byte)
      BY <3>1
    <3> QED  BY <3>1, <3>2, ConcatAssociative
  <2> QED  BY <2>1, <2>2
<1>3. /\ Len(OnTheWay') = Len(OnTheWay) + Len(b)
      /\ \A i \in 1 .. Len(OnTheWay) + Len(b) :
            OnTheWay'[i] = IF i <= Len(OnTheWay) THEN OnTheWay[i] ELSE b[i - Len(OnTheWay)]
  BY <1>1, <1>2, ConcatProperties, Zenon
<1>4. ASSUME NEW i \in 1 .. Len(OnTheWay) PROVE OnTheWay'[i] = OnTheWay[i]
  <2>1. i \in 1 .. Len(OnTheWay) + Len(b) /\ i <= Len(OnTheWay)
    BY <1>1
  <2> QED  BY <1>3, <2>1, Zenon
<1>5. ASSUME NEW i \in Len(OnTheWay) + 1 .. Len(OnTheWay')
      PROVE  i - Len(OnTheWay) \in 1 .. Len(b) /\ OnTheWay'[i] = b[i - Len(OnTheWay)]
  <2>1. /\ i \in 1 .. Len(OnTheWay) + Len(b) /\ ~(i <= Len(OnTheWay))
        /\ i - Len(OnTheWay) \in 1 .. Len(b)
    BY <1>1, <1>3
  <2> QED  BY <1>3, <2>1, Zenon
<1>6. wire \o b \in Seq(Byte)
  OBVIOUS
<1> QED  BY <1>1, <1>2, <1>3, <1>4, <1>5, <1>6

(* Bytes that say nothing of shift keys, and bytes that end with a release. *)
NoShift(b) == \A k \in 1 .. Len(b) : ~IsShiftByte(b[k])
LetsGo(b)  == \E r \in 1 .. Len(b) : \A k \in r .. Len(b) : b[k] \in ShiftReleases

LEMMA ConcatShape ==
  ASSUME NEW S, NEW s \in Seq(S), NEW t \in Seq(S)
  PROVE  /\ s \o t \in Seq(S) /\ Len(s \o t) = Len(s) + Len(t)
         /\ \A i \in 1 .. Len(s) : (s \o t)[i] = s[i]
         /\ \A i \in 1 .. Len(t) : (s \o t)[Len(s) + i] = t[i]
OBVIOUS

LEMMA SendStep ==
  ASSUME RingOK, Others, NEW b \in Seq(Byte), Send(b),
         down' \subseteq Hands, faked' \in BOOLEAN, faked' => "print_screen" \in down',
         \A k \in 1 .. Len(b) : b[k] \in Letters => k = 1,
         ShiftSent' \/ (NoShift(b) /\ (ShiftSent => ShiftSent')) \/ LetsGo(b)
  PROVE  Others'
<1> DEFINE m == [i \in 1 .. Len(b) |-> ShiftSent]
<1>1. /\ Len(marks) + Len(b) <= UnderWay /\ wire' = wire \o b /\ marks' = marks \o m
      /\ UNCHANGED <<port, buf, head, tail, shift, pc, sc, lost>>
  BY DEF Send, vars
<1>2. UNCHANGED <<Pending, Chars, HeldOf>>
  <2>1. UNCHANGED Pending
    BY <1>1 DEF Pending, Queue
  <2> QED  BY <1>1, <2>1 DEF Chars, HeldOf
<1>3. /\ OnTheWay' = OnTheWay \o b /\ wire' \in Seq(Byte) /\ OnTheWay \in Seq(Byte)
      /\ Len(OnTheWay) \in Nat /\ Len(b) \in Nat /\ Len(OnTheWay') = Len(OnTheWay) + Len(b)
      /\ \A i \in 1 .. Len(OnTheWay) : OnTheWay'[i] = OnTheWay[i]
      /\ \A i \in Len(OnTheWay) + 1 .. Len(OnTheWay') :
            i - Len(OnTheWay) \in 1 .. Len(b) /\ OnTheWay'[i] = b[i - Len(OnTheWay)]
  BY <1>1, SentBehind DEF RingOK, Others, HandsInv
<1>4. /\ marks \in Seq(BOOLEAN) /\ Len(marks) = Len(Pending) + Len(OnTheWay)
      /\ lost \in BOOLEAN /\ Len(marks) \in Nat
  BY DEF Others, HandsInv
<1>5. Len(Pending) \in Nat /\ HeldOf \in BOOLEAN
  BY PendingTypes DEF RingOK
<1>6. /\ marks' \in Seq(BOOLEAN) /\ Len(marks') = Len(marks) + Len(b)
      /\ \A i \in 1 .. Len(marks) : marks'[i] = marks[i]
      /\ \A i \in 1 .. Len(b) : marks'[Len(marks) + i] = ShiftSent
  <2>1. ShiftSent \in BOOLEAN
    BY DEF ShiftSent, Others, HandsInv
  <2>2. m \in Seq(BOOLEAN) /\ Len(m) = Len(b) /\ \A i \in 1 .. Len(b) : m[i] = ShiftSent
    BY <1>3, <2>1
  <2> HIDE DEF m
  <2>3. /\ marks \o m \in Seq(BOOLEAN) /\ Len(marks \o m) = Len(marks) + Len(m)
        /\ \A i \in 1 .. Len(marks) : (marks \o m)[i] = marks[i]
        /\ \A i \in 1 .. Len(m) : (marks \o m)[Len(marks) + i] = m[i]
    <3> DEFINE B == BOOLEAN
    <3>1. marks \in Seq(B) /\ m \in Seq(B)
      BY <1>4, <2>2
    <3> HIDE DEF B
    <3>2. /\ marks \o m \in Seq(B) /\ Len(marks \o m) = Len(marks) + Len(m)
          /\ \A i \in 1 .. Len(marks) : (marks \o m)[i] = marks[i]
          /\ \A i \in 1 .. Len(m) : (marks \o m)[Len(marks) + i] = m[i]
      BY <3>1, ConcatShape
    <3> QED  BY <3>2 DEF B
  <2> QED  BY <1>1, <2>2, <2>3
<1> HIDE DEF m
<1>7. HandsInv'
  <2>1. Len(marks') = Len(Pending') + Len(OnTheWay')
    <3>1. /\ Len(marks') = (Len(Pending) + Len(OnTheWay)) + Len(b)
          /\ Len(Pending') = Len(Pending) /\ Len(OnTheWay') = Len(OnTheWay) + Len(b)
      BY <1>2, <1>3, <1>4, <1>6, Zenon
    <3> QED  BY <1>3, <1>5, <3>1
  <2>2. Len(marks') <= UnderWay
    BY <1>1, <1>6, Zenon
  <2> QED  BY <1>1, <1>3, <1>4, <1>6, <2>1, <2>2 DEF HandsInv
<1>8. /\ ShiftBefore(OnTheWay, FALSE, Len(OnTheWay) + 1) => ShiftSent
      /\ ShiftBefore(OnTheWay, HeldOf, Len(OnTheWay) + 1) => ShiftSent \/ lost
  BY DEF Others, SentInv, FlagAt
<1>9. SentInv'
  <2>1. ASSUME NEW f \in BOOLEAN, ShiftBefore(OnTheWay \o b, f, Len(OnTheWay \o b) + 1)
        PROVE  ShiftSent' \/ (ShiftBefore(OnTheWay, f, Len(OnTheWay) + 1) /\ (ShiftSent => ShiftSent'))
    <3>1. CASE NoShift(b)
      <4>1. ShiftBefore(OnTheWay, f, Len(OnTheWay) + 1)
        BY <1>3, <2>1, <3>1, FlagKept DEF NoShift
      <4>2. ~LetsGo(b)
        <5>1. ASSUME NEW r \in 1 .. Len(b), b[r] \in ShiftReleases PROVE FALSE
          <6>1. NextShift(b[r], TRUE) = FALSE
            BY <5>1, ReleaseByte
          <6>2. b[r] \in Byte /\ ~IsShiftByte(b[r])
            BY <3>1 DEF NoShift
          <6>3. NextShift(b[r], TRUE) = TRUE
            BY <6>2, ShiftBytes
          <6> QED  BY <6>1, <6>3
        <5>2. \A r \in 1 .. Len(b) : r \in r .. Len(b)
          OBVIOUS
        <5> QED  BY <5>1, <5>2 DEF LetsGo
      <4> QED  BY <4>1, <4>2
    <3>2. CASE LetsGo(b)
      BY <1>3, <2>1, <3>2, FlagEnds DEF LetsGo
    <3> QED  BY <3>1, <3>2
  <2>2. /\ ShiftBefore(OnTheWay', FALSE, Len(OnTheWay') + 1) => ShiftSent'
        /\ ShiftBefore(OnTheWay', HeldOf', Len(OnTheWay') + 1) => ShiftSent' \/ lost'
    <3>1. lost' = lost /\ HeldOf' = HeldOf /\ OnTheWay' = OnTheWay \o b
      BY <1>1, <1>2, <1>3
    <3> QED  BY <1>5, <1>8, <2>1, <3>1
  <2> QED  BY <2>2 DEF SentInv, FlagAt
<1>10. StruckInv'
  <2>0. /\ \A i \in 1 .. Len(OnTheWay) + 1 :
              /\ ShiftBefore(OnTheWay', FALSE, i) <=> ShiftBefore(OnTheWay, FALSE, i)
              /\ ShiftBefore(OnTheWay', HeldOf', i) <=> ShiftBefore(OnTheWay, HeldOf, i)
        /\ Len(Pending') = Len(Pending) /\ lost' = lost
    BY <1>1, <1>2, <1>3, <1>5, FlagBehind
  <2>1. ASSUME NEW i \in 1 .. Len(OnTheWay'), OnTheWay'[i] \in Letters
        PROVE  /\ ShiftBefore(OnTheWay', FALSE, i) => marks'[Len(Pending') + i]
               /\ ShiftBefore(OnTheWay', HeldOf', i) => marks'[Len(Pending') + i] \/ lost'
    <3>1. CASE i \in 1 .. Len(OnTheWay)
      <4>1. i \in 1 .. Len(OnTheWay) + 1 /\ Len(Pending) + i \in 1 .. Len(marks)
        BY <1>3, <1>4, <1>5, <3>1
      <4>2. /\ ShiftBefore(OnTheWay, FALSE, i) => marks[Len(Pending) + i]
            /\ ShiftBefore(OnTheWay, HeldOf, i) => marks[Len(Pending) + i] \/ lost
        BY <1>3, <2>1, <3>1 DEF Others, StruckInv, FlagAt
      <4>3. marks'[Len(Pending') + i] = marks[Len(Pending) + i]
        BY <1>6, <2>0, <4>1, Zenon
      <4> QED  BY <2>0, <4>1, <4>2, <4>3
    <3>2. CASE i \in Len(OnTheWay) + 1 .. Len(OnTheWay')
      <4>1. i - Len(OnTheWay) = 1 /\ 1 \in 1 .. Len(b)
        BY <1>3, <2>1, <3>2
      <4>2. i = Len(OnTheWay) + 1 /\ i \in 1 .. Len(OnTheWay) + 1
            /\ Len(Pending) + i = Len(marks) + 1
        BY <1>3, <1>4, <1>5, <3>2, <4>1
      <4>3. marks'[Len(Pending') + i] = ShiftSent
        BY <1>6, <2>0, <4>1, <4>2, Zenon
      <4> QED  BY <1>8, <2>0, <4>2, <4>3
    <3>3. i \in 1 .. Len(OnTheWay) \/ i \in Len(OnTheWay) + 1 .. Len(OnTheWay')
      BY <1>3
    <3> QED  BY <3>1, <3>2, <3>3
  <2> QED  BY <2>1 DEF StruckInv, FlagAt
<1>11. TakenInv'
  <2>1. \A i \in 1 .. Len(Pending) : i \in 1 .. Len(marks)
    BY <1>3, <1>4, <1>5
  <2> QED  BY <1>2, <1>6, <2>1 DEF Others, TakenInv
<1> QED  BY <1>7, <1>9, <1>10, <1>11 DEF Others

(* The bytes of the keys in the typist's hands. *)
LEMMA KeyBytes ==
  /\ \A b \in {30, 158, 224, 55, 183} : b \in Byte /\ ~IsShiftByte(b)
  /\ \A b \in {158, 224, 55, 183, 42, 54, 170, 182} : b \notin Letters
  /\ \A b \in {42, 54, 170, 182} : b \in Byte
<1>1. \A b \in {30, 158, 224, 55, 183, 42, 54, 170, 182} : b \in Byte
  BY DEF Byte
<1>2. \A b \in {30, 158, 224, 55, 183} : ~IsShiftByte(b)
  BY DEF IsShiftByte, KeyOf, ShiftCodes, ExtPrefix
<1>3. \A b \in {158, 224, 55, 183, 42, 54, 170, 182} : b \notin Letters
  BY DEF Letters, Line!Letterlike
<1> QED  BY <1>1, <1>2, <1>3

LEMMA PressStep ==
  ASSUME RingOK, Others, NEW key \in Hands, Press(key)
  PROVE  Others'
<1>1. /\ key \notin down /\ down' = down \cup {key} /\ Send(Make(key))
      /\ faked' = IF key = "print_screen" THEN down \cap ShiftKeys = {} ELSE faked
      /\ down \subseteq Hands /\ faked \in BOOLEAN /\ (faked => "print_screen" \in down)
  BY DEF Press, Others, HandsInv
<1>2. /\ down' \subseteq Hands /\ faked' \in BOOLEAN /\ (faked' => "print_screen" \in down')
  BY <1>1
<1>3. CASE key = "left_shift"
  <2> DEFINE b == <<42>>
  <2>1. Make(key) = b
    BY <1>3 DEF Make
  <2>2. ShiftSent'
    BY <1>1, <1>3 DEF ShiftSent, ShiftKeys
  <2>3. b \in Seq(Byte) /\ \A k \in 1 .. Len(b) : b[k] \in Letters => k = 1
    BY KeyBytes
  <2> HIDE DEF b
  <2> QED  BY <1>1, <1>2, <2>1, <2>2, <2>3, SendStep
<1>4. CASE key = "right_shift"
  <2> DEFINE b == <<54>>
  <2>1. Make(key) = b
    BY <1>4 DEF Make
  <2>2. ShiftSent'
    BY <1>1, <1>4 DEF ShiftSent, ShiftKeys
  <2>3. b \in Seq(Byte) /\ \A k \in 1 .. Len(b) : b[k] \in Letters => k = 1
    BY KeyBytes
  <2> HIDE DEF b
  <2> QED  BY <1>1, <1>2, <2>1, <2>2, <2>3, SendStep
<1>5. CASE key = "letter"
  <2> DEFINE b == <<30>>
  <2>1. Make(key) = b
    BY <1>5 DEF Make
  <2>2. ShiftSent => ShiftSent'
    BY <1>1, <1>5 DEF ShiftSent
  <2>3. b \in Seq(Byte) /\ \A k \in 1 .. Len(b) : k = 1 /\ ~IsShiftByte(b[k])
    BY KeyBytes
  <2> HIDE DEF b
  <2>4. NoShift(b)
    BY <2>3 DEF NoShift
  <2> QED  BY <1>1, <1>2, <2>1, <2>2, <2>3, <2>4, SendStep
<1>6. CASE key = "print_screen" /\ ~faked'
  <2> DEFINE b == <<224, 55>>
  <2>1. Make(key) = b
    BY <1>6 DEF Make
  <2>2. ShiftSent'
    BY <1>1, <1>6 DEF ShiftSent
  <2>3. b \in Seq(Byte) /\ \A k \in 1 .. Len(b) : b[k] \notin Letters
    BY KeyBytes
  <2> HIDE DEF b
  <2> QED  BY <1>1, <1>2, <2>1, <2>2, <2>3, SendStep
<1>7. CASE key = "print_screen" /\ faked'
  <2> DEFINE b == <<224, 42, 224, 55>>
  <2>1. Make(key) = b
    BY <1>7 DEF Make
  <2>2. ShiftSent'
    BY <1>7 DEF ShiftSent
  <2>3. b \in Seq(Byte) /\ \A k \in 1 .. Len(b) : b[k] \notin Letters
    BY KeyBytes
  <2> HIDE DEF b
  <2> QED  BY <1>1, <1>2, <2>1, <2>2, <2>3, SendStep
<1> QED  BY <1>2, <1>3, <1>4, <1>5, <1>6, <1>7, HandsAssumption

LEMMA ReleaseStep ==
  ASSUME RingOK, Others, NEW key \in Hands, Release(key)
  PROVE  Others'
<1>1. /\ key \in down /\ down' = down \ {key} /\ Send(Break(key))
      /\ faked' = (faked /\ key # "print_screen")
      /\ down \subseteq Hands /\ faked \in BOOLEAN /\ (faked => "print_screen" \in down)
  BY DEF Release, Others, HandsInv
<1>2. /\ down' \subseteq Hands /\ faked' \in BOOLEAN /\ (faked' => "print_screen" \in down')
  BY <1>1
<1>3. CASE key = "left_shift"
  <2> DEFINE b == <<170>>
  <2>1. Break(key) = b
    BY <1>3 DEF Break
  <2>2. b \in Seq(Byte) /\ \A k \in 1 .. Len(b) : b[k] \notin Letters
    BY KeyBytes
  <2>3. 1 \in 1 .. Len(b) /\ \A k \in 1 .. Len(b) : b[k] \in ShiftReleases
    BY DEF ShiftReleases
  <2> HIDE DEF b
  <2> QED  BY <1>1, <1>2, <2>1, <2>2, <2>3, SendStep DEF NoShift, LetsGo
<1>4. CASE key = "right_shift"
  <2> DEFINE b == <<182>>
  <2>1. Break(key) = b
    BY <1>4 DEF Break
  <2>2. b \in Seq(Byte) /\ \A k \in 1 .. Len(b) : b[k] \notin Letters
    BY KeyBytes
  <2>3. 1 \in 1 .. Len(b) /\ \A k \in 1 .. Len(b) : b[k] \in ShiftReleases
    BY DEF ShiftReleases
  <2> HIDE DEF b
  <2> QED  BY <1>1, <1>2, <2>1, <2>2, <2>3, SendStep DEF NoShift, LetsGo
<1>5. CASE key = "letter"
  <2> DEFINE b == <<158>>
  <2>1. Break(key) = b
    BY <1>5 DEF Break
  <2>2. ShiftSent => ShiftSent'
    BY <1>1, <1>5 DEF ShiftSent, ShiftKeys
  <2>3. /\ b \in Seq(Byte) /\ \A k \in 1 .. Len(b) : b[k] \notin Letters /\ ~IsShiftByte(b[k])
    BY KeyBytes
  <2> HIDE DEF b
  <2> QED  BY <1>1, <1>2, <2>1, <2>2, <2>3, SendStep DEF NoShift, LetsGo
<1>6. CASE key = "print_screen" /\ ~faked
  <2> DEFINE b == <<224, 183>>
  <2>1. Break(key) = b
    BY <1>6 DEF Break
  <2>2. ShiftSent => ShiftSent'
    BY <1>1, <1>6 DEF ShiftSent, ShiftKeys
  <2>3. /\ b \in Seq(Byte) /\ \A k \in 1 .. Len(b) : b[k] \notin Letters /\ ~IsShiftByte(b[k])
    BY KeyBytes
  <2> HIDE DEF b
  <2> QED  BY <1>1, <1>2, <2>1, <2>2, <2>3, SendStep DEF NoShift, LetsGo
<1>7. CASE key = "print_screen" /\ faked
  <2> DEFINE b == <<224, 183, 224, 170>>
  <2>1. Break(key) = b
    BY <1>7 DEF Break
  <2>2. b \in Seq(Byte) /\ \A k \in 1 .. Len(b) : b[k] \notin Letters
    BY KeyBytes
  <2>3. \E r \in 1 .. Len(b) : \A k \in r .. Len(b) : b[k] \in ShiftReleases
    <3>1. 4 \in 1 .. Len(b) /\ \A k \in 4 .. Len(b) : b[k] \in ShiftReleases
      BY DEF ShiftReleases
    <3> QED  BY <3>1
  <2> HIDE DEF b
  <2> QED  BY <1>1, <1>2, <2>1, <2>2, <2>3, SendStep DEF NoShift, LetsGo
<1> QED  BY <1>3, <1>4, <1>5, <1>6, <1>7, HandsAssumption

-------------------------------------------------------------------------------
(* The theorems. *)

LEMMA TypistStarts == TypistInit => TypistInv
<1> SUFFICES ASSUME TypistInit PROVE TypistInv
  OBVIOUS
<1>1. /\ Init /\ down = {} /\ faked = FALSE /\ wire = << >> /\ marks = << >> /\ lost = FALSE
  BY DEF TypistInit
<1>2. RingOK
  BY <1>1, TypeInit DEF RingOK, Init, FetchedIsHead
<1>3. Queue \in Seq(Byte) /\ Len(Queue) = 0
  BY <1>1, <1>2, ContentsShape DEF Init, Queue, TypeOK, RingOK
<1>4. Pending = << >> /\ OnTheWay = << >> /\ shift = FALSE
  BY <1>1, <1>3 DEF Init, Pending, OnTheWay
<1>5. Len(Pending) = 0 /\ Len(OnTheWay) = 0 /\ Len(Pending) + 1 = 1 /\ Len(OnTheWay) + 1 = 1
  BY <1>4
<1>6. HeldOf = FALSE
  <2>1. ~ShiftBefore(Pending, FALSE, 1)
    BY FlagStarts
  <2>2. ~HeldOf
    BY <1>4, <1>5, <2>1, Zenon DEF HeldOf
  <2> QED  BY <2>2, ShiftIsBoolean, Zenon DEF HeldOf
<1>7. SentInv
  <2>1. ~ShiftBefore(OnTheWay, FALSE, 1)
    BY FlagStarts
  <2>2. ~FlagAt(FALSE, Len(OnTheWay) + 1) /\ ~FlagAt(HeldOf, Len(OnTheWay) + 1)
    BY <1>5, <1>6, <2>1, Zenon DEF FlagAt
  <2> QED  BY <2>2 DEF SentInv
<1>8. HandsInv
  <2>1. wire \in Seq(Byte) /\ marks \in Seq(BOOLEAN) /\ Len(marks) = 0
    BY <1>1
  <2>2. Len(marks) = Len(Pending) + Len(OnTheWay) /\ Len(marks) <= UnderWay
    BY <1>5, <2>1, UnderWayAssumption
  <2> QED  BY <1>1, <2>1, <2>2 DEF HandsInv
<1>9. StruckInv /\ TakenInv
  BY <1>5 DEF StruckInv, TakenInv
<1> QED  BY <1>2, <1>7, <1>8, <1>9 DEF TypistInv

LEMMA TypistStep ==
  ASSUME TypistInv, [TypistNext]_typistVars
  PROVE  TypistInv'
<1>1. RingOK /\ Others /\ wire \in Seq(Byte)
  BY DEF TypistInv, Others, HandsInv
<1>2. RingOK'
  BY <1>1, RingStep
<1>3. Others'
  BY <1>1, PressStep, ReleaseStep, WireStep, IrqStep, DecodeStep, RestStep DEF TypistNext
<1> QED  BY <1>2, <1>3 DEF TypistInv, Others

LEMMA TypistInvariance == TypistSpec => []TypistInv
<1> QED  BY TypistStarts, TypistStep, PTL DEF TypistSpec

(* Each byte under way has one mark, in the ring, at the port and on the   *)
(* wire, whatever was dropped; and no more are under way than are counted. *)
THEOREM TypistTypes == TypistSpec => []TypistTypeOK
<1>1. TypistInv => TypistTypeOK
  <2> SUFFICES ASSUME TypistInv PROVE TypistTypeOK
    OBVIOUS
  <2>1. RingOK /\ HandsInv
    BY DEF TypistInv
  <2>2. Len(OnTheWay) = (IF port = NoByte THEN 0 ELSE 1) + Len(wire)
    <3>1. wire \in Seq(Byte) /\ Len(wire) \in Nat
      BY <2>1 DEF HandsInv
    <3> QED  BY <2>1, <3>1, WayTypes DEF RingOK
  <2>3. Len(marks) = Len(Pending) + (IF port = NoByte THEN 0 ELSE 1) + Len(wire)
    <3>1. Len(wire) \in Nat /\ Len(Pending) \in Nat
      BY <2>1, PendingTypes DEF HandsInv, RingOK
    <3> QED  BY <2>1, <2>2, <3>1 DEF HandsInv
  <2>4. /\ \A i \in 1 .. Len(wire) : wire[i] \in Byte
        /\ \A i \in 1 .. Len(marks) : marks[i] \in BOOLEAN
    BY <2>1 DEF HandsInv
  <2> QED  BY <2>1, <2>3, <2>4 DEF TypistTypeOK, HandsInv
<1> QED  BY <1>1, TypistInvariance, PTL

(* The shift flag does not stick, whichever shift keys, real or fake, the  *)
(* typist uses, however the bytes and interrupts interleave and whatever   *)
(* the ring's size: with every key up and every byte decoded it is off,    *)
(* unless the last shift byte was dropped.                                 *)
THEOREM ShiftIsLetGo == TypistSpec => []ShiftLetsGo
<1>1. TypistInv => ShiftLetsGo
  <2> SUFFICES ASSUME TypistInv, down = {}, marks = << >>, ~lost PROVE ~shift
    BY DEF ShiftLetsGo
  <2>1. RingOK /\ HandsInv /\ SentInv
    BY DEF TypistInv
  <2>2. /\ Len(Pending) \in Nat /\ Len(OnTheWay) \in Nat /\ shift \in BOOLEAN
        /\ Len(marks) = Len(Pending) + Len(OnTheWay) /\ Len(marks) = 0
    BY <2>1, PendingTypes, WayTypes DEF HandsInv, RingOK
  <2>3. Len(Pending) = 0 /\ Len(OnTheWay) = 0
    BY <2>2
  <2>4. HeldOf <=> shift
    BY <2>2, <2>3, FlagStarts DEF HeldOf
  <2>5. ~ShiftSent
    BY <2>1 DEF ShiftSent, HandsInv
  <2>6. ~ShiftBefore(OnTheWay, HeldOf, 1)
    BY <2>1, <2>3, <2>5 DEF SentInv, FlagAt
  <2>7. HeldOf \in BOOLEAN
    BY ShiftIsBoolean DEF HeldOf
  <2> QED  BY <2>4, <2>6, <2>7, FlagStarts
<1> QED  BY <1>1, TypistInvariance, PTL

(* For every ring size: an upper case letter that read() returns was       *)
(* struck while a shift press, real or faked, was in force, or a shift     *)
(* byte before it was dropped.                                             *)
THEOREM UpperFollowsShiftSent == TypistSpec => UpperNeedsShiftSent
<1>1. TypistInv /\ [TypistNext]_typistVars
        => [pc = "decode" /\ pc' = "return" /\ ret'[2] => Head(marks)]_typistVars
  <2> SUFFICES ASSUME TypistInv, TypistNext, pc = "decode", pc' = "return", ret'[2]
               PROVE  Head(marks)
    OBVIOUS
  <2>1. RingOK /\ HandsInv /\ TakenInv
    BY DEF TypistInv
  <2>2. Decode
    BY DEF TypistNext, Press, Release, Send, WireToPort, KeyArrives, Irq, IrqHandler,
           DecodeNext, Rest, Test, Fetch, Advance, Again, vars, mainVars
  <2>3. ret' = CharOf(sc, shift)
    BY <2>2, Zenon DEF Decode
  <2>4. /\ Pending \in Seq(Byte) /\ Pending # << >> /\ Head(Pending) = sc
    BY <2>1, <2>2, DecodingKeeps DEF RingOK
  <2>5. /\ Len(Pending) \in Nat /\ 1 \in 1 .. Len(Pending) /\ Pending[1] = sc
    BY <2>4
  <2>6. Chars[1] = CharOf(sc, shift)
    <3>1. Chars[1] = CharOf(Pending[1], ShiftBefore(Pending, shift, 1)) /\ shift \in BOOLEAN
      BY <2>1, <2>5, PendingTypes DEF RingOK
    <3>2. ShiftBefore(Pending, shift, 1) <=> shift
      BY <3>1, FlagStarts
    <3>3. ShiftBefore(Pending, shift, 1) = shift
      BY <3>1, <3>2, ShiftIsBoolean, Zenon
    <3> QED  BY <2>5, <3>1, <3>3
  <2>7. marks[1]
    BY <2>1, <2>3, <2>5, <2>6 DEF TakenInv
  <2>8. marks \in Seq(BOOLEAN) /\ Len(marks) >= 1
    <3>1. Len(OnTheWay) \in Nat
      BY <2>1, WayTypes DEF RingOK, HandsInv
    <3> QED  BY <2>1, <2>5, <3>1 DEF HandsInv
  <2>9. Head(marks) = marks[1]
    BY <2>8
  <2> QED  BY <2>7, <2>9, Zenon
<1> QED  BY <1>1, TypistInvariance, PTL DEF TypistSpec, UpperNeedsShiftSent
==============================================================================
