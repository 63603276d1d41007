------------------------- MODULE VirtioKeyboard_proofs -------------------------
(***************************************************************************)
(* Theorems about VirtioKeyboard for every queue size and every device     *)
(* behaviour.                                                              *)
(***************************************************************************)
EXTENDS VirtioKeyboard, TLAPS, SequenceTheorems

(* An index addresses a ring, and stays an index. *)
LEMMA IndexFacts ==
  ASSUME NEW i \in Idx
  PROVE  i % QueueSize \in Slot /\ Inc(i) \in Idx
<1>1. i \in Nat /\ IdxMod \in Nat \ {0}
  BY IdxModAssumption, QueueSizeAssumption DEF Idx
<1>2. \A a \in Nat, n \in Nat \ {0} : a % n \in 0 .. n - 1
  OBVIOUS
<1>3. i % QueueSize \in Slot
  BY <1>1, <1>2, QueueSizeAssumption DEF Slot
<1>4. (i + 1) % IdxMod \in Idx
  BY <1>1, <1>2 DEF Idx
<1> QED  BY <1>3, <1>4 DEF Inc

(* The first indices. *)
LEMMA Numbers == 0 \in Idx /\ QueueSize \in Idx /\ 0 \in Slot /\ NUL \in Char
<1>1. NUL \in Char
  <2>1. 0 \in 0 .. 127
    OBVIOUS
  <2> QED  BY <2>1, Zenon DEF NUL, Char
<1> QED  BY <1>1, IdxModAssumption, QueueSizeAssumption DEF Idx, Slot

(* Whatever the key code, a character is returned. *)
LEMMA CharTypes ==
  ASSUME NEW code, NEW sh \in BOOLEAN
  PROVE  KeycodeToChar(code, sh) \in Char
<1>1. \A c \in 0 .. 127, t \in BOOLEAN : <<c, t>> \in Char
  BY Zenon DEF Char
<1>2. code \in Mapped => code \in 0 .. 127
  BY DEF Mapped
<1>3. (sh /\ code \notin SameShifted) \in BOOLEAN
  BY Zenon
<1> QED  BY <1>1, <1>2, <1>3, Numbers, Zenon DEF KeycodeToChar, ScancodeToChar

(* The initial state is well typed. *)
LEMMA TypeInit == Init => TypeOK
<1> SUFFICES ASSUME Init PROVE TypeOK
  OBVIOUS
<1>1. out \in Char
  BY Numbers, Zenon DEF Init
<1>2. /\ desc \in [Slot -> Slot \cup {NoDesc}]
      /\ evbuf \in [Slot -> Events \cup {NoEvent}]
      /\ availRing \in [Slot -> Slot] /\ usedRing \in [Slot -> Slot]
  BY Numbers, Zenon DEF Init
<1>3. shift \in BOOLEAN /\ devFilled \in BOOLEAN
  BY Zenon DEF Init
<1>4. base \in {"null", "dev"} /\ pc \in InitPC \cup LoopPC /\ status \in Status
  BY DEF Init, InitPC, LoopPC, Status
<1>5. /\ snap \in Idx /\ id \in Slot /\ lastUsed \in Idx
      /\ availIdx \in Idx /\ usedIdx \in Idx /\ devAvail \in Idx
      /\ pending \in Events \cup {NoEvent} /\ devDesc \in Slot \cup {NoDesc}
  BY Numbers, Zenon DEF Init
<1> QED  BY <1>1, <1>2, <1>3, <1>4, <1>5, Zenon DEF TypeOK

(* No step of the driver or of the device takes a variable out of its type.*)
LEMMA TypeStep ==
  ASSUME TypeOK, [Next]_vars
  PROVE  TypeOK'
<1> USE DEF TypeOK, Goto, locals, shared, device, devVars
<1>1. CASE Setup
  <2> USE Numbers DEF InitPC, LoopPC, Status
  <2>1. CASE Probe \/ SetQueue \/ Kick
    BY <2>1 DEF Probe, SetQueue, Kick
  <2>2. CASE Reset \/ Acknowledge \/ DriverOk
    BY <2>2 DEF Reset, Acknowledge, DriverOk
  <2>3. CASE FillRings \/ HandOver
    BY <2>3 DEF FillRings, HandOver
  <2> QED  BY <1>1, <2>1, <2>2, <2>3 DEF Setup
<1>2. CASE Loop
  <2> USE DEF LoopPC
  <2>1. CASE PollUsed
    BY <2>1, Numbers DEF PollUsed
  <2>2. CASE ReadElem
    BY <2>2, IndexFacts DEF ReadElem
  <2>3. CASE ReadEvent
    <3> DEFINE ev == evbuf[id]
    <3>1. shift' \in BOOLEAN /\ out' \in Char
      <4>1. KeycodeToChar(ev.code, shift) \in Char
        BY CharTypes
      <4>2. (ev.value # 0) \in BOOLEAN
        BY Zenon
      <4>3. \/ shift' = (ev.value # 0) /\ out' = out
            \/ shift' = shift /\ out' = KeycodeToChar(ev.code, shift)
            \/ shift' = shift /\ out' = out
        BY <2>3, Zenon DEF ReadEvent, Decode
      <4> QED  BY <4>1, <4>2, <4>3, Zenon
    <3>2. pc' = "recycle" /\ UNCHANGED <<base, snap, id, lastUsed, shared, devVars>>
      BY <2>3, Zenon DEF ReadEvent, Decode
    <3> QED  BY <3>1, <3>2
  <2>4. CASE Recycle
    BY <2>4, IndexFacts DEF Recycle
  <2>5. CASE Publish
    BY <2>5, IndexFacts DEF Publish
  <2>6. CASE Notify \/ Echo
    BY <2>6 DEF Notify, Echo
  <2> QED  BY <1>2, <2>1, <2>2, <2>3, <2>4, <2>5, <2>6 DEF Loop
<1>3. CASE Device
  <2>1. ASSUME NEW ev \in Events, EventArrives(ev)
        PROVE  TypeOK'
    BY <2>1 DEF EventArrives
  <2>2. CASE DeviceDrops
    BY <2>2 DEF DeviceDrops
  <2>3. CASE DevicePops
    BY <2>3, IndexFacts DEF DevicePops
  <2>4. CASE DeviceWrites
    <3>1. devDesc \in Slot /\ usedIdx % QueueSize \in Slot
      BY <2>4, IndexFacts DEF DeviceWrites
    <3>2. evbuf' \in [Slot -> Events \cup {NoEvent}] /\ usedRing' \in [Slot -> Slot]
      BY <2>4, <3>1 DEF DeviceWrites
    <3>3. devFilled' \in BOOLEAN
      BY <2>4 DEF DeviceWrites
    <3>4. UNCHANGED <<base, pc, snap, id, out, shift, lastUsed, desc, availRing,
                      availIdx, usedIdx, status, pending, devAvail, devDesc>>
      BY <2>4 DEF DeviceWrites
    <3> QED  BY <3>2, <3>3, <3>4
  <2>5. CASE DeviceReturns
    BY <2>5, IndexFacts DEF DeviceReturns, NoDesc
  <2> QED  BY <1>3, <2>1, <2>2, <2>3, <2>4, <2>5 DEF Device
<1>4. CASE UNCHANGED vars
  BY <1>4 DEF vars
<1> QED  BY <1>1, <1>2, <1>3, <1>4 DEF Next

(* The state of driver and device is well typed: in particular every index *)
(* into a ring or the event buffers is in bounds.                          *)
THEOREM TypeCorrect == Spec => []TypeOK
<1> QED  BY TypeInit, TypeStep, PTL DEF Spec

-------------------------------------------------------------------------------
(* Where the driver stands in bringing up the device; and a device that is *)
(* not up has returned nothing, so that keyboard_read() finds nothing.     *)
LiveInv ==
    /\ pc \in InitPC \cup LoopPC
    /\ pc \in {"probe", "reset", "ack"} => status = "reset"
    /\ pc \in {"queue", "driver_ok"} => status = "driver"
    /\ pc \in {"fill", "hand_over", "kick"} \cup (LoopPC \ {"poll"}) => status = "driver_ok"
    /\ pc \notin {"probe", "poll"} => base = "dev"
    /\ status = "driver_ok" => base = "dev"
    /\ status # "driver_ok" => usedIdx = 0 /\ lastUsed = 0 /\ devDesc = NoDesc
    /\ devFilled => devDesc # NoDesc

(* It is inductive. *)
LEMMA LiveStep ==
  ASSUME LiveInv, [Next]_vars
  PROVE  LiveInv'
<1> USE DEF LiveInv, InitPC, LoopPC, Goto, locals, shared, device, devVars
<1>1. CASE Setup
  BY <1>1 DEF Setup, Probe, Reset, Acknowledge, SetQueue, DriverOk, FillRings, HandOver, Kick
<1>2. CASE Loop
  <2>1. CASE PollUsed
    BY <2>1 DEF PollUsed
  <2>2. CASE ReadElem
    BY <2>2 DEF ReadElem
  <2>3. CASE ReadEvent
    <3>1. pc = "event" /\ pc' = "recycle" /\ UNCHANGED <<base, lastUsed, shared, devVars>>
      BY <2>3, Zenon DEF ReadEvent
    <3> QED  BY <3>1
  <2>4. CASE Recycle \/ Publish
    BY <2>4 DEF Recycle, Publish
  <2>5. CASE Notify \/ Echo
    BY <2>5 DEF Notify, Echo
  <2> QED  BY <1>2, <2>1, <2>2, <2>3, <2>4, <2>5 DEF Loop
<1>3. CASE Device
  <2>1. ASSUME NEW ev \in Events, EventArrives(ev)
        PROVE  LiveInv'
    BY <2>1 DEF EventArrives
  <2>2. CASE DeviceDrops \/ DevicePops
    BY <2>2 DEF DeviceDrops, DevicePops
  <2>3. CASE DeviceWrites \/ DeviceReturns
    BY <2>3 DEF DeviceWrites, DeviceReturns
  <2> QED  BY <1>3, <2>1, <2>2, <2>3 DEF Device
<1>4. CASE UNCHANGED vars
  BY <1>4 DEF vars
<1> QED  BY <1>1, <1>2, <1>3, <1>4 DEF Next

(* keyboard_read() never notifies a device that was not found or not       *)
(* brought up, although nothing tells it that keyboard_init() failed.      *)
THEOREM NoNullNotify == Spec => []NotifiesLiveDevice
<1>1. Init => LiveInv
  BY DEF Init, LiveInv, InitPC, LoopPC
<1>2. LiveInv => NotifiesLiveDevice
  BY DEF LiveInv, NotifiesLiveDevice, LoopPC
<1> QED  BY <1>1, <1>2, LiveStep, PTL DEF Spec
-------------------------------------------------------------------------------
(* Arithmetic of free-running indices and of the ring's places.            *)

(* The k-th place from an index on. *)
Place(i, k) == (i + k) % QueueSize

(* Division with remainder, and its uniqueness. *)
LEMMA DivMod ==
  ASSUME NEW n \in Nat \ {0}, NEW a \in Nat
  PROVE  /\ a \div n \in Nat /\ a % n \in 0 .. n - 1
         /\ a = ((a \div n) * n) + (a % n)
OBVIOUS

LEMMA ModUnique ==
  ASSUME NEW n \in Nat \ {0}, NEW q \in Nat, NEW r \in 0 .. n - 1
  PROVE  ((q * n) + r) % n = r
OBVIOUS

(* Whole turns of the ring do not matter. *)
LEMMA ModShift ==
  ASSUME NEW n \in Nat \ {0}, NEW q \in Nat, NEW a \in Nat
  PROVE  ((q * n) + a) % n = a % n
<1> DEFINE d == a \div n
           r == a % n
<1>1. d \in Nat /\ r \in 0 .. n - 1 /\ a = (d * n) + r
  BY DivMod
<1> HIDE DEF d, r
<1>2. (q * n) + a = ((q + d) * n) + r
  BY <1>1
<1>3. (((q + d) * n) + r) % n = r
  <2>1. q + d \in Nat
    BY <1>1
  <2> QED  BY <1>1, <2>1, ModUnique
<1> QED  BY <1>2, <1>3 DEF r

(* Two numbers less than a turn apart lie at different places. *)
LEMMA ModDistinct ==
  ASSUME NEW n \in Nat \ {0}, NEW a \in Nat, NEW b \in Nat, a < b, b - a < n
  PROVE  a % n # b % n
<1> DEFINE c == a \div n
           d == b \div n
<1>1. c \in Nat /\ d \in Nat /\ a = (c * n) + (a % n) /\ b = (d * n) + (b % n)
      /\ a % n \in Nat /\ b % n \in Nat
  BY DivMod
<1> HIDE DEF c, d
<1>2. SUFFICES ASSUME a % n = b % n PROVE FALSE
  OBVIOUS
<1>3. b - a = (d - c) * n
  BY <1>1, <1>2
<1>4. CASE d - c <= 0
  <2>1. (c - d) * n >= 0
    BY <1>1, <1>4
  <2>2. (d - c) * n = -((c - d) * n) /\ (c - d) * n \in Int
    BY <1>1
  <2> QED  BY <1>3, <2>1, <2>2
<1>5. CASE d - c >= 1
  <2> DEFINE e == d - c - 1
  <2>1. e \in Nat /\ d - c = e + 1
    BY <1>1, <1>5
  <2> HIDE DEF e
  <2>2. (d - c) * n = (e * n) + n /\ e * n >= 0 /\ e * n \in Int
    BY <2>1
  <2> QED  BY <1>3, <2>2
<1> QED  BY <1>1, <1>4, <1>5

(* The index modulus is a number of whole turns. *)
LEMMA Turns == \E q \in Nat : IdxMod = q * QueueSize
<1>1. IdxMod = ((IdxMod \div QueueSize) * QueueSize) + (IdxMod % QueueSize)
      /\ IdxMod \div QueueSize \in Nat
  BY DivMod, QueueSizeAssumption, IdxModAssumption
<1> QED  BY <1>1, IdxModAssumption, QueueSizeAssumption

(* Incrementing an index. *)
LEMMA IncIs ==
  ASSUME NEW i \in Idx
  PROVE  /\ Inc(i) = IF i + 1 = IdxMod THEN 0 ELSE i + 1
         /\ Inc(i) \in Idx
<1>1. IdxMod \in Nat \ {0} /\ i \in 0 .. IdxMod - 1
  BY IdxModAssumption DEF Idx
<1>2. CASE i + 1 = IdxMod
  <2>1. IdxMod % IdxMod = 0
    BY <1>1
  <2> QED  BY <1>1, <1>2, <2>1 DEF Inc, Idx
<1>3. CASE i + 1 < IdxMod
  <2>1. (i + 1) % IdxMod = i + 1
    BY <1>1, <1>3
  <2> QED  BY <1>1, <1>3, <2>1 DEF Inc, Idx
<1> QED  BY <1>1, <1>2, <1>3

(* How far indices are apart when one of them moves on. *)
LEMMA AheadFacts ==
  ASSUME NEW i \in Idx, NEW j \in Idx
  PROVE  /\ Ahead(i, j) \in 0 .. IdxMod - 1
         /\ Ahead(i, j) = 0 <=> i = j
         /\ Ahead(i, j) + 1 < IdxMod => Ahead(i, Inc(j)) = Ahead(i, j) + 1
         /\ i # j => Ahead(Inc(i), j) = Ahead(i, j) - 1
         /\ Ahead(Inc(i), Inc(j)) = Ahead(i, j)
BY IncIs, IdxModAssumption DEF Ahead, Idx

(* Places are in the ring; their numbers are unique within a turn, and     *)
(* every slot has one.                                                     *)
LEMMA PlaceIsSlot ==
  ASSUME NEW i \in Idx, NEW k \in Nat
  PROVE  Place(i, k) \in Slot
<1>1. i + k \in Nat /\ QueueSize \in Nat \ {0}
  BY QueueSizeAssumption DEF Idx
<1> QED  BY <1>1, DivMod DEF Place, Slot

LEMMA PlacesDiffer ==
  ASSUME NEW i \in Idx, NEW k \in 0 .. QueueSize - 1, NEW l \in 0 .. QueueSize - 1, k # l
  PROVE  Place(i, k) # Place(i, l)
<1>1. i + k \in Nat /\ i + l \in Nat /\ QueueSize \in Nat \ {0}
  BY QueueSizeAssumption DEF Idx
<1>2. CASE k < l
  <2>1. i + k < i + l /\ (i + l) - (i + k) < QueueSize
    BY <1>1, <1>2 DEF Idx
  <2> QED  BY <1>1, <2>1, ModDistinct DEF Place
<1>3. CASE l < k
  <2>1. i + l < i + k /\ (i + k) - (i + l) < QueueSize
    BY <1>1, <1>3 DEF Idx
  <2> QED  BY <1>1, <2>1, ModDistinct DEF Place
<1> QED  BY <1>1, <1>2, <1>3

LEMMA PlacesCover ==
  ASSUME NEW i \in Idx, NEW s \in Slot
  PROVE  \E k \in 0 .. QueueSize - 1 : Place(i, k) = s
<1> DEFINE d == i \div QueueSize
           r == i % QueueSize
<1>1. i \in Nat /\ QueueSize \in Nat \ {0} /\ s \in 0 .. QueueSize - 1
  BY QueueSizeAssumption DEF Idx, Slot
<1>2. d \in Nat /\ r \in 0 .. QueueSize - 1 /\ i = (d * QueueSize) + r
  BY <1>1, DivMod
<1> HIDE DEF d, r
<1>3. CASE r <= s
  <2>1. i + (s - r) = (d * QueueSize) + s
    BY <1>1, <1>2
  <2>2. Place(i, s - r) = s
    BY <1>1, <1>2, <2>1, ModUnique DEF Place
  <2> QED  BY <1>1, <1>2, <1>3, <2>2
<1>4. CASE s < r
  <2>1. i + (QueueSize + s - r) = ((d + 1) * QueueSize) + s
    BY <1>1, <1>2
  <2>2. d + 1 \in Nat
    BY <1>2
  <2>3. Place(i, QueueSize + s - r) = s
    BY <1>1, <2>1, <2>2, ModUnique DEF Place
  <2>4. QueueSize + s - r \in 0 .. QueueSize - 1
    BY <1>1, <1>2, <1>4
  <2> QED  BY <2>3, <2>4
<1> QED  BY <1>1, <1>2, <1>3, <1>4

(* The places of two indices, the one so far ahead of the other: the       *)
(* 16-bit indices may have wrapped in between.                             *)
LEMMA PlaceAhead ==
  ASSUME NEW i \in Idx, NEW j \in Idx, NEW k \in Nat
  PROVE  Place(j, k) = Place(i, Ahead(i, j) + k)
<1>1. i \in Nat /\ j \in Nat /\ IdxMod \in Nat /\ QueueSize \in Nat \ {0}
  BY IdxModAssumption, QueueSizeAssumption DEF Idx
<1>2. CASE i <= j
  <2>1. i + (Ahead(i, j) + k) = j + k
    BY <1>1, <1>2 DEF Ahead
  <2> QED  BY <2>1 DEF Place
<1>3. CASE j < i
  <2>1. PICK q \in Nat : IdxMod = q * QueueSize
    BY Turns
  <2>2. i + (Ahead(i, j) + k) = (q * QueueSize) + (j + k)
    BY <1>1, <1>3, <2>1 DEF Ahead
  <2>3. ((q * QueueSize) + (j + k)) % QueueSize = (j + k) % QueueSize
    <3>1. j + k \in Nat
      BY <1>1
    <3> QED  BY <1>1, <3>1, ModShift
  <2> QED  BY <2>2, <2>3 DEF Place
<1> QED  BY <1>1, <1>2, <1>3

LEMMA PlaceFirst ==
  ASSUME NEW i \in Idx
  PROVE  Place(i, 0) = i % QueueSize
BY DEF Place, Idx

-------------------------------------------------------------------------------
(* The inductive invariant of the rings.  What the driver gives back goes  *)
(* into the place it came from, so that from queue_setup() on the i-th     *)
(* place of the available ring always holds buffer i: what is lent, filled *)
(* and returned are three stretches of one circle, one after another.      *)

Identity == [i \in Slot |-> i]

BeingFilled == IF devDesc = NoDesc THEN 0 ELSE 1

(* Until the buffers are handed over the device has touched nothing. *)
QuietInv ==
    ~HandedOver =>
        /\ pc \in InitPC \cup {"poll"}
        /\ availIdx = 0 /\ usedIdx = 0 /\ lastUsed = 0
        /\ devAvail = 0 /\ devDesc = NoDesc /\ ~devFilled
        /\ pc = "hand_over" => desc = Identity /\ availRing = Identity

(* The stretches: what the driver has lent is QueueSize ahead of what it   *)
(* has consumed, and between the two come what the device has returned and *)
(* what it has taken.                                                      *)
CircleInv ==
    HandedOver =>
        /\ desc = Identity /\ availRing = Identity
        /\ Ahead(lastUsed, availIdx) = QueueSize
        /\ devAvail = IF devDesc = NoDesc THEN usedIdx ELSE Inc(usedIdx)
        /\ Ahead(lastUsed, usedIdx) + BeingFilled <= QueueSize

(* The used ring and the buffers, as far as the device has filled them.    *)
UsedInv ==
    HandedOver =>
        /\ devDesc # NoDesc => devDesc = Place(usedIdx, 0) /\ pending # NoEvent
        /\ devFilled => devDesc # NoDesc /\ evbuf[devDesc] = pending /\ usedRing[devDesc] = devDesc
        /\ \A k \in 0 .. Ahead(lastUsed, usedIdx) - 1 :
              usedRing[Place(lastUsed, k)] = Place(lastUsed, k) /\ evbuf[Place(lastUsed, k)] \in Events

(* The batch that keyboard_read() has seen is part of what was returned.   *)
BatchInv ==
    /\ pc \in {"next", "event", "recycle", "publish"} =>
          Ahead(lastUsed, snap) <= Ahead(lastUsed, usedIdx)
    /\ pc \in {"event", "recycle", "publish"} => snap # lastUsed /\ id = Place(lastUsed, 0)

RingInv == QuietInv /\ CircleInv /\ UsedInv /\ BatchInv

IInv == TypeOK /\ LiveInv /\ RingInv

(* The driver works on the rings only when they are in use. *)
LEMMA LoopHandedOver ==
  ASSUME LiveInv, pc \in LoopPC \ {"poll"}
  PROVE  HandedOver
BY DEF LiveInv, HandedOver, LoopPC

LEMMA RingInit == Init => RingInv
<1> SUFFICES ASSUME Init PROVE RingInv
  OBVIOUS
<1>1. QuietInv
  BY DEF Init, QuietInv, InitPC
<1>2. ~HandedOver
  BY DEF Init, HandedOver
<1>3. BatchInv
  BY DEF Init, BatchInv
<1> QED  BY <1>1, <1>2, <1>3 DEF RingInv, CircleInv, UsedInv

(* How many buffers wait for the device. *)
LEMMA LentCount ==
  ASSUME TypeOK, CircleInv, HandedOver
  PROVE  /\ Ahead(lastUsed, devAvail) = Ahead(lastUsed, usedIdx) + BeingFilled
         /\ Ahead(devAvail, availIdx) = QueueSize - Ahead(lastUsed, usedIdx) - BeingFilled
         /\ Ahead(lastUsed, usedIdx) \in 0 .. QueueSize
<1>1. /\ lastUsed \in Idx /\ usedIdx \in Idx /\ availIdx \in Idx /\ devAvail \in Idx
      /\ QueueSize < IdxMod
  BY IdxModAssumption DEF TypeOK
<1>2. Inc(usedIdx) = IF usedIdx + 1 = IdxMod THEN 0 ELSE usedIdx + 1
  BY <1>1, IncIs
<1>3. /\ Ahead(lastUsed, availIdx) = QueueSize
      /\ devAvail = IF devDesc = NoDesc THEN usedIdx ELSE Inc(usedIdx)
      /\ Ahead(lastUsed, usedIdx) + BeingFilled <= QueueSize
  BY DEF CircleInv
<1>4. CASE devDesc = NoDesc
  BY <1>1, <1>3, <1>4, IdxModAssumption, QueueSizeAssumption DEF Idx, Ahead, BeingFilled
<1>5. CASE devDesc # NoDesc
  BY <1>1, <1>2, <1>3, <1>5, IdxModAssumption, QueueSizeAssumption DEF Idx, Ahead, BeingFilled
<1> QED  BY <1>4, <1>5

(* keyboard_init() fills the rings and hands all the buffers over. *)
LEMMA SetupRing ==
  ASSUME IInv, Setup
  PROVE  RingInv'
<1> USE DEF IInv, RingInv, Goto, locals, shared, device, devVars, InitPC, LoopPC
<1>1. CASE Probe \/ SetQueue
  BY <1>1 DEF Probe, SetQueue, LiveInv, HandedOver, QuietInv, CircleInv, UsedInv, BatchInv
<1>2. CASE Reset \/ Acknowledge \/ DriverOk
  BY <1>2 DEF Reset, Acknowledge, DriverOk, LiveInv, HandedOver, QuietInv, CircleInv, UsedInv, BatchInv
<1>3. CASE FillRings
  <2>1. ~HandedOver /\ ~HandedOver'
    BY <1>3 DEF FillRings, HandedOver
  <2>2. QuietInv'
    BY <1>3, <2>1 DEF FillRings, QuietInv, Identity, Slot
  <2>3. BatchInv'
    BY <1>3 DEF FillRings, BatchInv
  <2> QED  BY <2>1, <2>2, <2>3 DEF CircleInv, UsedInv
<1>4. CASE HandOver
  <2>1. ~HandedOver /\ HandedOver'
    BY <1>4 DEF HandOver, HandedOver, LiveInv
  <2>2. /\ desc' = Identity /\ availRing' = Identity /\ Identity' = Identity
        /\ availIdx' = QueueSize /\ usedIdx' = 0 /\ lastUsed' = 0
        /\ devAvail' = 0 /\ devDesc' = NoDesc /\ ~devFilled' /\ pc' = "kick"
    BY <1>4, <2>1 DEF HandOver, QuietInv, Identity, Slot
  <2>3. CircleInv'
    BY <2>1, <2>2, QueueSizeAssumption DEF CircleInv, BeingFilled, Ahead
  <2>4. UsedInv'
    BY <2>1, <2>2, QueueSizeAssumption DEF UsedInv, Ahead
  <2> QED  BY <2>1, <2>2, <2>3, <2>4 DEF QuietInv, BatchInv
<1>5. CASE Kick
  BY <1>5 DEF Kick, LiveInv, HandedOver, QuietInv, CircleInv, UsedInv, BatchInv, BeingFilled, Identity, Slot
<1> QED  BY <1>1, <1>2, <1>3, <1>4, <1>5 DEF Setup

(* The place that keyboard_read() lends next is the one its buffer is from.*)
LEMMA BackToItsPlace ==
  ASSUME TypeOK, CircleInv, BatchInv, HandedOver, pc \in {"event", "recycle", "publish"}
  PROVE  id = Place(lastUsed, 0) /\ availIdx % QueueSize = id /\ id \in Slot
<1>t. lastUsed \in Idx /\ availIdx \in Idx /\ QueueSize \in Nat \ {0}
  BY QueueSizeAssumption DEF TypeOK
<1>1. id = Place(lastUsed, 0) /\ Ahead(lastUsed, availIdx) = QueueSize
  BY DEF BatchInv, CircleInv
<1>2. Place(availIdx, 0) = Place(lastUsed, QueueSize + 0)
  BY <1>t, <1>1, PlaceAhead
<1>3. Place(lastUsed, QueueSize) = Place(lastUsed, 0)
  <2>1. ((1 * QueueSize) + lastUsed) % QueueSize = lastUsed % QueueSize
    <3>1. 1 \in Nat /\ lastUsed \in Nat
      BY <1>t DEF Idx
    <3> QED  BY <1>t, <3>1, ModShift
  <2>2. lastUsed + QueueSize = (1 * QueueSize) + lastUsed /\ lastUsed + 0 = lastUsed
    BY <1>t DEF Idx
  <2> QED  BY <2>1, <2>2 DEF Place
<1> QED  BY <1>t, <1>1, <1>2, <1>3, PlaceFirst, PlaceIsSlot

(* keyboard_read() moves through its batch and gives each buffer back into *)
(* the place from which the device took it.                                *)
LEMMA LoopRing ==
  ASSUME IInv, Loop
  PROVE  RingInv'
<1> USE DEF IInv, RingInv, Goto, locals, shared, device, devVars
<1>t. /\ lastUsed \in Idx /\ usedIdx \in Idx /\ availIdx \in Idx /\ snap \in Idx
      /\ QueueSize \in Nat \ {0} /\ QueueSize < IdxMod
  BY IdxModAssumption, QueueSizeAssumption DEF TypeOK
<1>1. CASE PollUsed
  <2>1. HandedOver
    BY <1>1 DEF PollUsed, QuietInv
  <2>2. HandedOver' /\ pc' = "next" /\ snap' = usedIdx
    BY <1>1, <2>1 DEF PollUsed, HandedOver
  <2>3. CircleInv' /\ UsedInv' /\ QuietInv'
    BY <1>1, <2>1, <2>2
       DEF PollUsed, CircleInv, UsedInv, QuietInv, BeingFilled, Identity, Slot
  <2>4. BatchInv'
    <3>1. Ahead(lastUsed', snap') = Ahead(lastUsed', usedIdx') /\ Ahead(lastUsed', usedIdx') \in Nat
      BY <1>1, <1>t, <2>2, AheadFacts DEF PollUsed
    <3> QED  BY <2>2, <3>1 DEF BatchInv
  <2> QED  BY <2>3, <2>4
<1>2. CASE ~PollUsed
  <2>1. HandedOver /\ pc \in LoopPC \ {"poll"}
    <3>1. pc \in LoopPC \ {"poll"}
      BY <1>2 DEF Loop, ReadElem, ReadEvent, Recycle, Publish, Notify, Echo, LoopPC
    <3> QED  BY <3>1, LoopHandedOver
  <2>2. HandedOver'
    <3>1. UNCHANGED status /\ pc' \notin {"fill", "hand_over"}
      <4>1. CASE ReadEvent
        BY <4>1, Zenon DEF ReadEvent
      <4>2. CASE ~ReadEvent
        BY <1>2, <4>2 DEF Loop, ReadElem, Recycle, Publish, Notify, Echo
      <4> QED  BY <4>1, <4>2
    <3> QED  BY <2>1, <3>1 DEF HandedOver
  <2>3. QuietInv'
    BY <2>2 DEF QuietInv
  <2> USE <2>1, <2>2 DEF CircleInv, UsedInv, BatchInv
  <2>4. CASE ReadElem
    <3>1. CircleInv' /\ UsedInv'
      BY <2>4 DEF ReadElem, BeingFilled, Identity, Slot
    <3>2. BatchInv'
      <4>1. CASE lastUsed # snap
        <5>1. Ahead(lastUsed, usedIdx) >= 1
          BY <1>t, <2>4, <4>1, AheadFacts DEF ReadElem
        <5>2. usedRing[Place(lastUsed, 0)] = Place(lastUsed, 0)
          <6>1. 0 \in 0 .. Ahead(lastUsed, usedIdx) - 1
            BY <1>t, <5>1, AheadFacts
          <6> QED  BY <6>1
        <5>3. id' = Place(lastUsed, 0)
          BY <1>t, <2>4, <4>1, <5>2, PlaceFirst DEF ReadElem
        <5> QED  BY <2>4, <4>1, <5>3 DEF ReadElem
      <4>2. CASE lastUsed = snap
        BY <2>4, <4>2 DEF ReadElem
      <4> QED  BY <4>1, <4>2
    <3> QED  BY <2>3, <3>1, <3>2
  <2>5. CASE ReadEvent
    <3>1. pc = "event" /\ pc' = "recycle" /\ UNCHANGED <<base, snap, id, lastUsed, shared, devVars>>
      BY <2>5, Zenon DEF ReadEvent
    <3> QED  BY <2>3, <3>1 DEF BeingFilled, Identity, Slot
  <2>6. CASE Recycle
    <3>1. id = Place(lastUsed, 0) /\ availIdx % QueueSize = id /\ id \in Slot
      BY <2>6, BackToItsPlace DEF Recycle
    <3>2. availRing' = availRing
      <4>1. availRing' = [Identity EXCEPT ![id] = id]
        BY <2>6, <3>1 DEF Recycle
      <4> QED  BY <3>1, <4>1 DEF Identity
    <3>3. UNCHANGED <<locals, desc, evbuf, availIdx, usedRing, usedIdx, devVars>>
          /\ pc = "recycle" /\ pc' = "publish"
      BY <2>6 DEF Recycle
    <3> QED  BY <2>3, <3>2, <3>3 DEF BeingFilled, Identity, Slot
  <2>7. CASE Publish
    <3>1. /\ lastUsed' = Inc(lastUsed) /\ availIdx' = Inc(availIdx)
          /\ UNCHANGED <<snap, desc, evbuf, availRing, usedRing, usedIdx, devVars>>
          /\ pc = "publish" /\ pc' = "next"
      BY <2>7 DEF Publish
    <3>2. lastUsed # snap /\ lastUsed # usedIdx
      <4>1. snap # lastUsed
        BY <3>1
      <4>2. Ahead(lastUsed, snap) > 0
        BY <1>t, <4>1, AheadFacts
      <4>3. Ahead(lastUsed, usedIdx) > 0
        BY <1>t, <3>1, <4>2, AheadFacts
      <4> QED  BY <1>t, <4>1, <4>3, AheadFacts
    <3>3. /\ Ahead(lastUsed', usedIdx') = Ahead(lastUsed, usedIdx) - 1
          /\ Ahead(lastUsed', snap') = Ahead(lastUsed, snap) - 1
          /\ Ahead(lastUsed', availIdx') = Ahead(lastUsed, availIdx)
      BY <1>t, <3>1, <3>2, AheadFacts
    <3>4. Ahead(lastUsed, usedIdx) \in Nat /\ Ahead(lastUsed, snap) \in Nat
      BY <1>t, AheadFacts
    <3>5. CircleInv'
      BY <3>1, <3>3, <3>4, <1>t DEF BeingFilled, Identity, Slot
    <3>6. UsedInv'
      <4>1. ASSUME NEW k \in 0 .. Ahead(lastUsed, usedIdx) - 2
            PROVE  /\ usedRing[Place(Inc(lastUsed), k)] = Place(Inc(lastUsed), k)
                   /\ evbuf[Place(Inc(lastUsed), k)] \in Events
        <5>1. Place(Inc(lastUsed), k) = Place(lastUsed, k + 1)
          <6>1. Ahead(lastUsed, Inc(lastUsed)) = 1 /\ Inc(lastUsed) \in Idx
            BY <1>t, IncIs DEF Ahead, Idx
          <6>2. Place(Inc(lastUsed), k) = Place(lastUsed, 1 + k)
            BY <1>t, <6>1, PlaceAhead
          <6> QED  BY <6>2
        <5>2. k + 1 \in 0 .. Ahead(lastUsed, usedIdx) - 1
          BY <3>4
        <5> QED  BY <5>1, <5>2
      <4> QED  BY <3>1, <3>3, <3>4, <4>1
    <3>7. BatchInv'
      BY <3>1, <3>3, <3>4
    <3> QED  BY <2>3, <3>5, <3>6, <3>7
  <2>8. CASE Notify \/ Echo
    BY <2>3, <2>8 DEF Notify, Echo, BeingFilled, Identity, Slot
  <2> QED  BY <1>2, <2>4, <2>5, <2>6, <2>7, <2>8 DEF Loop
<1> QED  BY <1>1, <1>2

(* The device works its way along the same circle, and what it fills is    *)
(* none of the places that still wait for the driver.                      *)
LEMMA DeviceRing ==
  ASSUME IInv, Device
  PROVE  RingInv'
<1> USE DEF IInv, RingInv, locals, shared, device, devVars
<1>t. /\ lastUsed \in Idx /\ usedIdx \in Idx /\ availIdx \in Idx /\ devAvail \in Idx
      /\ QueueSize \in Nat \ {0} /\ IdxMod \in Nat /\ QueueSize < IdxMod
  BY IdxModAssumption, QueueSizeAssumption DEF TypeOK
<1>p. pc' = pc /\ UNCHANGED <<base, locals, desc, availRing, availIdx, status>>
  <2>1. CASE \E ev \in Events : EventArrives(ev)
    BY <2>1 DEF EventArrives
  <2>2. CASE ~(\E ev \in Events : EventArrives(ev))
    BY <2>2 DEF Device, DeviceDrops, DevicePops, DeviceWrites, DeviceReturns
  <2> QED  BY <2>1, <2>2
<1>h. HandedOver' = HandedOver
  BY <1>p DEF HandedOver
<1>1. CASE ~HandedOver
  <2>1. UNCHANGED <<availIdx, usedIdx, devAvail, devDesc, devFilled>>
    <3>1. CASE \E ev \in Events : EventArrives(ev)
      BY <3>1 DEF EventArrives
    <3>2. CASE ~(\E ev \in Events : EventArrives(ev))
      BY <1>1, <3>2
         DEF Device, DeviceDrops, DevicePops, DeviceWrites, DeviceReturns, QuietInv
    <3> QED  BY <3>1, <3>2
  <2>2. QuietInv'
    BY <1>1, <1>p, <2>1 DEF QuietInv, Identity, Slot
  <2>3. BatchInv'
    BY <1>1, <1>p, <2>1 DEF QuietInv, BatchInv, InitPC, LoopPC
  <2> QED  BY <1>1, <1>h, <2>2, <2>3 DEF CircleInv, UsedInv
<1>2. CASE HandedOver
  <2>q. QuietInv'
    BY <1>2, <1>h DEF QuietInv
  <2> DEFINE r == Ahead(lastUsed, usedIdx)
  <2>r. r \in 0 .. QueueSize
    BY <1>2, LentCount
  <2>b. usedIdx' = usedIdx => BatchInv'
    BY <1>p DEF BatchInv
  <2>i. desc' = Identity' /\ availRing' = Identity' /\ Identity' = Identity
    BY <1>2, <1>p DEF CircleInv, Identity, Slot
  <2>a. Ahead(lastUsed', availIdx') = QueueSize
    BY <1>2, <1>p DEF CircleInv
  <2> USE <1>2, <1>h DEF CircleInv, UsedInv
  <2>1. ASSUME NEW ev \in Events, EventArrives(ev)
        PROVE  RingInv'
    <3>1. devDesc = NoDesc
      BY <2>1, EventsAssumption DEF EventArrives
    <3>2. UNCHANGED <<usedIdx, devAvail, devDesc, devFilled, evbuf, usedRing>>
      BY <2>1 DEF EventArrives
    <3> QED  BY <1>p, <2>q, <2>b, <2>i, <2>a, <3>1, <3>2 DEF BeingFilled
  <2>2. CASE DeviceDrops
    <3>1. devDesc = NoDesc /\ UNCHANGED <<usedIdx, devAvail, devDesc, devFilled, evbuf, usedRing>>
      BY <2>2 DEF DeviceDrops
    <3> QED  BY <1>p, <2>q, <2>b, <2>i, <2>a, <3>1 DEF BeingFilled
  <2>3. CASE DevicePops
    <3>1. /\ devDesc = NoDesc /\ pending # NoEvent /\ devAvail = usedIdx
          /\ UNCHANGED <<usedIdx, evbuf, usedRing, devFilled, pending>>
          /\ devAvail' = Inc(usedIdx) /\ devDesc' = availRing[devAvail % QueueSize]
          /\ devAvail # availIdx
      BY <2>3 DEF DevicePops
    <3>2. devDesc' = Place(usedIdx, 0) /\ devDesc' # NoDesc
      <4>1. usedIdx % QueueSize \in Slot
        BY <1>t, IndexFacts
      <4> QED  BY <1>t, <3>1, <4>1, PlaceFirst DEF Identity, Slot, NoDesc
    <3>3. r + 1 <= QueueSize
      <4>1. Ahead(devAvail, availIdx) > 0
        BY <1>t, <3>1, AheadFacts
      <4>2. Ahead(devAvail, availIdx) = QueueSize - r - 0
        BY <3>1, LentCount DEF BeingFilled
      <4> QED  BY <1>t, <2>r, <4>1, <4>2
    <3>4. CircleInv'
      BY <1>p, <2>i, <2>a, <2>r, <3>1, <3>2, <3>3 DEF BeingFilled
    <3>5. UsedInv'
      BY <1>p, <3>1, <3>2
    <3> QED  BY <2>q, <2>b, <3>1, <3>4, <3>5
  <2>4. CASE DeviceWrites
    <3>1. /\ devDesc = Place(usedIdx, 0) /\ devDesc \in Slot /\ devDesc # NoDesc /\ pending # NoEvent
          /\ desc[devDesc] = devDesc /\ usedIdx % QueueSize = devDesc
      BY <1>t, <2>4, PlaceFirst DEF DeviceWrites, TypeOK, Identity
    <3>2. /\ evbuf' = [evbuf EXCEPT ![devDesc] = pending]
          /\ usedRing' = [usedRing EXCEPT ![devDesc] = devDesc]
          /\ devFilled' /\ UNCHANGED <<usedIdx, devAvail, devDesc, pending>>
      BY <2>4, <3>1 DEF DeviceWrites
    <3>3. r + 1 <= QueueSize
      BY <3>1 DEF BeingFilled
    <3>4. ASSUME NEW k \in 0 .. r - 1
          PROVE  Place(lastUsed, k) # devDesc /\ Place(lastUsed, k) \in Slot
      <4>1. k \in 0 .. QueueSize - 1 /\ r \in 0 .. QueueSize - 1 /\ k # r
        BY <1>t, <2>r, <3>3
      <4>2. devDesc = Place(lastUsed, r)
        <5>1. devDesc = Place(lastUsed, r + 0)
          BY <1>t, <3>1, PlaceAhead
        <5> QED  BY <2>r, <5>1
      <4> HIDE DEF r
      <4> QED  BY <1>t, <4>1, <4>2, PlacesDiffer, PlaceIsSlot
    <3>5. CircleInv'
      BY <1>p, <2>i, <2>a, <3>2 DEF BeingFilled
    <3>6. UsedInv'
      <4>1. /\ evbuf'[devDesc] = pending /\ usedRing'[devDesc] = devDesc
            /\ \A s \in Slot \ {devDesc} : evbuf'[s] = evbuf[s] /\ usedRing'[s] = usedRing[s]
        BY <3>1, <3>2 DEF TypeOK
      <4>2. \A k \in 0 .. r - 1 :
              usedRing'[Place(lastUsed, k)] = Place(lastUsed, k) /\ evbuf'[Place(lastUsed, k)] \in Events
        BY <3>4, <4>1
      <4> QED  BY <1>p, <3>1, <3>2, <4>1, <4>2
    <3> QED  BY <2>q, <2>b, <3>2, <3>5, <3>6
  <2>5. CASE DeviceReturns
    <3>1. /\ usedIdx' = Inc(usedIdx) /\ devDesc' = NoDesc /\ ~devFilled'
          /\ UNCHANGED <<evbuf, usedRing, devAvail>>
          /\ devDesc # NoDesc /\ devDesc = Place(usedIdx, 0) /\ pending # NoEvent
          /\ evbuf[devDesc] = pending /\ usedRing[devDesc] = devDesc
      BY <2>5 DEF DeviceReturns
    <3>2. r + 1 <= QueueSize
      BY <3>1 DEF BeingFilled
    <3>3. Ahead(lastUsed', usedIdx') = r + 1
      <4>1. lastUsed' = lastUsed /\ r + 1 < IdxMod
        BY <1>t, <1>p, <2>r, <3>2
      <4>2. Ahead(lastUsed, Inc(usedIdx)) = r + 1
        BY <1>t, <4>1, AheadFacts
      <4> QED  BY <3>1, <4>1, <4>2
    <3>4. CircleInv'
      BY <1>p, <2>i, <2>a, <2>r, <3>1, <3>2, <3>3 DEF BeingFilled
    <3>5. UsedInv'
      <4>1. devDesc = Place(lastUsed, r)
        <5>1. devDesc = Place(lastUsed, r + 0)
          BY <1>t, <3>1, PlaceAhead
        <5> QED  BY <2>r, <5>1
      <4>2. ASSUME NEW k \in 0 .. r
            PROVE  /\ usedRing[Place(lastUsed, k)] = Place(lastUsed, k)
                   /\ evbuf[Place(lastUsed, k)] \in Events
        <5>1. pending \in Events
          BY <3>1 DEF TypeOK
        <5>2. k = r \/ k \in 0 .. r - 1
          BY <2>r
        <5> QED  BY <3>1, <4>1, <5>1, <5>2
      <4> HIDE DEF r
      <4> QED  BY <1>p, <2>r, <3>1, <3>3, <4>2
    <3>6. BatchInv'
      <4>1. snap \in Idx
        BY DEF TypeOK
      <4>2. Ahead(lastUsed, snap) \in Nat
        BY <1>t, <4>1, AheadFacts
      <4> QED  BY <1>p, <2>r, <3>3, <4>2 DEF BatchInv
    <3> QED  BY <2>q, <3>4, <3>5, <3>6
  <2> QED  BY <2>1, <2>2, <2>3, <2>4, <2>5 DEF Device
<1> QED  BY <1>1, <1>2

(* The invariant holds at the start, and every step keeps it. *)
LEMMA InvInit == Init => IInv
<1>1. Init => LiveInv
  BY DEF Init, LiveInv, InitPC, LoopPC
<1> QED  BY <1>1, TypeInit, RingInit DEF IInv

LEMMA InvStep ==
  ASSUME IInv, [Next]_vars
  PROVE  IInv'
<1>1. TypeOK' /\ LiveInv'
  BY TypeStep, LiveStep DEF IInv
<1>2. CASE UNCHANGED vars
  BY <1>2
     DEF vars, locals, shared, device, devVars, IInv, RingInv, QuietInv, CircleInv, UsedInv,
         BatchInv, HandedOver, BeingFilled, Identity, Slot, TypeOK, LiveInv
<1>3. CASE Next
  BY <1>1, <1>3, SetupRing, LoopRing, DeviceRing DEF Next, IInv
<1> QED  BY <1>2, <1>3

(* An event that the device loses before it has taken a buffer for it is   *)
(* nothing to the rings.                                                   *)
LEMMA EventLost ==
  ASSUME IInv, devDesc = NoDesc, pending' = NoEvent,
         UNCHANGED <<base, pc, locals, shared, status, device>>
  PROVE  IInv'
<1> USE DEF locals, shared, device
<1>1. TypeOK'
  BY Zenon DEF IInv, TypeOK
<1>2. LiveInv'
  BY DEF IInv, LiveInv
<1>3. QuietInv' /\ CircleInv' /\ BatchInv'
  BY DEF IInv, RingInv, QuietInv, CircleInv, BatchInv, HandedOver, BeingFilled, Identity, Slot
<1>4. UsedInv'
  BY DEF IInv, RingInv, UsedInv, HandedOver
<1> QED  BY <1>1, <1>2, <1>3, <1>4 DEF IInv, RingInv

LEMMA Invariance == Spec => []IInv
<1> QED  BY InvInit, InvStep, PTL DEF Spec

-------------------------------------------------------------------------------
(* From the invariant to the properties.  First, what lies between two     *)
(* indices of a ring.                                                      *)
LEMMA BetweenShape ==
  ASSUME NEW ring \in [Slot -> Slot], NEW i \in Idx, NEW j \in Idx
  PROVE  /\ Between(ring, i, j) \in Seq(Slot)
         /\ Len(Between(ring, i, j)) = Ahead(i, j)
         /\ Ahead(i, j) \in Nat
         /\ \A k \in 1 .. Ahead(i, j) : Between(ring, i, j)[k] = ring[Place(i, k - 1)]
<1> DEFINE n == Ahead(i, j)
<1>1. n \in Nat
  BY AheadFacts
<1>2. ASSUME NEW k \in 1 .. n
      PROVE  (i + k - 1) % QueueSize = Place(i, k - 1) /\ Place(i, k - 1) \in Slot
  <2>1. i + k - 1 = i + (k - 1) /\ k - 1 \in Nat
    BY <1>1 DEF Idx
  <2> QED  BY <2>1, PlaceIsSlot DEF Place
<1> HIDE DEF n
<1>3. Between(ring, i, j) = [k \in 1 .. n |-> ring[(i + k - 1) % QueueSize]]
  BY Zenon DEF Between, n
<1>4. \A k \in 1 .. n : ring[(i + k - 1) % QueueSize] \in Slot
  BY <1>2
<1>5. Between(ring, i, j) \in Seq(Slot) /\ Len(Between(ring, i, j)) = n
  BY <1>1, <1>3, <1>4
<1>6. \A k \in 1 .. n : Between(ring, i, j)[k] = ring[Place(i, k - 1)]
  BY <1>2, <1>3
<1> QED  BY <1>1, <1>5, <1>6 DEF n

(* Three sequences, one after another. *)
LEMMA ThreeInTurn ==
  ASSUME NEW S, NEW a \in Seq(S), NEW b \in Seq(S), NEW c \in Seq(S)
  PROVE  /\ Len(a \o b \o c) = Len(a) + Len(b) + Len(c)
         /\ \A i \in 1 .. Len(a) : (a \o b \o c)[i] = a[i]
         /\ \A i \in 1 .. Len(b) : (a \o b \o c)[Len(a) + i] = b[i]
         /\ \A i \in 1 .. Len(c) : (a \o b \o c)[Len(a) + Len(b) + i] = c[i]
OBVIOUS

(* The three stretches, place by place. *)
LEMMA Stretches ==
  ASSUME IInv, HandedOver
  PROVE  LET r == Ahead(lastUsed, usedIdx)
             f == BeingFilled
         IN  /\ r \in Nat /\ f \in {0, 1} /\ r + f <= QueueSize
             /\ Len(Returned) = r
             /\ \A k \in 1 .. r : Returned[k] = Place(lastUsed, k - 1)
             /\ Len(Filling) = f
             /\ f = 1 => Filling[1] = Place(lastUsed, r)
             /\ Len(Lent) = QueueSize - r - f
             /\ \A k \in 1 .. QueueSize - r - f : Lent[k] = Place(lastUsed, r + f + k - 1)
<1> DEFINE r == Ahead(lastUsed, usedIdx)
           f == BeingFilled
<1>t. /\ lastUsed \in Idx /\ usedIdx \in Idx /\ availIdx \in Idx /\ devAvail \in Idx
      /\ QueueSize \in Nat \ {0} /\ TypeOK /\ CircleInv /\ UsedInv
  BY QueueSizeAssumption DEF IInv, RingInv, TypeOK
<1>1. r \in Nat /\ f \in {0, 1} /\ r + f <= QueueSize
  BY <1>t, LentCount DEF CircleInv, BeingFilled
<1>2. Len(Returned) = r /\ \A k \in 1 .. r : Returned[k] = Place(lastUsed, k - 1)
  <2>1. Len(Returned) = r /\ \A k \in 1 .. r : Returned[k] = usedRing[Place(lastUsed, k - 1)]
    BY <1>t, BetweenShape DEF Returned, TypeOK
  <2>2. ASSUME NEW k \in 1 .. r
        PROVE  Returned[k] = Place(lastUsed, k - 1)
    <3>1. k - 1 \in 0 .. r - 1
      BY <1>1
    <3>2. usedRing[Place(lastUsed, k - 1)] = Place(lastUsed, k - 1)
      BY <1>t, <3>1 DEF UsedInv
    <3> QED  BY <2>1, <3>2
  <2> QED  BY <2>1, <2>2
<1>3. Len(Filling) = f /\ (f = 1 => Filling[1] = Place(lastUsed, r))
  <2>1. CASE devDesc = NoDesc
    BY <2>1 DEF Filling, BeingFilled
  <2>2. CASE devDesc # NoDesc
    <3>1. devDesc = Place(lastUsed, r + 0)
      BY <1>t, <2>2, PlaceAhead DEF UsedInv
    <3>2. Filling = <<devDesc>> /\ f = 1
      BY <2>2 DEF Filling, BeingFilled
    <3> QED  BY <1>1, <3>1, <3>2
  <2> QED  BY <2>1, <2>2
<1>4. /\ Len(Lent) = QueueSize - r - f
      /\ \A k \in 1 .. QueueSize - r - f : Lent[k] = Place(lastUsed, r + f + k - 1)
  <2>1. /\ Ahead(devAvail, availIdx) = QueueSize - r - f
        /\ Ahead(lastUsed, devAvail) = r + f
    BY <1>t, LentCount
  <2>2. /\ Len(Lent) = QueueSize - r - f
        /\ \A k \in 1 .. QueueSize - r - f : Lent[k] = availRing[Place(devAvail, k - 1)]
    <3>1. /\ Len(Lent) = Ahead(devAvail, availIdx)
          /\ \A k \in 1 .. Ahead(devAvail, availIdx) : Lent[k] = availRing[Place(devAvail, k - 1)]
      BY <1>t, BetweenShape DEF Lent, TypeOK
    <3> HIDE DEF r, f
    <3> QED  BY <2>1, <3>1
  <2>3. ASSUME NEW k \in 1 .. QueueSize - r - f
        PROVE  Lent[k] = Place(lastUsed, r + f + k - 1)
    <3>1. k - 1 \in Nat /\ r + f + (k - 1) = r + f + k - 1
      BY <1>t, <1>1
    <3>2. Place(devAvail, k - 1) = Place(lastUsed, r + f + (k - 1)) /\ Place(devAvail, k - 1) \in Slot
      BY <1>t, <2>1, <3>1, PlaceAhead, PlaceIsSlot
    <3>3. availRing[Place(devAvail, k - 1)] = Place(devAvail, k - 1)
      BY <1>t, <3>2 DEF CircleInv, Identity
    <3>4. Lent[k] = availRing[Place(devAvail, k - 1)]
      BY <2>2
    <3> QED  BY <3>1, <3>2, <3>3, <3>4
  <2> QED  BY <2>2, <2>3
<1> QED  BY <1>1, <1>2, <1>3, <1>4

(* The three stretches are the whole ring, and have no buffer in common. *)
LEMMA Owners ==
  ASSUME IInv
  PROVE  OneOwnerEach
<1> SUFFICES ASSUME HandedOver
             PROVE  LET all == Lent \o Filling \o Returned IN
                    /\ Len(all) = QueueSize
                    /\ {all[i] : i \in 1 .. Len(all)} = Slot
                    /\ pc \in {"event", "recycle", "publish"} => id = Returned[1]
  BY DEF OneOwnerEach
<1> DEFINE r == Ahead(lastUsed, usedIdx)
           f == BeingFilled
           l == QueueSize - r - f
           all == Lent \o Filling \o Returned
<1>t. lastUsed \in Idx /\ snap \in Idx /\ usedIdx \in Idx /\ QueueSize \in Nat \ {0}
  BY QueueSizeAssumption DEF IInv, TypeOK
<1>1. /\ r \in Nat /\ f \in {0, 1} /\ l \in Nat /\ l + f + r = QueueSize
      /\ Len(Returned) = r /\ Len(Filling) = f /\ Len(Lent) = l
      /\ \A k \in 1 .. r : Returned[k] = Place(lastUsed, k - 1)
      /\ f = 1 => Filling[1] = Place(lastUsed, r)
      /\ \A k \in 1 .. l : Lent[k] = Place(lastUsed, r + f + k - 1)
  BY <1>t, Stretches
<1>0. r \in Nat /\ f \in {0, 1} /\ l \in Nat /\ l + f + r = QueueSize
  BY <1>1
<1>2. /\ Len(all) = QueueSize
      /\ \A i \in 1 .. l : all[i] = Lent[i]
      /\ f = 1 => all[l + 1] = Filling[1]
      /\ \A i \in 1 .. r : all[l + f + i] = Returned[i]
  <2>1. Lent \in Seq(Slot) /\ Filling \in Seq(Slot) /\ Returned \in Seq(Slot)
    <3>1. /\ devDesc \in Slot \cup {NoDesc} /\ devAvail \in Idx /\ availIdx \in Idx
          /\ availRing \in [Slot -> Slot] /\ usedRing \in [Slot -> Slot]
      BY DEF IInv, TypeOK
    <3>2. Lent \in Seq(Slot) /\ Returned \in Seq(Slot)
      BY <1>t, <3>1, BetweenShape DEF Lent, Returned
    <3>3. Filling \in Seq(Slot)
      BY <3>1 DEF Filling
    <3> QED  BY <3>2, <3>3
  <2> HIDE DEF r, f, l
  <2>2. /\ Len(all) = l + f + r
        /\ \A i \in 1 .. l : all[i] = Lent[i]
        /\ \A i \in 1 .. f : all[l + i] = Filling[i]
        /\ \A i \in 1 .. r : all[l + f + i] = Returned[i]
    <3>1. /\ Len(Lent \o Filling \o Returned) = Len(Lent) + Len(Filling) + Len(Returned)
          /\ \A i \in 1 .. Len(Lent) : (Lent \o Filling \o Returned)[i] = Lent[i]
          /\ \A i \in 1 .. Len(Filling) : (Lent \o Filling \o Returned)[Len(Lent) + i] = Filling[i]
          /\ \A i \in 1 .. Len(Returned) :
                (Lent \o Filling \o Returned)[Len(Lent) + Len(Filling) + i] = Returned[i]
      BY <2>1, ThreeInTurn
    <3> QED  BY <1>1, <3>1
  <2> HIDE DEF all
  <2> QED  BY <1>1, <2>2
<1> HIDE DEF all
<1>3. ASSUME NEW i \in 1 .. QueueSize PROVE all[i] \in Slot
  <2> HIDE DEF r, f
  <2>1. CASE i \in 1 .. l
    <3>1. r + f + i - 1 \in Nat
      BY <1>1
    <3> QED  BY <1>t, <1>1, <1>2, <2>1, <3>1, PlaceIsSlot
  <2>2. CASE f = 1 /\ i = l + 1
    BY <1>t, <1>1, <1>2, <2>2, PlaceIsSlot
  <2>3. CASE i - l - f \in 1 .. r
    <3>1. i = l + f + (i - l - f) /\ i - l - f - 1 \in Nat
      BY <1>1, <2>3
    <3>2. all[i] = Place(lastUsed, i - l - f - 1)
      BY <1>1, <1>2, <2>3, <3>1
    <3> QED  BY <1>t, <3>1, <3>2, PlaceIsSlot
  <2>4. i \in 1 .. l \/ (f = 1 /\ i = l + 1) \/ i - l - f \in 1 .. r
    <3> HIDE DEF l
    <3> QED  BY <1>t, <1>0
  <2> QED  BY <2>1, <2>2, <2>3, <2>4
<1>4. ASSUME NEW s \in Slot PROVE \E i \in 1 .. QueueSize : all[i] = s
  <2>1. PICK k \in 0 .. QueueSize - 1 : Place(lastUsed, k) = s
    BY <1>t, PlacesCover
  <2> HIDE DEF r, f
  <2>2. CASE k < r
    <3>1. k + 1 \in 1 .. r /\ l + f + (k + 1) \in 1 .. QueueSize /\ (k + 1) - 1 = k
      BY <1>t, <1>1, <2>2
    <3>2. all[l + f + (k + 1)] = Place(lastUsed, k)
      BY <1>1, <1>2, <3>1
    <3> QED  BY <2>1, <3>1, <3>2
  <2>3. CASE f = 1 /\ k = r
    <3>1. l + 1 \in 1 .. QueueSize
      BY <1>t, <1>1, <2>3
    <3> QED  BY <1>1, <1>2, <2>1, <2>3, <3>1
  <2>4. CASE r + f <= k
    <3>1. k - r - f + 1 \in 1 .. l /\ r + f + (k - r - f + 1) - 1 = k
      BY <1>t, <1>1, <2>4
    <3>2. all[k - r - f + 1] = Place(lastUsed, k) /\ k - r - f + 1 \in 1 .. QueueSize
      BY <1>1, <1>2, <3>1
    <3> QED  BY <2>1, <3>2
  <2>5. k < r \/ (f = 1 /\ k = r) \/ r + f <= k
    BY <1>0
  <2> QED  BY <2>2, <2>3, <2>4, <2>5
<1>5. ASSUME pc \in {"event", "recycle", "publish"} PROVE id = Returned[1]
  <2>1. id = Place(lastUsed, 0) /\ snap # lastUsed /\ Ahead(lastUsed, snap) <= r
    BY <1>5 DEF IInv, RingInv, BatchInv
  <2>2. r >= 1
    BY <1>t, <1>1, <2>1, AheadFacts
  <2> HIDE DEF r
  <2>3. 1 \in 1 .. r /\ 1 - 1 = 0
    BY <1>1, <2>2
  <2>4. Returned[1] = Place(lastUsed, 1 - 1)
    BY <1>1, <2>3
  <2> QED  BY <2>1, <2>3, <2>4
<1>6. {all[i] : i \in 1 .. Len(all)} = Slot
  BY <1>2, <1>3, <1>4
<1> QED  BY <1>2, <1>5, <1>6 DEF all

(* Each event buffer always has exactly one owner, for every ring size and *)
(* through every wrap of the indices: none is lost, none is in two hands,  *)
(* and the device never fills the one that keyboard_read() works on.       *)
THEOREM BuffersAreOwned == Spec => []OneOwnerEach
<1> QED  BY Owners, Invariance, PTL

-------------------------------------------------------------------------------
(* The split ring implements the bounded FIFO queue.                       *)

(* What waits for the driver, oldest first. *)
WaitingInv ==
    LET r == Ahead(lastUsed, usedIdx)
    IN  /\ r \in Nat
        /\ Waiting \in Seq(Events) /\ Len(Waiting) = r
        /\ \A k \in 1 .. r : Waiting[k] = evbuf[Place(lastUsed, k - 1)]

LEMMA WaitingShape == IInv => WaitingInv
<1> SUFFICES ASSUME IInv PROVE WaitingInv
  OBVIOUS
<1> DEFINE r == Ahead(lastUsed, usedIdx)
<1>t. lastUsed \in Idx /\ usedIdx \in Idx
  BY DEF IInv, TypeOK
<1>1. r \in Nat
  BY <1>t, AheadFacts
<1>2. Len(Returned) = r
  BY <1>t, BetweenShape DEF Returned, IInv, TypeOK
<1>3. ASSUME NEW k \in 1 .. r
      PROVE  Returned[k] = Place(lastUsed, k - 1) /\ evbuf[Place(lastUsed, k - 1)] \in Events
  <2>1. HandedOver
    <3>1. ~HandedOver => lastUsed = 0 /\ usedIdx = 0
      BY DEF IInv, RingInv, QuietInv
    <3>2. r # 0
      BY <1>1
    <3> QED  BY <1>t, <3>1, <3>2, AheadFacts
  <2>2. Returned[k] = Place(lastUsed, k - 1)
    BY <2>1, Stretches
  <2>3. k - 1 \in 0 .. r - 1
    BY <1>1
  <2> QED  BY <2>1, <2>2, <2>3 DEF IInv, RingInv, UsedInv
<1> HIDE DEF r
<1>4. Waiting = [k \in 1 .. r |-> evbuf[Returned[k]]]
  BY <1>2 DEF Waiting
<1>5. Waiting \in Seq(Events) /\ Len(Waiting) = r
  BY <1>1, <1>3, <1>4
<1>6. \A k \in 1 .. r : Waiting[k] = evbuf[Place(lastUsed, k - 1)]
  BY <1>3, <1>4
<1> QED  BY <1>1, <1>5, <1>6 DEF r, WaitingInv

LEMMA WaitingShapeNext == IInv' => WaitingInv'
<1> QED  BY WaitingShape, PTL

(* Before the buffers are handed over nothing waits. *)
LEMMA QuietWaiting == IInv /\ ~HandedOver => Waiting = << >> /\ ~Reading
<1> SUFFICES ASSUME IInv, ~HandedOver PROVE Waiting = << >> /\ ~Reading
  OBVIOUS
<1>1. lastUsed = 0 /\ usedIdx = 0 /\ pc \in InitPC \cup {"poll"}
  BY DEF IInv, RingInv, QuietInv
<1>2. Ahead(lastUsed, usedIdx) = 0
  BY <1>1, Numbers, AheadFacts
<1>3. Waiting \in Seq(Events) /\ Len(Waiting) = 0
  BY <1>2, WaitingShape DEF WaitingInv
<1> QED  BY <1>1, <1>3 DEF Reading, InitPC

(* The event that keyboard_read() works on is the oldest of those waiting. *)
LEMMA OldestInHand ==
  ASSUME IInv, pc \in {"event", "recycle", "publish"}
  PROVE  /\ HandedOver /\ Waiting # << >> /\ Head(Waiting) = evbuf[id]
         /\ evbuf[id] \in Events /\ evbuf[id] # NoEvent /\ Len(Tail(Waiting)) = Len(Waiting) - 1
<1> DEFINE r == Ahead(lastUsed, usedIdx)
<1>t. lastUsed \in Idx /\ usedIdx \in Idx /\ snap \in Idx
  BY DEF IInv, TypeOK
<1>1. HandedOver
  BY LoopHandedOver DEF IInv, LoopPC
<1>2. id = Place(lastUsed, 0) /\ snap # lastUsed /\ Ahead(lastUsed, snap) <= r
  BY DEF IInv, RingInv, BatchInv
<1>3. r \in Nat /\ r >= 1
  BY <1>t, <1>2, AheadFacts
<1>4. Waiting \in Seq(Events) /\ Len(Waiting) = r /\ Waiting[1] = evbuf[Place(lastUsed, 0)]
  <2>1. /\ Waiting \in Seq(Events) /\ Len(Waiting) = r
        /\ \A k \in 1 .. r : Waiting[k] = evbuf[Place(lastUsed, k - 1)]
    BY WaitingShape DEF WaitingInv
  <2> HIDE DEF r
  <2>2. 1 \in 1 .. r /\ 1 - 1 = 0
    BY <1>3
  <2>3. Waiting[1] = evbuf[Place(lastUsed, 1 - 1)]
    BY <2>1, <2>2
  <2> QED  BY <2>1, <2>2, <2>3
<1> HIDE DEF r
<1>5. Waiting # << >> /\ Head(Waiting) = evbuf[id] /\ Waiting[1] \in Events
  BY <1>2, <1>3, <1>4
<1>6. Len(Tail(Waiting)) = Len(Waiting) - 1
  BY <1>4, <1>5, HeadTailProperties
<1> QED  BY <1>1, <1>2, <1>4, <1>5, <1>6, EventsAssumption

(* Consuming an element takes the head off what waits. *)
LEMMA PublishTakes ==
  ASSUME IInv, IInv', Publish
  PROVE  Waiting' = Tail(Waiting)
<1> DEFINE r == Ahead(lastUsed, usedIdx)
<1>t. lastUsed \in Idx /\ usedIdx \in Idx
  BY DEF IInv, TypeOK
<1>1. lastUsed' = Inc(lastUsed) /\ UNCHANGED <<usedIdx, evbuf>> /\ pc = "publish"
  BY DEF Publish, Goto
<1>2. Waiting # << >> /\ Waiting \in Seq(Events) /\ Len(Waiting) = r /\ r \in Nat
      /\ \A k \in 1 .. r : Waiting[k] = evbuf[Place(lastUsed, k - 1)]
  BY <1>1, OldestInHand, WaitingShape DEF WaitingInv
<1>3. r # 0
  BY <1>2
<1>4. Ahead(lastUsed', usedIdx') = r - 1
  BY <1>t, <1>1, <1>2, <1>3, AheadFacts
<1>5. /\ Waiting' \in Seq(Events') /\ Len(Waiting') = r - 1
      /\ \A k \in 1 .. r - 1 : Waiting'[k] = evbuf[Place(Inc(lastUsed), k - 1)]
  <2>1. LET s == Ahead(lastUsed', usedIdx')
        IN  /\ Waiting' \in Seq(Events') /\ Len(Waiting') = s
            /\ \A k \in 1 .. s : Waiting'[k] = evbuf'[Place(lastUsed', k - 1)]
    BY WaitingShapeNext DEF WaitingInv
  <2> HIDE DEF r
  <2> QED  BY <1>1, <1>4, <2>1
<1>6. /\ Tail(Waiting) \in Seq(Events) /\ Len(Tail(Waiting)) = r - 1
      /\ \A k \in 1 .. r - 1 : Tail(Waiting)[k] = Waiting[k + 1]
  BY <1>2, HeadTailProperties
<1> HIDE DEF r
<1>7. ASSUME NEW k \in 1 .. r - 1
      PROVE  Waiting'[k] = Tail(Waiting)[k]
  <2>1. Ahead(lastUsed, Inc(lastUsed)) = 1 /\ Inc(lastUsed) \in Idx
    BY <1>t, IncIs, IdxModAssumption, QueueSizeAssumption DEF Ahead, Idx
  <2>2. k - 1 \in Nat /\ 1 + (k - 1) = (k + 1) - 1 /\ k + 1 \in 1 .. r
    BY <1>2
  <2>3. Place(Inc(lastUsed), k - 1) = Place(lastUsed, (k + 1) - 1)
    BY <1>t, <2>1, <2>2, PlaceAhead
  <2> QED  BY <1>2, <1>5, <1>6, <2>2, <2>3
<1> QED  BY <1>2, <1>5, <1>6, <1>7, SeqEqual

(* Filling a buffer does not touch what waits; returning it appends it.    *)
LEMMA WritesElsewhere ==
  ASSUME IInv, IInv', DeviceWrites
  PROVE  /\ Waiting' = Waiting
         /\ Reading => evbuf'[id] = evbuf[id]
<1> DEFINE r == Ahead(lastUsed, usedIdx)
<1>t. lastUsed \in Idx /\ usedIdx \in Idx /\ QueueSize \in Nat \ {0}
  BY QueueSizeAssumption DEF IInv, TypeOK
<1>1. devDesc # NoDesc /\ devDesc \in Slot /\ UNCHANGED <<lastUsed, usedIdx, id>>
      /\ evbuf' = [evbuf EXCEPT ![desc[devDesc]] = pending]
  BY DEF DeviceWrites, locals, IInv, TypeOK
<1>2. HandedOver
  BY <1>1 DEF IInv, RingInv, QuietInv
<1>3. desc[devDesc] = devDesc /\ devDesc = Place(lastUsed, r) /\ r + 1 <= QueueSize /\ r \in Nat
  <2>1. devDesc = Place(usedIdx, 0) /\ desc = Identity /\ r + 1 <= QueueSize
    BY <1>1, <1>2 DEF IInv, RingInv, UsedInv, CircleInv, BeingFilled
  <2>2. Place(usedIdx, 0) = Place(lastUsed, r + 0) /\ r \in Nat
    BY <1>t, PlaceAhead, AheadFacts
  <2> QED  BY <1>1, <2>1, <2>2 DEF Identity
<1>4. \A s \in Slot \ {devDesc} : evbuf'[s] = evbuf[s]
  BY <1>1, <1>3 DEF IInv, TypeOK
<1>5. ASSUME NEW k \in 0 .. r - 1
      PROVE  evbuf'[Place(lastUsed, k)] = evbuf[Place(lastUsed, k)]
  <2>1. k \in 0 .. QueueSize - 1 /\ r \in 0 .. QueueSize - 1 /\ k # r
    BY <1>t, <1>3
  <2> HIDE DEF r
  <2>2. Place(lastUsed, k) # devDesc /\ Place(lastUsed, k) \in Slot
    BY <1>t, <1>3, <2>1, PlacesDiffer, PlaceIsSlot
  <2> QED  BY <1>4, <2>2
<1>6. Waiting' = Waiting
  <2>1. /\ Waiting \in Seq(Events) /\ Len(Waiting) = r
        /\ \A k \in 1 .. r : Waiting[k] = evbuf[Place(lastUsed, k - 1)]
    BY WaitingShape DEF WaitingInv
  <2>2. LET s == Ahead(lastUsed', usedIdx')
        IN  /\ Waiting' \in Seq(Events') /\ Len(Waiting') = s
            /\ \A k \in 1 .. s : Waiting'[k] = evbuf'[Place(lastUsed', k - 1)]
    BY WaitingShapeNext DEF WaitingInv
  <2>3. /\ Waiting' \in Seq(Events) /\ Len(Waiting') = r
        /\ \A k \in 1 .. r : Waiting'[k] = evbuf'[Place(lastUsed, k - 1)]
    BY <1>1, <2>2
  <2> HIDE DEF r
  <2>4. \A k \in 1 .. r : k - 1 \in 0 .. r - 1
    BY <1>3
  <2>5. \A k \in 1 .. r : Waiting'[k] = Waiting[k]
    BY <1>5, <2>1, <2>3, <2>4
  <2> QED  BY <2>1, <2>3, <2>5, SeqEqual
<1>7. ASSUME Reading PROVE evbuf'[id] = evbuf[id]
  <2>1. id = Place(lastUsed, 0) /\ Waiting # << >>
    BY <1>7, OldestInHand DEF IInv, RingInv, BatchInv, Reading
  <2>2. Len(Waiting) = r /\ Waiting \in Seq(Events)
    BY WaitingShape DEF WaitingInv
  <2> HIDE DEF r
  <2>3. 0 \in 0 .. r - 1
    BY <1>3, <2>1, <2>2
  <2> QED  BY <1>5, <2>1, <2>3
<1> QED  BY <1>6, <1>7

LEMMA ReturnAppends ==
  ASSUME IInv, IInv', DeviceReturns
  PROVE  /\ Waiting' = Append(Waiting, pending)
         /\ Len(Waiting) < QueueSize
         /\ pending \in Events /\ pending # NoEvent
<1> DEFINE r == Ahead(lastUsed, usedIdx)
<1>t. lastUsed \in Idx /\ usedIdx \in Idx /\ QueueSize \in Nat /\ IdxMod \in Nat /\ QueueSize < IdxMod
  BY QueueSizeAssumption, IdxModAssumption DEF IInv, TypeOK
<1>1. devFilled /\ usedIdx' = Inc(usedIdx) /\ UNCHANGED <<lastUsed, evbuf>>
  BY DEF DeviceReturns, locals
<1>2. HandedOver
  BY <1>1 DEF IInv, RingInv, QuietInv
<1>3. /\ devDesc # NoDesc /\ devDesc = Place(usedIdx, 0) /\ evbuf[devDesc] = pending
      /\ pending # NoEvent /\ r + 1 <= QueueSize
  BY <1>1, <1>2 DEF IInv, RingInv, UsedInv, CircleInv, BeingFilled
<1>4. pending \in Events
  BY <1>3 DEF IInv, TypeOK
<1>5. r \in Nat /\ devDesc = Place(lastUsed, r)
  <2>1. Place(usedIdx, 0) = Place(lastUsed, r + 0) /\ r \in Nat
    BY <1>t, PlaceAhead, AheadFacts
  <2> QED  BY <1>3, <2>1
<1>6. Ahead(lastUsed', usedIdx') = r + 1
  <2>1. r + 1 < IdxMod
    BY <1>t, <1>3, <1>5
  <2>2. Ahead(lastUsed, Inc(usedIdx)) = r + 1
    BY <1>t, <2>1, AheadFacts
  <2> QED  BY <1>1, <2>2
<1>7. /\ Waiting \in Seq(Events) /\ Len(Waiting) = r
      /\ \A k \in 1 .. r : Waiting[k] = evbuf[Place(lastUsed, k - 1)]
  BY WaitingShape DEF WaitingInv
<1>8. /\ Waiting' \in Seq(Events) /\ Len(Waiting') = r + 1
      /\ \A k \in 1 .. r + 1 : Waiting'[k] = evbuf[Place(lastUsed, k - 1)]
  <2>1. LET s == Ahead(lastUsed', usedIdx')
        IN  /\ Waiting' \in Seq(Events') /\ Len(Waiting') = s
            /\ \A k \in 1 .. s : Waiting'[k] = evbuf'[Place(lastUsed', k - 1)]
    BY WaitingShapeNext DEF WaitingInv
  <2> HIDE DEF r
  <2> QED  BY <1>1, <1>6, <2>1
<1> HIDE DEF r
<1>9. ASSUME NEW k \in 1 .. r + 1
      PROVE  Waiting'[k] = Append(Waiting, pending)[k]
  <2>1. CASE k = r + 1
    <3>1. Waiting'[k] = pending
      <4>1. k - 1 = r
        BY <1>5, <2>1
      <4> QED  BY <1>3, <1>5, <1>8, <4>1
    <3> QED  BY <1>4, <1>5, <1>7, <2>1, <3>1
  <2>2. CASE k \in 1 .. r
    BY <1>4, <1>5, <1>7, <1>8, <2>2
  <2>3. k = r + 1 \/ k \in 1 .. r
    BY <1>5
  <2> QED  BY <2>1, <2>2, <2>3
<1>10. Append(Waiting, pending) \in Seq(Events) /\ Len(Append(Waiting, pending)) = r + 1
  BY <1>4, <1>7
<1> QED  BY <1>t, <1>3, <1>4, <1>5, <1>7, <1>8, <1>9, <1>10, SeqEqual

LEMMA TailOfAppend ==
  ASSUME NEW S, NEW s \in Seq(S), s # << >>, NEW e \in S
  PROVE  Tail(Append(s, e)) = Append(Tail(s), e)
<1>1. Len(s) \in Nat /\ Len(s) # 0
  BY EmptySeq
<1> QED  BY <1>1

(* The queue that the rings and the device implement. *)
PortOf == IF HandedOver THEN pending ELSE NoEvent
QueueOf == IF Reading THEN Tail(Waiting) ELSE Waiting
HandOf == IF Reading THEN evbuf[id] ELSE NoEvent

(* A step that touches neither the used ring, the buffers nor the driver's *)
(* place in them leaves the queue as it is.                                *)
LEMMA QueueKept ==
  ASSUME UNCHANGED <<lastUsed, usedIdx, usedRing, evbuf>>
  PROVE  /\ Waiting' = Waiting
         /\ UNCHANGED <<id, Reading>> => UNCHANGED <<QueueOf, HandOf>>
<1>1. Waiting' = Waiting
  BY DEF Waiting, Returned, Between, Ahead
<1>2. UNCHANGED <<id, Reading>> => UNCHANGED <<QueueOf, HandOf>>
  BY <1>1 DEF QueueOf, HandOf
<1> QED  BY <1>1, <1>2

(* Before the rings are in use the queue is empty, and so is its port. *)
QuietQueue == ~HandedOver => PortOf = NoEvent /\ QueueOf = << >> /\ HandOf = NoEvent

LEMMA QueueStartsEmpty == IInv => QuietQueue
BY QuietWaiting DEF QuietQueue, PortOf, QueueOf, HandOf

LEMMA QueueStartsEmptyNext == IInv' => QuietQueue'
<1> QED  BY QueueStartsEmpty, PTL

LEMMA FifoInit == Init => Fifo!Init
<1> SUFFICES ASSUME Init PROVE Fifo!Init
  OBVIOUS
<1>1. IInv
  BY TypeInit, RingInit DEF IInv, Init, LiveInv, InitPC, LoopPC
<1>2. ~HandedOver
  BY DEF Init, HandedOver
<1>3. PortOf = NoEvent /\ QueueOf = << >> /\ HandOf = NoEvent
  BY <1>1, <1>2, QueueStartsEmpty DEF QuietQueue
<1> QED  BY <1>3 DEF Fifo!Init, PortOf, QueueOf, HandOf

(* An event that waited for queue_setup() arrives when it is over; nothing *)
(* else in keyboard_init() is a step of the queue.                         *)
LEMMA SetupFifo ==
  ASSUME IInv, IInv', Setup
  PROVE  [Fifo!Next]_(Fifo!fifoVars)
<1> USE DEF Goto, locals, shared, device, devVars
<1>1. CASE Kick
  <2>1. /\ HandedOver' = HandedOver /\ Reading' = Reading
        /\ UNCHANGED <<pending, id, lastUsed, usedIdx, usedRing, evbuf>>
    BY <1>1 DEF Kick, HandedOver, Reading
  <2>2. UNCHANGED <<PortOf, QueueOf, HandOf>>
    BY <2>1, QueueKept DEF PortOf
  <2> QED  BY <2>2 DEF Fifo!fifoVars, PortOf, QueueOf, HandOf
<1>2. CASE HandOver
  <2>1. /\ ~HandedOver /\ HandedOver' /\ Reading' = Reading
        /\ UNCHANGED <<pending, id, lastUsed, usedIdx, usedRing, evbuf>>
    BY <1>2 DEF HandOver, HandedOver, Reading, IInv, LiveInv
  <2>2. PortOf = NoEvent /\ PortOf' = pending /\ UNCHANGED <<QueueOf, HandOf>>
    <3>1. UNCHANGED <<id, Reading>>
      BY <2>1
    <3>2. UNCHANGED <<QueueOf, HandOf>>
      BY <2>1, <3>1, QueueKept
    <3> QED  BY <2>1, <3>2 DEF PortOf
  <2>3. CASE pending = NoEvent
    BY <2>2, <2>3 DEF Fifo!fifoVars, PortOf, QueueOf, HandOf
  <2>4. CASE pending # NoEvent
    <3>1. pending \in Events
      BY <2>4 DEF IInv, TypeOK
    <3>2. Fifo!Arrive(pending)
      BY <2>2 DEF Fifo!Arrive, PortOf, QueueOf, HandOf
    <3> QED  BY <3>1, <3>2 DEF Fifo!Next
  <2> QED  BY <2>3, <2>4
<1>3. CASE ~Kick /\ ~HandOver
  <2>1. ~HandedOver /\ ~HandedOver'
    BY <1>3 DEF Setup, Probe, Reset, Acknowledge, SetQueue, DriverOk, FillRings,
                HandedOver, IInv, LiveInv
  <2>2. UNCHANGED <<PortOf, QueueOf, HandOf>>
    BY <2>1, QueueStartsEmpty, QueueStartsEmptyNext DEF QuietQueue
  <2> QED  BY <2>2 DEF Fifo!fifoVars, PortOf, QueueOf, HandOf
<1> QED  BY <1>1, <1>2, <1>3

(* keyboard_read() takes the oldest event when it reads its buffer and has *)
(* done with it when it has lent the buffer again.                         *)
LEMMA LoopFifo ==
  ASSUME IInv, IInv', Loop
  PROVE  [Fifo!Next]_(Fifo!fifoVars)
<1>1. /\ HandedOver' = HandedOver /\ UNCHANGED <<pending, usedIdx, usedRing, evbuf>>
      /\ pc \in LoopPC /\ pc' \in LoopPC
  <2>1. UNCHANGED <<status, pending, usedIdx, usedRing, evbuf>> /\ pc \in LoopPC /\ pc' \in LoopPC
    <3>1. ReadEvent => pc = "event" /\ pc' = "recycle" /\ UNCHANGED <<shared, devVars>>
      BY Zenon DEF ReadEvent, Goto
    <3>2. CASE ReadEvent
      BY <3>1, <3>2 DEF shared, devVars, LoopPC
    <3>3. CASE ~ReadEvent
      BY <3>3 DEF Loop, PollUsed, ReadElem, Recycle, Publish, Notify, Echo, Goto,
                  locals, shared, devVars, LoopPC
    <3> QED  BY <3>2, <3>3
  <2>2. pc \notin {"fill", "hand_over"} /\ pc' \notin {"fill", "hand_over"}
    BY <2>1 DEF LoopPC
  <2> QED  BY <2>1, <2>2 DEF HandedOver
<1>2. UNCHANGED PortOf
  BY <1>1 DEF PortOf
<1>3. CASE PollUsed \/ ReadElem \/ Recycle \/ Notify \/ Echo
  <2>1. /\ UNCHANGED lastUsed /\ Reading' = Reading
        /\ Reading => id' = id
    BY <1>3 DEF PollUsed, ReadElem, Recycle, Notify, Echo, Goto, locals, Reading
  <2>2. UNCHANGED <<QueueOf, HandOf>>
    BY <1>1, <2>1, QueueKept DEF QueueOf, HandOf
  <2> QED  BY <1>2, <2>2 DEF Fifo!fifoVars, PortOf, QueueOf, HandOf
<1>4. CASE ReadEvent
  <2>1. pc = "event" /\ pc' = "recycle" /\ UNCHANGED <<id, lastUsed>>
    BY <1>4, Zenon DEF ReadEvent, Goto
  <2>2. ~Reading /\ Reading' /\ Waiting' = Waiting
    BY <1>1, <2>1, QueueKept DEF Reading
  <2>3. Waiting # << >> /\ Head(Waiting) = evbuf[id]
    BY <2>1, OldestInHand
  <2>4. /\ QueueOf = Waiting /\ QueueOf' = Tail(QueueOf) /\ HandOf = NoEvent
        /\ HandOf' = Head(QueueOf)
    BY <1>1, <2>1, <2>2, <2>3 DEF QueueOf, HandOf
  <2>5. Fifo!Take
    BY <1>2, <2>3, <2>4 DEF Fifo!Take, PortOf, QueueOf, HandOf
  <2> QED  BY <2>5 DEF Fifo!Next
<1>5. CASE Publish
  <2>1. pc = "publish" /\ pc' = "next"
    BY <1>5 DEF Publish, Goto
  <2>2. Reading /\ ~Reading'
    BY <2>1 DEF Reading
  <2>3. Waiting' = Tail(Waiting) /\ evbuf[id] # NoEvent
    BY <1>5, <2>1, PublishTakes, OldestInHand
  <2>4. UNCHANGED QueueOf /\ HandOf # NoEvent /\ HandOf' = NoEvent
    BY <2>2, <2>3 DEF QueueOf, HandOf
  <2>5. Fifo!Finish
    BY <1>2, <2>4 DEF Fifo!Finish, PortOf, QueueOf, HandOf
  <2> QED  BY <2>5 DEF Fifo!Next
<1> QED  BY <1>3, <1>4, <1>5 DEF Loop

(* The device puts an event into the queue when it moves the used index on *)
(* and, once the rings are in use, drops one only when the queue is full.  *)
LEMMA DeviceFifo ==
  ASSUME IInv, IInv', Device
  PROVE  [Fifo!Next]_(Fifo!fifoVars)
<1> USE DEF locals, shared, device, devVars
<1>1. UNCHANGED <<pc, status, lastUsed, id>> /\ HandedOver' = HandedOver /\ Reading' = Reading
  BY DEF Device, EventArrives, DeviceDrops, DevicePops, DeviceWrites, DeviceReturns,
         HandedOver, Reading
<1>2. ASSUME NEW ev \in Events, EventArrives(ev)
      PROVE  [Fifo!Next]_(Fifo!fifoVars)
  <2>1. pending = NoEvent /\ pending' = ev /\ UNCHANGED <<QueueOf, HandOf>>
    BY <1>1, <1>2, QueueKept DEF EventArrives
  <2>2. CASE HandedOver
    <3>1. Fifo!Arrive(ev)
      BY <1>1, <2>1, <2>2 DEF Fifo!Arrive, QueueOf, HandOf
    <3> QED  BY <3>1 DEF Fifo!Next
  <2>3. CASE ~HandedOver
    BY <1>1, <2>1, <2>3 DEF Fifo!fifoVars, QueueOf, HandOf
  <2> QED  BY <2>2, <2>3
<1>3. CASE DeviceDrops
  <2>1. /\ pending # NoEvent /\ devDesc = NoDesc /\ pending' = NoEvent
        /\ UNCHANGED <<QueueOf, HandOf>>
    BY <1>1, <1>3, QueueKept DEF DeviceDrops
  <2>2. CASE HandedOver
    <3>1. devAvail = availIdx
      BY <1>3, <2>2 DEF DeviceDrops, HandedOver
    <3>2. Ahead(lastUsed, usedIdx) = QueueSize
      <4>1. Ahead(devAvail, availIdx) = 0
        BY <3>1 DEF Ahead, IInv, TypeOK, Idx
      <4>2. BeingFilled = 0
        BY <2>1 DEF BeingFilled
      <4> QED
        BY <2>2, <4>1, <4>2, LentCount, QueueSizeAssumption DEF IInv, RingInv
    <3>3. Len(Waiting) = QueueSize
      BY <3>2, WaitingShape DEF WaitingInv
    <3>4. Len(QueueOf) + (IF HandOf # NoEvent THEN 1 ELSE 0) = QueueSize
      <4>1. CASE Reading
        <5>1. pc \in {"event", "recycle", "publish"}
          BY <4>1 DEF Reading
        <5>2. evbuf[id] # NoEvent /\ Len(Tail(Waiting)) = Len(Waiting) - 1
          BY <5>1, OldestInHand
        <5> QED  BY <3>3, <4>1, <5>2, QueueSizeAssumption DEF QueueOf, HandOf
      <4>2. CASE ~Reading
        BY <3>3, <4>2, QueueSizeAssumption DEF QueueOf, HandOf
      <4> QED  BY <4>1, <4>2
    <3>5. Fifo!Refuse
      BY <1>1, <2>1, <2>2, <3>4 DEF Fifo!Refuse, Fifo!Occupied, QueueOf, HandOf
    <3> QED  BY <3>5 DEF Fifo!Next
  <2>3. CASE ~HandedOver
    BY <1>1, <2>1, <2>3 DEF Fifo!fifoVars, QueueOf, HandOf
  <2> QED  BY <2>2, <2>3
<1>4. CASE DevicePops
  <2>1. UNCHANGED <<pending, QueueOf, HandOf>>
    BY <1>1, <1>4, QueueKept DEF DevicePops
  <2> QED  BY <1>1, <2>1 DEF Fifo!fifoVars, QueueOf, HandOf
<1>5. CASE DeviceWrites
  <2>1. UNCHANGED pending
    BY <1>5 DEF DeviceWrites
  <2>2. Waiting' = Waiting /\ (Reading => evbuf'[id] = evbuf[id])
    BY <1>5, WritesElsewhere
  <2>3. UNCHANGED <<QueueOf, HandOf>>
    BY <1>1, <2>2 DEF QueueOf, HandOf
  <2> QED  BY <1>1, <2>1, <2>3 DEF Fifo!fifoVars, QueueOf, HandOf
<1>6. CASE DeviceReturns
  <2>1. HandedOver /\ pending' = NoEvent /\ UNCHANGED evbuf
    BY <1>6 DEF DeviceReturns, IInv, RingInv, QuietInv
  <2>2. /\ Waiting' = Append(Waiting, pending)
        /\ Len(Waiting) < QueueSize /\ pending \in Events /\ pending # NoEvent
    BY <1>6, ReturnAppends
  <2>3. /\ QueueOf' = Append(QueueOf, pending) /\ HandOf' = HandOf
        /\ Len(QueueOf) + (IF HandOf # NoEvent THEN 1 ELSE 0) < QueueSize
    <3>1. Waiting \in Seq(Events) /\ Len(Waiting) \in Nat
      BY WaitingShape DEF WaitingInv
    <3>2. CASE Reading
      <4>1. pc \in {"event", "recycle", "publish"}
        BY <3>2 DEF Reading
      <4>2. evbuf[id] # NoEvent /\ Waiting # << >> /\ Len(Tail(Waiting)) = Len(Waiting) - 1
        BY <4>1, OldestInHand
      <4>3. Tail(Append(Waiting, pending)) = Append(Tail(Waiting), pending)
        BY <2>2, <3>1, <4>2, TailOfAppend
      <4> QED
        BY <1>1, <2>1, <2>2, <3>1, <3>2, <4>2, <4>3, QueueSizeAssumption DEF QueueOf, HandOf
    <3>3. CASE ~Reading
      BY <1>1, <2>1, <2>2, <3>1, <3>3, QueueSizeAssumption DEF QueueOf, HandOf
    <3> QED  BY <3>2, <3>3
  <2>4. Fifo!Accept
    BY <1>1, <2>1, <2>2, <2>3 DEF Fifo!Accept, Fifo!Occupied, QueueOf, HandOf
  <2> QED  BY <2>4 DEF Fifo!Next
<1> QED  BY <1>2, <1>3, <1>4, <1>5, <1>6 DEF Device

LEMMA FifoStep ==
  ASSUME IInv, IInv', [Next]_vars
  PROVE  [Fifo!Next]_(Fifo!fifoVars)
<1>1. CASE UNCHANGED vars
  <2>1. UNCHANGED <<pending, QueueOf, HandOf, HandedOver>>
    <3>1. UNCHANGED <<pc, status, pending, id, lastUsed, usedIdx, usedRing, evbuf>>
      BY <1>1 DEF vars, locals, shared, devVars
    <3> QED  BY <3>1, QueueKept DEF HandedOver, Reading
  <2> QED  BY <2>1 DEF Fifo!fifoVars, QueueOf, HandOf
<1> QED  BY <1>1, SetupFifo, LoopFifo, DeviceFifo DEF Next

(* For every queue size the split ring is a FIFO queue of QUEUE_SIZE       *)
(* places: whatever the interleaving of keyboard_read() and the device, no *)
(* event is lost between them, reordered, delivered twice or overwritten   *)
(* while the driver reads it, and once queue_setup() is over one is        *)
(* dropped only when every buffer holds one.                               *)
THEOREM SplitRingImplementsFifo == Spec => RingIsFifo
<1> QED  BY FifoInit, FifoStep, Invariance, PTL DEF Spec, RingIsFifo, Fifo!Spec
==============================================================================
