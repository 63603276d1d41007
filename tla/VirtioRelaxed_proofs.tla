------------------------- MODULE VirtioRelaxed_proofs -------------------------
(***************************************************************************)
(* Theorems about VirtioRelaxed, for every queue size, every device        *)
(* behaviour and every hart.                                               *)
(***************************************************************************)
EXTENDS VirtioRelaxed, VirtioKeyboard_proofs, WellFoundedInduction

(* The rings as the hart sees them: its own stores have all been done.     *)
VK == INSTANCE VirtioKeyboard_proofs WITH availIdx <- OwnIdx, availRing <- OwnRing

(* The stores that a hart may have on their way. *)
Store == [to : {"ring"}, at : Slot, v : Slot] \cup [to : {"idx"}, at : {0}, v : Idx]

-------------------------------------------------------------------------------
(* The inductive invariant, of every hart: how the indices lie.            *)

(* Until the buffers are handed over the device has touched nothing, and   *)
(* the fences have let no store wait.                                      *)
QuietHart ==
    ~HandedOver =>
        /\ pc \in InitPC \cup {"poll"}
        /\ availIdx = 0 /\ usedIdx = 0 /\ lastUsed = 0
        /\ devAvail = 0 /\ devDesc = NoDesc /\ ~devFilled
        /\ stores = << >>

(* From what keyboard_read() has consumed, QueueSize places on lies what   *)
(* the hart has lent; what memory has of this lies between it and what the *)
(* device has taken.                                                       *)
Indices ==
    HandedOver =>
        /\ Ahead(lastUsed, OwnIdx) = QueueSize
        /\ devAvail = IF devDesc = NoDesc THEN usedIdx ELSE Inc(usedIdx)
        /\ Ahead(lastUsed, usedIdx) + BeingFilled <= Ahead(lastUsed, availIdx)
        /\ Ahead(lastUsed, availIdx) <= QueueSize

(* The stores to avail->idx that wait move it on, and never backwards.     *)
IdxStores == {n \in 1 .. Len(stores) : stores[n].to = "idx"}

StoresMoveOn ==
    HandedOver =>
        \A n \in IdxStores :
            /\ Ahead(lastUsed, availIdx) <= Ahead(lastUsed, stores[n].v)
            /\ Ahead(lastUsed, stores[n].v) <= QueueSize
            /\ \A m \in IdxStores :
                  m < n => Ahead(lastUsed, stores[m].v) <= Ahead(lastUsed, stores[n].v)

(* The batch that keyboard_read() has seen is part of what was returned.   *)
Batch ==
    /\ pc \in {"next", "event", "recycle", "publish"} =>
          Ahead(lastUsed, snap) <= Ahead(lastUsed, usedIdx)
    /\ pc \in {"event", "recycle", "publish"} => snap # lastUsed

OrderInv == QuietHart /\ Indices /\ StoresMoveOn /\ Batch

(* And of a hart that keeps its loads in order: what it sees is what       *)
(* VirtioKeyboard has, and what memory has of avail->ring differs from it  *)
(* nowhere, since every buffer goes back to its place.                     *)
InItsPlace ==
    HandedOver =>
        /\ availRing = Identity
        /\ \A n \in 1 .. Len(stores) : stores[n].to = "ring" => stores[n].v = stores[n].at

EventRead == pc = "recycle" => ev = evbuf[id]

SeesKeyboard == keeps.loads => VK!IInv /\ early = << >> /\ InItsPlace /\ EventRead

(* What has been loaded ahead: nothing, an element, or also its event. *)
EarlyShape ==
    \/ early = << >>
    \/ \E i \in Slot : early = <<i>>
    \/ \E i \in Slot, e \in Events \cup {NoEvent} : early = <<i, e>>

HartTypes ==
    /\ TypeOK /\ keeps \in Harts
    /\ stores \in Seq(Store) /\ EarlyShape
    /\ ev \in Events \cup {NoEvent}

HartInv == HartTypes /\ LiveInv /\ OrderInv /\ SeesKeyboard

-------------------------------------------------------------------------------
(* The store buffer. *)

(* The constants of what the hart sees are those of VirtioKeyboard. *)
LEMMA SameConstants == VK!QueueSizeAssumption /\ VK!IdxModAssumption /\ VK!EventsAssumption
  BY QueueSizeAssumption, IdxModAssumption, EventsAssumption
  DEF VK!QueueSizeAssumption, VK!IdxModAssumption, VK!EventsAssumption, VK!Event, Event

(* A sequence without its n-th element. *)
LEMMA RemoveAtShape ==
  ASSUME NEW S, NEW s \in Seq(S), NEW n \in 1 .. Len(s)
  PROVE  /\ RemoveAt(s, n) \in Seq(S) /\ Len(RemoveAt(s, n)) = Len(s) - 1
         /\ \A i \in 1 .. n - 1 : RemoveAt(s, n)[i] = s[i]
         /\ \A i \in n .. Len(s) - 1 : RemoveAt(s, n)[i] = s[i + 1]
<1> DEFINE p == SubSeq(s, 1, n - 1)
           q == SubSeq(s, n + 1, Len(s))
<1>1. n \in Nat /\ n >= 1 /\ n <= Len(s) /\ Len(s) \in Nat
  OBVIOUS
<1>2. /\ p \in Seq(S) /\ Len(p) = n - 1
      /\ \A i \in 1 .. n - 1 : p[i] = s[i]
  <2>1. \A i \in 1 .. n - 1 : i \in 1 .. Len(s)
    BY <1>1
  <2> QED  BY <1>1, <2>1, SMTT(20)
<1>3. /\ q \in Seq(S) /\ Len(q) = Len(s) - n
      /\ \A i \in 1 .. Len(s) - n : q[i] = s[i + n]
  BY <1>1
<1>4. RemoveAt(s, n) = p \o q
  BY DEF RemoveAt
<1> HIDE DEF p, q
<1>5. /\ p \o q \in Seq(S) /\ Len(p \o q) = Len(s) - 1
      /\ \A i \in 1 .. Len(s) - 1 : (p \o q)[i] = IF i <= n - 1 THEN p[i] ELSE q[i - (n - 1)]
  BY <1>1, <1>2, <1>3
<1>6. ASSUME NEW i \in n .. Len(s) - 1 PROVE (p \o q)[i] = s[i + 1]
  <2>1. i - (n - 1) \in 1 .. Len(s) - n /\ i \in 1 .. Len(s) - 1 /\ ~(i <= n - 1)
        /\ (i - (n - 1)) + n = i + 1
    BY <1>1
  <2> QED  BY <1>3, <1>5, <2>1
<1>7. ASSUME NEW i \in 1 .. n - 1 PROVE (p \o q)[i] = s[i]
  <2>1. i \in 1 .. Len(s) - 1 /\ i <= n - 1
    BY <1>1
  <2> QED  BY <1>2, <1>5, <2>1
<1> QED  BY <1>4, <1>5, <1>6, <1>7

(* A set of positions has a last one. *)
LEMMA LastPosition ==
  ASSUME NEW n \in Nat, NEW T, T \subseteq 1 .. n, T # {}
  PROVE  \E m \in T : \A k \in T : k <= m
<1> DEFINE U == {n - k : k \in T}
<1>1. U \subseteq Nat /\ U # {}
  <2>1. \A k \in T : n - k \in Nat
    OBVIOUS
  <2>2. PICK k \in T : TRUE
    OBVIOUS
  <2>3. n - k \in U
    BY <2>2
  <2> QED  BY <2>1, <2>3
<1> DEFINE R == OpToRel(<, Nat)
<1>2. \A x, y \in Nat : x < y => <<x, y>> \in R
  BY DEF OpToRel
<1>3. IsWellFoundedOn(R, Nat)
  BY NatLessThanWellFounded, Zenon
<1> HIDE DEF R
<1>4. \E x \in U : \A y \in U : ~(<<y, x>> \in R)
  <2> HIDE DEF U
  <2> QED  BY <1>1, <1>3, WFMin, Zenon
<1>5. PICK x \in U : \A y \in U : ~(<<y, x>> \in R)
  BY <1>4
<1>6. PICK m \in T : x = n - m
  OBVIOUS
<1>7. ASSUME NEW k \in T PROVE k <= m
  <2>1. n - k \in U /\ n - k \in Nat /\ x \in Nat /\ k \in Nat /\ m \in Nat
    BY <1>1
  <2>2. ~(n - k < x)
    BY <1>2, <1>5, <2>1
  <2> QED  BY <1>6, <2>1, <2>2
<1> QED  BY <1>7

(* What the hart sees in a place: the last store to it that waits in st,   *)
(* and what memory has there if none does.                                 *)
Sees(st, s0, default, v) ==
    \/ v = default /\ \A n \in 1 .. Len(st) : ~SamePlace(st[n], s0)
    \/ \E n \in 1 .. Len(st) :
          /\ SamePlace(st[n], s0) /\ v = st[n].v
          /\ \A m \in n + 1 .. Len(st) : ~SamePlace(st[m], s0)

LEMMA LastToSees ==
  ASSUME stores \in Seq(Store), NEW s0, NEW d
  PROVE  Sees(stores, s0, d, LastTo(s0, d))
<1> DEFINE ns == {n \in 1 .. Len(stores) : SamePlace(stores[n], s0)}
           c == CHOOSE n \in ns : \A m \in ns : m <= n
<1>1. LastTo(s0, d) = IF ns = {} THEN d ELSE stores[c].v
  BY DEF LastTo
<1>2. Len(stores) \in Nat
  OBVIOUS
<1>3. CASE ns = {}
  BY <1>1, <1>3 DEF Sees
<1>4. CASE ns # {}
  <2>1. \E n \in ns : \A m \in ns : m <= n
    <3>1. ns \subseteq 1 .. Len(stores)
      OBVIOUS
    <3> HIDE DEF ns
    <3> QED  BY <1>2, <1>4, <3>1, LastPosition
  <2>2. c \in ns /\ \A m \in ns : m <= c
    BY <2>1, Zenon
  <2> HIDE DEF c
  <2>3. \A m \in c + 1 .. Len(stores) : m \notin ns /\ m \in 1 .. Len(stores)
    BY <1>2, <2>2
  <2> QED  BY <1>1, <1>4, <2>2, <2>3 DEF Sees
<1> QED  BY <1>3, <1>4

LEMMA SeesOne ==
  ASSUME NEW st \in Seq(Store), NEW s0, NEW d, NEW v, NEW w,
         Sees(st, s0, d, v), Sees(st, s0, d, w)
  PROVE  v = w
<1>1. CASE \A n \in 1 .. Len(st) : ~SamePlace(st[n], s0)
  BY <1>1 DEF Sees
<1>2. CASE ~(\A n \in 1 .. Len(st) : ~SamePlace(st[n], s0))
  <2>1. PICK i \in 1 .. Len(st) :
           /\ SamePlace(st[i], s0) /\ v = st[i].v
           /\ \A m \in i + 1 .. Len(st) : ~SamePlace(st[m], s0)
    BY <1>2 DEF Sees
  <2>2. PICK j \in 1 .. Len(st) :
           /\ SamePlace(st[j], s0) /\ w = st[j].v
           /\ \A m \in j + 1 .. Len(st) : ~SamePlace(st[m], s0)
    BY <1>2 DEF Sees
  <2>3. ~(i < j) /\ ~(j < i)
    BY <2>1, <2>2
  <2>4. i = j
    BY <2>3
  <2> QED  BY <2>1, <2>2, <2>4
<1> QED  BY <1>1, <1>2

(* A store joins the others, or reaches memory. *)
LEMMA SeesAppended ==
  ASSUME NEW st \in Seq(Store), NEW s \in Store, NEW s0, NEW d, NEW v, Sees(st, s0, d, v)
  PROVE  Sees(Append(st, s), s0, d, IF SamePlace(s, s0) THEN s.v ELSE v)
<1> DEFINE l == Len(st)
           q == Append(st, s)
<1>1. /\ l \in Nat /\ Len(q) = l + 1 /\ q[l + 1] = s
      /\ \A n \in 1 .. l : q[n] = st[n]
  OBVIOUS
<1>2. \A n \in 1 .. l + 1 : n \in 1 .. l \/ n = l + 1
  BY <1>1
<1> HIDE DEF q
<1>3. CASE SamePlace(s, s0)
  <2>1. l + 1 \in 1 .. Len(q) /\ \A m \in (l + 1) + 1 .. Len(q) : FALSE
    BY <1>1
  <2> QED  BY <1>1, <1>3, <2>1 DEF Sees, q
<1>4. CASE ~SamePlace(s, s0)
  <2>1. CASE v = d /\ \A n \in 1 .. l : ~SamePlace(st[n], s0)
    BY <1>1, <1>2, <1>4, <2>1 DEF Sees, q
  <2>2. CASE ~(v = d /\ \A n \in 1 .. l : ~SamePlace(st[n], s0))
    <3>1. PICK n \in 1 .. l :
             /\ SamePlace(st[n], s0) /\ v = st[n].v
             /\ \A m \in n + 1 .. l : ~SamePlace(st[m], s0)
      BY <2>2 DEF Sees
    <3>2. n \in 1 .. Len(q) /\ SamePlace(q[n], s0) /\ v = q[n].v
      BY <1>1, <3>1
    <3>3. ASSUME NEW m \in n + 1 .. Len(q) PROVE ~SamePlace(q[m], s0)
      <4>1. m \in n + 1 .. l \/ m = l + 1
        BY <1>1
      <4>2. m \in n + 1 .. l => q[m] = st[m]
        BY <1>1
      <4> QED  BY <1>1, <1>4, <3>1, <4>1, <4>2
    <3> QED  BY <1>4, <3>2, <3>3 DEF Sees, q
  <2> QED  BY <2>1, <2>2
<1> QED  BY <1>3, <1>4

LEMMA SeesRemoved ==
  ASSUME NEW st \in Seq(Store), NEW n \in 1 .. Len(st), NEW s0, NEW d, NEW v,
         \A m \in 1 .. n - 1 : ~SamePlace(st[m], st[n]),
         Sees(st, s0, d, v)
  PROVE  Sees(RemoveAt(st, n), s0, IF SamePlace(st[n], s0) THEN st[n].v ELSE d, v)
<1> DEFINE l == Len(st)
           q == RemoveAt(st, n)
           e == IF SamePlace(st[n], s0) THEN st[n].v ELSE d
<1>0. l \in Nat
  OBVIOUS
<1>1. /\ l \in Nat /\ Len(q) = l - 1
      /\ \A i \in 1 .. n - 1 : q[i] = st[i]
      /\ \A i \in n .. l - 1 : q[i] = st[i + 1]
  BY <1>0, RemoveAtShape, Zenon
<1> HIDE DEF q, e
<1>2. SamePlace(st[n], s0) => \A m \in 1 .. n - 1 : ~SamePlace(st[m], s0)
  BY DEF SamePlace
<1>3. \A i \in 1 .. Len(q) : \/ i \in 1 .. n - 1 /\ q[i] = st[i]
                             \/ i \in n .. l - 1 /\ i + 1 \in n + 1 .. l /\ q[i] = st[i + 1]
  BY <1>1
<1>4. CASE v = d /\ \A m \in 1 .. l : ~SamePlace(st[m], s0)
  <2>1. \A i \in 1 .. Len(q) : ~SamePlace(q[i], s0)
    BY <1>3, <1>4
  <2>2. v = e
    BY <1>4 DEF e
  <2> QED  BY <2>1, <2>2 DEF Sees, e, q
<1>5. CASE ~(v = d /\ \A m \in 1 .. l : ~SamePlace(st[m], s0))
  <2>1. PICK k \in 1 .. l :
           /\ SamePlace(st[k], s0) /\ v = st[k].v
           /\ \A m \in k + 1 .. l : ~SamePlace(st[m], s0)
    BY <1>5 DEF Sees
  <2>2. CASE k = n
    <3>1. v = e
      BY <2>1, <2>2 DEF e
    <3>2. \A i \in 1 .. Len(q) : ~SamePlace(q[i], s0)
      BY <1>2, <1>3, <2>1, <2>2
    <3> QED  BY <3>1, <3>2 DEF Sees, e, q
  <2>3. CASE k < n
    <3>1. k \in 1 .. Len(q) /\ q[k] = st[k]
      BY <1>1, <2>3
    <3>2. ASSUME NEW m \in k + 1 .. Len(q) PROVE ~SamePlace(q[m], s0)
      <4>1. m \in 1 .. Len(q) /\ m \in k + 1 .. l /\ m + 1 \in k + 1 .. l
        BY <1>1
      <4>2. q[m] = st[m] \/ q[m] = st[m + 1]
        BY <1>3, <4>1
      <4> QED  BY <2>1, <4>1, <4>2
    <3> QED  BY <2>1, <3>1, <3>2 DEF Sees, q
  <2>4. CASE k > n
    <3>1. k - 1 \in 1 .. Len(q) /\ q[k - 1] = st[k]
      BY <1>1, <2>4
    <3>2. ASSUME NEW m \in (k - 1) + 1 .. Len(q) PROVE ~SamePlace(q[m], s0)
      <4>1. m \in n .. l - 1 /\ m + 1 \in k + 1 .. l
        BY <1>1, <2>4
      <4>2. q[m] = st[m + 1]
        BY <1>1, <4>1
      <4> QED  BY <2>1, <4>1, <4>2
    <3> QED  BY <2>1, <3>1, <3>2 DEF Sees, q
  <2> QED  BY <2>2, <2>3, <2>4
<1> QED  BY <1>4, <1>5

-------------------------------------------------------------------------------
(* What the hart sees of the available ring. *)

Buffered == stores \in Seq(Store)

OwnView ==
    /\ Sees(stores, ToIdx(0), availIdx, OwnIdx)
    /\ \A i \in Slot : Sees(stores, ToRing(i, 0), availRing[i], OwnRing[i])

LEMMA OwnViewHolds == Buffered => OwnView
<1> SUFFICES ASSUME stores \in Seq(Store) PROVE OwnView
  BY DEF Buffered
<1>1. Sees(stores, ToIdx(0), availIdx, OwnIdx)
  BY LastToSees DEF OwnIdx
<1>2. ASSUME NEW i \in Slot PROVE Sees(stores, ToRing(i, 0), availRing[i], OwnRing[i])
  <2>1. OwnRing[i] = LastTo(ToRing(i, 0), availRing[i])
    BY DEF OwnRing
  <2>2. Sees(stores, ToRing(i, 0), availRing[i], LastTo(ToRing(i, 0), availRing[i]))
    BY LastToSees
  <2> QED  BY <2>1, <2>2
<1> QED  BY <1>1, <1>2 DEF OwnView

LEMMA OwnViewHoldsNext == Buffered' => OwnView'
<1> QED  BY OwnViewHolds, PTL

(* Two rings that the hart sees alike everywhere are the same. *)
LEMMA SameOwnRing ==
  ASSUME NEW ring, ring = [i \in Slot |-> ring[i]],
         \A i \in Slot : OwnRing'[i] = ring[i]
  PROVE  OwnRing' = ring
<1>1. OwnRing' = [i \in Slot |-> LastTo(ToRing(i, 0), availRing[i])']
  BY DEF OwnRing, Slot
<1> QED  BY <1>1

LEMMA OwnRingIsFunction == OwnRing = [i \in Slot |-> OwnRing[i]]
  BY DEF OwnRing

(* Which stores go to the same place. *)
LEMMA Places2 ==
  /\ \A v, w : SamePlace(ToIdx(v), ToIdx(w))
  /\ \A v, w, i : ~SamePlace(ToIdx(v), ToRing(i, w)) /\ ~SamePlace(ToRing(i, w), ToIdx(v))
  /\ \A v, w, i, j : SamePlace(ToRing(i, v), ToRing(j, w)) <=> i = j
  /\ \A v, i : ToRing(i, v).v = v /\ ToIdx(v).v = v
  BY DEF SamePlace, ToIdx, ToRing

(* As long as the ring and the stores stay, so does what the hart sees. *)
LEMMA OwnKept ==
  ASSUME Buffered, UNCHANGED <<stores, availIdx, availRing>>
  PROVE  UNCHANGED <<OwnIdx, OwnRing>>
<1>1. OwnView /\ OwnView' /\ Slot' = Slot
  BY OwnViewHolds, OwnViewHoldsNext DEF Buffered, Slot, Store, Idx
<1>2. OwnIdx' = OwnIdx
  <2>1. Sees(stores, ToIdx(0), availIdx, OwnIdx) /\ Sees(stores, ToIdx(0), availIdx, OwnIdx')
    BY <1>1 DEF OwnView
  <2> QED  BY <2>1, SeesOne DEF Buffered
<1>3. ASSUME NEW i \in Slot PROVE OwnRing'[i] = OwnRing[i]
  <2>1. /\ Sees(stores, ToRing(i, 0), availRing[i], OwnRing[i])
        /\ Sees(stores, ToRing(i, 0), availRing[i], OwnRing'[i])
    BY <1>1 DEF OwnView
  <2> QED  BY <2>1, SeesOne DEF Buffered
<1> QED  BY <1>2, <1>3, SameOwnRing, OwnRingIsFunction

(* A store is known by where it goes. *)
LEMMA StoreKinds ==
  ASSUME NEW s \in Store
  PROVE  \/ s.to = "ring" /\ s.at \in Slot /\ s.v \in Slot /\ s = ToRing(s.at, s.v)
         \/ s.to = "idx" /\ s.at = 0 /\ s.v \in Idx /\ s = ToIdx(s.v)
<1>1. CASE s \in [to : {"ring"}, at : Slot, v : Slot]
  BY <1>1 DEF ToRing
<1>2. CASE s \in [to : {"idx"}, at : {0}, v : Idx]
  BY <1>2 DEF ToIdx
<1> QED  BY <1>1, <1>2 DEF Store

LEMMA StoresAre ==
  /\ \A i \in Slot, v \in Slot : ToRing(i, v) \in Store
  /\ \A v \in Idx : ToIdx(v) \in Store
  BY DEF ToRing, ToIdx, Store

(* The types of the rings, in memory and as the hart sees them. *)
RingTypes ==
    /\ Buffered
    /\ availIdx \in Idx /\ availRing \in [Slot -> Slot]

LEMMA OwnTypes ==
  ASSUME RingTypes
  PROVE  OwnIdx \in Idx /\ OwnRing \in [Slot -> Slot]
<1>1. OwnView
  BY OwnViewHolds DEF RingTypes
<1>2. OwnIdx \in Idx
  <2>1. CASE OwnIdx = availIdx
    BY <2>1 DEF RingTypes
  <2>2. CASE OwnIdx # availIdx
    <3>1. PICK n \in 1 .. Len(stores) : SamePlace(stores[n], ToIdx(0)) /\ OwnIdx = stores[n].v
      BY <1>1, <2>2 DEF OwnView, Sees
    <3>2. stores[n] \in Store /\ stores[n].to = "idx"
      BY <3>1 DEF RingTypes, Buffered, SamePlace, ToIdx
    <3> QED  BY <3>1, <3>2, StoreKinds
  <2> QED  BY <2>1, <2>2
<1>3. ASSUME NEW i \in Slot PROVE OwnRing[i] \in Slot
  <2>1. CASE OwnRing[i] = availRing[i]
    BY <2>1 DEF RingTypes
  <2>2. CASE OwnRing[i] # availRing[i]
    <3>1. PICK n \in 1 .. Len(stores) : SamePlace(stores[n], ToRing(i, 0)) /\ OwnRing[i] = stores[n].v
      BY <1>1, <2>2 DEF OwnView, Sees
    <3>2. stores[n] \in Store /\ stores[n].to = "ring"
      BY <3>1 DEF RingTypes, Buffered, SamePlace, ToRing
    <3> QED  BY <3>1, <3>2, StoreKinds
  <2> QED  BY <2>1, <2>2
<1> QED  BY <1>2, <1>3, OwnRingIsFunction

(* Past a fence the hart sees what memory has. *)
Fenced   == RingTypes /\ stores = << >>
SeesAll  == OwnIdx = availIdx /\ OwnRing = availRing

LEMMA FencedView == Fenced => SeesAll
<1> SUFFICES ASSUME RingTypes, stores = << >>
             PROVE  OwnIdx = availIdx /\ OwnRing = availRing
  BY DEF Fenced, SeesAll
<1>1. OwnView
  BY OwnViewHolds DEF RingTypes
<1>2. \A n \in 1 .. Len(stores) : FALSE
  OBVIOUS
<1>3. OwnIdx = availIdx /\ \A i \in Slot : OwnRing[i] = availRing[i]
  BY <1>1, <1>2 DEF OwnView, Sees
<1>4. availRing = [i \in Slot |-> availRing[i]]
  BY DEF RingTypes
<1> QED  BY <1>3, <1>4, OwnRingIsFunction

LEMMA FencedViewNext == Fenced' => SeesAll'
<1> QED  BY FencedView, PTL

(* A store to avail->ring, or to avail->idx, that begins to wait. *)
LEMMA OwnStoreRing ==
  ASSUME RingTypes, NEW a \in Slot, NEW v \in Slot,
         stores' = Append(stores, ToRing(a, v)), UNCHANGED <<availIdx, availRing>>
  PROVE  OwnIdx' = OwnIdx /\ OwnRing' = [OwnRing EXCEPT ![a] = v]
<1>0. ToRing(a, v) \in Store /\ stores \in Seq(Store) /\ stores' \in Seq(Store)
  BY StoresAre DEF RingTypes, Buffered
<1>1. Buffered' /\ Slot' = Slot
  BY <1>0 DEF Buffered, Slot, Store, Idx
<1>2. OwnView /\ OwnView'
  BY <1>1, OwnViewHolds, OwnViewHoldsNext DEF RingTypes
<1>3. OwnIdx' = OwnIdx
  <2>1. Sees(stores', ToIdx(0), availIdx, OwnIdx')
    BY <1>2 DEF OwnView
  <2>2. Sees(stores, ToIdx(0), availIdx, OwnIdx) /\ ~SamePlace(ToRing(a, v), ToIdx(0))
    BY <1>2, Places2 DEF OwnView
  <2>3. Sees(stores', ToIdx(0), availIdx, OwnIdx)
    BY <1>0, <2>2, SeesAppended
  <2> QED  BY <1>0, <2>1, <2>3, SeesOne
<1>4. ASSUME NEW i \in Slot PROVE OwnRing'[i] = IF i = a THEN v ELSE OwnRing[i]
  <2>1. Sees(stores', ToRing(i, 0), availRing[i], OwnRing'[i])
    BY <1>1, <1>2 DEF OwnView
  <2>2. Sees(stores, ToRing(i, 0), availRing[i], OwnRing[i])
    BY <1>2 DEF OwnView
  <2>3. Sees(stores', ToRing(i, 0), availRing[i],
             IF SamePlace(ToRing(a, v), ToRing(i, 0)) THEN ToRing(a, v).v ELSE OwnRing[i])
    BY <1>0, <2>2, SeesAppended
  <2>4. Sees(stores', ToRing(i, 0), availRing[i], IF i = a THEN v ELSE OwnRing[i])
    BY <2>3, Places2
  <2> QED  BY <1>0, <2>1, <2>4, SeesOne
<1>5. OwnRing \in [Slot -> Slot]
  BY OwnTypes
<1>6. [OwnRing EXCEPT ![a] = v] = [i \in Slot |-> IF i = a THEN v ELSE OwnRing[i]]
  BY <1>5
<1> QED  BY <1>3, <1>4, <1>6, SameOwnRing

LEMMA OwnStoreIdx ==
  ASSUME RingTypes, NEW v \in Idx,
         stores' = Append(stores, ToIdx(v)), UNCHANGED <<availIdx, availRing>>
  PROVE  OwnIdx' = v /\ OwnRing' = OwnRing
<1>0. ToIdx(v) \in Store /\ stores \in Seq(Store) /\ stores' \in Seq(Store)
  BY StoresAre DEF RingTypes, Buffered
<1>1. Buffered' /\ Slot' = Slot
  BY <1>0 DEF Buffered, Slot, Store, Idx
<1>2. OwnView /\ OwnView'
  BY <1>1, OwnViewHolds, OwnViewHoldsNext DEF RingTypes
<1>3. OwnIdx' = v
  <2>1. Sees(stores', ToIdx(0), availIdx, OwnIdx')
    BY <1>2 DEF OwnView
  <2>2. /\ Sees(stores, ToIdx(0), availIdx, OwnIdx)
        /\ SamePlace(ToIdx(v), ToIdx(0)) /\ ToIdx(v).v = v
    BY <1>2, Places2 DEF OwnView
  <2>3. Sees(stores', ToIdx(0), availIdx, v)
    BY <1>0, <2>2, SeesAppended
  <2> QED  BY <1>0, <2>1, <2>3, SeesOne
<1>4. ASSUME NEW i \in Slot PROVE OwnRing'[i] = OwnRing[i]
  <2>1. Sees(stores', ToRing(i, 0), availRing[i], OwnRing'[i])
    BY <1>1, <1>2 DEF OwnView
  <2>2. Sees(stores, ToRing(i, 0), availRing[i], OwnRing[i]) /\ ~SamePlace(ToIdx(v), ToRing(i, 0))
    BY <1>2, Places2 DEF OwnView
  <2>3. Sees(stores', ToRing(i, 0), availRing[i], OwnRing[i])
    BY <1>0, <2>2, SeesAppended
  <2> QED  BY <1>0, <2>1, <2>3, SeesOne
<1> QED  BY <1>3, <1>4, SameOwnRing, OwnRingIsFunction

(* A store that reaches memory changes nothing for the hart. *)
LEMMA OwnCommit ==
  ASSUME RingTypes, NEW n \in 1 .. Len(stores), Commit(n)
  PROVE  /\ RingTypes' /\ UNCHANGED <<OwnIdx, OwnRing>>
         /\ stores[n] \in Store
         /\ \/ stores[n].to = "ring" /\ availIdx' = availIdx
               /\ availRing' = [availRing EXCEPT ![stores[n].at] = stores[n].v]
            \/ stores[n].to = "idx" /\ availIdx' = stores[n].v /\ availRing' = availRing
<1> DEFINE s == stores[n]
<1>0. /\ stores \in Seq(Store) /\ s \in Store /\ Len(stores) \in Nat
      /\ availIdx \in Idx /\ availRing \in [Slot -> Slot]
  BY DEF RingTypes, Buffered
<1>1. /\ \A m \in 1 .. n - 1 : ~SamePlace(stores[m], s)
      /\ stores' = RemoveAt(stores, n)
      /\ s.to = "ring" => availRing' = [availRing EXCEPT ![s.at] = s.v] /\ availIdx' = availIdx
      /\ s.to # "ring" => availIdx' = s.v /\ availRing' = availRing
  BY DEF Commit
<1>2. \/ s.to = "ring" /\ s.at \in Slot /\ s.v \in Slot /\ s = ToRing(s.at, s.v)
      \/ s.to = "idx" /\ s.at = 0 /\ s.v \in Idx /\ s = ToIdx(s.v)
  BY <1>0, StoreKinds
<1>3. stores' \in Seq(Store)
  BY <1>0, <1>1, RemoveAtShape
<1> HIDE DEF s
<1>4. availIdx' \in Idx /\ availRing' \in [Slot -> Slot]
  BY <1>0, <1>1, <1>2
<1>5. RingTypes' /\ Slot' = Slot /\ Store' = Store
  BY <1>3, <1>4 DEF RingTypes, Buffered, Slot, Store, Idx
<1>6. OwnView /\ OwnView'
  BY <1>5, OwnViewHolds, OwnViewHoldsNext DEF RingTypes
<1>7. OwnIdx' = OwnIdx
  <2>1. Sees(stores', ToIdx(0), availIdx', OwnIdx') /\ Sees(stores, ToIdx(0), availIdx, OwnIdx)
    BY <1>6 DEF OwnView
  <2>2. Sees(stores', ToIdx(0), IF SamePlace(s, ToIdx(0)) THEN s.v ELSE availIdx, OwnIdx)
    BY <1>0, <1>1, <2>1, SeesRemoved DEF s
  <2>3. availIdx' = IF SamePlace(s, ToIdx(0)) THEN s.v ELSE availIdx
    BY <1>1, <1>2, Places2
  <2> QED  BY <1>3, <2>1, <2>2, <2>3, SeesOne
<1>8. ASSUME NEW i \in Slot PROVE OwnRing'[i] = OwnRing[i]
  <2>1. /\ Sees(stores', ToRing(i, 0), availRing'[i], OwnRing'[i])
        /\ Sees(stores, ToRing(i, 0), availRing[i], OwnRing[i])
    BY <1>5, <1>6 DEF OwnView
  <2>2. Sees(stores', ToRing(i, 0), IF SamePlace(s, ToRing(i, 0)) THEN s.v ELSE availRing[i], OwnRing[i])
    BY <1>0, <1>1, <2>1, SeesRemoved DEF s
  <2>3. availRing'[i] = IF SamePlace(s, ToRing(i, 0)) THEN s.v ELSE availRing[i]
    <3>1. CASE s.to = "ring"
      <4>1. SamePlace(s, ToRing(i, 0)) <=> i = s.at
        BY <1>2, <3>1, Places2
      <4> QED  BY <1>0, <1>1, <1>2, <3>1, <4>1
    <3>2. CASE s.to # "ring"
      BY <1>1, <1>2, <3>2, Places2
    <3> QED  BY <3>1, <3>2
  <2> QED  BY <1>3, <2>1, <2>2, <2>3, SeesOne
<1> QED  BY <1>0, <1>1, <1>2, <1>5, <1>7, <1>8, SameOwnRing, OwnRingIsFunction DEF s

-------------------------------------------------------------------------------
(* The invariant of every hart. *)

(* Many steps are steps of VirtioKeyboard, and take all accesses at once. *)
Plain == (Setup \/ PollUsed \/ Notify \/ Echo \/ Device) /\ UNCHANGED hart

(* Some only load. *)
Loads ==
    /\ UNCHANGED <<vars, keeps, stores, ev>>
    /\ \/ early' = << >>
       \/ ~keeps.loads /\ (LoadElemEarly \/ LoadEventEarly)

LEMMA Steps ==
  ASSUME [RelaxedNext]_relaxedVars
  PROVE  \/ Plain \/ Loads \/ TakeElem \/ TakeEvent \/ StoreRing \/ StoreIdx
         \/ (\E n \in 1 .. Len(stores) : Commit(n)) \/ UNCHANGED relaxedVars
<1>1. CASE Probing \/ DeviceSteps
  BY <1>1 DEF Probing, DeviceSteps, Plain
<1>2. CASE Poll \/ FenceAndNotify \/ EchoChar
  BY <1>2 DEF Poll, FenceAndNotify, EchoChar, Plain
<1>3. CASE PollNothing
  BY <1>3 DEF PollNothing, Loads
<1>4. CASE LoadElemEarly \/ LoadEventEarly
  BY <1>4 DEF LoadElemEarly, LoadEventEarly, Loads
<1>5. CASE TakeElem \/ TakeEvent \/ StoreRing \/ StoreIdx
  BY <1>5
<1>6. CASE \E n \in 1 .. Len(stores) : Commit(n)
  BY <1>6
<1>7. CASE UNCHANGED relaxedVars
  BY <1>7
<1> QED  BY <1>1, <1>2, <1>3, <1>4, <1>5, <1>6, <1>7 DEF RelaxedNext, Read, Hart

LEMMA PlainIsNext == Plain => Next /\ UNCHANGED hart
  BY DEF Plain, Next, Loop

LEMMA TypesToRings == HartTypes => RingTypes
  BY DEF HartTypes, TypeOK, RingTypes, Buffered

(* A sequence of two. *)
LEMMA Pair ==
  ASSUME NEW a, NEW b
  PROVE  Append(<<a>>, b) = <<a, b>>
<1> DEFINE q == Append(<<a>>, b)
           p == <<a, b>>
<1>1. <<a>> \in Seq({a, b}) /\ b \in {a, b} /\ p \in Seq({a, b})
  OBVIOUS
<1>2. q \in Seq({a, b}) /\ Len(q) = 2 /\ q[1] = a /\ q[2] = b
  BY <1>1, AppendProperties
<1>3. Len(p) = 2 /\ p[1] = a /\ p[2] = b
  OBVIOUS
<1> HIDE DEF p, q
<1>4. \A k \in 1 .. 2 : k = 1 \/ k = 2
  OBVIOUS
<1>5. \A k \in 1 .. 2 : q[k] = p[k]
  BY <1>2, <1>3, <1>4
<1>6. q = p
  BY <1>1, <1>2, <1>3, <1>5, SeqEqual
<1> QED  BY <1>6 DEF p, q

(* What keyboard_read() takes is a slot, and an event or none. *)
LEMMA EarlyFacts ==
  ASSUME EarlyShape
  PROVE  /\ early # << >> => early[1] \in Slot
         /\ Len(early) = 2 => early[2] \in Events \cup {NoEvent}
         /\ Len(early) = 1 => \E i \in Slot : early = <<i>> /\ early[1] = i
<1>1. CASE early = << >>
  BY <1>1
<1>2. CASE \E i \in Slot : early = <<i>>
  BY <1>2
<1>3. CASE \E i \in Slot, e \in Events \cup {NoEvent} : early = <<i, e>>
  BY <1>3
<1> QED  BY <1>1, <1>2, <1>3 DEF EarlyShape

(* Decoding an event, whatever it is. *)
LEMMA DecodeTypes ==
  ASSUME NEW e, out \in Char, shift \in BOOLEAN,
         IF e = NoEvent THEN UNCHANGED <<out, shift>> ELSE Decode(e)
  PROVE  out' \in Char /\ shift' \in BOOLEAN
<1>1. KeycodeToChar(e.code, shift) \in Char
  BY CharTypes
<1>2. (e.value # 0) \in BOOLEAN
  BY Zenon
<1>3. \/ shift' = (e.value # 0) /\ out' = out
      \/ shift' = shift /\ out' = KeycodeToChar(e.code, shift)
      \/ shift' = shift /\ out' = out
  BY Zenon DEF Decode
<1> QED  BY <1>1, <1>2, <1>3, Zenon

(* What TakeEvent changes. *)
LEMMA TakeEventIs ==
  ASSUME TakeEvent
  PROVE  /\ pc = "event" /\ pc' = "recycle"
         /\ ev' = IF Len(early) = 2 THEN early[2] ELSE evbuf[id]
         /\ early' = << >>
         /\ IF ev' = NoEvent THEN UNCHANGED <<out, shift>> ELSE Decode(ev')
         /\ UNCHANGED <<base, snap, id, lastUsed, keeps, stores>>
         /\ UNCHANGED shared /\ UNCHANGED devVars
  BY Zenon DEF TakeEvent, Goto

LEMMA TypesStep ==
  ASSUME HartTypes, [RelaxedNext]_relaxedVars
  PROVE  HartTypes'
<1> USE DEF HartTypes
<1>0. Slot' = Slot /\ Store' = Store
  BY DEF Slot, Store, Idx
<1>1. CASE Plain
  <2>1. TypeOK' /\ UNCHANGED hart
    BY <1>1, PlainIsNext, TypeStep
  <2> QED  BY <1>0, <2>1 DEF hart, EarlyShape
<1>2. CASE Loads
  <2>1. TypeOK'
    BY <1>2, TypeStep DEF Loads
  <2>2. EarlyShape'
    <3>1. CASE early' = << >>
      BY <3>1 DEF EarlyShape
    <3>2. CASE LoadElemEarly
      <4>1. early' = <<usedRing[lastUsed % QueueSize]>> /\ usedRing[lastUsed % QueueSize] \in Slot
        BY <3>2, IndexFacts DEF LoadElemEarly, TypeOK
      <4> QED  BY <1>0, <4>1 DEF EarlyShape
    <3>3. CASE LoadEventEarly
      <4>1. Len(early) = 1 /\ early' = Append(early, evbuf[early[1]])
        BY <3>3 DEF LoadEventEarly
      <4>2. PICK i \in Slot : early = <<i>> /\ early[1] = i
        BY <4>1, EarlyFacts
      <4>3. early' = <<i, evbuf[i]>> /\ evbuf[i] \in Events \cup {NoEvent}
        <5>1. Append(<<i>>, evbuf[i]) = <<i, evbuf[i]>>
          BY Pair
        <5>2. evbuf[i] \in Events \cup {NoEvent}
          BY <4>2 DEF TypeOK
        <5> QED  BY <4>1, <4>2, <5>1, <5>2, Zenon
      <4> QED  BY <1>0, <4>3 DEF EarlyShape
    <3> QED  BY <1>2, <3>1, <3>2, <3>3 DEF Loads
  <2> QED  BY <1>0, <1>2, <2>1, <2>2 DEF Loads
<1> USE DEF Goto, locals, shared, device, devVars, hart
<1>3. CASE TakeElem
  <2>1. id' \in Slot
    BY <1>3, IndexFacts, EarlyFacts DEF TakeElem, TypeOK
  <2>2. TypeOK'
    BY <1>3, <2>1 DEF TakeElem, TypeOK, LoopPC
  <2> QED  BY <1>0, <1>3, <2>2 DEF TakeElem, EarlyShape
<1>4. CASE TakeEvent
  <2>1. /\ pc' = "recycle" /\ early' = << >>
        /\ IF ev' = NoEvent THEN UNCHANGED <<out, shift>> ELSE Decode(ev')
        /\ UNCHANGED <<base, snap, id, lastUsed, keeps, stores>>
        /\ UNCHANGED shared /\ UNCHANGED devVars
    BY <1>4, TakeEventIs
  <2>2. ev' \in Events \cup {NoEvent}
    BY <1>4, TakeEventIs, EarlyFacts DEF TypeOK
  <2>3. out' \in Char /\ shift' \in BOOLEAN
    BY <2>1, DecodeTypes DEF TypeOK
  <2>4. TypeOK'
    BY <2>1, <2>3 DEF TypeOK, LoopPC
  <2> QED  BY <1>0, <2>1, <2>2, <2>4 DEF EarlyShape
<1>5. CASE StoreRing
  <2>1. OwnIdx % QueueSize \in Slot /\ id \in Slot
    BY OwnTypes, TypesToRings, IndexFacts DEF TypeOK
  <2>2. ToRing(OwnIdx % QueueSize, id) \in Store
    BY <2>1, StoresAre
  <2>3. stores' \in Seq(Store)
    BY <1>5, <2>2 DEF StoreRing
  <2>4. TypeOK'
    BY <1>5 DEF StoreRing, TypeOK, LoopPC
  <2> QED  BY <1>0, <1>5, <2>3, <2>4 DEF StoreRing, EarlyShape
<1>6. CASE StoreIdx
  <2>1. Inc(OwnIdx) \in Idx /\ Inc(lastUsed) \in Idx
    BY OwnTypes, TypesToRings, IndexFacts DEF TypeOK
  <2>2. ToIdx(Inc(OwnIdx)) \in Store
    BY <2>1, StoresAre
  <2>3. stores' \in Seq(Store)
    BY <1>6, <2>2 DEF StoreIdx
  <2>4. TypeOK'
    BY <1>6, <2>1 DEF StoreIdx, TypeOK, LoopPC
  <2> QED  BY <1>0, <1>6, <2>3, <2>4 DEF StoreIdx, EarlyShape
<1>7. ASSUME NEW n \in 1 .. Len(stores), Commit(n)
      PROVE  HartTypes'
  <2>1. RingTypes'
    BY <1>7, OwnCommit, TypesToRings
  <2>2. UNCHANGED <<base, pc, locals, desc, evbuf, usedRing, usedIdx, devVars, keeps, early, ev>>
    BY <1>7 DEF Commit
  <2>3. TypeOK'
    BY <2>1, <2>2 DEF TypeOK, RingTypes
  <2> QED  BY <1>0, <2>1, <2>2, <2>3 DEF RingTypes, Buffered, EarlyShape
<1>8. CASE UNCHANGED relaxedVars
  <2>1. TypeOK'
    BY <1>8, TypeStep DEF relaxedVars
  <2> QED  BY <1>0, <1>8, <2>1 DEF relaxedVars, EarlyShape
<1> QED  BY <1>1, <1>2, <1>3, <1>4, <1>5, <1>6, <1>7, <1>8, Steps

LEMMA HartLiveStep ==
  ASSUME LiveInv, [RelaxedNext]_relaxedVars
  PROVE  LiveInv'
<1>1. CASE Plain \/ Loads \/ UNCHANGED relaxedVars
  BY <1>1, PlainIsNext, LiveStep DEF Loads, relaxedVars
<1> USE DEF LiveInv, InitPC, LoopPC, Goto, locals, shared, device, devVars
<1>2. CASE TakeElem
  BY <1>2 DEF TakeElem
<1>3. CASE TakeEvent
  BY <1>3, TakeEventIs
<1>4. CASE StoreRing \/ StoreIdx
  BY <1>4 DEF StoreRing, StoreIdx
<1>5. ASSUME NEW n \in 1 .. Len(stores), Commit(n)
      PROVE  LiveInv'
  <2>1. UNCHANGED <<base, pc, lastUsed, usedIdx, status, devDesc, devFilled>>
    BY <1>5 DEF Commit
  <2> QED  BY <2>1
<1> QED  BY <1>1, <1>2, <1>3, <1>4, <1>5, Steps

-------------------------------------------------------------------------------
(* The indices of every hart. *)

(* Before the rings are in use, and while nothing about the indices moves. *)
LEMMA QuietOrder ==
  ASSUME ~HandedOver', QuietHart', Batch'
  PROVE  OrderInv'
BY DEF OrderInv, Indices, StoresMoveOn

LEMMA KeptOrder ==
  ASSUME OrderInv, HandedOver, HandedOver', Batch',
         UNCHANGED <<lastUsed, usedIdx, availIdx, OwnIdx, devAvail, devDesc, stores>>
  PROVE  OrderInv'
BY DEF OrderInv, QuietHart, Indices, StoresMoveOn, IdxStores, BeingFilled

(* A step of the driver leaves the rings in use. *)
LEMMA StaysHandedOver ==
  ASSUME HandedOver, UNCHANGED status, pc' \in LoopPC
  PROVE  HandedOver'
BY DEF HandedOver, LoopPC

(* keyboard_init(). *)
LEMMA SetupOrder ==
  ASSUME HartTypes, LiveInv, OrderInv, Setup, UNCHANGED hart
  PROVE  OrderInv'
<1> USE DEF Goto, locals, shared, device, devVars, hart
<1>1. CASE Probe \/ SetQueue \/ Reset \/ Acknowledge \/ DriverOk
  <2>1. ~HandedOver /\ ~HandedOver'
    BY <1>1 DEF Probe, SetQueue, Reset, Acknowledge, DriverOk, HandedOver, LiveInv
  <2>2. QuietHart' /\ Batch'
    BY <1>1, <2>1 DEF Probe, SetQueue, Reset, Acknowledge, DriverOk, OrderInv, QuietHart, Batch, InitPC
  <2> QED  BY <2>1, <2>2, QuietOrder
<1>2. CASE FillRings
  <2>1. ~HandedOver /\ ~HandedOver'
    BY <1>2 DEF FillRings, HandedOver
  <2>2. QuietHart' /\ Batch'
    BY <1>2, <2>1 DEF FillRings, OrderInv, QuietHart, Batch, InitPC
  <2> QED  BY <2>1, <2>2, QuietOrder
<1>3. CASE HandOver
  <2>1. ~HandedOver /\ HandedOver'
    BY <1>3 DEF HandOver, HandedOver, LiveInv
  <2>2. /\ availIdx' = QueueSize /\ usedIdx' = 0 /\ lastUsed' = 0
        /\ devAvail' = 0 /\ devDesc' = NoDesc /\ stores' = << >> /\ pc' = "kick"
    BY <1>3, <2>1 DEF HandOver, OrderInv, QuietHart
  <2>3. OwnIdx' = QueueSize
    <3>1. RingTypes'
      BY <1>3, <2>2, Numbers DEF HandOver, HartTypes, TypeOK, RingTypes, Buffered, Slot, Store, Idx
    <3> QED  BY <2>2, <3>1, FencedViewNext DEF Fenced, SeesAll
  <2>4. Ahead(0, QueueSize) = QueueSize /\ Ahead(0, 0) = 0 /\ QueueSize \in Nat \ {0}
    BY QueueSizeAssumption DEF Ahead
  <2>5. Indices'
    BY <2>2, <2>3, <2>4 DEF Indices, BeingFilled
  <2>6. StoresMoveOn'
    BY <2>2 DEF StoresMoveOn, IdxStores
  <2> QED  BY <2>1, <2>2, <2>5, <2>6 DEF OrderInv, QuietHart, Batch
<1>4. CASE Kick
  <2>1. HandedOver /\ HandedOver'
    BY <1>4 DEF Kick, HandedOver, LiveInv
  <2>2. UNCHANGED <<OwnIdx, OwnRing>>
    BY <1>4, OwnKept DEF Kick, HartTypes, Buffered
  <2>3. Batch'
    BY <1>4 DEF Kick, Batch
  <2> QED  BY <1>4, <2>1, <2>2, <2>3, KeptOrder DEF Kick
<1> QED  BY <1>1, <1>2, <1>3, <1>4 DEF Setup

(* The device goes along the circle, and not past what memory has. *)
LEMMA DeviceOrder ==
  ASSUME HartTypes, LiveInv, OrderInv, Device, UNCHANGED hart
  PROVE  OrderInv'
<1> USE DEF locals, shared, device, devVars, hart
<1>t. /\ lastUsed \in Idx /\ usedIdx \in Idx /\ availIdx \in Idx /\ snap \in Idx
      /\ QueueSize \in Nat \ {0} /\ IdxMod \in Nat /\ QueueSize < IdxMod
  BY IdxModAssumption, QueueSizeAssumption DEF HartTypes, TypeOK
<1>p. pc' = pc /\ UNCHANGED <<lastUsed, snap, availIdx, availRing, status, stores>>
  BY DEF Device, EventArrives, DeviceDrops, DevicePops, DeviceWrites, DeviceReturns
<1>h. HandedOver' = HandedOver
  BY <1>p DEF HandedOver
<1>o. OwnIdx' = OwnIdx
  BY <1>p, OwnKept DEF HartTypes, Buffered
<1>1. CASE ~DevicePops /\ ~DeviceReturns
  <2>1. UNCHANGED <<usedIdx, devAvail, devDesc>>
    BY <1>1 DEF Device, EventArrives, DeviceDrops, DeviceWrites
  <2>2. Batch'
    BY <1>p, <2>1 DEF OrderInv, Batch
  <2>3. CASE HandedOver
    BY <1>h, <1>o, <1>p, <2>1, <2>2, <2>3, KeptOrder
  <2>4. CASE ~HandedOver
    <3>1. ~devFilled'
      BY <1>1, <2>4 DEF Device, EventArrives, DeviceDrops, DeviceWrites, OrderInv, QuietHart
    <3>2. QuietHart'
      BY <1>p, <2>1, <2>4, <3>1 DEF OrderInv, QuietHart
    <3> QED  BY <1>h, <2>2, <2>4, <3>2, QuietOrder
  <2> QED  BY <2>3, <2>4
<1>2. CASE DevicePops
  <2>1. /\ devDesc = NoDesc /\ status = "driver_ok" /\ devAvail # availIdx
        /\ devDesc' = availRing[devAvail % QueueSize] /\ devAvail' = Inc(devAvail)
        /\ UNCHANGED usedIdx
    BY <1>2 DEF DevicePops
  <2>2. HandedOver
    BY <2>1 DEF OrderInv, QuietHart
  <2>3. devDesc' # NoDesc
    <3>1. devAvail % QueueSize \in Slot
      BY IndexFacts DEF HartTypes, TypeOK
    <3>2. devDesc' \in Slot
      BY <2>1, <3>1 DEF HartTypes, TypeOK
    <3> QED  BY <3>2 DEF NoDesc, Slot
  <2>4. /\ Ahead(lastUsed, OwnIdx) = QueueSize /\ devAvail = usedIdx
        /\ Ahead(lastUsed, usedIdx) <= Ahead(lastUsed, availIdx)
        /\ Ahead(lastUsed, availIdx) <= QueueSize
    BY <1>t, <2>1, <2>2, AheadFacts DEF OrderInv, Indices, BeingFilled
  <2>5. Ahead(lastUsed, usedIdx) # Ahead(lastUsed, availIdx)
    BY <1>t, <2>1, <2>4 DEF Ahead, Idx
  <2>6. Ahead(lastUsed, usedIdx) + 1 <= Ahead(lastUsed, availIdx)
    BY <1>t, <2>4, <2>5, AheadFacts
  <2>7. Indices'
    BY <1>o, <1>p, <2>1, <2>3, <2>4, <2>6 DEF Indices, BeingFilled
  <2>8. StoresMoveOn'
    BY <1>h, <1>p, <2>2 DEF OrderInv, StoresMoveOn, IdxStores
  <2>9. Batch'
    BY <1>p, <2>1 DEF OrderInv, Batch
  <2> QED  BY <1>h, <2>2, <2>7, <2>8, <2>9 DEF OrderInv, QuietHart
<1>3. CASE DeviceReturns
  <2>1. devFilled /\ devDesc # NoDesc /\ usedIdx' = Inc(usedIdx) /\ devDesc' = NoDesc /\ UNCHANGED devAvail
    BY <1>3 DEF DeviceReturns, LiveInv
  <2>2. HandedOver
    BY <2>1 DEF OrderInv, QuietHart
  <2>3. /\ Ahead(lastUsed, OwnIdx) = QueueSize /\ devAvail = Inc(usedIdx)
        /\ Ahead(lastUsed, usedIdx) + 1 <= Ahead(lastUsed, availIdx)
        /\ Ahead(lastUsed, availIdx) <= QueueSize
    BY <2>1, <2>2 DEF OrderInv, Indices, BeingFilled
  <2>4. Ahead(lastUsed, Inc(usedIdx)) = Ahead(lastUsed, usedIdx) + 1 /\ Ahead(lastUsed, usedIdx) \in Nat
    BY <1>t, <2>3, AheadFacts
  <2>5. Indices'
    BY <1>o, <1>p, <2>1, <2>3, <2>4 DEF Indices, BeingFilled
  <2>6. StoresMoveOn'
    BY <1>h, <1>p, <2>2 DEF OrderInv, StoresMoveOn, IdxStores
  <2>7. Batch'
    BY <1>p, <1>t, <2>1, <2>4, AheadFacts DEF OrderInv, Batch
  <2> QED  BY <1>h, <2>2, <2>5, <2>6, <2>7 DEF OrderInv, QuietHart
<1> QED  BY <1>1, <1>2, <1>3

(* Nothing of what the indices are made of moves. *)
LEMMA StillOrder ==
  ASSUME HartTypes, OrderInv, UNCHANGED <<vars, stores>>
  PROVE  OrderInv'
<1>1. UNCHANGED <<pc, status, snap, lastUsed, usedIdx, availIdx, availRing,
                  devAvail, devDesc, devFilled, stores>>
  BY DEF vars, locals, shared, devVars, device
<1>2. OwnIdx' = OwnIdx
  BY <1>1, OwnKept DEF HartTypes, Buffered
<1>3. HandedOver' = HandedOver
  BY <1>1 DEF HandedOver
<1>4. Batch'
  BY <1>1 DEF OrderInv, Batch
<1>5. QuietHart'
  BY <1>1, <1>3 DEF OrderInv, QuietHart
<1> QED  BY <1>1, <1>2, <1>3, <1>4, <1>5, KeptOrder, QuietOrder

(* keyboard_read() goes on without touching the rings. *)
LEMMA ReadOrder ==
  ASSUME HartTypes, OrderInv, HandedOver, pc' \in LoopPC, Batch',
         UNCHANGED <<status, lastUsed, usedIdx, availIdx, availRing, devAvail, devDesc, stores>>
  PROVE  OrderInv'
<1>1. UNCHANGED <<OwnIdx, OwnRing>>
  BY OwnKept DEF HartTypes, Buffered
<1> QED  BY <1>1, StaysHandedOver, KeptOrder

LEMMA LoopOrder ==
  ASSUME HartTypes, LiveInv, OrderInv, PollUsed \/ Notify \/ Echo \/ TakeElem \/ TakeEvent,
         UNCHANGED stores
  PROVE  OrderInv'
<1> USE DEF Goto, locals, shared, device, devVars
<1>t. lastUsed \in Idx /\ usedIdx \in Idx
  BY DEF HartTypes, TypeOK
<1>u. UNCHANGED <<status, lastUsed, usedIdx, availIdx, availRing, devAvail, devDesc>>
      /\ pc \in LoopPC /\ pc' \in LoopPC
  <2>1. CASE TakeEvent
    BY <2>1, TakeEventIs DEF LoopPC
  <2>2. CASE PollUsed \/ Notify \/ Echo \/ TakeElem
    BY <2>2 DEF PollUsed, Notify, Echo, TakeElem, LoopPC
  <2> QED  BY <2>1, <2>2
<1>1. HandedOver
  <2>1. CASE PollUsed
    BY <2>1 DEF PollUsed, OrderInv, QuietHart
  <2>2. CASE ~PollUsed
    <3>1. pc # "poll"
      <4>1. CASE TakeEvent
        BY <4>1, TakeEventIs
      <4>2. CASE Notify \/ Echo \/ TakeElem
        BY <4>2 DEF Notify, Echo, TakeElem
      <4> QED  BY <2>2, <4>1, <4>2
    <3> QED  BY <1>u, <3>1, LoopHandedOver
  <2> QED  BY <2>1, <2>2
<1>2. Batch'
  <2>1. CASE PollUsed
    <3>1. snap' = usedIdx /\ pc' = "next"
      BY <2>1 DEF PollUsed
    <3>2. Ahead(lastUsed, usedIdx) \in Nat
      BY <1>t, AheadFacts
    <3> QED  BY <1>u, <3>1, <3>2 DEF Batch
  <2>2. CASE TakeEvent
    BY <2>2, TakeEventIs, <1>u DEF OrderInv, Batch
  <2>3. CASE Notify \/ Echo \/ TakeElem
    BY <2>3 DEF OrderInv, Batch, Notify, Echo, TakeElem
  <2> QED  BY <2>1, <2>2, <2>3
<1> QED  BY <1>1, <1>2, <1>u, ReadOrder

(* keyboard_read() lends a buffer: first its place ... *)
LEMMA StoreRingOrder ==
  ASSUME HartTypes, LiveInv, OrderInv, StoreRing
  PROVE  OrderInv'
<1> USE DEF Goto, locals, shared, device, devVars
<1> DEFINE s == ToRing(OwnIdx % QueueSize, id)
           l == Len(stores)
<1>u. /\ UNCHANGED <<status, lastUsed, usedIdx, availIdx, availRing, devAvail, devDesc, snap>>
      /\ pc = "recycle" /\ pc' = "publish" /\ stores' = Append(stores, s)
  BY DEF StoreRing
<1>1. HandedOver /\ HandedOver'
  BY <1>u, LoopHandedOver, StaysHandedOver DEF LoopPC
<1>2. OwnIdx' = OwnIdx
  <2>1. OwnIdx % QueueSize \in Slot /\ id \in Slot /\ RingTypes
    BY OwnTypes, TypesToRings, IndexFacts DEF HartTypes, TypeOK
  <2> QED  BY <1>u, <2>1, OwnStoreRing
<1>3. /\ l \in Nat /\ Len(stores') = l + 1 /\ stores'[l + 1] = s
      /\ \A n \in 1 .. l : stores'[n] = stores[n]
  BY <1>u DEF HartTypes
<1>4. s.to = "ring"
  BY DEF ToRing
<1> HIDE DEF s, l
<1>5. ASSUME NEW n \in IdxStores' PROVE n \in IdxStores /\ stores'[n] = stores[n]
  <2>1. n \in 1 .. l + 1 /\ n # l + 1
    BY <1>3, <1>4, <1>5 DEF IdxStores
  <2>2. n \in 1 .. l
    BY <1>3, <2>1
  <2> QED  BY <1>3, <1>5, <2>2 DEF IdxStores, l
<1>6. StoresMoveOn'
  BY <1>1, <1>5, <1>u DEF OrderInv, StoresMoveOn
<1>7. Indices'
  BY <1>1, <1>2, <1>u DEF OrderInv, Indices, BeingFilled
<1> QED  BY <1>1, <1>6, <1>7, <1>u DEF OrderInv, QuietHart, Batch

(* ... and then the index. *)
LEMMA StoreIdxOrder ==
  ASSUME HartTypes, LiveInv, OrderInv, StoreIdx
  PROVE  OrderInv'
<1> USE DEF Goto, locals, shared, device, devVars
<1> DEFINE s == ToIdx(Inc(OwnIdx))
           l == Len(stores)
           A(j) == Ahead(lastUsed, j)
<1>t. /\ lastUsed \in Idx /\ usedIdx \in Idx /\ availIdx \in Idx /\ snap \in Idx
      /\ OwnIdx \in Idx /\ Inc(OwnIdx) \in Idx /\ RingTypes
      /\ QueueSize \in Nat \ {0}
  BY OwnTypes, TypesToRings, IndexFacts, QueueSizeAssumption DEF HartTypes, TypeOK
<1>u. /\ UNCHANGED <<status, usedIdx, availIdx, availRing, devAvail, devDesc, snap>>
      /\ pc = "publish" /\ pc' = "next" /\ stores' = Append(stores, s)
      /\ lastUsed' = Inc(lastUsed)
  BY DEF StoreIdx
<1>1. HandedOver /\ HandedOver'
  BY <1>u, LoopHandedOver, StaysHandedOver DEF LoopPC
<1>2. OwnIdx' = Inc(OwnIdx)
  BY <1>t, <1>u, OwnStoreIdx
<1>3. /\ l \in Nat /\ Len(stores') = l + 1 /\ stores'[l + 1] = s
      /\ \A n \in 1 .. l : stores'[n] = stores[n]
  BY <1>u DEF HartTypes
<1>4. s.v = Inc(OwnIdx)
  BY DEF ToIdx
<1>5. \A j \in Idx : A(j) \in Nat /\ (A(j) >= 1 => Ahead(lastUsed', j) = A(j) - 1)
  <2>1. ASSUME NEW j \in Idx PROVE A(j) \in Nat /\ (A(j) >= 1 => Ahead(Inc(lastUsed), j) = A(j) - 1)
    BY <1>t, AheadFacts
  <2> QED  BY <1>u, <2>1
<1>6. Ahead(lastUsed', Inc(OwnIdx)) = A(OwnIdx)
  BY <1>t, <1>u, AheadFacts
<1>7. A(snap) >= 1
  <2>1. snap # lastUsed
    BY <1>u DEF OrderInv, Batch
  <2>2. Ahead(lastUsed, snap) \in Nat /\ Ahead(lastUsed, snap) # 0
    BY <1>t, <2>1, AheadFacts
  <2> QED  BY <2>2
<1>8. /\ A(OwnIdx) = QueueSize
      /\ A(snap) <= A(usedIdx)
      /\ A(usedIdx) + BeingFilled <= A(availIdx) /\ A(availIdx) <= QueueSize
      /\ BeingFilled \in {0, 1} /\ BeingFilled' = BeingFilled
  BY <1>1, <1>u DEF OrderInv, Indices, Batch, BeingFilled
<1>9. ASSUME NEW n \in IdxStores
      PROVE  /\ stores[n].v \in Idx
             /\ A(availIdx) <= A(stores[n].v) /\ A(stores[n].v) <= QueueSize
             /\ \A m \in IdxStores : m < n => A(stores[m].v) <= A(stores[n].v)
  <2>1. stores[n] \in Store /\ stores[n].to = "idx"
    BY DEF IdxStores, HartTypes
  <2> QED  BY <1>1, <2>1, StoreKinds DEF OrderInv, StoresMoveOn
<1> HIDE DEF A, s, l
<1>10. A(usedIdx) >= 1 /\ A(availIdx) >= 1
  BY <1>5, <1>7, <1>8, <1>t
<1>11. Indices'
  <2>1. Ahead(lastUsed', OwnIdx') = QueueSize
    BY <1>2, <1>6, <1>8
  <2>2. Ahead(lastUsed', usedIdx') = A(usedIdx) - 1 /\ Ahead(lastUsed', availIdx') = A(availIdx) - 1
    BY <1>5, <1>10, <1>t, <1>u
  <2>3. /\ Ahead(lastUsed', usedIdx') + BeingFilled' <= Ahead(lastUsed', availIdx')
        /\ Ahead(lastUsed', availIdx') <= QueueSize
    BY <1>5, <1>8, <1>t, <2>2
  <2>4. devAvail' = IF devDesc' = NoDesc THEN usedIdx' ELSE Inc(usedIdx')
    BY <1>1, <1>u DEF OrderInv, Indices
  <2> QED  BY <2>1, <2>3, <2>4 DEF Indices
<1>12. StoresMoveOn'
  <2>1. ASSUME NEW n \in IdxStores'
        PROVE  \/ n \in IdxStores /\ stores'[n] = stores[n] /\ n <= l
               \/ n = l + 1 /\ stores'[n].v = Inc(OwnIdx)
    <3>1. n \in 1 .. l + 1
      BY <1>3, <2>1 DEF IdxStores
    <3>2. n \in 1 .. l \/ n = l + 1
      BY <1>3, <3>1
    <3> QED  BY <1>3, <1>4, <2>1, <3>2 DEF IdxStores, l
  <2>2. ASSUME NEW n \in IdxStores
        PROVE  /\ Ahead(lastUsed', stores[n].v) = A(stores[n].v) - 1 /\ A(stores[n].v) \in Nat
    BY <1>5, <1>9, <1>10, <1>t
  <2>3. ASSUME NEW n \in IdxStores'
        PROVE  /\ Ahead(lastUsed', availIdx') <= Ahead(lastUsed', stores'[n].v)
               /\ Ahead(lastUsed', stores'[n].v) <= QueueSize
    <3>1. Ahead(lastUsed', availIdx') = A(availIdx) - 1 /\ A(availIdx) \in Nat
      BY <1>5, <1>10, <1>t, <1>u
    <3>2. CASE n \in IdxStores /\ stores'[n] = stores[n]
      BY <1>9, <1>t, <2>2, <3>1, <3>2
    <3>3. CASE stores'[n].v = Inc(OwnIdx)
      BY <1>6, <1>8, <1>t, <3>1, <3>3
    <3> QED  BY <2>1, <3>2, <3>3
  <2>4. ASSUME NEW n \in IdxStores', NEW m \in IdxStores', m < n
        PROVE  Ahead(lastUsed', stores'[m].v) <= Ahead(lastUsed', stores'[n].v)
    <3>1. m \in IdxStores /\ stores'[m] = stores[m]
      <4>1. n <= l + 1 /\ n \in Nat /\ m \in Nat
        BY <1>3, <2>1 DEF IdxStores
      <4> QED  BY <1>3, <2>1, <2>4, <4>1
    <3>2. CASE n \in IdxStores /\ stores'[n] = stores[n]
      BY <1>9, <2>2, <2>4, <3>1, <3>2
    <3>3. CASE stores'[n].v = Inc(OwnIdx)
      BY <1>6, <1>8, <1>9, <1>t, <2>2, <3>1, <3>3
    <3> QED  BY <2>1, <3>2, <3>3
  <2> QED  BY <2>3, <2>4 DEF StoresMoveOn
<1>13. Batch'
  <2>1. Ahead(lastUsed', snap') = A(snap) - 1 /\ Ahead(lastUsed', usedIdx') = A(usedIdx) - 1
    BY <1>5, <1>7, <1>10, <1>t, <1>u
  <2>2. A(snap) \in Nat /\ A(usedIdx) \in Nat
    BY <1>5, <1>t
  <2> QED  BY <1>8, <1>u, <2>1, <2>2 DEF Batch
<1> QED  BY <1>1, <1>11, <1>12, <1>13 DEF OrderInv, QuietHart

(* A store reaches memory: one to avail->idx moves it on to where the      *)
(* later ones are not before it.                                           *)
LEMMA CommitOrder ==
  ASSUME HartTypes, LiveInv, OrderInv, NEW n \in 1 .. Len(stores), Commit(n)
  PROVE  OrderInv'
<1> DEFINE l == Len(stores)
           A(j) == Ahead(lastUsed, j)
<1>u. /\ UNCHANGED <<status, pc, lastUsed, usedIdx, devAvail, devDesc, snap>>
      /\ stores' = RemoveAt(stores, n)
      /\ \A m \in 1 .. n - 1 : ~SamePlace(stores[m], stores[n])
  BY DEF Commit, locals, devVars, device
<1>t. /\ stores \in Seq(Store) /\ RingTypes /\ usedIdx \in Idx /\ lastUsed \in Idx
      /\ l \in Nat /\ n \in 1 .. l
  BY TypesToRings DEF HartTypes, TypeOK
<1>1. /\ UNCHANGED <<OwnIdx, OwnRing>> /\ RingTypes'
      /\ stores[n] \in Store
      /\ \/ stores[n].to = "ring" /\ availIdx' = availIdx
         \/ stores[n].to = "idx" /\ availIdx' = stores[n].v
  BY <1>t, OwnCommit
<1>2. HandedOver
  <2>1. stores # << >>
    BY <1>t
  <2> QED  BY <2>1 DEF OrderInv, QuietHart
<1>3. HandedOver' = HandedOver
  BY <1>u DEF HandedOver
<1>4. /\ Len(stores') = l - 1
      /\ \A i \in 1 .. n - 1 : stores'[i] = stores[i]
      /\ \A i \in n .. l - 1 : stores'[i] = stores[i + 1]
  BY <1>t, <1>u, RemoveAtShape
<1> DEFINE old(j) == IF j < n THEN j ELSE j + 1
<1>5. ASSUME NEW j \in IdxStores'
      PROVE  /\ old(j) \in IdxStores /\ stores'[j] = stores[old(j)]
             /\ old(j) # n /\ j \in Nat
  <2>1. j \in 1 .. l - 1 /\ stores'[j].to = "idx"
    BY <1>4, <1>5 DEF IdxStores
  <2>2. CASE j < n
    <3>1. j \in 1 .. n - 1 /\ j \in 1 .. l
      BY <1>t, <2>1, <2>2
    <3> QED  BY <1>4, <2>1, <2>2, <3>1 DEF IdxStores
  <2>3. CASE ~(j < n)
    <3>1. j \in n .. l - 1 /\ j + 1 \in 1 .. l /\ j + 1 # n
      BY <1>t, <2>1, <2>3
    <3> QED  BY <1>4, <2>1, <2>3, <3>1 DEF IdxStores
  <2> QED  BY <2>2, <2>3
<1> HIDE DEF l
<1>6. ASSUME NEW m \in IdxStores
      PROVE  /\ m \in Nat /\ stores[m].v \in Idx
             /\ A(availIdx) <= A(stores[m].v) /\ A(stores[m].v) <= QueueSize
             /\ \A k \in IdxStores : k < m => A(stores[k].v) <= A(stores[m].v)
  <2>1. stores[m] \in Store /\ stores[m].to = "idx" /\ m \in Nat
    BY <1>t DEF IdxStores
  <2> QED  BY <1>2, <2>1, StoreKinds DEF OrderInv, StoresMoveOn
<1>7. /\ A(OwnIdx) = QueueSize
      /\ A(usedIdx) + BeingFilled <= A(availIdx) /\ A(availIdx) <= QueueSize
      /\ BeingFilled \in {0, 1} /\ BeingFilled' = BeingFilled
      /\ devAvail = IF devDesc = NoDesc THEN usedIdx ELSE Inc(usedIdx)
  BY <1>2, <1>u DEF OrderInv, Indices, BeingFilled
<1>8. \A j \in Idx : A(j) \in Nat
  BY <1>t, AheadFacts
<1>9. QueueSize \in Nat /\ availIdx \in Idx
  BY <1>t, QueueSizeAssumption DEF RingTypes
<1> HIDE DEF A
<1>10. A(availIdx) <= A(availIdx') /\ A(availIdx') <= QueueSize /\ availIdx' \in Idx
  <2>1. CASE availIdx' = availIdx
    BY <1>7, <1>8, <1>9, <2>1
  <2>2. CASE stores[n].to = "idx" /\ availIdx' = stores[n].v
    <3>1. n \in IdxStores
      BY <2>2 DEF IdxStores
    <3> QED  BY <1>6, <2>2, <3>1
  <2> QED  BY <1>1, <2>1, <2>2
<1>11. \A j : Ahead(lastUsed', j) = A(j)
  BY <1>u DEF A
<1>12. Indices'
  <2>1. A(usedIdx) + BeingFilled <= A(availIdx')
    BY <1>7, <1>8, <1>9, <1>10, <1>t
  <2> QED  BY <1>1, <1>7, <1>10, <1>11, <1>u, <2>1 DEF Indices
<1>13. ASSUME NEW j \in IdxStores'
       PROVE  A(availIdx') <= A(stores'[j].v)
  <2>1. CASE availIdx' = availIdx
    BY <1>5, <1>6, <2>1
  <2>2. CASE stores[n].to = "idx" /\ availIdx' = stores[n].v
    <3>1. n \in IdxStores
      BY <2>2 DEF IdxStores
    <3>2. ~(old(j) < n)
      <4>1. SUFFICES ASSUME old(j) < n PROVE FALSE
        OBVIOUS
      <4>2. old(j) \in 1 .. n - 1
        BY <1>5, <1>t, <4>1 DEF IdxStores
      <4>3. stores[old(j)] \in Store /\ stores[old(j)].to = "idx"
        BY <1>5, <1>t DEF IdxStores
      <4>4. stores[old(j)].at = 0 /\ stores[n].at = 0
        BY <1>1, <2>2, <4>3, StoreKinds
      <4> QED  BY <1>u, <2>2, <4>2, <4>3, <4>4 DEF SamePlace
    <3>3. n < old(j)
      BY <1>5, <1>6, <1>t, <3>2
    <3> QED  BY <1>5, <1>6, <2>2, <3>1, <3>3
  <2> QED  BY <1>1, <2>1, <2>2
<1>14. ASSUME NEW j \in IdxStores', NEW k \in IdxStores', k < j
       PROVE  A(stores'[k].v) <= A(stores'[j].v)
  <2>1. old(k) < old(j)
    BY <1>5, <1>14, <1>t
  <2> QED  BY <1>5, <1>6, <2>1
<1>15. StoresMoveOn'
  <2>1. \A j \in IdxStores' : A(stores'[j].v) <= QueueSize
    BY <1>5, <1>6
  <2> QED  BY <1>11, <1>13, <1>14, <2>1 DEF StoresMoveOn
<1>16. Batch'
  BY <1>u DEF OrderInv, Batch
<1> QED  BY <1>2, <1>3, <1>12, <1>15, <1>16 DEF OrderInv, QuietHart

LEMMA OrderStep ==
  ASSUME HartTypes, LiveInv, OrderInv, [RelaxedNext]_relaxedVars
  PROVE  OrderInv'
<1>1. CASE Plain
  <2>1. UNCHANGED hart /\ UNCHANGED stores
    BY <1>1 DEF Plain, hart
  <2>2. CASE Setup
    BY <2>1, <2>2, SetupOrder
  <2>3. CASE PollUsed \/ Notify \/ Echo
    BY <2>1, <2>3, LoopOrder
  <2>4. CASE Device
    BY <2>1, <2>4, DeviceOrder
  <2> QED  BY <1>1, <2>2, <2>3, <2>4 DEF Plain
<1>2. CASE Loads \/ UNCHANGED relaxedVars
  <2>1. UNCHANGED <<vars, stores>>
    BY <1>2 DEF Loads, relaxedVars, hart
  <2> QED  BY <2>1, StillOrder
<1>3. CASE TakeElem
  <2>1. UNCHANGED stores
    BY <1>3 DEF TakeElem, hart
  <2> QED  BY <1>3, <2>1, LoopOrder
<1>4. CASE TakeEvent
  BY <1>4, TakeEventIs, LoopOrder
<1> QED  BY <1>1, <1>2, <1>3, <1>4, StoreRingOrder, StoreIdxOrder, CommitOrder, Steps

-------------------------------------------------------------------------------
(* What a hart that keeps its loads in order sees is VirtioKeyboard.       *)

Seen == HartTypes /\ LiveInv /\ OrderInv /\ VK!IInv /\ early = << >> /\ InItsPlace /\ EventRead

(* What the hart sees does not bear on the parts of the rings that are not *)
(* the available one.                                                      *)
LEMMA SameNames ==
  /\ VK!HandedOver <=> HandedOver
  /\ VK!Slot = Slot /\ VK!Idx = Idx /\ VK!Identity = Identity /\ VK!NoDesc = NoDesc
  /\ \A i : VK!Inc(i) = Inc(i)
  /\ \A i, k : VK!Place(i, k) = Place(i, k)
  /\ VK!BeingFilled = BeingFilled
BY DEF VK!HandedOver, HandedOver, VK!Slot, Slot, VK!Idx, Idx, VK!Identity, Identity,
       VK!NoDesc, NoDesc, VK!Inc, Inc, VK!Place, Place, VK!BeingFilled, BeingFilled

(* Its rings, as long as they are in use. *)
LEMMA SeenRings ==
  ASSUME VK!IInv, HandedOver
  PROVE  /\ OwnRing = Identity /\ desc = Identity
         /\ VK!CircleInv /\ VK!UsedInv /\ VK!BatchInv /\ VK!TypeOK /\ VK!LiveInv
BY SameNames DEF VK!IInv, VK!RingInv, VK!CircleInv

LEMMA SetupSeen ==
  ASSUME Seen, Setup, UNCHANGED hart
  PROVE  VK!Setup
<1> USE DEF Goto, VK!Goto, locals, VK!locals, shared, VK!shared, device, VK!device,
            devVars, VK!devVars, hart
<1>t. Buffered /\ UNCHANGED stores
  BY DEF Seen, HartTypes, Buffered
<1>1. CASE Probe \/ Reset \/ Acknowledge \/ SetQueue \/ DriverOk \/ Kick
  <2>1. UNCHANGED <<OwnIdx, OwnRing>>
    BY <1>t, <1>1, OwnKept DEF Probe, Reset, Acknowledge, SetQueue, DriverOk, Kick
  <2>2. CASE Probe
    BY <2>1, <2>2 DEF Probe, VK!Probe, VK!Setup
  <2>3. CASE Reset
    BY <2>1, <2>3 DEF Reset, VK!Reset, VK!Setup, NoDesc, VK!NoDesc
  <2>4. CASE Acknowledge
    BY <2>1, <2>4 DEF Acknowledge, VK!Acknowledge, VK!Setup
  <2>5. CASE SetQueue
    BY <2>1, <2>5 DEF SetQueue, VK!SetQueue, VK!Setup
  <2>6. CASE DriverOk
    BY <2>1, <2>6 DEF DriverOk, VK!DriverOk, VK!Setup
  <2>7. CASE Kick
    BY <2>1, <2>7 DEF Kick, VK!Kick, VK!Setup
  <2> QED  BY <1>1, <2>2, <2>3, <2>4, <2>5, <2>6, <2>7
<1>2. CASE FillRings \/ HandOver
  <2>1. ~HandedOver
    BY <1>2 DEF FillRings, HandOver, HandedOver
  <2>2. stores = << >> /\ stores' = << >>
    BY <1>t, <2>1 DEF Seen, OrderInv, QuietHart
  <2>3. RingTypes /\ RingTypes'
    <3>1. RingTypes
      BY TypesToRings DEF Seen
    <3>2. availIdx' \in Idx /\ availRing' \in [Slot -> Slot]
      BY <1>2, <3>1, Numbers DEF FillRings, HandOver, RingTypes, Slot
    <3> QED  BY <1>t, <3>1, <3>2 DEF RingTypes, Buffered, Slot, Store, Idx
  <2>4. OwnIdx = availIdx /\ OwnRing = availRing /\ OwnIdx' = availIdx' /\ OwnRing' = availRing'
    <3>1. SeesAll
      BY <2>2, <2>3, FencedView DEF Fenced
    <3>2. SeesAll'
      BY <2>2, <2>3, FencedViewNext DEF Fenced
    <3> QED  BY <3>1, <3>2 DEF SeesAll
  <2>5. CASE FillRings
    BY <2>4, <2>5 DEF FillRings, VK!FillRings, VK!Setup, VK!Slot, Slot
  <2>6. CASE HandOver
    BY <2>4, <2>6 DEF HandOver, VK!HandOver, VK!Setup
  <2> QED  BY <1>2, <2>5, <2>6
<1> QED  BY <1>1, <1>2 DEF Setup

(* Decoding is the same for both. *)
LEMMA DecodeSeen ==
  ASSUME NEW e, Decode(e)
  PROVE  VK!Decode(e)
BY Zenon DEF VK!Decode, Decode, VK!IsKeyEvent, IsKeyEvent, VK!IsShift, IsShift,
             VK!KeycodeToChar, KeycodeToChar, ShiftCodes, VK!ShiftCodes,
             ScancodeToChar, VK!ScancodeToChar, Mapped, VK!Mapped,
             SameShifted, VK!SameShifted, NUL, VK!NUL

LEMMA LoopSeen ==
  ASSUME Seen, PollUsed \/ Notify \/ Echo \/ TakeElem \/ TakeEvent, UNCHANGED stores
  PROVE  VK!Loop
<1> USE DEF Goto, VK!Goto, locals, VK!locals, shared, VK!shared, device, VK!device,
            devVars, VK!devVars
<1>t. Buffered
  BY DEF Seen, HartTypes, Buffered
<1>1. UNCHANGED <<OwnIdx, OwnRing>>
  <2>1. UNCHANGED <<availIdx, availRing>>
    <3>1. CASE TakeEvent
      BY <3>1, TakeEventIs
    <3>2. CASE PollUsed \/ Notify \/ Echo \/ TakeElem
      BY <3>2 DEF PollUsed, Notify, Echo, TakeElem
    <3> QED  BY <3>1, <3>2
  <2> QED  BY <1>t, <2>1, OwnKept
<1>2. CASE PollUsed
  BY <1>1, <1>2 DEF PollUsed, VK!PollUsed, VK!Loop, NUL, VK!NUL
<1>3. CASE Notify
  BY <1>1, <1>3 DEF Notify, VK!Notify, VK!Loop, NUL, VK!NUL
<1>4. CASE Echo
  BY <1>1, <1>4 DEF Echo, VK!Echo, VK!Loop
<1>5. CASE TakeElem
  <2>1. early = << >>
    BY DEF Seen
  <2> QED  BY <1>1, <1>5, <2>1 DEF TakeElem, VK!ReadElem, VK!Loop
<1>6. CASE TakeEvent
  <2>1. /\ pc = "event" /\ pc' = "recycle" /\ early = << >>
        /\ UNCHANGED <<base, snap, id, lastUsed>> /\ UNCHANGED shared /\ UNCHANGED devVars
    BY <1>6, TakeEventIs DEF Seen
  <2>2. ev' = evbuf[id] /\ (ev' # NoEvent => Decode(ev'))
    <3>1. Len(early) # 2
      BY <2>1
    <3> QED  BY <1>6, <3>1, TakeEventIs
  <2>3. evbuf[id] # NoEvent
    BY <2>1, SameConstants, VK!OldestInHand DEF Seen
  <2>4. VK!Decode(evbuf[id])
    BY <2>2, <2>3, DecodeSeen
  <2>5. VK!ReadEvent
    BY <1>1, <2>1, <2>4 DEF VK!ReadEvent
  <2> QED  BY <2>5 DEF VK!Loop
<1> QED  BY <1>2, <1>3, <1>4, <1>5, <1>6

LEMMA StoreSeen ==
  ASSUME Seen, StoreRing \/ StoreIdx
  PROVE  VK!Loop
<1> USE DEF Goto, VK!Goto, locals, VK!locals, shared, VK!shared, device, VK!device,
            devVars, VK!devVars
<1>t. RingTypes /\ OwnIdx \in Idx /\ id \in Slot
  BY TypesToRings, OwnTypes DEF Seen, HartTypes, TypeOK
<1>1. CASE StoreRing
  <2>1. OwnIdx' = OwnIdx /\ OwnRing' = [OwnRing EXCEPT ![OwnIdx % QueueSize] = id]
    BY <1>t, <1>1, IndexFacts, OwnStoreRing DEF StoreRing
  <2> QED  BY <1>1, <2>1 DEF StoreRing, VK!Recycle, VK!Loop
<1>2. CASE StoreIdx
  <2>1. OwnIdx' = Inc(OwnIdx) /\ OwnRing' = OwnRing
    BY <1>t, <1>2, IndexFacts, OwnStoreIdx DEF StoreIdx
  <2> QED  BY <1>2, <2>1, SameNames DEF StoreIdx, VK!Publish, VK!Loop
<1> QED  BY <1>1, <1>2

(* The device takes no more than memory has, and the hart has lent at      *)
(* least that; it may find less, and lose an event for it.                 *)
LEMMA DeviceSeen ==
  ASSUME Seen, Device, UNCHANGED hart, ~DeviceDrops
  PROVE  VK!Device
<1> USE DEF locals, VK!locals, shared, VK!shared, device, VK!device, devVars, VK!devVars, hart
<1>t. Buffered
  BY DEF Seen, HartTypes, Buffered
<1>1. UNCHANGED <<OwnIdx, OwnRing>>
  <2>1. UNCHANGED <<availIdx, availRing, stores>>
    BY DEF Device, EventArrives, DeviceDrops, DevicePops, DeviceWrites, DeviceReturns
  <2> QED  BY <1>t, <2>1, OwnKept
<1>2. ASSUME NEW e \in Events, EventArrives(e) PROVE VK!Device
  <2>1. VK!EventArrives(e)
    BY <1>1, <1>2 DEF EventArrives, VK!EventArrives
  <2> QED  BY <2>1 DEF VK!Device
<1>3. CASE DevicePops
  <2>1. HandedOver /\ devDesc = NoDesc /\ devAvail # availIdx
    BY <1>3 DEF DevicePops, Seen, OrderInv, QuietHart
  <2>2. OwnRing = Identity /\ availRing = Identity
    BY <2>1, SeenRings DEF Seen, InItsPlace
  <2>3. devAvail # OwnIdx
    <3>t. /\ lastUsed \in Idx /\ usedIdx \in Idx /\ availIdx \in Idx /\ QueueSize \in Nat
      BY QueueSizeAssumption DEF Seen, HartTypes, TypeOK
    <3>1. /\ Ahead(lastUsed, OwnIdx) = QueueSize /\ devAvail = usedIdx
          /\ Ahead(lastUsed, usedIdx) <= Ahead(lastUsed, availIdx)
          /\ Ahead(lastUsed, availIdx) <= QueueSize
      BY <2>1, <3>t, AheadFacts DEF Seen, OrderInv, Indices, BeingFilled
    <3>2. Ahead(lastUsed, usedIdx) # Ahead(lastUsed, availIdx)
      BY <2>1, <3>t, <3>1, IdxModAssumption DEF Ahead, Idx
    <3>3. Ahead(lastUsed, usedIdx) # QueueSize
      BY <3>t, <3>1, <3>2, AheadFacts
    <3> QED  BY <3>1, <3>3
  <2>4. VK!DevicePops
    BY <1>1, <1>3, <2>2, <2>3 DEF DevicePops, VK!DevicePops, NoDesc, VK!NoDesc, Inc, VK!Inc
  <2> QED  BY <2>4 DEF VK!Device
<1>4. CASE DeviceWrites
  <2>1. VK!DeviceWrites
    BY <1>1, <1>4 DEF DeviceWrites, VK!DeviceWrites, NoDesc, VK!NoDesc
  <2> QED  BY <2>1 DEF VK!Device
<1>5. CASE DeviceReturns
  <2>1. VK!DeviceReturns
    BY <1>1, <1>5 DEF DeviceReturns, VK!DeviceReturns, NoDesc, VK!NoDesc, Inc, VK!Inc
  <2> QED  BY <2>1 DEF VK!Device
<1> QED  BY <1>2, <1>3, <1>4, <1>5 DEF Device

(* Each step is one of VirtioKeyboard, or none, or loses an event. *)
LEMMA StepSeen ==
  ASSUME Seen, keeps.loads, [RelaxedNext]_relaxedVars
  PROVE  VK!IInv'
<1> USE DEF locals, VK!locals, shared, VK!shared, device, VK!device, devVars, VK!devVars
<1>t. VK!IInv /\ Buffered /\ RingTypes
  BY TypesToRings DEF Seen, HartTypes, Buffered
<1>1. ASSUME [VK!Next]_(VK!vars) PROVE VK!IInv'
  BY <1>t, <1>1, SameConstants, VK!InvStep
<1>2. CASE Plain
  <2>1. UNCHANGED hart /\ UNCHANGED stores
    BY <1>2 DEF Plain, hart
  <2>2. CASE Setup
    BY <1>1, <2>1, <2>2, SetupSeen DEF VK!Next
  <2>3. CASE PollUsed \/ Notify \/ Echo
    BY <1>1, <2>1, <2>3, LoopSeen DEF VK!Next
  <2>4. CASE Device /\ ~DeviceDrops
    BY <1>1, <2>1, <2>4, DeviceSeen DEF VK!Next
  <2>5. CASE DeviceDrops
    <3>1. /\ devDesc = NoDesc /\ pending' = NoEvent
          /\ UNCHANGED <<base, pc, locals, shared, status, device>>
      BY <2>5 DEF DeviceDrops
    <3>2. UNCHANGED <<OwnIdx, OwnRing>>
      BY <1>t, <2>1, <3>1, OwnKept
    <3>3. VK!NoDesc = NoDesc
      BY DEF VK!NoDesc, NoDesc
    <3> QED  BY <1>t, <3>1, <3>2, <3>3, SameConstants, VK!EventLost
  <2> QED  BY <1>2, <2>2, <2>3, <2>4, <2>5 DEF Plain
<1>3. CASE TakeElem \/ TakeEvent
  <2>1. UNCHANGED stores
    <3>1. CASE TakeElem
      BY <3>1 DEF TakeElem, hart
    <3>2. CASE TakeEvent
      BY <3>2, TakeEventIs
    <3> QED  BY <1>3, <3>1, <3>2
  <2> QED  BY <1>1, <1>3, <2>1, LoopSeen DEF VK!Next
<1>4. CASE StoreRing \/ StoreIdx
  BY <1>1, <1>4, StoreSeen DEF VK!Next
<1>5. CASE Loads \/ UNCHANGED relaxedVars
  <2>1. UNCHANGED <<vars, stores>>
    BY <1>5 DEF Loads, relaxedVars, hart
  <2>2. UNCHANGED <<availIdx, availRing, stores>>
    BY <2>1 DEF vars
  <2>3. UNCHANGED <<OwnIdx, OwnRing>>
    BY <1>t, <2>2, OwnKept
  <2> QED  BY <1>1, <2>1, <2>3 DEF vars, VK!vars
<1>6. ASSUME NEW n \in 1 .. Len(stores), Commit(n) PROVE VK!IInv'
  <2>1. UNCHANGED <<OwnIdx, OwnRing>>
    BY <1>t, <1>6, OwnCommit
  <2>2. UNCHANGED <<base, pc, locals, desc, evbuf, usedRing, usedIdx, devVars>>
    BY <1>6 DEF Commit
  <2> QED  BY <1>1, <2>1, <2>2 DEF VK!vars
<1> QED  BY <1>2, <1>3, <1>4, <1>5, <1>6, Steps

(* Neither avail->ring nor the stores on their way change. *)
LEMMA PlacesKept ==
  ASSUME InItsPlace, HandedOver' => HandedOver, UNCHANGED <<availRing, stores>>
  PROVE  InItsPlace'
BY DEF InItsPlace, Identity, Slot

(* What memory has of avail->ring stays the identity. *)
LEMMA PlaceStep ==
  ASSUME Seen, [RelaxedNext]_relaxedVars
  PROVE  InItsPlace'
<1> USE DEF Goto, locals, shared, device, devVars
<1>t. /\ RingTypes /\ Buffered /\ InItsPlace /\ stores \in Seq(Store) /\ Len(stores) \in Nat
      /\ OwnIdx \in Idx /\ id \in Slot
  BY TypesToRings, OwnTypes DEF Seen, HartTypes, Buffered, TypeOK
<1>1. CASE Setup /\ UNCHANGED hart
  <2>1. UNCHANGED stores
    BY <1>1 DEF hart
  <2>2. CASE Probe \/ Reset \/ Acknowledge \/ SetQueue \/ DriverOk \/ FillRings
    <3>1. ~HandedOver'
      BY <2>2 DEF Probe, Reset, Acknowledge, SetQueue, DriverOk, FillRings,
                  HandedOver, Seen, LiveInv
    <3> QED  BY <3>1 DEF InItsPlace
  <2>3. CASE HandOver
    <3>1. ~HandedOver /\ pc = "hand_over" /\ availRing' = availRing
      BY <2>3 DEF HandOver, HandedOver
    <3>2. stores = << >>
      BY <3>1 DEF Seen, OrderInv, QuietHart
    <3>3. OwnRing = availRing
      BY <1>t, <3>2, FencedView DEF Fenced, SeesAll
    <3>4. OwnRing = Identity
      BY <3>1, SameNames DEF Seen, VK!IInv, VK!RingInv, VK!QuietInv
    <3> QED  BY <2>1, <3>1, <3>2, <3>3, <3>4 DEF InItsPlace, Identity, Slot
  <2>4. CASE Kick
    <3>1. HandedOver /\ UNCHANGED availRing
      BY <2>4 DEF Kick, HandedOver, Seen, LiveInv
    <3> QED  BY <1>t, <2>1, <3>1, PlacesKept
  <2> QED  BY <1>1, <2>2, <2>3, <2>4 DEF Setup
<1>2. CASE (PollUsed \/ Notify \/ Echo \/ Device) /\ UNCHANGED hart
  <2>1. UNCHANGED <<availRing, status, stores>> /\ (pc' = pc \/ pc \in LoopPC)
    BY <1>2 DEF PollUsed, Notify, Echo, Device, EventArrives, DeviceDrops, DevicePops,
                DeviceWrites, DeviceReturns, hart, LoopPC
  <2>2. HandedOver' => HandedOver
    BY <2>1 DEF HandedOver, LoopPC
  <2> QED  BY <1>t, <2>1, <2>2, PlacesKept
<1>3. CASE TakeElem \/ TakeEvent
  <2>1. UNCHANGED <<availRing, status, stores>> /\ pc \in {"next", "event"}
    <3>1. CASE TakeElem
      BY <3>1 DEF TakeElem, hart
    <3>2. CASE TakeEvent
      BY <3>2, TakeEventIs
    <3> QED  BY <1>3, <3>1, <3>2
  <2>2. HandedOver' => HandedOver
    BY <2>1 DEF HandedOver
  <2> QED  BY <1>t, <2>1, <2>2, PlacesKept
<1>4. CASE Loads \/ UNCHANGED relaxedVars
  <2>1. UNCHANGED <<availRing, status, pc, stores>>
    BY <1>4 DEF Loads, relaxedVars, vars, hart
  <2>2. HandedOver' => HandedOver
    BY <2>1 DEF HandedOver
  <2> QED  BY <1>t, <2>1, <2>2, PlacesKept
<1>5. CASE StoreRing \/ StoreIdx
  <2>1. HandedOver /\ UNCHANGED availRing
    <3>1. pc \in {"recycle", "publish"} /\ UNCHANGED availRing
      BY <1>5 DEF StoreRing, StoreIdx
    <3> QED  BY <3>1, LoopHandedOver DEF Seen, LoopPC
  <2>2. PICK s \in Store : stores' = Append(stores, s) /\ (s.to = "ring" => s.v = s.at)
    <3>1. CASE StoreRing
      <4>1. pc = "recycle" /\ stores' = Append(stores, ToRing(OwnIdx % QueueSize, id))
        BY <3>1 DEF StoreRing
      <4>2. OwnIdx % QueueSize = id
        BY <2>1, <4>1, SeenRings, SameConstants, SameNames, VK!BackToItsPlace DEF Seen
      <4>3. ToRing(id, id) \in Store /\ ToRing(id, id).v = ToRing(id, id).at
        BY <1>t, StoresAre DEF ToRing
      <4> QED  BY <4>1, <4>2, <4>3
    <3>2. CASE StoreIdx
      <4>1. stores' = Append(stores, ToIdx(Inc(OwnIdx)))
        BY <3>2 DEF StoreIdx
      <4>2. ToIdx(Inc(OwnIdx)) \in Store /\ ToIdx(Inc(OwnIdx)).to = "idx"
        BY <1>t, IndexFacts, StoresAre DEF ToIdx
      <4> QED  BY <4>1, <4>2
    <3> QED  BY <1>5, <3>1, <3>2
  <2>3. ASSUME NEW n \in 1 .. Len(stores'), stores'[n].to = "ring"
        PROVE  stores'[n].v = stores'[n].at
    <3>1. (n \in 1 .. Len(stores) /\ stores'[n] = stores[n]) \/ stores'[n] = s
      BY <1>t, <2>2
    <3> QED  BY <1>t, <2>1, <2>2, <2>3, <3>1 DEF InItsPlace
  <2> QED  BY <1>t, <2>1, <2>3 DEF InItsPlace, Identity, Slot
<1>6. ASSUME NEW n \in 1 .. Len(stores), Commit(n) PROVE InItsPlace'
  <2>1. HandedOver
    <3>1. stores # << >>
      BY <1>t
    <3> QED  BY <3>1 DEF Seen, OrderInv, QuietHart
  <2>2. /\ availRing = Identity
        /\ \A m \in 1 .. Len(stores) : stores[m].to = "ring" => stores[m].v = stores[m].at
    BY <1>t, <2>1 DEF InItsPlace
  <2>3. availRing' = Identity
    <3>1. CASE stores[n].to = "ring" /\ availRing' = [availRing EXCEPT ![stores[n].at] = stores[n].v]
      <4>1. stores[n].v = stores[n].at
        BY <2>2, <3>1
      <4> QED  BY <2>2, <3>1, <4>1 DEF Identity
    <3>2. CASE availRing' = availRing
      BY <2>2, <3>2
    <3> QED  BY <1>t, <1>6, <3>1, <3>2, OwnCommit
  <2>4. /\ stores' = RemoveAt(stores, n) /\ Len(stores') = Len(stores) - 1
        /\ \A i \in 1 .. n - 1 : stores'[i] = stores[i]
        /\ \A i \in n .. Len(stores) - 1 : stores'[i] = stores[i + 1]
    BY <1>t, <1>6, RemoveAtShape DEF Commit
  <2>5. ASSUME NEW m \in 1 .. Len(stores'), stores'[m].to = "ring"
        PROVE  stores'[m].v = stores'[m].at
    <3>1. PICK k \in 1 .. Len(stores) : stores'[m] = stores[k]
      <4>1. CASE m < n
        <5>1. m \in 1 .. n - 1 /\ m \in 1 .. Len(stores)
          BY <1>t, <2>4, <4>1
        <5> QED  BY <2>4, <5>1
      <4>2. CASE ~(m < n)
        <5>1. m \in n .. Len(stores) - 1 /\ m + 1 \in 1 .. Len(stores)
          BY <1>t, <2>4, <4>2
        <5> QED  BY <2>4, <5>1
      <4> QED  BY <4>1, <4>2
    <3> QED  BY <2>2, <2>5, <3>1
  <2> QED  BY <2>3, <2>5 DEF InItsPlace, Identity, Slot
<1> QED  BY <1>1, <1>2, <1>3, <1>4, <1>5, <1>6, Steps DEF Plain

(* What was read from the buffer is still there until it is lent again:    *)
(* the device writes elsewhere.                                            *)
LEMMA EventStep ==
  ASSUME Seen, VK!IInv', [RelaxedNext]_relaxedVars
  PROVE  EventRead'
<1> USE DEF Goto, locals, shared, device, devVars
<1>t. Buffered /\ VK!IInv
  BY DEF Seen, HartTypes, Buffered
<1>1. CASE TakeEvent
  <2>1. Len(early) # 2
    BY DEF Seen
  <2> QED  BY <1>1, <2>1, TakeEventIs DEF EventRead
<1>2. CASE (Setup \/ PollUsed \/ Notify \/ Echo) \/ TakeElem \/ StoreRing \/ StoreIdx
  <2>1. pc' # "recycle"
    BY <1>2 DEF Setup, Probe, Reset, Acknowledge, SetQueue, DriverOk, FillRings, HandOver, Kick,
                PollUsed, Notify, Echo, TakeElem, StoreRing, StoreIdx
  <2> QED  BY <2>1 DEF EventRead
<1>3. CASE Loads \/ UNCHANGED relaxedVars \/ (\E n \in 1 .. Len(stores) : Commit(n))
  <2>1. UNCHANGED <<pc, ev, evbuf, id>>
    BY <1>3 DEF Loads, relaxedVars, vars, hart, Commit
  <2> QED  BY <2>1 DEF Seen, EventRead
<1>4. CASE Device /\ UNCHANGED hart
  <2>1. UNCHANGED <<pc, ev, id, availIdx, availRing, stores>>
    BY <1>4 DEF Device, EventArrives, DeviceDrops, DevicePops, DeviceWrites, DeviceReturns, hart
  <2>2. pc = "recycle" => evbuf'[id] = evbuf[id]
    <3>1. CASE DeviceWrites
      <4>1. UNCHANGED <<OwnIdx, OwnRing>>
        BY <1>t, <2>1, OwnKept
      <4>2. VK!DeviceWrites
        BY <3>1, <4>1 DEF DeviceWrites, VK!DeviceWrites, VK!locals, NoDesc, VK!NoDesc
      <4> QED  BY <1>t, <4>2, SameConstants, VK!WritesElsewhere DEF VK!Reading
    <3>2. CASE ~DeviceWrites
      BY <1>4, <3>2 DEF Device, EventArrives, DeviceDrops, DevicePops, DeviceReturns
    <3> QED  BY <3>1, <3>2
  <2> QED  BY <2>1, <2>2 DEF Seen, EventRead
<1> QED  BY <1>1, <1>2, <1>3, <1>4, Steps DEF Plain

LEMMA HartStep ==
  ASSUME HartInv, [RelaxedNext]_relaxedVars
  PROVE  HartInv'
<1>1. HartTypes' /\ LiveInv' /\ OrderInv'
  BY TypesStep, HartLiveStep, OrderStep DEF HartInv
<1>2. keeps' = keeps /\ (keeps.loads /\ early = << >> => early' = << >>)
  <2>1. CASE Plain \/ UNCHANGED relaxedVars
    BY <2>1 DEF Plain, hart, relaxedVars
  <2>2. CASE Loads
    BY <2>2 DEF Loads
  <2>3. CASE TakeEvent
    BY <2>3, TakeEventIs
  <2>4. CASE TakeElem \/ StoreRing \/ StoreIdx \/ (\E n \in 1 .. Len(stores) : Commit(n))
    BY <2>4 DEF TakeElem, StoreRing, StoreIdx, Commit, hart
  <2> QED  BY <2>1, <2>2, <2>3, <2>4, Steps
<1>3. ASSUME keeps.loads
      PROVE  VK!IInv' /\ early' = << >> /\ InItsPlace' /\ EventRead'
  <2>1. Seen
    BY <1>3 DEF HartInv, SeesKeyboard, Seen
  <2>2. VK!IInv'
    BY <1>3, <2>1, StepSeen
  <2>3. early' = << >>
    BY <1>2, <1>3, <2>1 DEF Seen
  <2> QED  BY <2>1, <2>2, <2>3, PlaceStep, EventStep
<1> QED  BY <1>1, <1>2, <1>3 DEF HartInv, SeesKeyboard

LEMMA HartStart == RelaxedInit => HartInv
<1> SUFFICES ASSUME RelaxedInit PROVE HartInv
  OBVIOUS
<1>1. /\ Init /\ keeps \in Harts /\ stores = << >> /\ early = << >> /\ ev = NoEvent
      /\ pc = "probe" /\ status = "reset"
  BY DEF RelaxedInit, Init
<1>2. TypeOK /\ LiveInv
  BY <1>1, TypeInit, InvInit DEF IInv
<1>3. HartTypes
  BY <1>1, <1>2 DEF HartTypes, EarlyShape
<1>4. ~HandedOver
  BY <1>1 DEF HandedOver
<1>5. OrderInv
  BY <1>1, <1>4 DEF OrderInv, QuietHart, Indices, StoresMoveOn, Batch, Init, InitPC
<1>6. OwnIdx = availIdx /\ OwnRing = availRing
  BY <1>1, <1>3, TypesToRings, FencedView DEF Fenced, SeesAll
<1>7. VK!Init
  BY <1>1, <1>6 DEF Init, VK!Init, VK!Slot, Slot, VK!NoDesc, NoDesc, VK!NUL, NUL
<1>8. VK!IInv
  BY <1>7, SameConstants, VK!InvInit
<1>9. InItsPlace /\ EventRead
  BY <1>1, <1>4 DEF InItsPlace, EventRead
<1> QED  BY <1>1, <1>2, <1>3, <1>5, <1>8, <1>9 DEF HartInv, SeesKeyboard

LEMMA HartInvariance == RelaxedSpec => []HartInv
<1> QED  BY HartStart, HartStep, PTL DEF RelaxedSpec

-------------------------------------------------------------------------------
(* From the invariant to the properties. *)

(* Every variable of the model, the store buffer and the early loads       *)
(* included, keeps its type, on every hart.                                *)
THEOREM RelaxedTypeCorrect == RelaxedSpec => []RelaxedTypeOK
<1>1. HartInv => RelaxedTypeOK
  <2> SUFFICES ASSUME HartInv PROVE RelaxedTypeOK
    OBVIOUS
  <2>1. /\ TypeOK /\ keeps \in Harts /\ stores \in Seq(Store) /\ EarlyShape
        /\ ev \in Events \cup {NoEvent}
    BY DEF HartInv, HartTypes
  <2>2. early = << >> \/ early \in Slot \X (Events \cup {NoEvent}) \/ (Len(early) = 1 /\ early[1] \in Slot)
    BY <2>1 DEF EarlyShape
  <2> QED  BY <2>1, <2>2 DEF RelaxedTypeOK, Store
<1> QED  BY <1>1, HartInvariance, PTL

(* How far one index is past another that is between. *)
LEMMA AheadOfThat ==
  ASSUME NEW i \in Idx, NEW j \in Idx, NEW k \in Idx, Ahead(i, j) <= Ahead(i, k)
  PROVE  Ahead(j, k) = Ahead(i, k) - Ahead(i, j)
BY IdxModAssumption DEF Ahead, Idx

(* Whatever the hart reorders, what is lent, filled and returned adds up   *)
(* to QUEUE_SIZE, and memory never offers the device more buffers than     *)
(* keyboard_read() has lent.                                               *)
THEOREM CirculationCloses == RelaxedSpec => []CirculationIsClosed
<1>1. HartInv => CirculationIsClosed
  <2> SUFFICES ASSUME HartInv, HandedOver
               PROVE  /\ Ahead(devAvail, OwnIdx) + Len(Filling) + Ahead(lastUsed, usedIdx) = QueueSize
                      /\ Ahead(devAvail, availIdx) <= Ahead(devAvail, OwnIdx)
    BY DEF CirculationIsClosed
  <2>t. /\ lastUsed \in Idx /\ usedIdx \in Idx /\ availIdx \in Idx /\ devAvail \in Idx
        /\ OwnIdx \in Idx /\ QueueSize \in Nat \ {0} /\ IdxMod \in Nat /\ QueueSize < IdxMod
    BY OwnTypes, TypesToRings, QueueSizeAssumption, IdxModAssumption
       DEF HartInv, HartTypes, TypeOK
  <2>1. /\ Ahead(lastUsed, OwnIdx) = QueueSize
        /\ devAvail = IF devDesc = NoDesc THEN usedIdx ELSE Inc(usedIdx)
        /\ Ahead(lastUsed, usedIdx) + BeingFilled <= Ahead(lastUsed, availIdx)
        /\ Ahead(lastUsed, availIdx) <= QueueSize
    BY DEF HartInv, OrderInv, Indices
  <2>2. Ahead(lastUsed, usedIdx) \in Nat /\ Ahead(lastUsed, availIdx) \in Nat
    BY <2>t, AheadFacts
  <2>3. Ahead(lastUsed, devAvail) = Ahead(lastUsed, usedIdx) + BeingFilled
    <3>1. CASE devDesc = NoDesc
      BY <2>1, <2>2, <3>1 DEF BeingFilled
    <3>2. CASE devDesc # NoDesc
      <4>1. Ahead(lastUsed, usedIdx) + 1 < IdxMod
        BY <2>t, <2>1, <2>2, <3>2 DEF BeingFilled
      <4> QED  BY <2>t, <2>1, <3>2, <4>1, AheadFacts DEF BeingFilled
    <3> QED  BY <3>1, <3>2
  <2>4. Len(Filling) = BeingFilled /\ BeingFilled \in {0, 1}
    BY DEF Filling, BeingFilled
  <2>5. Ahead(devAvail, availIdx) = Ahead(lastUsed, availIdx) - Ahead(lastUsed, devAvail)
    BY <2>t, <2>1, <2>3, AheadOfThat
  <2>6. Ahead(devAvail, OwnIdx) = QueueSize - Ahead(lastUsed, devAvail)
    <3>1. Ahead(lastUsed, devAvail) <= Ahead(lastUsed, OwnIdx)
      BY <2>t, <2>1, <2>2, <2>3, <2>4
    <3> QED  BY <2>t, <2>1, <3>1, AheadOfThat
  <2> QED  BY <2>t, <2>1, <2>2, <2>3, <2>4, <2>5, <2>6
<1> QED  BY <1>1, HartInvariance, PTL

(* Each event buffer has one owner, on every hart that keeps its loads in  *)
(* order: it sees VirtioKeyboard's rings, in which each has one.           *)
THEOREM OwnersInFlight == RelaxedSpec => []OneOwnerInFlight
<1>1. HartInv => OneOwnerInFlight
  <2> SUFFICES ASSUME HartInv, keeps.loads, HandedOver
               PROVE  LET all == Between(OwnRing, devAvail, OwnIdx) \o Filling \o Returned IN
                      /\ Len(all) = QueueSize
                      /\ {all[i] : i \in 1 .. Len(all)} = Slot
    BY DEF OneOwnerInFlight
  <2>1. VK!OneOwnerEach
    BY SameConstants, VK!Owners DEF HartInv, SeesKeyboard
  <2>2. /\ VK!Lent = Between(OwnRing, devAvail, OwnIdx)
        /\ VK!Filling = Filling /\ VK!Returned = Returned
    BY DEF VK!Lent, VK!Between, Between, VK!Ahead, Ahead, VK!Filling, Filling,
           VK!NoDesc, NoDesc, VK!Returned, Returned
  <2> QED  BY <2>1, <2>2, SameNames DEF VK!OneOwnerEach
<1> QED  BY <1>1, HartInvariance, PTL

(* On such a hart keyboard_read() decodes the oldest event that used->idx  *)
(* has announced, whatever stores are still on their way.                  *)
THEOREM OrderedLoadsDecode == RelaxedSpec => []InOrderDecodesAnnounced
<1>1. HartInv => InOrderDecodesAnnounced
  <2> SUFFICES ASSUME HartInv, keeps.loads, pc = "recycle"
               PROVE  Returned # << >> /\ id = Returned[1] /\ ev = evbuf[id]
    BY DEF InOrderDecodesAnnounced, DecodesAnnounced
  <2>1. HandedOver
    BY LoopHandedOver DEF HartInv, LoopPC
  <2>2. VK!OneOwnerEach
    BY SameConstants, VK!Owners DEF HartInv, SeesKeyboard
  <2>3. VK!Returned = Returned
    BY DEF VK!Between, Between, VK!Ahead, Ahead, VK!Returned, Returned
  <2>4. id = Returned[1]
    BY <2>1, <2>2, <2>3, SameNames DEF VK!OneOwnerEach
  <2>5. Returned # << >>
    <3>t. lastUsed \in Idx /\ usedIdx \in Idx /\ snap \in Idx /\ usedRing \in [Slot -> Slot]
      BY DEF HartInv, HartTypes, TypeOK
    <3>1. Ahead(lastUsed, snap) <= Ahead(lastUsed, usedIdx) /\ snap # lastUsed
      BY DEF HartInv, OrderInv, Batch
    <3>2. Ahead(lastUsed, usedIdx) # 0
      BY <3>t, <3>1, AheadFacts
    <3>3. Len(Returned) = Ahead(lastUsed, usedIdx)
      BY <3>t, BetweenShape DEF Returned
    <3> QED  BY <3>2, <3>3
  <2> QED  BY <2>4, <2>5 DEF HartInv, SeesKeyboard, EventRead
<1> QED  BY <1>1, HartInvariance, PTL
=============================================================================
