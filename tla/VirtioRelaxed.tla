---------------------------- MODULE VirtioRelaxed ----------------------------
(***************************************************************************)
(* keyboard_read() of kernel/riscv/virtio.cpp on a hart that does not do   *)
(* its memory accesses in program order.  VirtioKeyboard has every access  *)
(* take effect at once; here the two stores that lend a buffer again wait  *)
(* in the hart's store buffer, and the loads of the used element and of    *)
(* the event may be done ahead of the load of used->idx.                   *)
(*                                                                         *)
(* The code has a fence before the load of used->idx and one after the     *)
(* loop, and none in between.  What may be reordered between the two is    *)
(* the memory model's choice: RVWMO (RISC-V) keeps neither two stores nor  *)
(* two independent loads in order; a hart with total store order, as QEMU  *)
(* emulates it on an x86 host, keeps both.  Either keeps a load that       *)
(* depends on the value of another behind it (the event's on the used      *)
(* element's), and the stores behind the loads whose values decide them.   *)
(*                                                                         *)
(* Only the first element of a batch, with its event, is ever loaded ahead *)
(* here; RVWMO would let the loads of later rounds of the loop go first as *)
(* well.                                                                   *)
(***************************************************************************)
EXTENDS VirtioKeyboard, SequencesExt

(* Which harts it may run on: does the hart keep independent loads in      *)
(* program order, and stores to different places?                          *)
CONSTANT Harts

ASSUME HartsAssumption == Harts \subseteq [loads : BOOLEAN, stores : BOOLEAN]

VARIABLES keeps,     \* what the hart keeps in order
          stores,    \* the hart's stores that memory does not have yet, oldest first
          early,     \* what it has loaded ahead: << >>, <<id>> or <<id, event>>
          ev         \* keyboard_read()'s local ev

hart        == <<keeps, stores, early, ev>>
relaxedVars == <<vars, hart>>

NoStores == stores = << >>

RelaxedInit == Init /\ keeps \in Harts /\ stores = << >> /\ early = << >> /\ ev = NoEvent

-------------------------------------------------------------------------------
(* External: the hart.                                                     *)

(* A store: to a place of avail->ring, or to avail->idx. *)
ToRing(at, v) == [to |-> "ring", at |-> at, v |-> v]
ToIdx(v)      == [to |-> "idx", at |-> 0, v |-> v]

SamePlace(s, t) == s.to = t.to /\ s.at = t.at

(* A store reaches memory: never before an older one to the same place.    *)
Commit(n) ==
    /\ keeps.stores => n = 1
    /\ \A m \in 1 .. n - 1 : ~SamePlace(stores[m], stores[n])
    /\ LET s == stores[n] IN
       IF s.to = "ring"
       THEN availRing' = [availRing EXCEPT ![s.at] = s.v] /\ UNCHANGED availIdx
       ELSE availIdx' = s.v /\ UNCHANGED availRing
    /\ stores' = RemoveAt(stores, n)
    /\ UNCHANGED <<base, pc, locals, desc, evbuf, usedRing, usedIdx, devVars, keeps, early, ev>>

(* What the hart itself sees of the memory it has written. *)
LastTo(s0, default) ==
    LET ns == {n \in 1 .. Len(stores) : SamePlace(stores[n], s0)} IN
    IF ns = {} THEN default ELSE stores[CHOOSE n \in ns : \A m \in ns : m <= n].v

OwnIdx  == LastTo(ToIdx(0), availIdx)
OwnRing == [i \in Slot |-> LastTo(ToRing(i, 0), availRing[i])]

(* Past the fence, the hart loads the next used element, and the event it  *)
(* names, before it loads used->idx.                                       *)
LoadElemEarly ==
    /\ ~keeps.loads /\ pc = "poll" /\ early = << >>
    /\ early' = <<usedRing[lastUsed % QueueSize]>>
    /\ UNCHANGED <<vars, keeps, stores, ev>>

LoadEventEarly ==
    /\ ~keeps.loads /\ pc = "poll" /\ Len(early) = 1
    /\ early' = Append(early, evbuf[early[1]])
    /\ UNCHANGED <<vars, keeps, stores, ev>>

Hart == (\E n \in 1 .. Len(stores) : Commit(n)) \/ LoadElemEarly \/ LoadEventEarly

-------------------------------------------------------------------------------
(* keyboard_init(), in program order: a simplification, as its fences      *)
(* (rw,rw) order accesses to memory but not those to the device.           *)

Probing == Setup /\ UNCHANGED hart

(* keyboard_read().                                                        *)

(* The fence, and the load of used->idx. *)
Poll == PollUsed /\ NoStores /\ UNCHANGED hart

(* Nothing has been returned: the next call's fence undoes the early loads.*)
PollNothing ==
    /\ pc = "poll" /\ NoStores /\ usedIdx = lastUsed
    /\ early' = << >>
    /\ UNCHANGED <<vars, keeps, stores, ev>>

(* Mutant: the loop goes on for one element more than was returned. *)
TakeElem_OneMore ==
    /\ pc = "next"
    /\ IF lastUsed # Inc(snap)
       THEN pc' = "event" /\ id' = IF early = << >> THEN usedRing[lastUsed % QueueSize] ELSE early[1]
       ELSE pc' = "notify" /\ UNCHANGED id
    /\ UNCHANGED <<base, snap, out, shift, lastUsed, shared, devVars, hart>>

TakeElem ==
    /\ pc = "next"
    /\ IF lastUsed # snap
       THEN pc' = "event" /\ id' = IF early = << >> THEN usedRing[lastUsed % QueueSize] ELSE early[1]
       ELSE pc' = "notify" /\ UNCHANGED id
    /\ UNCHANGED <<base, snap, out, shift, lastUsed, shared, devVars, hart>>

TakeEvent ==
    /\ Goto("event", "recycle")
    /\ ev' = IF Len(early) = 2 THEN early[2] ELSE evbuf[id]
    /\ early' = << >>
    /\ IF ev' = NoEvent THEN UNCHANGED <<out, shift>> ELSE Decode(ev')
    /\ UNCHANGED <<base, snap, id, lastUsed, shared, devVars, keeps, stores>>

(* Mutant: the buffer is lent again in the place of the one before. *)
StoreRing_Behind ==
    /\ Goto("recycle", "publish")
    /\ stores' = Append(stores, ToRing((OwnIdx + QueueSize - 1) % QueueSize, id))
    /\ UNCHANGED <<base, locals, shared, devVars, keeps, early, ev>>

(* avail->ring[avail->idx % QUEUE_SIZE] = id *)
StoreRing ==
    /\ Goto("recycle", "publish")
    /\ stores' = Append(stores, ToRing(OwnIdx % QueueSize, id))
    /\ UNCHANGED <<base, locals, shared, devVars, keeps, early, ev>>

(* Mutant: what was consumed is published, not what is lent. *)
StoreIdx_LastUsed ==
    /\ Goto("publish", "next")
    /\ stores' = Append(stores, ToIdx(Inc(lastUsed)))
    /\ lastUsed' = Inc(lastUsed)
    /\ UNCHANGED <<base, snap, id, out, shift, shared, devVars, keeps, early, ev>>

(* avail->idx++; last_used++ *)
StoreIdx ==
    /\ Goto("publish", "next")
    /\ stores' = Append(stores, ToIdx(Inc(OwnIdx)))
    /\ lastUsed' = Inc(lastUsed)
    /\ UNCHANGED <<base, snap, id, out, shift, shared, devVars, keeps, early, ev>>

(* The fence after the loop, and the notification. *)
FenceAndNotify == Notify /\ NoStores /\ UNCHANGED hart

EchoChar == Echo /\ UNCHANGED hart

Read == Poll \/ PollNothing \/ TakeElem \/ TakeEvent \/ StoreRing \/ StoreIdx
        \/ FenceAndNotify \/ EchoChar

-------------------------------------------------------------------------------
DeviceSteps == Device /\ UNCHANGED hart

RelaxedNext == Probing \/ Read \/ Hart \/ DeviceSteps

RelaxedSpec == RelaxedInit /\ [][RelaxedNext]_relaxedVars

-------------------------------------------------------------------------------
(* Properties.                                                             *)

RelaxedTypeOK ==
    /\ TypeOK /\ keeps \in Harts
    /\ stores \in Seq([to : {"ring"}, at : Slot, v : Slot] \cup [to : {"idx"}, at : {0}, v : Idx])
    /\ early = << >> \/ early \in Slot \X (Events \cup {NoEvent}) \/ (Len(early) = 1 /\ early[1] \in Slot)
    /\ ev \in Events \cup {NoEvent}

(* Each event buffer has one owner, the stores on their way included, on   *)
(* a hart that keeps its loads in order, whatever it does to stores: the   *)
(* device fills only a buffer that keyboard_read() has given back in that  *)
(* place of the ring ("Recycle this descriptor back to the device.",       *)
(* virtio.cpp:267), never one that waits for the driver.  No fence keeps   *)
(* the store to avail->ring before the one to avail->idx; it holds all the *)
(* same, since this device returns the buffers in the order it took them,  *)
(* so that a buffer goes back into the place it came from and what the     *)
(* device finds there too early is already right.                          *)
OneOwnerInFlight ==
    keeps.loads /\ HandedOver =>
        LET all == Between(OwnRing, devAvail, OwnIdx) \o Filling \o Returned IN
        /\ Len(all) = QueueSize
        /\ {all[i] : i \in 1 .. Len(all)} = Slot

(* keyboard_read() decodes the oldest event that was returned to it and no *)
(* other: the element it takes and the event it reads are the ones that    *)
(* used->idx announces.                                                    *)
DecodesAnnounced ==
    pc = "recycle" => Returned # << >> /\ id = Returned[1] /\ ev = evbuf[id]

(* It does on every hart that keeps its loads in order: the stores it has  *)
(* not done yet when it polls again are none of the loads' business.       *)
InOrderDecodesAnnounced == keeps.loads => DecodesAnnounced

(* Whatever the hart reorders, the number of places in circulation stays   *)
(* QUEUE_SIZE, and the device never sees more of them lent than there are: *)
(* what goes wrong is which buffer is lent, never how many.                *)
CirculationIsClosed ==
    HandedOver =>
        /\ Ahead(devAvail, OwnIdx) + Len(Filling) + Ahead(lastUsed, usedIdx) = QueueSize
        /\ Ahead(devAvail, availIdx) <= Ahead(devAvail, OwnIdx)
===============================================================================
