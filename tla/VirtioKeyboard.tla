---------------------------- MODULE VirtioKeyboard ----------------------------
(***************************************************************************)
(* The RISC-V keyboard driver, kernel/riscv/virtio.cpp, and the virtio     *)
(* input device it shares a legacy split ring with: the driver lends       *)
(* QueueSize event buffers to the device through the available ring, the   *)
(* device fills them and gives them back through the used ring, and        *)
(* keyboard_read(), polled by kernel_main for ever, decodes every event    *)
(* returned since its last call, lends the buffers again and hands back    *)
(* one character.                                                          *)
(*                                                                         *)
(* Driver and device run concurrently.  Each step of either is one access  *)
(* to the memory they share, with the private work that follows it.        *)
(***************************************************************************)
EXTENDS Scancode, Sequences

CONSTANTS QueueSize,   \* QUEUE_SIZE, 128 in the code
          IdxMod,      \* the ring indices are uint16_t: 2^16 in the code
          Events,      \* the input events the device may report
          NoEvent      \* no event

Event == [type : 0 .. 4, code : 0 .. 767, value : 0 .. 2]

ASSUME QueueSizeAssumption == QueueSize \in Nat \ {0}
ASSUME IdxModAssumption ==
    IdxMod \in Nat /\ IdxMod > QueueSize /\ IdxMod % QueueSize = 0
ASSUME EventsAssumption == Events \subseteq Event /\ NoEvent \notin Event

VARIABLES
    base,        \* "null", or "dev" when the probe found the keyboard
    pc,          \* where the driver is
    snap,        \* keyboard_read()'s local used_idx
    id,          \* keyboard_read()'s local id
    out,         \* keyboard_read()'s local out
    shift,       \* the shift flag
    lastUsed,    \* last_used
    desc,        \* the descriptor table: which event buffer each one names
    evbuf,       \* the event buffers
    availRing, availIdx,       \* the available ring, written by the driver
    usedRing, usedIdx,         \* the used ring, written by the device
    status,      \* the device's status register
    pending,     \* the event the device has to report, or NoEvent
    devAvail,    \* how much of the available ring the device has taken
    devDesc,     \* the descriptor the device is filling, or NoDesc
    devFilled    \* has it been filled?

locals  == <<snap, id, out, shift, lastUsed>>
shared  == <<desc, evbuf, availRing, availIdx, usedRing, usedIdx>>
device  == <<devAvail, devDesc, devFilled>>
devVars == <<status, pending, device>>
vars    == <<base, pc, locals, shared, devVars>>

Slot   == 0 .. QueueSize - 1
Idx    == 0 .. IdxMod - 1
NoDesc == -1

(* Mutant: the index has more than 16 bits. *)
Inc_NoWrap(i) == i + 1

(* uint16_t increment *)
Inc(i) == (i + 1) % IdxMod

InitPC == {"probe", "reset", "ack", "queue", "driver_ok", "fill", "hand_over", "kick"}
LoopPC == {"poll", "next", "event", "recycle", "publish", "notify", "echo"}

(* The status register's values, in the order the driver writes them. *)
Status == {"reset", "driver", "driver_ok"}

Init ==
    /\ base = "null"
    /\ pc = "probe"
    /\ snap = 0 /\ id = 0 /\ out = NUL /\ shift = FALSE /\ lastUsed = 0
    /\ desc = [i \in Slot |-> NoDesc]                   \* .bss, zeroed
    /\ evbuf = [i \in Slot |-> NoEvent]
    /\ availRing = [i \in Slot |-> 0] /\ availIdx = 0
    /\ usedRing  = [i \in Slot |-> 0] /\ usedIdx  = 0
    /\ status = "reset"
    /\ pending = NoEvent
    /\ devAvail = 0 /\ devDesc = NoDesc /\ devFilled = FALSE

Goto(from, to) == pc = from /\ pc' = to

-------------------------------------------------------------------------------
(* keyboard_init().  kernel_main ignores what it returns, so each failure  *)
(* leads to the polling loop as success does.                              *)

(* Scan the sixteen virtio-mmio slots: the keyboard is there or it is not. *)
Probe ==
    /\ \/ Goto("probe", "reset") /\ base' = "dev"
       \/ Goto("probe", "poll")  /\ base' = "null"
    /\ UNCHANGED <<locals, shared, devVars>>

Reset ==
    /\ Goto("reset", "ack")
    /\ status' = "reset"
    /\ devAvail' = 0 /\ devDesc' = NoDesc /\ devFilled' = FALSE
    /\ UNCHANGED <<base, locals, shared, pending>>

(* ACK | DRIVER, and no optional features. *)
Acknowledge ==
    /\ Goto("ack", "queue")
    /\ status' = "driver"
    /\ UNCHANGED <<base, locals, shared, pending, device>>

(* The device's largest queue may be too small for QUEUE_SIZE; otherwise   *)
(* it is told where the ring is.                                           *)
SetQueue ==
    /\ Goto("queue", "driver_ok") \/ Goto("queue", "poll")
    /\ UNCHANGED <<base, locals, shared, devVars>>

(* DRIVER_OK: from here on the device reports events. *)
DriverOk ==
    /\ Goto("driver_ok", "fill")
    /\ status' = "driver_ok"
    /\ UNCHANGED <<base, locals, shared, pending, device>>

(* queue_setup() up to its first fence.  The device does not look at what  *)
(* it fills: the available index is 0, and 0 is what the device has taken. *)
FillRings ==
    /\ Goto("fill", "hand_over")
    /\ desc' = [i \in Slot |-> i]
    /\ availRing' = [i \in Slot |-> i]
    /\ availIdx' = 0 /\ usedIdx' = 0 /\ lastUsed' = 0
    /\ UNCHANGED <<base, snap, id, out, shift, evbuf, usedRing, devVars>>

(* avail->idx = QUEUE_SIZE *)
HandOver ==
    /\ Goto("hand_over", "kick")
    /\ availIdx' = QueueSize
    /\ UNCHANGED <<base, locals, desc, evbuf, availRing, usedRing, usedIdx, devVars>>

(* The first notification; keyboard_init() returns. *)
Kick ==
    /\ Goto("kick", "poll")
    /\ UNCHANGED <<base, locals, shared, devVars>>

Setup == Probe \/ Reset \/ Acknowledge \/ SetQueue \/ DriverOk \/ FillRings
         \/ HandOver \/ Kick

-------------------------------------------------------------------------------
(* keyboard_read().                                                        *)

(* keycode_to_char: below 128 the Linux key codes are those of scancode    *)
(* set 1, and the two drivers have the same layout.                        *)
KeycodeToChar(code, sh) == ScancodeToChar(code, sh)

IsKeyEvent(ev) == ev.type = 1                      \* EV_KEY
IsShift(ev)    == ev.code \in ShiftCodes           \* KEY_LEFTSHIFT, KEY_RIGHTSHIFT

(* Mutant: a call that finds nothing goes on to notify the device. *)
PollUsed_NoReturn ==
    /\ pc = "poll"
    /\ out' = NUL
    /\ snap' = usedIdx
    /\ pc' = "next"
    /\ UNCHANGED <<base, id, shift, lastUsed, shared, devVars>>

(* Read used->idx; return 0 when the device has returned nothing. *)
PollUsed ==
    /\ pc = "poll"
    /\ usedIdx # lastUsed
    /\ snap' = usedIdx
    /\ out' = NUL
    /\ pc' = "next"
    /\ UNCHANGED <<base, id, shift, lastUsed, shared, devVars>>

(* Mutant: the loop condition reads used->idx again. *)
ReadElem_Reread ==
    /\ pc = "next"
    /\ IF lastUsed # usedIdx
       THEN pc' = "event" /\ id' = usedRing[lastUsed % QueueSize]
       ELSE pc' = "notify" /\ UNCHANGED id
    /\ UNCHANGED <<base, snap, out, shift, lastUsed, shared, devVars>>

(* while (last_used != used_idx): id = used->ring[last_used % QUEUE_SIZE].id *)
ReadElem ==
    /\ pc = "next"
    /\ IF lastUsed # snap
       THEN pc' = "event" /\ id' = usedRing[lastUsed % QueueSize]
       ELSE pc' = "notify" /\ UNCHANGED id
    /\ UNCHANGED <<base, snap, out, shift, lastUsed, shared, devVars>>

(* What an event does to the shift flag and to out.  A key press replaces  *)
(* what an earlier press of the same call put there.                       *)
Decode(ev) ==
    CASE IsKeyEvent(ev) /\ IsShift(ev) ->
           shift' = (ev.value # 0) /\ UNCHANGED out
      [] IsKeyEvent(ev) /\ ~IsShift(ev) /\ ev.value = 1 ->
           out' = KeycodeToChar(ev.code, shift) /\ UNCHANGED shift
      [] OTHER -> UNCHANGED <<out, shift>>

(* ev = evbuf[id] *)
ReadEvent ==
    /\ Goto("event", "recycle")
    /\ Decode(evbuf[id])
    /\ UNCHANGED <<base, snap, id, lastUsed, shared, devVars>>

(* Mutant: the buffer is lent again in the place of the one before. *)
Recycle_Behind ==
    /\ Goto("recycle", "publish")
    /\ availRing' = [availRing EXCEPT ![(availIdx + QueueSize - 1) % QueueSize] = id]
    /\ UNCHANGED <<base, locals, desc, evbuf, availIdx, usedRing, usedIdx, devVars>>

(* avail->ring[avail->idx % QUEUE_SIZE] = id *)
Recycle ==
    /\ Goto("recycle", "publish")
    /\ availRing' = [availRing EXCEPT ![availIdx % QueueSize] = id]
    /\ UNCHANGED <<base, locals, desc, evbuf, availIdx, usedRing, usedIdx, devVars>>

(* Mutant: the buffer is never lent again. *)
Publish_Leak ==
    /\ Goto("publish", "next")
    /\ lastUsed' = Inc(lastUsed)
    /\ UNCHANGED <<base, snap, id, out, shift, shared, devVars>>

(* Mutant: last_used jumps to the end of the batch. *)
Publish_Jump ==
    /\ Goto("publish", "next")
    /\ availIdx' = Inc(availIdx)
    /\ lastUsed' = snap
    /\ UNCHANGED <<base, snap, id, out, shift, desc, evbuf, availRing, usedRing, usedIdx, devVars>>

(* avail->idx++; last_used++ (which only the driver sees) *)
Publish ==
    /\ Goto("publish", "next")
    /\ availIdx' = Inc(availIdx)
    /\ lastUsed' = Inc(lastUsed)
    /\ UNCHANGED <<base, snap, id, out, shift, desc, evbuf, availRing, usedRing, usedIdx, devVars>>

(* Write the device's QUEUE_NOTIFY register; return out. *)
Notify ==
    /\ pc = "notify"
    /\ pc' = IF out # NUL THEN "echo" ELSE "poll"
    /\ UNCHANGED <<base, locals, shared, devVars>>

(* kernel_main prints the character. *)
Echo ==
    /\ Goto("echo", "poll")
    /\ UNCHANGED <<base, locals, shared, devVars>>

Loop == PollUsed \/ ReadElem \/ ReadEvent \/ Recycle \/ Publish \/ Notify \/ Echo

-------------------------------------------------------------------------------
(* External: the virtio input device, as the driver's code relies on it.   *)

EventArrives(ev) ==
    /\ pending = NoEvent
    /\ pending' = ev
    /\ UNCHANGED <<base, pc, locals, shared, status, device>>

(* Nobody listens, or no buffer is lent: the event is lost. *)
DeviceDrops ==
    /\ pending # NoEvent /\ devDesc = NoDesc
    /\ status # "driver_ok" \/ devAvail = availIdx
    /\ pending' = NoEvent
    /\ UNCHANGED <<base, pc, locals, shared, status, device>>

(* The device takes the next descriptor lent to it. *)
DevicePops ==
    /\ pending # NoEvent /\ devDesc = NoDesc
    /\ status = "driver_ok" /\ devAvail # availIdx
    /\ devDesc' = availRing[devAvail % QueueSize]
    /\ devAvail' = Inc(devAvail)
    /\ UNCHANGED <<base, pc, locals, shared, status, pending, devFilled>>

(* It fills the buffer and the next element of the used ring ... *)
DeviceWrites ==
    /\ devDesc # NoDesc /\ ~devFilled
    /\ evbuf' = [evbuf EXCEPT ![desc[devDesc]] = pending]
    /\ usedRing' = [usedRing EXCEPT ![usedIdx % QueueSize] = devDesc]
    /\ devFilled' = TRUE
    /\ UNCHANGED <<base, pc, locals, desc, availRing, availIdx, usedIdx,
                   status, pending, devAvail, devDesc>>

(* ... and only then moves the used index on. *)
DeviceReturns ==
    /\ devFilled
    /\ usedIdx' = Inc(usedIdx)
    /\ devDesc' = NoDesc /\ devFilled' = FALSE /\ pending' = NoEvent
    /\ UNCHANGED <<base, pc, locals, desc, evbuf, availRing, availIdx, usedRing,
                   status, devAvail>>

Device == (\E ev \in Events : EventArrives(ev)) \/ DeviceDrops \/ DevicePops
          \/ DeviceWrites \/ DeviceReturns

-------------------------------------------------------------------------------
Next == Setup \/ Loop \/ Device

Spec == Init /\ [][Next]_vars

(* The kernel runs nothing but this loop, with no interrupt enabled.  The  *)
(* device and its user owe nothing.                                        *)
FairSpec == Spec /\ WF_vars(Setup \/ Loop)

-------------------------------------------------------------------------------
(* Properties.                                                             *)

TypeOK ==
    /\ base \in {"null", "dev"}
    /\ pc \in InitPC \cup LoopPC
    /\ snap \in Idx /\ id \in Slot /\ out \in Char /\ shift \in BOOLEAN
    /\ lastUsed \in Idx
    /\ desc \in [Slot -> Slot \cup {NoDesc}]
    /\ evbuf \in [Slot -> Events \cup {NoEvent}]
    /\ availRing \in [Slot -> Slot] /\ availIdx \in Idx
    /\ usedRing \in [Slot -> Slot] /\ usedIdx \in Idx
    /\ status \in Status
    /\ pending \in Events \cup {NoEvent}
    /\ devAvail \in Idx /\ devDesc \in Slot \cup {NoDesc} /\ devFilled \in BOOLEAN

(* The rings are in use: queue_setup() has handed the buffers over. *)
HandedOver == status = "driver_ok" /\ pc \notin {"fill", "hand_over"}

(* How far an index is ahead of another, and what a ring holds between them. *)
Ahead(i, j) == IF i <= j THEN j - i ELSE j + IdxMod - i
Between(ring, i, j) == [k \in 1 .. Ahead(i, j) |-> ring[(i + k - 1) % QueueSize]]

Lent     == Between(availRing, devAvail, availIdx)
Filling  == IF devDesc = NoDesc THEN << >> ELSE <<devDesc>>
Returned == Between(usedRing, lastUsed, usedIdx)

(* Each event buffer has one owner, and none is ever lost: it is lent and  *)
(* waits for the device, or the device fills it, or it waits for the       *)
(* driver.  The one the driver works on is the oldest of these.  So the    *)
(* device never writes a buffer that keyboard_read() is reading, also when *)
(* the 16-bit indices have wrapped.                                        *)
OneOwnerEach ==
    HandedOver =>
        LET all == Lent \o Filling \o Returned IN
        /\ Len(all) = QueueSize
        /\ {all[i] : i \in 1 .. Len(all)} = Slot
        /\ pc \in {"event", "recycle", "publish"} => id = Returned[1]

(* keyboard_init() may fail, and nothing tells keyboard_read(): it still   *)
(* writes the notify register only when the probe has found the device and *)
(* brought it up, never through a null base.                               *)
NotifiesLiveDevice ==
    pc = "notify" => base = "dev" /\ status = "driver_ok"

(* The split ring is a FIFO queue of QUEUE_SIZE places: events reach       *)
(* keyboard_read() once each, in the order the device reported them, and   *)
(* once the queue is set up the device drops an event only when every      *)
(* buffer holds one.                                                       *)
Reading == pc \in {"recycle", "publish"}
Waiting == [k \in 1 .. Len(Returned) |-> evbuf[Returned[k]]]

Fifo == INSTANCE BoundedFifo
          WITH Values    <- Events,
               None      <- NoEvent,
               Capacity  <- QueueSize,
               HoldsSlot <- TRUE,
               port      <- IF HandedOver THEN pending ELSE NoEvent,
               q         <- IF Reading THEN Tail(Waiting) ELSE Waiting,
               hand      <- IF Reading THEN evbuf[id] ELSE NoEvent

RingIsFifo == Fifo!Spec

(* A key that keyboard_read() has decoded is printed: nothing replaces it  *)
(* before the call returns it.  README.MD:24 says the kernel "echoes keys  *)
(* typed on the virtio-keyboard device".                                   *)
EchoesTypedKeys == [][out # NUL /\ out' # out => pc = "poll"]_vars

(* keyboard_read() returns, however fast the device reports events. *)
ReadReturns == (pc \in LoopPC \ {"poll"}) ~> (pc = "poll")

(* A device that has run out of buffers gets one back. *)
BuffersComeBack ==
    (HandedOver /\ Lent = << >> /\ Filling = << >>) ~> (Lent # << >>)
===============================================================================
