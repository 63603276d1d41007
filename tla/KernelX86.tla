------------------------------ MODULE KernelX86 ------------------------------
(***************************************************************************)
(* The x86-64 kernel around the keyboard driver: kernel_main brings up the *)
(* interrupt table, the 8259 interrupt controller and the driver and       *)
(* enables interrupts; then every byte from the keyboard travels           *)
(* controller -> 8259 -> CPU -> stub -> interrupt_dispatcher ->            *)
(* keyboard::irq_handler -> ring -> keyboard::read.                        *)
(*                                                                         *)
(* Here the handler is as many steps as it has accesses to the ring or to  *)
(* a port.  The interrupt gate keeps it from being interrupted, but the    *)
(* keyboard goes on sending while it runs.  The main program's part of the *)
(* driver is taken from KeyboardRing; that the handler as a whole is the   *)
(* one step KeyboardRing takes it for is the property HandlerIsAtomic.     *)
(***************************************************************************)
EXTENDS Scancode

CONSTANTS BufSize, Keys,   \* of the driver
          EarlyKeys        \* may a byte arrive before the 8259 is initialised?

ASSUME RingHasPlaces == BufSize \in Nat /\ BufSize > 1
ASSUME KeysAreBytes == Keys \subseteq Byte
ASSUME EarlyKeysAssumption == EarlyKeys \in BOOLEAN

VARIABLES
    port, buf, head, tail, shift, pc, sc, ret,    \* of KeyboardRing
    boot,        \* where kernel_main is before its loop; "run" from then on
    gates,       \* are the gates in idt_table filled in?
    idt,         \* has the CPU been told of idt_table (lidt)?
    handlers,    \* the dispatcher's table, for the vectors of Vectors
    offset,      \* the 8259's vector for IRQ 0
    irr, isr, imr,   \* its request, in-service and mask registers
    ifl,         \* the CPU's interrupt flag
    hpc,         \* where the interrupt's handling is; "none" outside
    vector,      \* frame->vector
    byte,        \* the byte irq_handler has read
    nxt          \* push_scancode()'s local next

kbVars    == <<port, buf, head, tail, shift, pc, sc, ret>>
bootVars  == <<boot, gates, idt, handlers>>
picVars   == <<offset, irr, isr, imr>>
frameVars == <<ifl, hpc, vector, byte, nxt>>
vars      == <<kbVars, bootVars, picVars, frameVars>>

Driver == INSTANCE KeyboardRing

IRQs     == {0, 1, 7}          \* timer, keyboard, and the 8259's spurious one
BiosBase == 8
Base     == 32                 \* 0x20
Vectors  == {BiosBase + i : i \in IRQs} \cup {Base + i : i \in IRQs}

BootSteps == <<"gates", "defaults", "icw1", "offset", "mask", "lidt",
               "keyboard", "handler", "unmask", "sti", "run">>
BootPC    == {BootSteps[i] : i \in DOMAIN BootSteps}
HandlerPC == {"none", "dispatch", "status", "data", "test", "store", "move",
              "unhandled", "eoi", "iret"}

(* The firmware leaves its own vectors, the timer and the keyboard         *)
(* unmasked; the boot code has executed cli.                               *)
Init ==
    /\ Driver!Init
    /\ boot = "gates" /\ gates = FALSE /\ idt = FALSE
    /\ handlers = [v \in Vectors |-> "none"]
    /\ offset = BiosBase /\ irr = {} /\ isr = {} /\ imr = {}
    /\ ifl = FALSE /\ hpc = "none" /\ vector = 0 /\ byte = 0 /\ nxt = 0

-------------------------------------------------------------------------------
(* kernel_main up to its loop.                                             *)

Then(from, to) == /\ boot = from /\ boot' = to
                  /\ hpc = "none"
                  /\ UNCHANGED <<kbVars, hpc, vector, byte, nxt>>

(* idt::init fills the gates ... *)
SetGates ==
    /\ Then("gates", "defaults")
    /\ gates' = TRUE
    /\ UNCHANGED <<idt, handlers, picVars, ifl>>

(* ... registers a default handler for the exceptions ... *)
RegisterDefaults ==
    /\ Then("defaults", "icw1")
    /\ handlers' = [v \in Vectors |-> IF v < 32 THEN "default" ELSE handlers[v]]
    /\ UNCHANGED <<gates, idt, picVars, ifl>>

(* ... and begins to initialise the 8259: ICW1 clears its registers, and a *)
(* request line that is already high no longer counts as an edge.          *)
Icw1 ==
    /\ Then("icw1", "offset")
    /\ irr' = {} /\ isr' = {}
    /\ UNCHANGED <<gates, idt, handlers, offset, imr, ifl>>

(* ICW2 to ICW4, and the masks that were read at the start. *)
SetOffset ==
    /\ Then("offset", "mask")
    /\ offset' = Base
    /\ UNCHANGED <<gates, idt, handlers, irr, isr, imr, ifl>>

(* Mutant: mask_all is forgotten. *)
MaskAll_Skip ==
    /\ Then("mask", "lidt")
    /\ UNCHANGED <<gates, idt, handlers, picVars, ifl>>

(* pic::mask_all *)
MaskAll ==
    /\ Then("mask", "lidt")
    /\ imr' = IRQs
    /\ UNCHANGED <<gates, idt, handlers, offset, irr, isr, ifl>>

LoadIdt ==
    /\ Then("lidt", "keyboard")
    /\ idt' = TRUE
    /\ UNCHANGED <<gates, handlers, picVars, ifl>>

(* keyboard::init enables the keyboard, which the firmware had enabled. *)
KeyboardInit ==
    /\ Then("keyboard", "handler")
    /\ UNCHANGED <<gates, idt, handlers, picVars, ifl>>

(* interrupt::register_handler(33, keyboard::irq_handler) *)
RegisterHandler ==
    /\ Then("handler", "unmask")
    /\ handlers' = [handlers EXCEPT ![33] = "keyboard"]
    /\ UNCHANGED <<gates, idt, picVars, ifl>>

(* pic::unmask(1) *)
Unmask ==
    /\ Then("unmask", "sti")
    /\ imr' = imr \ {1}
    /\ UNCHANGED <<gates, idt, handlers, offset, irr, isr, ifl>>

Sti ==
    /\ Then("sti", "run")
    /\ ifl' = TRUE
    /\ UNCHANGED <<gates, idt, handlers, picVars>>

Boot == SetGates \/ RegisterDefaults \/ Icw1 \/ SetOffset \/ MaskAll \/ LoadIdt
        \/ KeyboardInit \/ RegisterHandler \/ Unmask \/ Sti

(* The loop of kernel_main, while no handler runs. *)
MainLoop ==
    /\ boot = "run" /\ hpc = "none"
    /\ Driver!Main
    /\ UNCHANGED <<bootVars, picVars, frameVars>>

-------------------------------------------------------------------------------
(* External: the keyboard and timer drive the 8259's inputs, the 8259 the  *)
(* CPU's.  A request is latched when its line rises, masked or not; the    *)
(* keyboard's line is high while the controller's output buffer is full.   *)

Initialised == boot \notin {"gates", "defaults", "icw1"}

KeyArrives(k) ==
    /\ EarlyKeys \/ Initialised
    /\ Driver!KeyArrives(k)
    /\ irr' = irr \cup {1}
    /\ UNCHANGED <<bootVars, offset, isr, imr, frameVars>>

TimerTicks ==
    /\ irr' = irr \cup {0}
    /\ UNCHANGED <<kbVars, bootVars, offset, isr, imr, frameVars>>

(* The CPU acknowledges the request of highest priority when none of that  *)
(* or a higher priority is in service, and enters through an interrupt     *)
(* gate; the stub saves the registers and calls interrupt_dispatcher.      *)
Interrupt ==
    /\ ifl
    /\ \E i \in irr \ imr :
         /\ \A j \in irr \ imr : i <= j
         /\ \A j \in isr : i < j
         /\ irr' = irr \ {i} /\ isr' = isr \cup {i}
         /\ vector' = offset + i
    /\ ifl' = FALSE /\ hpc' = "dispatch"
    /\ UNCHANGED <<kbVars, bootVars, offset, imr, byte, nxt>>

(* A request that vanishes before the CPU acknowledges it is answered with *)
(* IRQ 7's vector, when no other waits, and nothing enters service.        *)
SpuriousInterrupt ==
    /\ ifl /\ irr \subseteq imr
    /\ vector' = offset + 7
    /\ ifl' = FALSE /\ hpc' = "dispatch"
    /\ UNCHANGED <<kbVars, bootVars, picVars, byte, nxt>>

-------------------------------------------------------------------------------
(* The handling of an interrupt.                                           *)

At(from, to) == /\ hpc = from /\ hpc' = to
                /\ UNCHANGED <<tail, shift, pc, sc, ret, bootVars, offset, imr, vector>>

Dispatch ==
    /\ At("dispatch", CASE handlers[vector] = "keyboard" -> "status"
                        [] handlers[vector] = "default"  -> "eoi"
                        [] OTHER                         -> "unhandled")
    /\ UNCHANGED <<port, buf, head, irr, isr, ifl, byte, nxt>>

(* Mutant: a byte is left in the controller while the ring is full. *)
ReadStatus_FullFirst ==
    /\ At("status", IF port # Driver!NoByte /\ Driver!Succ(head) # tail
                    THEN "data" ELSE "eoi")
    /\ UNCHANGED <<port, buf, head, irr, isr, ifl, byte, nxt>>

(* irq_handler: inb(KB_STATUS) & 1 *)
ReadStatus ==
    /\ At("status", IF port # Driver!NoByte THEN "data" ELSE "eoi")
    /\ UNCHANGED <<port, buf, head, irr, isr, ifl, byte, nxt>>

(* inb(KB_DATA) empties the controller's output buffer: IRQ1's line falls. *)
ReadData ==
    /\ At("data", "test")
    /\ byte' = port /\ port' = Driver!NoByte
    /\ nxt' = Driver!Succ(head)
    /\ UNCHANGED <<buf, head, irr, isr, ifl>>

(* Mutant: the ring is never full. *)
PushTest_NoCheck ==
    /\ At("test", "store")
    /\ UNCHANGED <<port, buf, head, irr, isr, ifl, byte, nxt>>

(* push_scancode: next != tail *)
PushTest ==
    /\ At("test", IF nxt # tail THEN "store" ELSE "eoi")
    /\ UNCHANGED <<port, buf, head, irr, isr, ifl, byte, nxt>>

PushStore ==
    /\ At("store", "move")
    /\ buf' = [buf EXCEPT ![head] = byte]
    /\ UNCHANGED <<port, head, irr, isr, ifl, byte, nxt>>

(* Mutant: head is moved on without the modulus. *)
PushMove_NoWrap ==
    /\ At("move", "eoi")
    /\ head' = head + 1
    /\ UNCHANGED <<port, buf, irr, isr, ifl, byte, nxt>>

PushMove ==
    /\ At("move", "eoi")
    /\ head' = nxt
    /\ UNCHANGED <<port, buf, irr, isr, ifl, byte, nxt>>

(* The message for a vector without handler. *)
Unhandled ==
    /\ At("unhandled", "eoi")
    /\ UNCHANGED <<port, buf, head, irr, isr, ifl, byte, nxt>>

(* pic::send_eoi: the non-specific end of interrupt it sends to the first   *)
(* 8259 ends the request of highest priority in service there.  (No IRQ of *)
(* the second one is ever unmasked.)                                       *)
Ended(inService) == {j \in inService : \E i \in inService : i < j}

(* Mutant: the end of interrupt is sent for the exceptions' vectors only. *)
SendEoi_WrongRange ==
    /\ At("eoi", "iret")
    /\ isr' = IF vector < 32 THEN Ended(isr) ELSE isr
    /\ UNCHANGED <<port, buf, head, irr, ifl, byte, nxt>>

(* The dispatcher sends it for the vectors of hardware interrupts. *)
SendEoi ==
    /\ At("eoi", "iret")
    /\ isr' = IF vector \in 32 .. 47 THEN Ended(isr) ELSE isr
    /\ UNCHANGED <<port, buf, head, irr, ifl, byte, nxt>>

(* The stub restores the registers; iretq restores the flags.  The locals  *)
(* are out of scope.                                                       *)
Iretq ==
    /\ At("iret", "none")
    /\ ifl' = TRUE /\ byte' = 0 /\ nxt' = 0
    /\ UNCHANGED <<port, buf, head, irr, isr>>

Handler == Dispatch \/ ReadStatus \/ ReadData \/ PushTest \/ PushStore \/ PushMove
           \/ Unhandled \/ SendEoi \/ Iretq

-------------------------------------------------------------------------------
Next == Boot \/ MainLoop \/ (\E k \in Keys : KeyArrives(k)) \/ TimerTicks
        \/ Interrupt \/ SpuriousInterrupt \/ Handler

Spec == Init /\ [][Next]_vars

(* The CPU executes whatever is next: boot code, handler, or the loop; it  *)
(* takes an interrupt it does not mask.  Bytes and ticks come milliseconds *)
(* apart and a handler ends long before the next, so the loop, which runs  *)
(* between interrupts only, is not kept waiting by them for ever.          *)
FairSpec == Spec /\ WF_vars(Boot \/ MainLoop \/ Handler) /\ WF_vars(Interrupt)
                 /\ SF_vars(MainLoop)

-------------------------------------------------------------------------------
(* Properties.                                                             *)

TypeOK ==
    /\ Driver!TypeOK
    /\ boot \in BootPC /\ gates \in BOOLEAN /\ idt \in BOOLEAN
    /\ handlers \in [Vectors -> {"none", "default", "keyboard"}]
    /\ offset \in {BiosBase, Base}
    /\ irr \subseteq IRQs /\ isr \subseteq IRQs /\ imr \subseteq IRQs
    /\ ifl \in BOOLEAN /\ hpc \in HandlerPC
    /\ vector \in {0} \cup Vectors
    /\ byte \in Byte /\ nxt \in 0 .. BufSize - 1

(* The order in which kernel_main brings things up never lets the CPU take *)
(* an interrupt it is not ready for: a vector is only ever entered through *)
(* a loaded gate, it is the keyboard's with its handler registered or the  *)
(* spurious one, and never one that the CPU's exceptions use -- although   *)
(* the timer has been ticking since before the kernel was started.         *)
EntersReadyHandler ==
    hpc # "none" =>
        /\ gates /\ idt
        /\ vector = 33 \/ vector = 39
        /\ vector = 33 => handlers[33] = "keyboard"

(* Each end of interrupt ends the interrupt being handled, not another:    *)
(* nothing is in service while the main program runs (a missing EOI would  *)
(* block the keyboard), and the EOI that the dispatcher also sends for a   *)
(* spurious interrupt finds nothing in service.                            *)
EoiEndsItsOwn ==
    isr = IF hpc \in {"none", "iret"} \/ vector = 39 THEN {} ELSE {1}

(* The 8259 sees edges only.  A byte waits in the controller exactly when  *)
(* its interrupt is pending or a handler is about to read it: no byte is   *)
(* left behind with nothing to announce it, however the arrival of the     *)
(* next byte and the reading of this one fall, and no handler starts       *)
(* without a byte to read.                                                 *)
ByteIsAnnounced ==
    Initialised =>
        (port # Driver!NoByte
           <=> 1 \in irr \/ (vector = 33 /\ hpc \in {"dispatch", "status", "data"}))

(* To the rest of the driver the handler is one step, taken when it reads  *)
(* the byte, although it makes three accesses to the ring afterwards and   *)
(* the keyboard may send the next byte in between.                         *)
InPush   == hpc \in {"test", "store", "move"} /\ nxt # tail
HeadSoon == IF InPush THEN nxt ELSE head
BufSoon  == IF InPush THEN [buf EXCEPT ![head] = byte] ELSE buf

Atomic == INSTANCE KeyboardRing WITH head <- HeadSoon, buf <- BufSoon

HandlerIsAtomic == Atomic!Spec

(* The ring is a FIFO queue of BUF_SIZE - 1 places in the whole kernel:    *)
(* bytes leave it in the order in which the keyboard sent them, each once, *)
(* wherever the handler's accesses fall among those of poll(), and one is  *)
(* dropped only when all the places are taken.                             *)
RingIsFifo == Atomic!RingIsFifo

(* Decoding late is decoding early in the whole kernel: every character    *)
(* kernel_main gets has the case that the shift keys had when the keyboard *)
(* interrupt took its byte, whatever is in the ring or half way into it.   *)
DecodesAsTyped == Atomic!DecodesAsTyped

(* A byte in the ring that stands for a character makes read() return:     *)
(* interrupts, the keyboard's or others, do not keep kernel_main from it,  *)
(* and it is never left waiting on a ring that holds a character.          *)
QueuedKeyIsRead == Driver!QueuedKeyIsRead

(* Every byte the keyboard sends is read: the keyboard driver "permite     *)
(* leer ... caracteres a traves del teclado" (docs/Drivers.md:15).         *)
KeyIsRead == (port # Driver!NoByte) ~> (port = Driver!NoByte)
===============================================================================
