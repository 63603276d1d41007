--------------------------- MODULE KernelX86_proofs ---------------------------
(***************************************************************************)
(* Theorems about KernelX86, for every ring size, every keyboard, and      *)
(* whether or not a byte may arrive before the 8259 is initialised.        *)
(***************************************************************************)
EXTENDS KernelX86, Sequences, TLAPS

(* The part of the types the argument needs. *)
TypeInv ==
    /\ handlers \in [Vectors -> {"none", "default", "keyboard"}]
    /\ irr \subseteq IRQs
    /\ boot \in BootPC
    /\ hpc \in HandlerPC

(* What each step of the boot has established for those after it, and that *)
(* no interrupt is taken before the last one.                              *)
BootInv ==
    /\ boot # "gates" => gates
    /\ boot \notin {"gates", "defaults", "icw1", "offset"} => offset = Base
    /\ boot \in {"lidt", "keyboard", "handler", "unmask"} => imr = IRQs
    /\ boot \in {"sti", "run"} => imr = IRQs \ {1}
    /\ boot \in {"keyboard", "handler", "unmask", "sti", "run"} => idt
    /\ boot \in {"unmask", "sti", "run"} => handlers[33] = "keyboard"
    /\ handlers[39] = "none"
    /\ ifl <=> (boot = "run" /\ hpc = "none")
    /\ boot # "run" => hpc = "none"

(* What is handled where: the spurious interrupt never gets to the ring,   *)
(* and the data port is read only with a byte in it.                       *)
HandlerInv ==
    /\ hpc # "none" => vector \in {33, 39}
    /\ hpc \in {"status", "data", "test", "store", "move"} => vector = 33
    /\ hpc = "unhandled" => vector = 39
    /\ hpc = "data" => port # Driver!NoByte

(* The inductive invariant.  The boot order makes the keyboard's the only  *)
(* request that is ever unmasked, and at most that one is in service when  *)
(* an EOI is sent.                                                         *)
IInv == TypeInv /\ BootInv /\ HandlerInv /\ EoiEndsItsOwn

(* With no byte before the 8259 is initialised, request and byte come and  *)
(* go together: a byte that a handler is about to read is not also pending. *)
AnnounceInv ==
    /\ ByteIsAnnounced
    /\ ~Initialised => port = Driver!NoByte
    /\ vector = 33 /\ hpc \in {"dispatch", "status", "data"} => 1 \notin irr

-------------------------------------------------------------------------------
(* Sets of interrupt requests. *)
LEMMA RequestFacts ==
  /\ Vectors = {8, 9, 15, 32, 33, 39}
  /\ IRQs \ {1} = {0, 7}
  /\ Ended({}) = {} /\ Ended({1}) = {}
<1>1. Vectors = {8, 9, 15, 32, 33, 39}
  <2>1. {BiosBase + i : i \in IRQs} = {8, 9, 15}
    BY DEF BiosBase, IRQs
  <2>2. {Base + i : i \in IRQs} = {32, 33, 39}
    BY DEF Base, IRQs
  <2> QED  BY <2>1, <2>2 DEF Vectors
<1> QED  BY <1>1 DEF IRQs, Ended

(* The steps of the boot, in their order. *)
LEMMA BootNames ==
  BootPC = {"gates", "defaults", "icw1", "offset", "mask", "lidt",
            "keyboard", "handler", "unmask", "sti", "run"}
<1>1. DOMAIN BootSteps = 1 .. 11
  BY DEF BootSteps
<1>2. 1 .. 11 = {1, 2, 3, 4, 5, 6, 7, 8, 9, 10, 11}
  OBVIOUS
<1> QED  BY <1>1, <1>2 DEF BootPC, BootSteps

(* The invariant holds when the boot code calls kernel_main. *)
LEMMA InvInit == Init => IInv
<1> SUFFICES ASSUME Init PROVE IInv
  OBVIOUS
<1>1. TypeInv
  BY BootNames DEF Init, TypeInv, HandlerPC
<1>2. BootInv
  BY RequestFacts DEF Init, BootInv
<1>3. HandlerInv /\ EoiEndsItsOwn
  BY DEF Init, HandlerInv, EoiEndsItsOwn
<1> QED  BY <1>1, <1>2, <1>3 DEF IInv

(* Each step of kernel_main before its loop adds to what the next ones     *)
(* find, with interrupts disabled.                                         *)
LEMMA InvBoot ==
  ASSUME IInv, Boot
  PROVE  IInv'
<1> USE BootNames, RequestFacts
    DEF IInv, TypeInv, BootInv, HandlerInv, EoiEndsItsOwn, Then,
        kbVars, picVars, HandlerPC
<1>1. CASE SetGates
  BY <1>1 DEF SetGates
<1>2. CASE RegisterDefaults
  BY <1>2 DEF RegisterDefaults
<1>3. CASE Icw1
  BY <1>3 DEF Icw1
<1>4. CASE SetOffset
  BY <1>4 DEF SetOffset
<1>5. CASE MaskAll
  BY <1>5 DEF MaskAll
<1>6. CASE LoadIdt
  BY <1>6 DEF LoadIdt
<1>7. CASE KeyboardInit
  BY <1>7 DEF KeyboardInit
<1>8. CASE RegisterHandler
  BY <1>8 DEF RegisterHandler
<1>9. CASE Unmask
  BY <1>9 DEF Unmask
<1>10. CASE Sti
  BY <1>10 DEF Sti
<1> QED
  BY <1>1, <1>2, <1>3, <1>4, <1>5, <1>6, <1>7, <1>8, <1>9, <1>10 DEF Boot

(* The handler of an interrupt takes it from dispatch to iretq. *)
LEMMA InvHandler ==
  ASSUME IInv, Handler
  PROVE  IInv'
<1> USE RequestFacts
    DEF IInv, TypeInv, BootInv, HandlerInv, EoiEndsItsOwn, At, bootVars, HandlerPC
<1>1. CASE Dispatch
  BY <1>1 DEF Dispatch
<1>2. CASE ReadStatus
  BY <1>2 DEF ReadStatus
<1>3. CASE ReadData
  BY <1>3 DEF ReadData
<1>4. CASE PushTest
  BY <1>4 DEF PushTest
<1>5. CASE PushStore
  BY <1>5 DEF PushStore
<1>6. CASE PushMove
  BY <1>6 DEF PushMove
<1>7. CASE Unhandled
  BY <1>7 DEF Unhandled
<1>8. CASE SendEoi
  BY <1>8 DEF SendEoi
<1>9. CASE Iretq
  BY <1>9 DEF Iretq
<1> QED
  BY <1>1, <1>2, <1>3, <1>4, <1>5, <1>6, <1>7, <1>8, <1>9 DEF Handler

(* The keyboard's part of the state is not the invariant's concern. *)
LEMMA DriverFrame ==
  ASSUME Driver!Main
  PROVE  UNCHANGED port
BY DEF Driver!Main, Driver!Test, Driver!Fetch, Driver!Advance, Driver!Decode,
       Driver!Again

(* No step breaks the invariant. *)
LEMMA InvStep ==
  ASSUME IInv, [Next]_vars
  PROVE  IInv'
<1>1. CASE Boot
  BY <1>1, InvBoot
<1>2. CASE MainLoop
  BY <1>2, DriverFrame
     DEF MainLoop, bootVars, picVars, frameVars,
         IInv, TypeInv, BootInv, HandlerInv, EoiEndsItsOwn
<1>3. ASSUME NEW k \in Keys, KeyArrives(k)
      PROVE  IInv'
  BY <1>3
     DEF KeyArrives, Driver!KeyArrives, bootVars, frameVars, IRQs,
         IInv, TypeInv, BootInv, HandlerInv, EoiEndsItsOwn
<1>4. CASE TimerTicks
  BY <1>4
     DEF TimerTicks, kbVars, bootVars, frameVars, IRQs,
         IInv, TypeInv, BootInv, HandlerInv, EoiEndsItsOwn
<1>5. CASE Interrupt
  BY <1>5, RequestFacts
     DEF Interrupt, kbVars, bootVars, IRQs, HandlerPC, Base,
         IInv, TypeInv, BootInv, HandlerInv, EoiEndsItsOwn
<1>6. CASE SpuriousInterrupt
  BY <1>6
     DEF SpuriousInterrupt, kbVars, bootVars, picVars, HandlerPC, Base,
         IInv, TypeInv, BootInv, HandlerInv, EoiEndsItsOwn
<1>7. CASE Handler
  BY <1>7, InvHandler
<1>8. CASE UNCHANGED vars
  BY <1>8 DEF vars, kbVars, bootVars, picVars, frameVars,
              IInv, TypeInv, BootInv, HandlerInv, EoiEndsItsOwn
<1> QED
  BY <1>1, <1>2, <1>3, <1>4, <1>5, <1>6, <1>7, <1>8 DEF Next

(* The invariant of the interrupt path. *)
LEMMA Invariance == Spec => []IInv
<1> QED  BY InvInit, InvStep, PTL DEF Spec

(* No interrupt is ever taken before its gate, its handler and the CPU's   *)
(* table are ready, nor through a vector of the CPU's exceptions.          *)
THEOREM InterruptsFindHandler == Spec => []EntersReadyHandler
<1>1. IInv => EntersReadyHandler
  BY DEF IInv, BootInv, HandlerInv, EntersReadyHandler
<1> QED  BY <1>1, Invariance, PTL

(* Every end of interrupt ends the interrupt being handled and no other,   *)
(* the spurious interrupt's included.                                      *)
THEOREM EoiBalanced == Spec => []EoiEndsItsOwn
<1> QED  BY Invariance, PTL DEF IInv

-------------------------------------------------------------------------------
(* No step separates a byte from its announcement. *)
LEMMA AnnounceStep ==
  ASSUME EarlyKeys = FALSE, IInv, AnnounceInv, [Next]_vars
  PROVE  AnnounceInv'
<1>n. \A k \in Keys : k # Driver!NoByte
  BY KeysAreBytes DEF Driver!NoByte, Byte
<1> USE DEF AnnounceInv, ByteIsAnnounced, Initialised
<1>1. CASE Boot
  <2>1. UNCHANGED port /\ hpc = "none" /\ hpc' = "none"
    BY <1>1 DEF Boot, SetGates, RegisterDefaults, Icw1, SetOffset, MaskAll, LoadIdt,
                KeyboardInit, RegisterHandler, Unmask, Sti, Then, kbVars
  <2>2. CASE Icw1
    BY <2>1, <2>2 DEF Icw1, Then
  <2>3. CASE ~Icw1
    BY <1>1, <2>1, <2>3
       DEF Boot, SetGates, RegisterDefaults, SetOffset, MaskAll, LoadIdt,
           KeyboardInit, RegisterHandler, Unmask, Sti, Then, picVars
  <2> QED  BY <2>2, <2>3
<1>2. CASE MainLoop
  BY <1>2, DriverFrame DEF MainLoop, bootVars, picVars, frameVars
<1>3. ASSUME NEW k \in Keys, KeyArrives(k)
      PROVE  AnnounceInv'
  BY <1>3, <1>n DEF KeyArrives, Driver!KeyArrives, bootVars, frameVars
<1>4. CASE TimerTicks
  BY <1>4 DEF TimerTicks, kbVars, bootVars, frameVars
<1>5. CASE Interrupt
  <2>1. boot = "run" /\ hpc = "none" /\ offset = 32 /\ UNCHANGED <<boot, port>>
    BY <1>5 DEF Interrupt, IInv, BootInv, Base, kbVars, bootVars
  <2>2. vector' = 33 /\ irr' = irr \ {1} /\ 1 \in irr /\ hpc' = "dispatch"
    BY <1>5, <2>1, RequestFacts DEF Interrupt, IInv, BootInv, TypeInv, IRQs
  <2> QED  BY <2>1, <2>2
<1>6. CASE SpuriousInterrupt
  <2>1. boot = "run" /\ hpc = "none" /\ offset = 32 /\ imr = {0, 7}
    BY <1>6, RequestFacts DEF SpuriousInterrupt, IInv, BootInv, Base
  <2>2. vector' = 39 /\ UNCHANGED <<irr, port, boot>>
    BY <1>6, <2>1 DEF SpuriousInterrupt, kbVars, bootVars, picVars
  <2> QED  BY <2>1, <2>2
<1>7. CASE Handler
  <2>1. UNCHANGED <<boot, vector, irr>>
    BY <1>7 DEF Handler, Dispatch, ReadStatus, ReadData, PushTest, PushStore, PushMove,
                Unhandled, SendEoi, Iretq, At, bootVars
  <2>2. boot = "run"
    BY <1>7 DEF Handler, Dispatch, ReadStatus, ReadData, PushTest, PushStore, PushMove,
                Unhandled, SendEoi, Iretq, At, IInv, BootInv
  <2>3. CASE Dispatch
    BY <2>1, <2>2, <2>3 DEF Dispatch, At, IInv, BootInv, HandlerInv
  <2>4. CASE ReadStatus
    BY <2>1, <2>2, <2>4 DEF ReadStatus, At
  <2>5. CASE ReadData
    BY <2>1, <2>2, <2>5 DEF ReadData, At, IInv, HandlerInv
  <2>6. CASE PushTest \/ PushStore \/ PushMove \/ Unhandled \/ SendEoi \/ Iretq
    BY <2>1, <2>2, <2>6 DEF PushTest, PushStore, PushMove, Unhandled, SendEoi, Iretq, At
  <2> QED  BY <1>7, <2>3, <2>4, <2>5, <2>6 DEF Handler
<1>8. CASE UNCHANGED vars
  BY <1>8 DEF vars, kbVars, bootVars, picVars, frameVars
<1> QED
  BY <1>1, <1>2, <1>3, <1>4, <1>5, <1>6, <1>7, <1>8 DEF Next

(* Unless a byte arrived before the 8259 was initialised, a byte in the    *)
(* controller is always announced: the edge-triggered interrupt is never   *)
(* lost, wherever the next byte falls in the handling of this one.         *)
THEOREM NoLostWakeup ==
  ASSUME EarlyKeys = FALSE
  PROVE  Spec => []ByteIsAnnounced
<1>1. Init => AnnounceInv
  BY DEF Init, Driver!Init, AnnounceInv, ByteIsAnnounced, Initialised
<1>2. IInv /\ AnnounceInv /\ [Next]_vars => AnnounceInv'
  BY AnnounceStep
<1>3. AnnounceInv => ByteIsAnnounced
  BY DEF AnnounceInv
<1> QED  BY <1>1, <1>2, <1>3, Invariance, PTL DEF Spec

-------------------------------------------------------------------------------
(* Types.                                                                  *)

(* The driver's instance has its own names for the same sets. *)
LEMMA SameBytes == Driver!Byte = Byte
  BY DEF Driver!Byte, Byte

LEMMA SuccInRing ==
  ASSUME NEW i \in Driver!Slot
  PROVE  Driver!Succ(i) \in Driver!Slot
<1> USE RingHasPlaces DEF Driver!Slot, Driver!Succ
<1>1. CASE i + 1 = BufSize
  BY <1>1
<1>2. CASE i + 1 < BufSize
  BY <1>2
<1> QED  BY <1>1, <1>2

(* What decoding a byte returns. *)
LEMMA DecodeTypes ==
  ASSUME NEW b \in Driver!Byte, NEW s \in BOOLEAN
  PROVE  Driver!NextShift(b, s) \in BOOLEAN /\ Driver!CharOf(b, s) \in Driver!Char
<1>1. Driver!NextShift(b, s) \in BOOLEAN
  <2>1. Driver!IsMake(b) \in BOOLEAN
    BY DEF Driver!IsMake
  <2> QED  BY <2>1, Zenon DEF Driver!NextShift
<1>2. Driver!KeyOf(b) \in 0 .. 127 /\ 0 \in 0 .. 127
  BY DEF Driver!KeyOf, Driver!Byte
<1>3. \A c \in 0 .. 127, t \in BOOLEAN : <<c, t>> \in Driver!Char
  BY Zenon DEF Driver!Char
<1>4. Driver!NUL \in Driver!Char
  BY <1>2, <1>3, Zenon DEF Driver!NUL
<1>5. (s /\ Driver!KeyOf(b) \notin Driver!SameShifted) \in BOOLEAN
  BY Zenon
<1>6. Driver!ScancodeToChar(Driver!KeyOf(b), s) \in Driver!Char
  BY <1>2, <1>3, <1>4, <1>5, Zenon DEF Driver!ScancodeToChar
<1> QED  BY <1>1, <1>4, <1>6, Zenon DEF Driver!CharOf

(* The main program's steps. *)
LEMMA MainTypes ==
  ASSUME Driver!TypeOK, Driver!Main
  PROVE  Driver!TypeOK'
<1> USE DEF Driver!TypeOK, Driver!MainPC, Driver!ringVars
<1>1. CASE Driver!Test
  BY <1>1 DEF Driver!Test
<1>2. CASE Driver!Fetch
  BY <1>2 DEF Driver!Fetch
<1>3. CASE Driver!Advance
  BY <1>3, SuccInRing DEF Driver!Advance
<1>4. CASE Driver!Decode
  <2>1. Driver!NextShift(sc, shift) \in BOOLEAN /\ Driver!CharOf(sc, shift) \in Driver!Char
    BY DecodeTypes
  <2>2. shift' \in BOOLEAN
    BY <1>4, <2>1, Zenon DEF Driver!Decode
  <2>3. ret' \in Driver!Char
    BY <1>4, <2>1, Zenon DEF Driver!Decode
  <2>4. pc' \in {"test", "return"}
    BY <1>4, Zenon DEF Driver!Decode
  <2>5. UNCHANGED <<port, buf, head, tail>> /\ sc' = 0
    BY <1>4, Zenon DEF Driver!Decode
  <2>6. pc' \in Driver!MainPC /\ 0 \in Driver!Byte
    BY <2>4 DEF Driver!Byte
  <2> QED  BY <2>2, <2>3, <2>5, <2>6, Zenon
<1>5. CASE Driver!Again
  <2>1. 0 \in 0 .. 127 /\ FALSE \in BOOLEAN
    OBVIOUS
  <2>2. Driver!NUL \in Driver!Char
    BY <2>1, Zenon DEF Driver!NUL, Driver!Char
  <2>3. /\ UNCHANGED <<port, buf, head, tail, shift, sc>> /\ ret' = Driver!NUL
        /\ pc' \in Driver!MainPC
    BY <1>5 DEF Driver!Again
  <2> QED  BY <2>2, <2>3, Zenon
<1> QED  BY <1>1, <1>2, <1>3, <1>4, <1>5 DEF Driver!Main

(* The types of what KernelX86 adds to the driver. *)
FrameTypes ==
    /\ gates \in BOOLEAN /\ idt \in BOOLEAN
    /\ offset \in {BiosBase, Base}
    /\ isr \subseteq IRQs /\ imr \subseteq IRQs
    /\ ifl \in BOOLEAN
    /\ vector \in {0} \cup Vectors
    /\ byte \in Byte /\ nxt \in Driver!Slot

LEMMA BootTypes ==
  ASSUME TypeOK, Boot
  PROVE  Driver!TypeOK' /\ FrameTypes'
<1>1. Driver!TypeOK' /\ UNCHANGED <<vector, byte, nxt>>
  BY DEF Boot, SetGates, RegisterDefaults, Icw1, SetOffset, MaskAll, LoadIdt,
         KeyboardInit, RegisterHandler, Unmask, Sti, Then, kbVars, TypeOK,
         Driver!TypeOK, Driver!Slot, Driver!MainPC, Driver!NoByte
<1>2. /\ gates' \in BOOLEAN /\ idt' \in BOOLEAN /\ ifl' \in BOOLEAN
      /\ offset' \in {BiosBase, Base}
      /\ isr' \subseteq IRQs /\ imr' \subseteq IRQs
  BY DEF Boot, SetGates, RegisterDefaults, Icw1, SetOffset, MaskAll, LoadIdt,
         KeyboardInit, RegisterHandler, Unmask, Sti, Then, picVars, TypeOK
<1> QED  BY <1>1, <1>2 DEF TypeOK, FrameTypes, Driver!Slot

(* The handler's: what it reads is a byte because it looks first. *)
LEMMA HandlerTypes ==
  ASSUME TypeOK, IInv, Handler
  PROVE  Driver!TypeOK' /\ FrameTypes'
<1> USE DEF Driver!TypeOK, FrameTypes, TypeOK, At, bootVars, Driver!Slot
<1>1. CASE Dispatch \/ ReadStatus \/ PushTest \/ Unhandled
  BY <1>1 DEF Dispatch, ReadStatus, PushTest, Unhandled
<1>2. CASE ReadData
  <2>1. port \in Byte
    BY <1>2, SameBytes DEF ReadData, IInv, HandlerInv
  <2>2. Driver!Succ(head) \in Driver!Slot
    BY SuccInRing
  <2> QED  BY <1>2, <2>1, <2>2, SameBytes DEF ReadData
<1>3. CASE PushStore
  BY <1>3, SameBytes DEF PushStore
<1>4. CASE PushMove
  BY <1>4 DEF PushMove
<1>5. CASE SendEoi
  BY <1>5 DEF SendEoi, Ended
<1>6. CASE Iretq
  BY <1>6, RingHasPlaces DEF Iretq, Byte
<1> QED  BY <1>1, <1>2, <1>3, <1>4, <1>5, <1>6 DEF Handler

LEMMA TypeStep ==
  ASSUME TypeOK, IInv, IInv', [Next]_vars
  PROVE  TypeOK'
<1> SUFFICES Driver!TypeOK' /\ FrameTypes'
  BY DEF IInv, TypeInv, TypeOK, FrameTypes, Driver!Slot
<1>1. CASE Boot
  BY <1>1, BootTypes
<1>2. CASE MainLoop
  <2>1. Driver!TypeOK'
    BY <1>2, MainTypes DEF MainLoop, TypeOK
  <2> QED  BY <1>2, <2>1 DEF MainLoop, bootVars, picVars, frameVars, TypeOK, FrameTypes, Driver!Slot
<1>3. ASSUME NEW k \in Keys, KeyArrives(k)
      PROVE  Driver!TypeOK' /\ FrameTypes'
  BY <1>3, KeysAreBytes, SameBytes
     DEF KeyArrives, Driver!KeyArrives, Driver!mainVars, Driver!ringVars, bootVars, frameVars,
         TypeOK, FrameTypes, Driver!TypeOK, Driver!Slot
<1>4. CASE TimerTicks
  BY <1>4 DEF TimerTicks, kbVars, bootVars, frameVars,
              TypeOK, FrameTypes, Driver!TypeOK, Driver!Slot
<1>5. CASE Interrupt \/ SpuriousInterrupt
  <2>1. Driver!TypeOK'
    BY <1>5 DEF Interrupt, SpuriousInterrupt, kbVars, TypeOK, Driver!TypeOK
  <2>2. ifl' \in BOOLEAN /\ isr' \subseteq IRQs
    BY <1>5 DEF Interrupt, SpuriousInterrupt, picVars, TypeOK, IRQs
  <2>3. vector' \in Vectors
    BY <1>5, RequestFacts DEF Interrupt, SpuriousInterrupt, IInv, BootInv, TypeInv, IRQs, Base
  <2>4. UNCHANGED <<gates, idt, offset, imr, byte, nxt>>
    BY <1>5 DEF Interrupt, SpuriousInterrupt, bootVars, picVars
  <2> QED  BY <2>1, <2>2, <2>3, <2>4 DEF TypeOK, FrameTypes, Driver!Slot
<1>7. CASE Handler
  BY <1>7, HandlerTypes
<1>8. CASE UNCHANGED vars
  BY <1>8 DEF vars, kbVars, bootVars, picVars, frameVars,
              TypeOK, FrameTypes, Driver!TypeOK, Driver!Slot
<1> QED
  BY <1>1, <1>2, <1>3, <1>4, <1>5, <1>7, <1>8 DEF Next

(* Boot, interrupt path and driver keep their types: the handler's head    *)
(* and the main program's tail stay inside the ring, and what the handler  *)
(* pushes is always a byte, never what an empty data port returns.         *)
THEOREM TypeCorrect == Spec => []TypeOK
<1>1. ASSUME Init PROVE TypeOK
  <2>1. Driver!NUL \in Driver!Char /\ 0 \in Driver!Byte
    <3>1. 0 \in 0 .. 127 /\ 0 \in 0 .. 255
      OBVIOUS
    <3> QED  BY <3>1, Zenon DEF Driver!NUL, Driver!Char, Driver!Byte
  <2>2. Driver!TypeOK
    <3>1. Driver!Init
      BY <1>1 DEF Init
    <3>2. ret \in Driver!Char
      BY <2>1, <3>1, Zenon DEF Driver!Init
    <3>3. 0 \in Driver!Slot
      BY RingHasPlaces DEF Driver!Slot
    <3>4. buf \in [Driver!Slot -> Driver!Byte]
      BY <2>1, <3>1 DEF Driver!Init
    <3>5. /\ port \in Driver!Byte \cup {Driver!NoByte}
          /\ head \in Driver!Slot /\ tail \in Driver!Slot
          /\ sc \in Driver!Byte /\ shift \in BOOLEAN
      BY <2>1, <3>1, <3>3 DEF Driver!Init
    <3>6. pc \in Driver!MainPC
      BY <3>1 DEF Driver!Init, Driver!MainPC
    <3> QED
      BY <3>2, <3>4, <3>5, <3>6, Zenon DEF Driver!TypeOK
  <2>3. TypeInv
    BY <1>1, InvInit DEF IInv
  <2>4. FrameTypes
    <3>1. 0 \in Driver!Slot /\ 0 \in Byte
      BY RingHasPlaces DEF Driver!Slot, Byte
    <3> QED
      BY <1>1, <3>1 DEF Init, FrameTypes
  <2> QED
    BY <2>2, <2>3, <2>4 DEF FrameTypes, TypeOK, TypeInv, Driver!Slot
<1>2. TypeOK /\ IInv /\ IInv' /\ [Next]_vars => TypeOK'
  BY TypeStep
<1> QED  BY <1>1, <1>2, Invariance, PTL DEF Spec

-------------------------------------------------------------------------------
(* The handler is one step of the driver.                                  *)

(* Between irq_handler's read of the byte and push_scancode's last write   *)
(* the main program does not run: next is still the place after head, the  *)
(* ring that had a place for the byte has it still, and the byte stored    *)
(* stays where it is.                                                      *)
PushInv ==
    /\ hpc \in {"test", "store", "move"} => nxt = Driver!Succ(head)
    /\ hpc \in {"store", "move"} => nxt # tail
    /\ hpc = "move" => buf[head] = byte

LEMMA PushStep ==
  ASSUME TypeOK, IInv, PushInv, [Next]_vars
  PROVE  PushInv'
<1> USE DEF PushInv, Driver!Succ
<1>1. CASE Boot
  BY <1>1 DEF Boot, SetGates, RegisterDefaults, Icw1, SetOffset, MaskAll, LoadIdt,
              KeyboardInit, RegisterHandler, Unmask, Sti, Then
<1>2. CASE MainLoop
  BY <1>2 DEF MainLoop, frameVars
<1>3. ASSUME NEW k \in Keys, KeyArrives(k)
      PROVE  PushInv'
  BY <1>3 DEF KeyArrives, Driver!KeyArrives, Driver!mainVars, Driver!ringVars, frameVars
<1>4. CASE TimerTicks
  BY <1>4 DEF TimerTicks, kbVars, frameVars
<1>5. CASE Interrupt \/ SpuriousInterrupt
  BY <1>5 DEF Interrupt, SpuriousInterrupt
<1>6. CASE Handler
  <2>1. CASE Dispatch \/ ReadStatus \/ Unhandled \/ SendEoi \/ Iretq
    BY <2>1 DEF Dispatch, ReadStatus, Unhandled, SendEoi, Iretq, At
  <2>2. CASE ReadData
    BY <2>2 DEF ReadData, At
  <2>3. CASE PushTest
    BY <2>3 DEF PushTest, At
  <2>4. CASE PushStore
    <3>1. head \in Driver!Slot /\ buf \in [Driver!Slot -> Driver!Byte]
      BY DEF TypeOK, Driver!TypeOK
    <3> QED  BY <2>4, <3>1 DEF PushStore, At
  <2>5. CASE PushMove
    BY <2>5 DEF PushMove, At
  <2> QED  BY <1>6, <2>1, <2>2, <2>3, <2>4, <2>5 DEF Handler
<1>7. CASE UNCHANGED vars
  BY <1>7 DEF vars, kbVars, frameVars
<1> QED
  BY <1>1, <1>2, <1>3, <1>4, <1>5, <1>6, <1>7 DEF Next

(* Both instances of the driver decode alike. *)
LEMMA SameDecoding ==
  /\ Atomic!NoByte = Driver!NoByte
  /\ \A i : Atomic!Succ(i) = Driver!Succ(i)
  /\ \A b, s : Atomic!NextShift(b, s) = Driver!NextShift(b, s)
  /\ \A b, s : Atomic!CharOf(b, s) = Driver!CharOf(b, s)
  /\ Atomic!NUL = Driver!NUL
<1>1. /\ Atomic!NoByte = Driver!NoByte /\ Atomic!NUL = Driver!NUL
      /\ Atomic!ExtPrefix = Driver!ExtPrefix /\ Atomic!ShiftCodes = Driver!ShiftCodes
      /\ Atomic!Mapped = Driver!Mapped /\ Atomic!SameShifted = Driver!SameShifted
  BY DEF Atomic!NoByte, Driver!NoByte, Atomic!NUL, Driver!NUL,
         Atomic!ExtPrefix, Driver!ExtPrefix, Atomic!ShiftCodes, Driver!ShiftCodes,
         Atomic!Mapped, Driver!Mapped, Atomic!SameShifted, Driver!SameShifted
<1>2. \A i : /\ Atomic!Succ(i) = Driver!Succ(i)
             /\ Atomic!KeyOf(i) = Driver!KeyOf(i) /\ Atomic!IsMake(i) = Driver!IsMake(i)
  BY Zenon DEF Atomic!Succ, Driver!Succ, Atomic!KeyOf, Driver!KeyOf, Atomic!IsMake, Driver!IsMake
<1>3. \A b, s : Atomic!NextShift(b, s) = Driver!NextShift(b, s)
  BY <1>1, <1>2, Zenon DEF Atomic!NextShift, Driver!NextShift
<1>4. \A c, s : Atomic!ScancodeToChar(c, s) = Driver!ScancodeToChar(c, s)
  BY <1>1, Zenon DEF Atomic!ScancodeToChar, Driver!ScancodeToChar
<1>5. \A b, s : Atomic!CharOf(b, s) = Driver!CharOf(b, s)
  BY <1>1, <1>2, <1>4, Zenon DEF Atomic!CharOf, Driver!CharOf
<1> QED  BY <1>1, <1>2, <1>3, <1>5

(* While no handler pushes, the ring is as the driver sees it. *)
LEMMA RingAtRest ==
  ASSUME UNCHANGED <<hpc, nxt, tail, head, buf, byte>>
  PROVE  UNCHANGED <<HeadSoon, BufSoon>>
BY DEF HeadSoon, BufSoon, InPush

(* A step of the main program is the same step of the driver. *)
LEMMA MainIsMain ==
  ASSUME MainLoop
  PROVE  Atomic!Main
<1>1. /\ hpc = "none" /\ hpc' = "none" /\ Driver!Main
  BY DEF MainLoop, frameVars
<1>2. HeadSoon = head /\ HeadSoon' = head' /\ BufSoon = buf /\ BufSoon' = buf'
  BY <1>1 DEF HeadSoon, BufSoon, InPush
<1>3. Driver!Test => Atomic!Test
  BY <1>2 DEF Driver!Test, Atomic!Test, Driver!ringVars, Atomic!ringVars
<1>4. Driver!Fetch => Atomic!Fetch
  BY <1>2 DEF Driver!Fetch, Atomic!Fetch, Driver!ringVars, Atomic!ringVars
<1>5. Driver!Advance => Atomic!Advance
  BY <1>2, SameDecoding DEF Driver!Advance, Atomic!Advance, Driver!ringVars, Atomic!ringVars
<1>6. Driver!Decode => Atomic!Decode
  BY <1>2, SameDecoding, Zenon DEF Driver!Decode, Atomic!Decode, Driver!ringVars, Atomic!ringVars
<1>7. Driver!Again => Atomic!Again
  BY <1>2, SameDecoding DEF Driver!Again, Atomic!Again, Driver!ringVars, Atomic!ringVars
<1> QED  BY <1>1, <1>3, <1>4, <1>5, <1>6, <1>7 DEF Driver!Main, Atomic!Main

(* The handler's steps: reading the byte is the step, the others complete  *)
(* what it has promised.                                                   *)
LEMMA HandlerIsStep ==
  ASSUME TypeOK, IInv, PushInv, Handler
  PROVE  Atomic!IrqHandler \/ UNCHANGED Atomic!vars
<1> USE DEF At
<1>h. head \in Driver!Slot /\ buf \in [Driver!Slot -> Driver!Byte]
  BY DEF TypeOK, Driver!TypeOK
<1>m. UNCHANGED <<tail, shift, pc, sc, ret>>
  BY DEF Handler, Dispatch, ReadStatus, ReadData, PushTest, PushStore, PushMove,
         Unhandled, SendEoi, Iretq
<1>1. CASE Dispatch \/ ReadStatus \/ Unhandled \/ SendEoi \/ Iretq
  <2>1. UNCHANGED <<port, head, buf>> /\ ~InPush /\ ~InPush'
    BY <1>1 DEF Dispatch, ReadStatus, Unhandled, SendEoi, Iretq, InPush
  <2>2. UNCHANGED <<HeadSoon, BufSoon>>
    BY <2>1 DEF HeadSoon, BufSoon
  <2> QED  BY <1>m, <2>1, <2>2 DEF Atomic!vars
<1>2. CASE ReadData
  <2>1. /\ port # Driver!NoByte /\ port' = Driver!NoByte
        /\ hpc = "data" /\ hpc' = "test" /\ nxt' = Driver!Succ(head) /\ byte' = port
        /\ UNCHANGED <<buf, head, tail>>
    BY <1>2 DEF ReadData, IInv, HandlerInv
  <2>2. HeadSoon = head /\ BufSoon = buf
    BY <2>1 DEF HeadSoon, BufSoon, InPush
  <2>3. InPush' <=> Driver!Succ(head) # tail
    BY <2>1 DEF InPush
  <2>4. CASE Driver!Succ(head) # tail
    <3>1. HeadSoon' = Driver!Succ(head) /\ BufSoon' = [buf EXCEPT ![head] = port]
      BY <2>1, <2>3, <2>4 DEF HeadSoon, BufSoon
    <3> QED
      BY <1>m, <2>1, <2>2, <2>4, <3>1, SameDecoding
         DEF Atomic!IrqHandler, Atomic!PushScancode, Atomic!mainVars
  <2>5. CASE Driver!Succ(head) = tail
    <3>1. HeadSoon' = head /\ BufSoon' = buf
      BY <2>1, <2>3, <2>5 DEF HeadSoon, BufSoon
    <3> QED
      BY <1>m, <2>1, <2>2, <2>5, <3>1, SameDecoding
         DEF Atomic!IrqHandler, Atomic!PushScancode, Atomic!mainVars, Atomic!ringVars
  <2> QED  BY <2>4, <2>5
<1>3. CASE PushTest
  <2>1. /\ hpc = "test" /\ hpc' = (IF nxt # tail THEN "store" ELSE "eoi")
        /\ UNCHANGED <<port, buf, head, byte, nxt>>
    BY <1>3 DEF PushTest
  <2>2. InPush' <=> InPush
    BY <1>m, <2>1 DEF InPush
  <2>3. UNCHANGED <<HeadSoon, BufSoon>>
    BY <2>1, <2>2 DEF HeadSoon, BufSoon
  <2> QED  BY <1>m, <2>1, <2>3 DEF Atomic!vars
<1>4. CASE PushStore
  <2>1. /\ InPush /\ InPush' /\ buf' = [buf EXCEPT ![head] = byte]
        /\ UNCHANGED <<port, head, byte, nxt>>
    BY <1>4, <1>m DEF PushStore, InPush, PushInv
  <2>2. [buf' EXCEPT ![head] = byte] = [buf EXCEPT ![head] = byte]
    BY <1>h, <2>1
  <2>3. UNCHANGED <<HeadSoon, BufSoon>>
    BY <2>1, <2>2 DEF HeadSoon, BufSoon
  <2> QED  BY <1>m, <2>1, <2>3 DEF Atomic!vars
<1>5. CASE PushMove
  <2>1. /\ InPush /\ ~InPush' /\ head' = nxt /\ buf[head] = byte
        /\ UNCHANGED <<port, buf>>
    BY <1>5 DEF PushMove, InPush, PushInv
  <2>2. [buf EXCEPT ![head] = byte] = buf
    BY <1>h, <2>1
  <2>3. UNCHANGED <<HeadSoon, BufSoon>>
    BY <2>1, <2>2 DEF HeadSoon, BufSoon
  <2> QED  BY <1>m, <2>1, <2>3 DEF Atomic!vars
<1> QED  BY <1>1, <1>2, <1>3, <1>4, <1>5 DEF Handler

LEMMA AtomicStep ==
  ASSUME TypeOK, IInv, PushInv, [Next]_vars
  PROVE  [Atomic!Next]_(Atomic!vars)
<1>1. CASE Boot \/ TimerTicks \/ UNCHANGED vars
  <2>1. UNCHANGED <<kbVars, hpc, nxt, byte>>
    BY <1>1 DEF Boot, SetGates, RegisterDefaults, Icw1, SetOffset, MaskAll, LoadIdt,
                KeyboardInit, RegisterHandler, Unmask, Sti, Then, TimerTicks,
                vars, frameVars
  <2> QED  BY <2>1, RingAtRest DEF kbVars, Atomic!vars
<1>2. CASE MainLoop
  BY <1>2, MainIsMain DEF Atomic!Next
<1>3. ASSUME NEW k \in Keys, KeyArrives(k)
      PROVE  Atomic!Next
  <2>1. port = Driver!NoByte /\ port' = k /\ UNCHANGED <<tail, shift, pc, sc, ret, head, buf>>
        /\ UNCHANGED <<hpc, nxt, byte>>
    BY <1>3 DEF KeyArrives, Driver!KeyArrives, Driver!mainVars, Driver!ringVars, frameVars
  <2>2. Atomic!KeyArrives(k)
    BY <2>1, RingAtRest, SameDecoding
       DEF Atomic!KeyArrives, Atomic!mainVars, Atomic!ringVars
  <2> QED  BY <2>2 DEF Atomic!Next
<1>4. CASE Interrupt \/ SpuriousInterrupt
  <2>1. ~InPush /\ ~InPush' /\ UNCHANGED kbVars
    BY <1>4 DEF Interrupt, SpuriousInterrupt, IInv, BootInv, InPush
  <2> QED  BY <2>1 DEF kbVars, Atomic!vars, HeadSoon, BufSoon
<1>5. CASE Handler
  BY <1>5, HandlerIsStep DEF Atomic!Next
<1> QED  BY <1>1, <1>2, <1>3, <1>4, <1>5 DEF Next

(* For every ring size: to the driver's main program the keyboard's        *)
(* interrupt is one step, although irq_handler makes several accesses to   *)
(* the port and the ring and bytes arrive while it runs; so what is proved *)
(* of KeyboardRing holds of the driver inside the kernel.                  *)
THEOREM HandlerRunsAtomically == Spec => HandlerIsAtomic
<1>1. Init => PushInv
  BY DEF Init, PushInv
<1>2. TypeOK /\ IInv /\ PushInv /\ [Next]_vars => PushInv'
  BY PushStep
<1>3. Init => Atomic!Init
  <2> SUFFICES ASSUME Init PROVE Atomic!Init
    OBVIOUS
  <2>1. HeadSoon = head /\ BufSoon = buf
    BY DEF Init, HeadSoon, BufSoon, InPush
  <2> QED
    BY <2>1, SameDecoding
       DEF Init, Driver!Init, Atomic!Init, Atomic!Slot, Driver!Slot
<1>4. TypeOK /\ IInv /\ PushInv /\ [Next]_vars => [Atomic!Next]_(Atomic!vars)
  BY AtomicStep
<1> QED
  BY <1>1, <1>2, <1>3, <1>4, TypeCorrect, Invariance, PTL
     DEF Spec, HandlerIsAtomic, Atomic!Spec

-------------------------------------------------------------------------------
(* What is proved of the driver alone holds of it inside the kernel: the   *)
(* driver's theorems, with the ring as the handler will leave it.          *)
Kbd == INSTANCE KeyboardRing_proofs WITH head <- HeadSoon, buf <- BufSoon

(* That instance specifies what Atomic does. *)
LEMMA SameSpec == Atomic!Spec => Kbd!Spec
<1> USE DEF Atomic!NoByte, Kbd!NoByte, Atomic!NUL, Kbd!NUL
<1>1. Atomic!Init => Kbd!Init
  BY Zenon DEF Atomic!Init, Kbd!Init, Atomic!Slot, Kbd!Slot
<1>2. Atomic!Next => Kbd!Next
  BY Zenon
     DEF Atomic!Next, Kbd!Next, Atomic!Main, Kbd!Main,
         Atomic!KeyArrives, Kbd!KeyArrives, Atomic!IrqHandler, Kbd!IrqHandler,
         Atomic!PushScancode, Kbd!PushScancode, Atomic!Test, Kbd!Test,
         Atomic!Fetch, Kbd!Fetch, Atomic!Advance, Kbd!Advance,
         Atomic!Decode, Kbd!Decode, Atomic!Again, Kbd!Again,
         Atomic!mainVars, Kbd!mainVars, Atomic!ringVars, Kbd!ringVars,
         Atomic!Succ, Kbd!Succ, Atomic!NextShift, Kbd!NextShift,
         Atomic!CharOf, Kbd!CharOf, Atomic!ExtPrefix, Kbd!ExtPrefix,
         Atomic!ShiftCodes, Kbd!ShiftCodes, Atomic!IsMake, Kbd!IsMake,
         Atomic!KeyOf, Kbd!KeyOf, Atomic!ScancodeToChar, Kbd!ScancodeToChar,
         Atomic!Mapped, Kbd!Mapped, Atomic!SameShifted, Kbd!SameShifted
<1>3. [Atomic!Next]_(Atomic!vars) => [Kbd!Next]_(Kbd!vars)
  BY <1>2, Zenon DEF Atomic!vars, Kbd!vars
<1> QED  BY <1>1, <1>3, PTL DEF Atomic!Spec, Kbd!Spec

(* It promises the same queue of bytes. *)
SameQueueState ==
    /\ Kbd!NoByte = Atomic!NoByte
    /\ Kbd!Queue = Atomic!Queue
    /\ Kbd!Hand = Atomic!Hand

LEMMA SameQueueStates == SameQueueState
<1> USE DEF Atomic!NoByte, Kbd!NoByte, Atomic!Queue, Kbd!Queue, Atomic!Hand, Kbd!Hand,
            Atomic!Contents, Kbd!Contents, Atomic!CountOf, Kbd!CountOf, Atomic!Wrap, Kbd!Wrap
<1> QED  BY Zenon DEF SameQueueState

LEMMA SameQueueStatesNext == SameQueueState'
  BY SameQueueStates, PTL

LEMMA SameQueue == Kbd!RingIsFifo => Atomic!RingIsFifo
<1> USE SameQueueStates, SameQueueStatesNext DEF SameQueueState
<1>1. Kbd!Fifo!Init => Atomic!Fifo!Init
  BY DEF Atomic!Fifo!Init, Kbd!Fifo!Init
<1>2. \A b : Kbd!Fifo!Arrive(b) => Atomic!Fifo!Arrive(b)
  BY DEF Atomic!Fifo!Arrive, Kbd!Fifo!Arrive
<1>3. Kbd!Fifo!Accept => Atomic!Fifo!Accept
  BY DEF Atomic!Fifo!Accept, Kbd!Fifo!Accept, Atomic!Fifo!Occupied, Kbd!Fifo!Occupied
<1>4. Kbd!Fifo!Refuse => Atomic!Fifo!Refuse
  BY DEF Atomic!Fifo!Refuse, Kbd!Fifo!Refuse, Atomic!Fifo!Occupied, Kbd!Fifo!Occupied
<1>5. Kbd!Fifo!Take => Atomic!Fifo!Take
  BY DEF Atomic!Fifo!Take, Kbd!Fifo!Take
<1>6. Kbd!Fifo!Finish => Atomic!Fifo!Finish
  BY DEF Atomic!Fifo!Finish, Kbd!Fifo!Finish
<1>7. Kbd!Fifo!Next => Atomic!Fifo!Next
  BY <1>2, <1>3, <1>4, <1>5, <1>6, Zenon DEF Atomic!Fifo!Next, Kbd!Fifo!Next
<1>8. [Kbd!Fifo!Next]_(Kbd!Fifo!fifoVars) => [Atomic!Fifo!Next]_(Atomic!Fifo!fifoVars)
  BY <1>7 DEF Atomic!Fifo!fifoVars, Kbd!Fifo!fifoVars
<1> QED
  BY <1>1, <1>8, PTL
     DEF Kbd!RingIsFifo, Atomic!RingIsFifo, Kbd!Fifo!Spec, Atomic!Fifo!Spec

(* And the same line of characters. *)
LEMMA SameMeaning == \A b, s : Kbd!Line!Meaning(b, s) = Atomic!Line!Meaning(b, s)
  BY Zenon
     DEF Atomic!Line!Meaning, Kbd!Line!Meaning, Atomic!Line!Nothing, Kbd!Line!Nothing,
         Atomic!Line!Letterlike, Kbd!Line!Letterlike,
         Atomic!Line!Caseless, Kbd!Line!Caseless

(* What the two modules keep, name by name. *)
KbdHeld    == Kbd!ShiftBefore(Kbd!Pending, shift, Len(Kbd!Pending) + 1)
AtomicHeld == Atomic!ShiftBefore(Atomic!Pending, shift, Len(Atomic!Pending) + 1)

SameState ==
    /\ Kbd!NoByte = Atomic!NoByte
    /\ Kbd!Chars = Atomic!Chars
    /\ KbdHeld = AtomicHeld

LEMMA SameStates == SameState
<1> USE DEF Atomic!NoByte, Kbd!NoByte, Atomic!Pending, Kbd!Pending, Atomic!Queue, Kbd!Queue,
            Atomic!Contents, Kbd!Contents, Atomic!CountOf, Kbd!CountOf, Atomic!Wrap, Kbd!Wrap,
            Atomic!Chars, Kbd!Chars, Atomic!Decoded, Kbd!Decoded,
            Atomic!ShiftBefore, Kbd!ShiftBefore, Atomic!NextShift, Kbd!NextShift,
            Atomic!NUL, Kbd!NUL, Atomic!CharOf, Kbd!CharOf, Atomic!ExtPrefix, Kbd!ExtPrefix,
            Atomic!ShiftCodes, Kbd!ShiftCodes, Atomic!IsMake, Kbd!IsMake,
            Atomic!KeyOf, Kbd!KeyOf, Atomic!ScancodeToChar, Kbd!ScancodeToChar,
            Atomic!Mapped, Kbd!Mapped, Atomic!SameShifted, Kbd!SameShifted
<1> QED  BY Zenon DEF SameState, KbdHeld, AtomicHeld

LEMMA SameStatesNext == SameState'
  BY SameStates, PTL

LEMMA SameLine == Kbd!DecodesAsTyped => Atomic!DecodesAsTyped
<1> USE SameStates, SameStatesNext, SameMeaning DEF SameState, KbdHeld, AtomicHeld
<1>1. Kbd!Line!Init => Atomic!Line!Init
  BY DEF Atomic!Line!Init, Kbd!Line!Init
<1>2. \A b : Kbd!Line!Arrive(b) => Atomic!Line!Arrive(b)
  BY DEF Atomic!Line!Arrive, Kbd!Line!Arrive
<1>3. Kbd!Line!Accept => Atomic!Line!Accept
  BY SMTT(40)
     DEF Atomic!Line!Accept, Kbd!Line!Accept,
         Atomic!Line!ShiftPress, Kbd!Line!ShiftPress,
         Atomic!Line!ShiftRelease, Kbd!Line!ShiftRelease
<1>4. Kbd!Line!Refuse => Atomic!Line!Refuse
  BY DEF Atomic!Line!Refuse, Kbd!Line!Refuse
<1>5. Kbd!Line!Take => Atomic!Line!Take
  BY DEF Atomic!Line!Take, Kbd!Line!Take
<1>6. Kbd!Line!Finish => Atomic!Line!Finish
  BY DEF Atomic!Line!Finish, Kbd!Line!Finish
<1>7. Kbd!Line!Next => Atomic!Line!Next
  BY <1>2, <1>3, <1>4, <1>5, <1>6, Zenon DEF Atomic!Line!Next, Kbd!Line!Next
<1>8. [Kbd!Line!Next]_(Kbd!Line!lineVars) => [Atomic!Line!Next]_(Atomic!Line!lineVars)
  BY <1>7 DEF Atomic!Line!lineVars, Kbd!Line!lineVars
<1> QED
  BY <1>1, <1>8, PTL
     DEF Kbd!DecodesAsTyped, Atomic!DecodesAsTyped, Kbd!Line!Spec, Atomic!Line!Spec

(* What the driver's theorems assume of its constants, the kernel does.    *)
LEMMA SameAssumptions == Kbd!BufSizeAssumption /\ Kbd!KeysAssumption
<1>1. Kbd!Byte = Byte
  BY DEF Kbd!Byte, Byte
<1> QED
  BY <1>1, RingHasPlaces, KeysAreBytes DEF Kbd!BufSizeAssumption, Kbd!KeysAssumption

(* The ring is a FIFO queue of BUF_SIZE - 1 places in the whole kernel,    *)
(* for every ring size and wherever the handler's accesses fall: no byte   *)
(* is reordered, duplicated, overwritten, or dropped while there is room.  *)
THEOREM KernelRingIsFifo == Spec => RingIsFifo
<1>1. Kbd!Spec => Kbd!RingIsFifo
  BY SameAssumptions, Kbd!RingImplementsFifo DEF Kbd!RingImplementsFifo
<1> QED
  BY <1>1, HandlerRunsAtomically, SameSpec, SameQueue, PTL
     DEF HandlerIsAtomic, RingIsFifo

(* Decoding late is decoding early in the whole kernel, for every ring     *)
(* size: each character kernel_main gets has the case that the shift keys  *)
(* had when the keyboard interrupt took its byte, wherever in the handling *)
(* of interrupts the next bytes arrive.                                    *)
THEOREM KernelDecodesAsTyped == Spec => DecodesAsTyped
<1>1. Kbd!Spec => Kbd!DecodesAsTyped
  BY SameAssumptions, Kbd!DecodingMayWait DEF Kbd!DecodingMayWait
<1> QED
  BY <1>1, HandlerRunsAtomically, SameSpec, SameLine, PTL
     DEF HandlerIsAtomic, DecodesAsTyped
==============================================================================
