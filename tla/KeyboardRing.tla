----------------------------- MODULE KeyboardRing -----------------------------
(***************************************************************************)
(* The PS/2 keyboard driver, kernel/keyboard.cpp: a ring of scancodes      *)
(* between the IRQ1 handler, which pushes, and read(), which pops, decodes *)
(* and returns characters to the loop of kernel_main.                      *)
(*                                                                         *)
(* The handler runs behind an interrupt gate (IF = 0) on the only CPU, so  *)
(* against the main program it is one step; the main program can be        *)
(* interrupted between any two accesses to the shared head, tail and buf,  *)
(* so poll() is one step per access that matters.                          *)
(***************************************************************************)
EXTENDS Scancode, Sequences

CONSTANTS BufSize,   \* BUF_SIZE, 64 in the code
          Keys       \* the bytes the keyboard may send

ASSUME BufSizeAssumption == BufSize \in Nat /\ BufSize > 1
ASSUME KeysAssumption == Keys \subseteq Byte

VARIABLES port,      \* the controller's output buffer (ports 0x60/0x64), or NoByte
          buf,       \* the ring
          head,      \* next slot the handler writes
          tail,      \* next slot poll() reads
          shift,     \* the shift flag
          pc,        \* where the main program is in read()/poll()
          sc,        \* poll()'s local sc
          ret        \* the character read() returns

vars == <<port, buf, head, tail, shift, pc, sc, ret>>
mainVars == <<tail, shift, pc, sc, ret>>
ringVars == <<buf, head>>

NoByte == -1
Slot == 0 .. BufSize - 1
MainPC == {"test", "fetch", "advance", "decode", "return"}

(* Mutant: the index never wraps. *)
Succ_NoWrap(i) == i + 1

(* (i + 1) % BUF_SIZE *)
Succ(i) == (i + 1) % BufSize

Init ==
    /\ port = NoByte
    /\ buf = [i \in Slot |-> 0]
    /\ head = 0 /\ tail = 0
    /\ shift = FALSE
    /\ pc = "test"
    /\ sc = 0
    /\ ret = NUL

-------------------------------------------------------------------------------
(* The interrupt side.                                                     *)

(* External: the controller latches the next byte once the last was read.  *)
KeyArrives(k) ==
    /\ port = NoByte
    /\ port' = k
    /\ UNCHANGED <<mainVars, ringVars>>

(* Mutant: the full ring is not detected. *)
PushScancode_NoFullCheck(b) ==
    /\ buf' = [buf EXCEPT ![head] = b]
    /\ head' = Succ(head)

(* push_scancode: the byte is dropped when the ring is full. *)
PushScancode(b) ==
    IF Succ(head) # tail
    THEN /\ buf' = [buf EXCEPT ![head] = b]
         /\ head' = Succ(head)
    ELSE UNCHANGED ringVars

(* Mutant: the handler already applies shift keys to the flag. *)
IrqHandler_ShiftAtIrq ==
    /\ port # NoByte
    /\ PushScancode(port)
    /\ shift' = NextShift(port, shift)
    /\ port' = NoByte
    /\ UNCHANGED <<tail, pc, sc, ret>>

(* irq_handler: when the status port shows a byte, read it and push it.    *)
(* (With no byte at the port the handler does nothing.)                    *)
IrqHandler ==
    /\ port # NoByte
    /\ PushScancode(port)
    /\ port' = NoByte
    /\ UNCHANGED mainVars

-------------------------------------------------------------------------------
(* The main program: read() calls poll() until it returns a character.     *)

(* Mutant: a ring whose head has wrapped looks empty. *)
Test_Less ==
    /\ pc = "test"
    /\ tail < head
    /\ pc' = "fetch"
    /\ UNCHANGED <<port, ringVars, tail, shift, sc, ret>>

(* while (head != tail): the only read of head by the main program. *)
Test ==
    /\ pc = "test"
    /\ head # tail
    /\ pc' = "fetch"
    /\ UNCHANGED <<port, ringVars, tail, shift, sc, ret>>

(* sc = buf[tail] *)
Fetch ==
    /\ pc = "fetch"
    /\ sc' = buf[tail]
    /\ pc' = "advance"
    /\ UNCHANGED <<port, ringVars, tail, shift, ret>>

(* Mutant: the whole ring is released, not the one place that was read. *)
Advance_ToHead ==
    /\ pc = "advance"
    /\ tail' = head
    /\ pc' = "decode"
    /\ UNCHANGED <<port, ringVars, shift, sc, ret>>

(* tail = (tail + 1) % BUF_SIZE: from here on the handler may reuse the slot. *)
Advance ==
    /\ pc = "advance"
    /\ tail' = Succ(tail)
    /\ pc' = "decode"
    /\ UNCHANGED <<port, ringVars, shift, sc, ret>>

(* c = process_scancode(sc); if (c) return c; otherwise poll() loops.      *)
(* Either way sc is out of scope.                                          *)
Decode ==
    /\ pc = "decode"
    /\ sc' = 0
    /\ shift' = NextShift(sc, shift)
    /\ LET c == CharOf(sc, shift) IN
       IF c = NUL
       THEN pc' = "test" /\ UNCHANGED ret
       ELSE pc' = "return" /\ ret' = c
    /\ UNCHANGED <<port, ringVars, tail>>

(* kernel_main has used the character and calls read() again. *)
Again ==
    /\ pc = "return"
    /\ pc' = "test"
    /\ ret' = NUL
    /\ UNCHANGED <<port, ringVars, tail, shift, sc>>

Main == Test \/ Fetch \/ Advance \/ Decode \/ Again

Next == (\E k \in Keys : KeyArrives(k)) \/ IrqHandler \/ Main

Spec == Init /\ [][Next]_vars

-------------------------------------------------------------------------------
(* Properties.                                                             *)

TypeOK ==
    /\ port \in Byte \cup {NoByte}
    /\ buf \in [Slot -> Byte]
    /\ head \in Slot /\ tail \in Slot
    /\ shift \in BOOLEAN
    /\ pc \in MainPC
    /\ sc \in Byte
    /\ ret \in Char

(* The queued bytes, oldest first: the slots from tail up to head. *)
CountOf(h, t)     == IF t <= h THEN h - t ELSE h + BufSize - t
Wrap(i)           == IF i < BufSize THEN i ELSE i - BufSize
Contents(b, h, t) == [i \in 1 .. CountOf(h, t) |-> b[Wrap(t + i - 1)]]

Count == CountOf(head, tail)
Queue == Contents(buf, head, tail)

(* Once poll() has seen the ring non-empty it stays so, and the byte it    *)
(* copied is still the oldest one when it releases the slot: no number of  *)
(* interrupts between the two lines of poll() empties the ring under the   *)
(* reader or overwrites the slot it is reading.                            *)
FetchedIsHead ==
    /\ pc \in {"fetch", "advance"} => head # tail
    /\ pc = "advance" => sc = buf[tail]

(* The ring is a FIFO queue of BUF_SIZE - 1 places: bytes are neither      *)
(* reordered, duplicated nor overwritten, and push_scancode drops a byte   *)
(* only when all the places are taken.                                     *)
Hand == IF pc = "decode" THEN sc ELSE NoByte

Fifo == INSTANCE BoundedFifo
          WITH Values    <- Keys,
               None      <- NoByte,
               Capacity  <- BufSize - 1,
               HoldsSlot <- FALSE,
               q         <- Queue,
               hand      <- Hand

RingIsFifo == Fifo!Spec

(* Decoding late is decoding early: bytes are decoded when they are read,  *)
(* possibly long after they were typed, and yet every character has the    *)
(* case that the shift keys had when its key was struck.                   *)
Pending == (IF pc = "decode" THEN <<sc>> ELSE << >>) \o Queue

(* Was a shift key held before the i-th of the bytes p, sh being the flag  *)
(* before the first?  It was if a press, or sh, had no release after it.   *)
ShiftBefore(p, sh, i) ==
    \E j \in 0 .. i - 1 :
       /\ IF j = 0 THEN sh ELSE NextShift(p[j], FALSE)
       /\ \A k \in j + 1 .. i - 1 : NextShift(p[k], TRUE)

Decoded(p, sh) == [i \in 1 .. Len(p) |-> CharOf(p[i], ShiftBefore(p, sh, i))]

Chars == Decoded(Pending, shift)

Line == INSTANCE TypedLine
          WITH None     <- NoByte,
               Capacity <- BufSize - 1,
               held     <- ShiftBefore(Pending, shift, Len(Pending) + 1),
               line     <- IF pc = "decode" THEN Tail(Chars) ELSE Chars,
               hand     <- IF pc = "decode" THEN <<Head(Chars)>> ELSE << >>

DecodesAsTyped == Line!Spec

(* A queued byte that stands for a character makes read() return: the      *)
(* reader is never left waiting on a ring that holds a character.  (Of     *)
(* fair behaviours: those of KernelX86's FairSpec.)                        *)
QueuedKeyIsRead ==
    (\E i \in 1 .. Count : CharOf(Queue[i], FALSE) # NUL) ~> (pc = "return")

===============================================================================
