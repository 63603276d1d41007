-------------------------------- MODULE Typist --------------------------------
(***************************************************************************)
(* The PS/2 driver seen from the typist's hands: keys go down and up, the  *)
(* keyboard turns that into bytes on the wire, and KeyboardRing carries    *)
(* them from the interrupt to the decoder.  The driver keeps one flag for  *)
(* two shift keys, throws the prefix 0xE0 away, so that the fake shifts of *)
(* extended keys count as real ones, and loses a byte that finds the ring  *)
(* full, be it the release of a shift key.                                 *)
(***************************************************************************)
EXTENDS KeyboardRing, SequencesExt

CONSTANTS Hands,      \* the keys the typist uses
          UnderWay    \* a bound: how many bytes are under way at most

ASSUME HandsAssumption == Hands \subseteq {"left_shift", "right_shift", "letter", "print_screen"}
ASSUME UnderWayAssumption == UnderWay \in Nat

VARIABLES down,     \* the keys that are down
          faked,    \* did the press of print screen send a fake shift?
          wire,     \* the bytes the keyboard has still to send
          marks,    \* for each byte under way: was a shift press in force (ShiftSent)?
          lost      \* was the last shift byte dropped?

hands      == <<down, faked, wire, marks, lost>>
typistVars == <<vars, hands>>

TypistInit ==
    /\ Init
    /\ down = {} /\ faked = FALSE /\ wire = << >> /\ marks = << >> /\ lost = FALSE

ShiftKeys == {"left_shift", "right_shift"}

(* Is a shift press in force, as the keyboard has told the driver?  Is a    *)
(* shift key down, or a key that has faked one?                            *)
ShiftSent == down \cap ShiftKeys # {} \/ faked

-------------------------------------------------------------------------------
(* External: the keyboard, scancode set 1.                                 *)

Make(key) ==
    CASE key = "left_shift"  -> <<42>>
      [] key = "right_shift" -> <<54>>
      [] key = "letter"      -> <<30>>
      [] key = "print_screen" /\ ~faked' -> <<224, 55>>
      [] key = "print_screen" /\ faked'  -> <<224, 42, 224, 55>>

Break(key) ==
    CASE key = "left_shift"  -> <<170>>
      [] key = "right_shift" -> <<182>>
      [] key = "letter"      -> <<158>>
      [] key = "print_screen" /\ ~faked -> <<224, 183>>
      [] key = "print_screen" /\ faked  -> <<224, 183, 224, 170>>

Send(bytes) ==
    /\ Len(marks) + Len(bytes) <= UnderWay
    /\ wire' = wire \o bytes
    /\ marks' = marks \o [i \in 1 .. Len(bytes) |-> ShiftSent]
    /\ UNCHANGED <<vars, lost>>

(* Print screen fakes a left shift, unless a shift key is down already.    *)
Press(key) ==
    /\ key \notin down
    /\ down' = down \cup {key}
    /\ faked' = IF key = "print_screen" THEN down \cap ShiftKeys = {} ELSE faked
    /\ Send(Make(key))

Release(key) ==
    /\ key \in down
    /\ down' = down \ {key}
    /\ faked' = (faked /\ key # "print_screen")
    /\ Send(Break(key))

WireToPort ==
    /\ wire # << >>
    /\ KeyArrives(Head(wire))
    /\ wire' = Tail(wire)
    /\ UNCHANGED <<down, faked, marks, lost>>

-------------------------------------------------------------------------------
(* The driver, with what becomes of the typist's marks.                    *)

IsShiftByte(b) == b # ExtPrefix /\ KeyOf(b) \in ShiftCodes

Irq ==
    /\ IrqHandler
    /\ LET place == Len(Pending) + 1 IN
       IF head' = head
       THEN /\ marks' = RemoveAt(marks, place)
            /\ lost'  = (lost \/ IsShiftByte(port))
       ELSE /\ marks' = [marks EXCEPT ![place] = marks[place] \/ lost]
            /\ lost'  = (lost /\ ~IsShiftByte(port))
    /\ UNCHANGED <<down, faked, wire>>

DecodeNext == Decode /\ marks' = Tail(marks) /\ UNCHANGED <<down, faked, wire, lost>>

Rest == (Test \/ Fetch \/ Advance \/ Again) /\ UNCHANGED hands

TypistNext == (\E key \in Hands : Press(key) \/ Release(key)) \/ WireToPort \/ Irq
              \/ DecodeNext \/ Rest

TypistSpec == TypistInit /\ [][TypistNext]_typistVars

-------------------------------------------------------------------------------
(* Properties.                                                             *)

TypistTypeOK ==
    /\ down \subseteq Hands /\ faked \in BOOLEAN /\ lost \in BOOLEAN
    /\ Len(marks) <= UnderWay /\ \A i \in 1 .. Len(wire) : wire[i] \in Byte
    /\ Len(marks) = Len(Pending) + (IF port = NoByte THEN 0 ELSE 1) + Len(wire)
    /\ \A i \in 1 .. Len(marks) : marks[i] \in BOOLEAN

(* read() returns an upper case letter only when a shift press was in      *)
(* force as the letter was struck: a shift key was down, or else a print   *)
(* screen key that had faked one; and this however long the byte waited    *)
(* and whatever was pressed, released or decoded since.  Only a shift byte *)
(* dropped by a full ring excuses it.  So a fake shift does turn letters   *)
(* upper case, as process_scancode drops its prefix and takes it for a     *)
(* real one, but only for as long as the key that faked it is held.  (The  *)
(* converse does not hold: the release of one shift key, real or fake,     *)
(* ends the other's effect.)                                               *)
UpperNeedsShiftSent ==
    [][pc = "decode" /\ pc' = "return" /\ ret'[2] => Head(marks)]_typistVars

(* The shift flag does not stick: once every key is up and every byte is   *)
(* decoded it is off, whichever of the shift keys, real or fake, were down *)
(* together and in whatever order they were let go, unless the last shift  *)
(* byte was dropped.                                                       *)
ShiftLetsGo == down = {} /\ marks = << >> /\ ~lost => ~shift
===============================================================================
