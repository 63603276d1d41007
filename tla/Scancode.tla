------------------------------- MODULE Scancode -------------------------------
(***************************************************************************)
(* process_scancode and scancode_to_char of kernel/keyboard.cpp: what one  *)
(* byte from the PS/2 controller means, given the shift flag.              *)
(*                                                                         *)
(* A character is abstracted to the pair <<key code, shifted?>> that       *)
(* selects it in the layout table: the table never maps two such pairs to  *)
(* the same character, except that the keys in SameShifted ignore shift.   *)
(* NUL is the 0 the code returns for "no character".                       *)
(***************************************************************************)
EXTENDS Integers

Byte == 0 .. 255

ExtPrefix   == 224             \* 0xE0
ShiftCodes  == {42, 54}        \* 0x2A left shift, 0x36 right shift
SameShifted == {14, 15, 28, 57}  \* backspace, tab, enter, space
Mapped      == (2 .. 28) \cup (30 .. 41) \cup (43 .. 53) \cup {57}

NUL  == <<0, FALSE>>
Char == (0 .. 127) \X BOOLEAN

IsMake(sc) == sc < 128         \* (sc & 0x80) == 0
KeyOf(sc)  == sc % 128         \* sc & 0x7F

(* scancode_to_char: the layout table. *)
ScancodeToChar(code, sh) ==
    IF code \notin Mapped THEN NUL
    ELSE <<code, sh /\ code \notin SameShifted>>

(* Mutant: only the right shift key's release is recognised. *)
NextShift_RightOnly(sc, sh) ==
    IF sc \in ShiftCodes THEN TRUE ELSE sh /\ sc # 182

(* The shift flag after process_scancode(sc). *)
NextShift(sc, sh) ==
    IF sc # ExtPrefix /\ KeyOf(sc) \in ShiftCodes THEN IsMake(sc) ELSE sh

(* The character process_scancode(sc) returns. *)
CharOf(sc, sh) ==
    IF sc = ExtPrefix \/ KeyOf(sc) \in ShiftCodes \/ ~IsMake(sc)
    THEN NUL
    ELSE ScancodeToChar(KeyOf(sc), sh)
==============================================================================
