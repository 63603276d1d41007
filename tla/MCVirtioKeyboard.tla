--------------------------- MODULE MCVirtioKeyboard ---------------------------
(* Instances of VirtioKeyboard for TLC. *)
EXTENDS VirtioKeyboard

Key(code, value) == [type |-> 1, code |-> code, value |-> value]
Syn == [type |-> 0, code |-> 0, value |-> 0]

(* A letter pressed, a shift key pressed and released, an end-of-report. *)
TypistEvents == {Key(30, 1), Key(42, 1), Key(42, 0), Syn}

(* Two letters. *)
TwoKeys == {Key(30, 1), Key(48, 1)}
===============================================================================
