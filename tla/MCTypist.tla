------------------------------- MODULE MCTypist -------------------------------
(* An instance of Typist, and so of KeyboardRing, for TLC. *)
EXTENDS Typist

(* A shift key, a key that fakes the other one, and a letter. *)
ThreeKeys == {"right_shift", "print_screen", "letter"}

(* The bytes these keys send: make and break codes, the prefix 0xE0. *)
TheirBytes == {54, 182, 42, 170, 55, 183, 30, 158, 224}
===============================================================================
