----------------------------- MODULE MCVgaConsole -----------------------------
(* Instances of VgaConsole for TLC. *)
EXTENDS VgaConsole

(* The characters with a case of their own in the echo or in put_char, and *)
(* a letter.                                                               *)
TypedChars == {"a", Newline, Backspace}

(* A line longer than a row. *)
LongBanner == <<"T", "o", "p", "i">>
===============================================================================
