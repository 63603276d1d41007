------------------------------ MODULE MCKernelX86 ------------------------------
(* Instances of KernelX86 for TLC. *)
EXTENDS KernelX86

(* A key, and a shift key pressed and released. *)
ThreeCodes == {30, 42, 170}

(* A key. *)
OneCode == {30}
===============================================================================
