------------------------------ MODULE MCBringUp ------------------------------
(* An instance of BringUp for TLC. *)
EXTENDS BringUp

BothBoards == {"x86_64", "riscv64"}

(* Zeroed by the boot loader, or full of present entries. *)
TwoMemories == {[w \in Word |-> 0], [w \in Word |-> 135]}

(* Empty, and every remainder by 8 and by 16. *)
AnyAlignment == 0 .. 48
===============================================================================
