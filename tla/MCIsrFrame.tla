------------------------------ MODULE MCIsrFrame ------------------------------
(* Instances of IsrFrame for TLC. *)
EXTENDS IsrFrame

(* Every stub of the table but the two whose exceptions cannot be raised. *)
AllVectors == (0 .. 47) \ {21, 29}

(* The two interrupts of the running kernel: keyboard and spurious. *)
KernelVectors == {33, 39}
===============================================================================
