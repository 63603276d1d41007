---------------------------- MODULE MCVirtioRelaxed ----------------------------
(* Instances of VirtioRelaxed for TLC. *)
EXTENDS VirtioRelaxed

(* Two letters, told apart. *)
TwoKeys == {[type |-> 1, code |-> 30, value |-> 1], [type |-> 1, code |-> 48, value |-> 1]}

(* Stores out of order; loads and stores out of order. *)
RelaxedHarts == {[loads |-> TRUE, stores |-> FALSE], [loads |-> FALSE, stores |-> FALSE]}

(* Loads out of order. *)
LoadsRelaxed == {[loads |-> FALSE, stores |-> TRUE]}
================================================================================
