----------------------------- MODULE BoundedFifo -----------------------------
(***************************************************************************)
(* What an input queue of the kernel promises, whatever ring of memory     *)
(* implements it: the values that arrive at its port come out in the order *)
(* they went in, each once, and a value is refused only when no place is   *)
(* free.                                                                   *)
(*                                                                         *)
(* The reader takes the oldest value into its hand and later finishes with *)
(* it.  HoldsSlot says whether the value in the reader's hand still        *)
(* occupies one of the Capacity places (a buffer lent to a device does, a  *)
(* byte copied out of a ring does not).                                    *)
(***************************************************************************)
EXTENDS Naturals, Sequences

CONSTANTS Values,     \* what the queue carries
          None,       \* an empty port, an empty hand
          Capacity,   \* how many values fit
          HoldsSlot   \* does a value in hand still occupy a place?

VARIABLES port,       \* the value that has arrived and waits, or None
          q,          \* the queued values, oldest first
          hand        \* the value the reader has taken, or None

fifoVars == <<port, q, hand>>

Occupied == Len(q) + (IF HoldsSlot /\ hand # None THEN 1 ELSE 0)

Init == port = None /\ q = << >> /\ hand = None

(* A value arrives at the port. *)
Arrive(v) ==
    /\ port = None
    /\ port' = v
    /\ UNCHANGED <<q, hand>>

(* The value at the port is queued: there is a place for it. *)
Accept ==
    /\ port # None
    /\ Occupied < Capacity
    /\ q' = Append(q, port)
    /\ port' = None
    /\ UNCHANGED hand

(* The value at the port is lost: allowed only when every place is taken. *)
Refuse ==
    /\ port # None
    /\ Occupied = Capacity
    /\ port' = None
    /\ UNCHANGED <<q, hand>>

(* The reader takes the oldest value. *)
Take ==
    /\ hand = None
    /\ q # << >>
    /\ hand' = Head(q)
    /\ q' = Tail(q)
    /\ UNCHANGED port

(* The reader has finished with the value in its hand. *)
Finish ==
    /\ hand # None
    /\ hand' = None
    /\ UNCHANGED <<port, q>>

Next == (\E v \in Values : Arrive(v)) \/ Accept \/ Refuse \/ Take \/ Finish

Spec == Init /\ [][Next]_fifoVars
==============================================================================
