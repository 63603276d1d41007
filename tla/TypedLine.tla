------------------------------ MODULE TypedLine ------------------------------
(***************************************************************************)
(* What the reader of a PS/2 keyboard wants: each byte is understood at    *)
(* the moment the keyboard's interrupt accepts it, with the shift keys as  *)
(* they are then, and its meaning waits in a line for the reader.  A byte  *)
(* that finds the line full is lost with its meaning.                      *)
(***************************************************************************)
EXTENDS Naturals, Sequences

CONSTANTS Keys,       \* the bytes the keyboard may send
          None,       \* an empty port
          Capacity    \* how many meanings can wait

VARIABLES port,       \* the byte that has arrived, or None
          held,       \* was the last accepted shift byte a press?
          line,       \* the meanings that wait, oldest first
          hand        \* what the reader has: << >> or <<meaning>>

lineVars == <<port, held, line, hand>>

(* The layout, from the scancode set 1 tables: a key's release is its press *)
(* plus 128, and the bytes that are no key of the layout mean nothing.      *)
Nothing       == <<0, FALSE>>
ShiftPress    == {42, 54}
ShiftRelease  == {170, 182}
Letterlike    == (2 .. 13) \cup (16 .. 27) \cup (30 .. 41) \cup (43 .. 53)
Caseless      == {14, 15, 28, 57}

Meaning(b, shifted) ==
    CASE b \in Letterlike -> <<b, shifted>>
      [] b \in Caseless   -> <<b, FALSE>>
      [] OTHER            -> Nothing

Init == port = None /\ held = FALSE /\ line = << >> /\ hand = << >>

Arrive(b) ==
    /\ port = None
    /\ port' = b
    /\ UNCHANGED <<held, line, hand>>

Accept ==
    /\ port # None
    /\ Len(line) < Capacity
    /\ line' = Append(line, Meaning(port, held))
    /\ held' = (port \in ShiftPress \/ (held /\ port \notin ShiftRelease))
    /\ port' = None
    /\ UNCHANGED hand

Refuse ==
    /\ port # None
    /\ Len(line) = Capacity
    /\ port' = None
    /\ UNCHANGED <<held, line, hand>>

Take ==
    /\ hand = << >>
    /\ line # << >>
    /\ hand' = <<Head(line)>>
    /\ line' = Tail(line)
    /\ UNCHANGED <<port, held>>

Finish ==
    /\ hand # << >>
    /\ hand' = << >>
    /\ UNCHANGED <<port, held, line>>

Next == (\E b \in Keys : Arrive(b)) \/ Accept \/ Refuse \/ Take \/ Finish

Spec == Init /\ [][Next]_lineVars
==============================================================================
