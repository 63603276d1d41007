------------------------------- MODULE TextStrip -------------------------------
(***************************************************************************)
(* What the text console promises: the screen is one cyclic strip of       *)
(* cells, row after row.  A character takes the cell at the cursor and the *)
(* cursor moves to the next one; a new line moves it to the first cell of  *)
(* the next row; past the last cell comes the first again.                 *)
(***************************************************************************)
EXTENDS Naturals

CONSTANTS Width, Height,   \* the screen, in cells
          Glyphs,          \* what a cell shows
          Colors,
          Blank            \* the glyph of an empty cell

VARIABLES strip,           \* the cells, from 0
          at               \* the cursor

stripVars == <<strip, at>>

Size == Width * Height
Cell == 0 .. Size - 1

Init == strip \in [Cell -> Glyphs \X Colors] /\ at = 0

Put == \E g \in Glyphs, c \in Colors :
         /\ strip' = [strip EXCEPT ![at] = <<g, c>>]
         /\ at' = (at + 1) % Size

NewLine == \E row \in 0 .. Height - 1 :
             /\ at \in row * Width .. row * Width + (Width - 1)
             /\ at' = ((row + 1) * Width) % Size
             /\ UNCHANGED strip

Erase == \E c \in Colors : strip' = [i \in Cell |-> <<Blank, c>>] /\ at' = 0

Next == Put \/ NewLine \/ Erase

Spec == Init /\ [][Next]_stripVars
===============================================================================
