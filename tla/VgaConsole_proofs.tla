--------------------------- MODULE VgaConsole_proofs ---------------------------
(***************************************************************************)
(* Theorems about VgaConsole for every screen size.                        *)
(***************************************************************************)
EXTENDS VgaConsole, TLAPS, SequenceTheorems

Column == 0 .. Width - 1
Row    == 0 .. Height - 1

(* A cell of the screen has its place in video memory. *)
LEMMA CellOffset ==
  ASSUME NEW cx \in Column, NEW cy \in Row
  PROVE  /\ cy * Width + cx \in Offset
         /\ Width * Height \in Nat \ {0}
<1>1. Width \in Nat \ {0} /\ Height \in Nat \ {0} /\ cx \in 0 .. Width - 1 /\ cy \in 0 .. Height - 1
  BY SizeAssumption DEF Column, Row
<1>2. cy * Width \in Nat /\ Width * Height \in Nat \ {0}
  BY <1>1
<1>3. (cy + 1) * Width <= Height * Width
  BY <1>1
<1>4. (cy + 1) * Width = cy * Width + Width /\ Height * Width = Width * Height
  BY <1>1
<1> QED  BY <1>1, <1>2, <1>3, <1>4 DEF Offset

(* Stepping around a cycle. *)
LEMMA CycleStep ==
  ASSUME NEW n \in Nat \ {0}, NEW a \in 0 .. n - 1
  PROVE  (a + 1) % n = IF a + 1 = n THEN 0 ELSE a + 1
<1>1. CASE a + 1 = n
  BY <1>1
<1>2. CASE a + 1 < n
  BY <1>2
<1> QED  BY <1>1, <1>2

(* Going down a row, cyclically, is stepping to the next row's first cell. *)
LEMMA NextRowStart ==
  ASSUME NEW cy \in Row
  PROVE  /\ NextRow(cy) \in Row
         /\ NextRow(cy) * Width = ((cy + 1) * Width) % (Width * Height)
<1>1. Width \in Nat \ {0} /\ Height \in Nat \ {0} /\ cy \in 0 .. Height - 1
  BY SizeAssumption DEF Row
<1>2. CASE cy + 1 = Height
  <2>1. NextRow(cy) = 0
    BY <1>1, <1>2 DEF NextRow
  <2>2. (cy + 1) * Width = Width * Height /\ Width * Height \in Nat \ {0}
    BY <1>1, <1>2
  <2>3. (Width * Height) % (Width * Height) = 0
    <3>1. ASSUME NEW n \in Nat \ {0} PROVE n % n = 0
      OBVIOUS
    <3> QED  BY <2>2, <3>1, Zenon
  <2> QED  BY <1>1, <2>1, <2>2, <2>3 DEF Row
<1>3. CASE cy + 1 < Height
  <2>1. NextRow(cy) = cy + 1
    BY <1>1, <1>3 DEF NextRow
  <2>2. (cy + 1) * Width \in Nat /\ Width * Height \in Nat \ {0}
        /\ (cy + 1) * Width < Width * Height
    <3>1. cy + 2 <= Height
      BY <1>1, <1>3
    <3>2. (cy + 2) * Width <= Height * Width
      BY <1>1, <3>1
    <3>3. (cy + 2) * Width = (cy + 1) * Width + Width /\ Height * Width = Width * Height
      BY <1>1
    <3>4. (cy + 1) * Width \in Nat /\ Width * Height \in Nat
      BY <1>1
    <3> QED  BY <1>1, <3>2, <3>3, <3>4
  <2>3. ASSUME NEW a \in Nat, NEW n \in Nat \ {0}, a < n PROVE a % n = a
    BY <2>3
  <2>4. ((cy + 1) * Width) % (Width * Height) = (cy + 1) * Width
    BY <2>2, <2>3
  <2> QED  BY <1>1, <1>3, <2>1, <2>4 DEF Row
<1> QED  BY <1>1, <1>2, <1>3

-------------------------------------------------------------------------------
(* What put_char does to a cursor on the screen: it stays on the screen,   *)
(* and moves to the next cell of the strip, or to the next row's first.    *)
LEMMA PutCharMoves ==
  ASSUME TypeOK, NEW c \in Chars \cup {Newline}
  PROVE  /\ PutChar(Console, c).x \in Column
         /\ PutChar(Console, c).y \in Row
         /\ c = Newline =>
              /\ PutChar(Console, c).x = 0
              /\ PutChar(Console, c).y = NextRow(y)
              /\ PutChar(Console, c).video = video
         /\ c # Newline =>
              /\ PutChar(Console, c).y * Width + PutChar(Console, c).x
                   = (y * Width + x + 1) % (Width * Height)
              /\ PutChar(Console, c).video = [video EXCEPT ![y * Width + x] = <<c, color>>]
<1>t. x \in Column /\ y \in Row /\ Width \in Nat \ {0} /\ Height \in Nat \ {0}
  BY SizeAssumption DEF TypeOK, Column, Row
<1>1. CASE c = Newline
  <2>1. PutChar(Console, c) = [x |-> 0, y |-> NextRow(y), video |-> video]
    BY <1>1 DEF PutChar, Console
  <2> QED  BY <1>t, <1>1, <2>1, NextRowStart DEF Column
<1>2. CASE c # Newline
  <2> DEFINE full == x + 1 >= Width
             con == PutChar(Console, c)
  <2>1. /\ con.x = IF full THEN 0 ELSE x + 1
        /\ con.y = IF full THEN NextRow(y) ELSE y
        /\ con.video = [video EXCEPT ![y * Width + x] = <<c, color>>]
    BY <1>2 DEF PutChar, Console
  <2>2. con.x \in Column /\ con.y \in Row
    BY <1>t, <2>1, NextRowStart DEF Column
  <2>3. con.y * Width + con.x = (y * Width + x + 1) % (Width * Height)
    <3>1. y * Width + x \in 0 .. (Width * Height) - 1 /\ Width * Height \in Nat \ {0}
      BY <1>t, CellOffset DEF Offset
    <3>2. CASE full
      <4>1. x = Width - 1
        BY <1>t, <3>2 DEF Column
      <4>2. y * Width + x + 1 = (y + 1) * Width
        BY <1>t, <4>1 DEF Row
      <4>3. con.y * Width = ((y + 1) * Width) % (Width * Height)
        BY <1>t, <2>1, <3>2, NextRowStart
      <4>4. con.y * Width + 0 = con.y * Width
        BY <1>t, <2>2 DEF Row
      <4> QED  BY <2>1, <3>2, <4>2, <4>3, <4>4
    <3>3. CASE ~full
      <4>1. x + 1 \in Column
        BY <1>t, <3>3 DEF Column
      <4>2. y * Width + (x + 1) \in 0 .. (Width * Height) - 1
        BY <1>t, <4>1, CellOffset DEF Offset
      <4>3. y * Width \in Int
        BY <1>t DEF Row
      <4>4. y * Width + (x + 1) = y * Width + x + 1
        BY <1>t, <4>3 DEF Column
      <4>5. (y * Width + x + 1) % (Width * Height) = y * Width + x + 1
        <5> DEFINE a == y * Width + x
                   n == Width * Height
        <5>1. a \in 0 .. n - 1 /\ n \in Nat \ {0} /\ a + 1 # n
          BY <3>1, <4>2, <4>4
        <5> HIDE DEF a, n
        <5>2. (a + 1) % n = a + 1
          BY <5>1, CycleStep
        <5> QED  BY <5>2 DEF a, n
      <4> QED  BY <2>1, <3>3, <4>4, <4>5
    <3> QED  BY <3>2, <3>3
  <2> QED  BY <1>2, <2>1, <2>2, <2>3
<1> QED  BY <1>1, <1>2

(* What kernel_main does before its loop. *)
LEMMA ScriptShape ==
  /\ Loop = 11
  /\ \A p \in 1 .. 10 : Script[p][1] = "color" => Script[p][2] \in Colors
  /\ \A p \in 1 .. 10 : Script[p][1] = "line" => Script[p][2] \in {Banner, << >>}
<1>1. Loop = 11
  BY DEF Loop, Script
<1>2. ASSUME NEW p \in 1 .. 10, Script[p][1] = "color"
      PROVE  Script[p][2] \in Colors
  <2>1. p \in {2, 4, 6, 8} \/ p \in {1, 3, 5, 7, 9, 10}
    OBVIOUS
  <2>2. CASE p \in {2, 4, 6, 8}
    BY <2>2 DEF Script, Colors, Green, White
  <2>3. CASE p \in {1, 3, 5, 7, 9, 10}
    BY <2>3, <1>2 DEF Script
  <2> QED  BY <2>1, <2>2, <2>3
<1>3. ASSUME NEW p \in 1 .. 10, Script[p][1] = "line"
      PROVE  Script[p][2] \in {Banner, << >>}
  <2>1. p \in {3, 7, 9} \/ p = 10 \/ p \in {1, 2, 4, 5, 6, 8}
    OBVIOUS
  <2>2. CASE p \in {3, 7, 9}
    BY <2>2 DEF Script
  <2>3. CASE p = 10
    BY <2>3 DEF Script
  <2>4. CASE p \in {1, 2, 4, 5, 6, 8}
    BY <2>4, <1>3 DEF Script
  <2> QED  BY <2>1, <2>2, <2>3, <2>4
<1> QED  BY <1>1, <1>2, <1>3

(* The glyphs put_char writes. *)
LEMMA GlyphFacts ==
  /\ Space \in Glyphs /\ Garbage \in Glyphs
  /\ Backspace \in Chars /\ Space \in Chars
  /\ \A c \in Chars \cup {Newline} : c # Newline => c \in Glyphs
BY DEF Space, Garbage, Backspace, Newline, Glyphs, Chars

(* The cursor never leaves the screen, by any operation. *)
LEMMA TypeStep ==
  ASSUME TypeOK, [Next]_vars
  PROVE  TypeOK'
<1>s. Loop = 11
  BY ScriptShape
<1>t. /\ x \in Column /\ y \in Row /\ color \in Colors
      /\ video \in [Offset -> Glyphs \X Colors]
      /\ pc \in 1 .. 11 /\ str \in Seq(Chars \cup {Newline})
  BY <1>s DEF TypeOK, Column, Row
<1>g. ASSUME x' \in Column, y' \in Row, color' \in Colors,
             video' \in [Offset -> Glyphs \X Colors],
             pc' \in 1 .. 11, str' \in Seq(Chars \cup {Newline})
      PROVE  TypeOK'
  BY <1>g, <1>s DEF TypeOK, Column, Row
<1> HIDE DEF TypeOK
<1>1. CASE ClearScreen
  <2>1. pc < 11 /\ pc' = pc + 1 /\ x' = 0 /\ y' = 0 /\ UNCHANGED <<color, str>>
        /\ video' = [i \in Offset |-> <<Space, color>>]
    BY <1>1, <1>s DEF ClearScreen, At
  <2>2. 0 \in Column /\ 0 \in Row
    BY SizeAssumption DEF Column, Row
  <2>3. <<Space, color>> \in Glyphs \X Colors
    BY <1>t, GlyphFacts, Zenon
  <2>4. video' \in [Offset -> Glyphs \X Colors]
    BY <2>1, <2>3, Zenon
  <2>5. pc' \in 1 .. 11
    BY <1>t, <2>1
  <2> QED  BY <1>t, <1>g, <2>1, <2>2, <2>4, <2>5, Zenon
<1>2. CASE SetColor
  <2>1. pc < 11 /\ Script[pc][1] = "color" /\ color' = Script[pc][2] /\ pc' = pc + 1
        /\ UNCHANGED <<x, y, video, str>>
    BY <1>2, <1>s DEF SetColor, At
  <2>2. color' \in Colors /\ pc' \in 1 .. 11
    <3>1. pc \in 1 .. 10
      BY <1>t, <2>1
    <3> QED  BY <2>1, <3>1, ScriptShape
  <2> QED  BY <1>t, <1>g, <2>1, <2>2, Zenon
<1>3. CASE PutLine
  <2>1. pc < 11 /\ Script[pc][1] = "line" /\ str' = Script[pc][2] \o <<Newline>>
        /\ UNCHANGED <<x, y, color, video, pc>>
    BY <1>3, <1>s DEF PutLine, At
  <2>2. Script[pc][2] \in Seq(Chars \cup {Newline})
    <3>1. \A i \in 1 .. Len(Banner) : Banner[i] \in Chars
      BY Zenon DEF Chars
    <3>2. Banner \in Seq(Chars \cup {Newline}) /\ << >> \in Seq(Chars \cup {Newline})
      BY <3>1, BannerAssumption
    <3>3. pc \in 1 .. 10
      BY <1>t, <2>1
    <3> QED  BY <2>1, <3>2, <3>3, ScriptShape
  <2>3. str' \in Seq(Chars \cup {Newline})
    <3>1. <<Newline>> \in Seq(Chars \cup {Newline})
      OBVIOUS
    <3> QED  BY <2>1, <2>2, <3>1, ConcatProperties
  <2> QED  BY <1>t, <1>g, <2>1, <2>3, Zenon
<1>4. ASSUME NEW c \in Typed, Echo(c)
      PROVE  TypeOK'
  <2>1. UNCHANGED <<x, y, color, video, pc>>
    BY <1>4 DEF Echo
  <2>2. str' \in Seq(Chars \cup {Newline})
    <3>1. c \in Chars
      BY DEF Chars
    <3>2. <<c>> \in Seq(Chars \cup {Newline})
          /\ <<Backspace, Space, Backspace>> \in Seq(Chars \cup {Newline})
      BY <3>1, GlyphFacts
    <3> QED  BY <1>4, <3>2, Zenon DEF Echo
  <2> QED  BY <1>t, <1>g, <2>1, <2>2, Zenon
<1>5. CASE PutNext
  <2> DEFINE c == Head(str)
  <2>1. str # << >> /\ str' = Tail(str) /\ UNCHANGED color
        /\ pc' = IF Len(str) = 1 /\ pc < 11 THEN pc + 1 ELSE pc
    BY <1>5, <1>s DEF PutNext
  <2>2. c \in Chars \cup {Newline} /\ str' \in Seq(Chars \cup {Newline})
    BY <1>t, <2>1, HeadTailProperties
  <2>3. x' = PutChar(Console, c).x /\ y' = PutChar(Console, c).y
        /\ video' = PutChar(Console, c).video
    BY <1>5 DEF PutNext, Show
  <2>4. x' \in Column /\ y' \in Row
    BY <2>2, <2>3, PutCharMoves
  <2>5. video' \in [Offset -> Glyphs \X Colors]
    <3>1. CASE c = Newline
      BY <1>t, <2>2, <2>3, <3>1, PutCharMoves
    <3>2. CASE c # Newline
      <4>1. video' = [video EXCEPT ![y * Width + x] = <<c, color>>]
        BY <2>2, <2>3, <3>2, PutCharMoves
      <4>2. <<c, color>> \in Glyphs \X Colors
        BY <1>t, <2>2, <3>2, GlyphFacts, Zenon
      <4> QED  BY <1>t, <4>1, <4>2
    <3> QED  BY <3>1, <3>2
  <2>6. pc' \in 1 .. 11
    BY <1>t, <2>1
  <2> QED  BY <1>t, <1>g, <2>1, <2>2, <2>4, <2>5, <2>6, Zenon
<1>6. CASE UNCHANGED vars
  BY <1>t, <1>g, <1>6 DEF vars
<1> QED
  BY <1>1, <1>2, <1>3, <1>4, <1>5, <1>6 DEF Next

(* The console starts on the screen. *)
LEMMA TypeInit == Init => TypeOK
<1> SUFFICES ASSUME Init PROVE TypeOK
  OBVIOUS
<1>1. x \in 0 .. Width - 1 /\ y \in 0 .. Height - 1 /\ color \in Colors
  BY SizeAssumption DEF Init, Colors
<1>2. <<Garbage, DefaultColor>> \in Glyphs \X Colors
  BY GlyphFacts, Zenon DEF Colors
<1>3. video \in [Offset -> Glyphs \X Colors]
  BY <1>2, Zenon DEF Init
<1>4. pc \in 1 .. Loop /\ str \in Seq(Chars \cup {Newline})
  BY ScriptShape DEF Init
<1> QED  BY <1>1, <1>3, <1>4, Zenon DEF TypeOK

(* The cursor is on the screen whenever put_char uses it, so no put_char   *)
(* writes outside video memory, for every screen size.                     *)
THEOREM CursorOnScreen == Spec => []TypeOK
<1> QED  BY TypeInit, TypeStep, PTL DEF Spec

-------------------------------------------------------------------------------
(* Every step of the console is a step of the strip or leaves it alone.    *)
LEMMA StripStep ==
  ASSUME TypeOK, [Next]_vars
  PROVE  [Strip!Next]_(Strip!stripVars)
<1>t. x \in Column /\ y \in Row /\ color \in Colors /\ str \in Seq(Chars \cup {Newline})
  BY DEF TypeOK, Column, Row
<1>1. CASE ClearScreen
  <2>1. video' = [i \in Offset |-> <<Space, color>>] /\ x' = 0 /\ y' = 0
    BY <1>1 DEF ClearScreen
  <2>2. y' * Width + x' = 0
    BY <2>1, SizeAssumption
  <2>3. Strip!Cell = Offset
    BY DEF Strip!Cell, Strip!Size, Offset
  <2>4. Strip!Erase
    BY <1>t, <2>1, <2>2, <2>3, Zenon DEF Strip!Erase
  <2> QED  BY <2>4 DEF Strip!Next
<1>2. CASE PutNext
  <2> DEFINE c == Head(str)
  <2>1. c \in Chars \cup {Newline}
    BY <1>t, <1>2, HeadTailProperties DEF PutNext
  <2>2. x' = PutChar(Console, c).x /\ y' = PutChar(Console, c).y
        /\ video' = PutChar(Console, c).video
    BY <1>2 DEF PutNext, Show
  <2>3. CASE c = Newline
    <3>1. x' = 0 /\ y' = NextRow(y) /\ video' = video
      BY <2>1, <2>2, <2>3, PutCharMoves
    <3>2. y' * Width + x' = ((y + 1) * Width) % (Width * Height)
      <4>1. y' * Width \in Int /\ y' * Width = ((y + 1) * Width) % (Width * Height)
        BY <1>t, <3>1, NextRowStart, SizeAssumption DEF Row
      <4> QED  BY <3>1, <4>1
    <3>3. y * Width + x \in y * Width .. y * Width + (Width - 1)
      <4>1. y * Width \in Int
        BY <1>t, SizeAssumption DEF Row
      <4> QED  BY <1>t, <4>1, SizeAssumption DEF Column
    <3>4. Strip!NewLine
      BY <1>t, <3>1, <3>2, <3>3 DEF Strip!NewLine, Strip!Size, Row
    <3> QED  BY <3>4 DEF Strip!Next
  <2>4. CASE c # Newline
    <3>1. /\ y' * Width + x' = (y * Width + x + 1) % (Width * Height)
          /\ video' = [video EXCEPT ![y * Width + x] = <<c, color>>]
      BY <2>1, <2>2, <2>4, PutCharMoves
    <3>2. c \in Glyphs
      BY <2>1, <2>4, GlyphFacts
    <3>3. Strip!Put
      BY <1>t, <3>1, <3>2, Zenon DEF Strip!Put, Strip!Size
    <3> QED  BY <3>3 DEF Strip!Next
  <2> QED  BY <2>3, <2>4
<1>3. CASE SetColor
  BY <1>3 DEF SetColor, Strip!stripVars
<1>4. CASE PutLine
  BY <1>4 DEF PutLine, Strip!stripVars
<1>5. ASSUME NEW c \in Typed, Echo(c)
      PROVE  UNCHANGED Strip!stripVars
  BY <1>5 DEF Echo, Strip!stripVars
<1>6. CASE UNCHANGED vars
  BY <1>6 DEF vars, Strip!stripVars
<1> QED
  BY <1>1, <1>2, <1>3, <1>4, <1>5, <1>6 DEF Next

(* The screen the kernel starts with is a strip. *)
LEMMA StripInit == Init => Strip!Init
<1> SUFFICES ASSUME Init PROVE Strip!Init
  OBVIOUS
<1>1. video \in [Offset -> Glyphs \X Colors]
  BY TypeInit DEF TypeOK
<1>2. y * Width + x = 0
  BY SizeAssumption DEF Init
<1>3. Strip!Cell = Offset
  BY DEF Strip!Cell, Strip!Size, Offset
<1> QED  BY <1>1, <1>2, <1>3, Zenon DEF Strip!Init

(* For every screen size, the rows and columns implement the cyclic strip  *)
(* of cells: put_char writes only the cell at the cursor and goes to the   *)
(* next one, over the ends of rows and of the screen.                      *)
THEOREM ConsoleImplementsStrip == Spec => ScreenIsStrip
<1> QED
  BY StripInit, StripStep, CursorOnScreen, PTL DEF Spec, ScreenIsStrip, Strip!Spec
==============================================================================
