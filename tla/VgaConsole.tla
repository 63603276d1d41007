------------------------------ MODULE VgaConsole ------------------------------
(***************************************************************************)
(* The VGA text console, kernel/vga.cpp, as kernel_main uses it: banners   *)
(* while the kernel comes up, then the echo of every key that is read.     *)
(* Only the main program touches the console, one put_char at a time.      *)
(***************************************************************************)
EXTENDS Integers, Sequences

CONSTANTS Width, Height,   \* VGA_WIDTH, VGA_HEIGHT: 80 and 25 in the code
          Typed,           \* the characters keyboard::read may return
          Banner           \* a line kernel_main puts up, as characters

ASSUME SizeAssumption == Width \in Nat \ {0} /\ Height \in Nat \ {0}

Newline   == "LF"         \* '\n'
Backspace == "BS"         \* '\b'
Space     == " "
Garbage   == "?"           \* what the firmware left on the screen

ASSUME BannerAssumption ==
    Banner \in Seq(STRING) /\ \A i \in 1 .. Len(Banner) : Banner[i] # Newline
ASSUME TypedAssumption == Typed \subseteq STRING

Chars  == Typed \cup {Banner[i] : i \in 1 .. Len(Banner)} \cup {Backspace, Space, Garbage}
Glyphs == Chars \ {Newline}

DefaultColor == 7
Green        == 10          \* 0x0A
White        == 15          \* 0x0F
Colors       == {DefaultColor, Green, White}

VARIABLES x, y,       \* cursor_x, cursor_y
          color,      \* current_color
          video,      \* the cells of video memory, by offset / 2
          pc,         \* where kernel_main is
          str         \* what put_string has still to put

vars == <<x, y, color, video, pc, str>>

Offset == 0 .. Width * Height - 1

(* kernel_main's calls before its loop.  put_line puts the characters of   *)
(* the line and then a new line.                                           *)
Script == << <<"clear">>, <<"color", Green>>, <<"line", Banner>>, <<"color", White>>,
             <<"clear">>, <<"color", Green>>, <<"line", Banner>>, <<"color", White>>,
             <<"line", Banner>>, <<"line", << >> >> >>
Loop == Len(Script) + 1

Init ==
    /\ x = 0 /\ y = 0
    /\ color = DefaultColor
    /\ video = [i \in Offset |-> <<Garbage, DefaultColor>>]
    /\ pc = 1
    /\ str = << >>

-------------------------------------------------------------------------------
(* The console's cursor and cells, as put_char reads and writes them.      *)
Console == [x |-> x, y |-> y, video |-> video]

(* Mutant: the cursor leaves the bottom of the screen. *)
NextRow_NoWrap(row) == row + 1

(* cursor_y++, back to the top past the last row *)
NextRow(row) == IF row + 1 >= Height THEN 0 ELSE row + 1

(* Mutant: the end of a row does not lead to the next one. *)
PutChar_SameRow(con, c) ==
    CASE c = Newline -> [con EXCEPT !.x = 0, !.y = NextRow(con.y)]
      [] c # Newline -> [x |-> IF con.x + 1 >= Width THEN 0 ELSE con.x + 1,
                         y |-> con.y,
                         video |-> [con.video EXCEPT ![con.y * Width + con.x] = <<c, color>>]]

(* put_char *)
PutChar(con, c) ==
    IF c = Newline
    THEN [con EXCEPT !.x = 0, !.y = NextRow(con.y)]
    ELSE LET full == con.x + 1 >= Width IN
         [x |-> IF full THEN 0 ELSE con.x + 1,
          y |-> IF full THEN NextRow(con.y) ELSE con.y,
          video |-> [con.video EXCEPT ![con.y * Width + con.x] = <<c, color>>]]

Show(con) == x' = con.x /\ y' = con.y /\ video' = con.video

-------------------------------------------------------------------------------
(* kernel_main.                                                            *)

At(op) == pc < Loop /\ str = << >> /\ Script[pc][1] = op

(* clear_screen *)
ClearScreen ==
    /\ At("clear")
    /\ video' = [i \in Offset |-> <<Space, color>>]
    /\ x' = 0 /\ y' = 0
    /\ pc' = pc + 1
    /\ UNCHANGED <<color, str>>

(* set_color *)
SetColor ==
    /\ At("color")
    /\ color' = Script[pc][2]
    /\ pc' = pc + 1
    /\ UNCHANGED <<x, y, video, str>>

(* put_line begins. *)
PutLine ==
    /\ At("line")
    /\ str' = Script[pc][2] \o <<Newline>>
    /\ UNCHANGED <<x, y, color, video, pc>>

(* keyboard::read has returned c: a backspace is echoed in three calls.    *)
Echo(c) ==
    /\ pc = Loop /\ str = << >>
    /\ str' = IF c = Backspace THEN <<Backspace, Space, Backspace>> ELSE <<c>>
    /\ UNCHANGED <<x, y, color, video, pc>>

(* The next call of put_char; the last one of a put_line ends it. *)
PutNext ==
    /\ str # << >>
    /\ Show(PutChar(Console, Head(str)))
    /\ str' = Tail(str)
    /\ pc' = IF Len(str) = 1 /\ pc < Loop THEN pc + 1 ELSE pc
    /\ UNCHANGED color

Next == ClearScreen \/ SetColor \/ PutLine \/ (\E c \in Typed : Echo(c)) \/ PutNext

Spec == Init /\ [][Next]_vars

-------------------------------------------------------------------------------
(* Properties.                                                             *)

(* The cursor is on the screen before every put_char, so that none writes  *)
(* outside video memory.                                                   *)
TypeOK ==
    /\ x \in 0 .. Width - 1 /\ y \in 0 .. Height - 1
    /\ color \in Colors
    /\ video \in [Offset -> Glyphs \X Colors]
    /\ pc \in 1 .. Loop
    /\ str \in Seq(Chars \cup {Newline})

(* The rows and columns of the console are one cyclic strip of cells: no   *)
(* cell is skipped, at the end of a row or of the screen included, and     *)
(* nothing but the cell at the cursor is written.                          *)
Strip == INSTANCE TextStrip
           WITH Blank <- Space,
                strip <- video,
                at    <- y * Width + x

ScreenIsStrip == Strip!Spec

(* A backspace takes the cursor back: the driver is there to "manejar el   *)
(* cursor" (docs/Drivers.md:6), and kernel_main echoes a backspace as the  *)
(* three characters that erase the one before the cursor on a terminal.    *)
BackspaceMovesBack ==
    [][str # << >> /\ Head(str) = Backspace
         => /\ video' = video
            /\ (y' * Width + x' + 1) % (Width * Height) = y * Width + x]_vars
===============================================================================
