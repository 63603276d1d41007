------------------------------ MODULE SerialPort ------------------------------
(***************************************************************************)
(* The serial ports: kernel/serial.cpp on x86-64 and kernel/riscv/uart.cpp *)
(* on RISC-V, each a driver that polls a 16550.  On x86-64 the port has    *)
(* two users: the main program, and interrupt_dispatcher, which prints a   *)
(* message for a vector without handler (the 8259's spurious one) and may  *)
(* do so between the main program's look at the transmitter and its write. *)
(***************************************************************************)
EXTENDS Integers, Sequences

CONSTANTS Boards,       \* which of the two kernels
          FifoDepth,    \* the transmitter's places with its FIFO on: 16
          MessageSize   \* the characters of the dispatcher's message

ASSUME BoardsAssumption == Boards \subseteq {"x86_64", "riscv64"}
ASSUME FifoDepthAssumption == FifoDepth \in Nat /\ FifoDepth >= 2
ASSUME MessageSizeAssumption == MessageSize \in Nat \ {0}

VARIABLES board,
          lcr,      \* the 16550's line control register; bit 7 is DLAB
          divisor,  \* its divisor latch, <<low, high>>
          fifo,     \* is its FIFO enabled?
          tx,       \* how many characters it has still to send
          lost,     \* has it been given a character it had no place for?
          step,     \* how many of init's writes are done
          pc,       \* where the main program is in put_char
          ifl,      \* has the main program executed sti?
          hpc,      \* where the dispatcher is in put_char
          left      \* what it has still to print

port == <<lcr, divisor, fifo, tx, lost>>
vars == <<board, port, step, pc, ifl, hpc, left>>

Places(on) == IF on THEN FifoDepth ELSE 1
Dlab       == lcr >= 128

-------------------------------------------------------------------------------
(* External: the 16550, as far as the drivers use it. *)

Outb(reg, v) ==
    /\ lcr'     = IF reg = "LCR" THEN v ELSE lcr
    /\ divisor' = CASE reg = "DATA" /\ Dlab -> <<v, divisor[2]>>
                    [] reg = "IER" /\ Dlab  -> <<divisor[1], v>>
                    [] OTHER                -> divisor
    /\ fifo'    = IF reg = "FCR" THEN v % 2 = 1 ELSE fifo
    /\ tx'      = CASE reg = "FCR"                            -> 0
                    [] reg = "DATA" /\ ~Dlab /\ tx < Places(fifo) -> tx + 1
                    [] OTHER                                  -> tx
    /\ lost'    = (lost \/ (reg = "DATA" /\ tx >= Places(fifo) /\ ~Dlab))

(* Bit 5 of the line status register. *)
TransmitterEmpty == tx = 0

Transmit ==
    /\ tx > 0
    /\ tx' = tx - 1
    /\ UNCHANGED <<board, lcr, divisor, fifo, lost, step, pc, ifl, hpc, left>>

-------------------------------------------------------------------------------
(* init. *)

(* Mutant: the FIFO is left off. *)
SerialInit_NoFifo ==
    << <<"IER", 0>>, <<"LCR", 128>>, <<"DATA", 3>>, <<"IER", 0>>, <<"LCR", 3>>,
       <<"FCR", 0>>, <<"MCR", 11>> >>

(* serial::init *)
SerialInit ==
    << <<"IER", 0>>, <<"LCR", 128>>, <<"DATA", 3>>, <<"IER", 0>>, <<"LCR", 3>>,
       <<"FCR", 199>>, <<"MCR", 11>> >>

(* Mutant: DLAB is left on. *)
UartInit_Dlab ==
    << <<"IER", 0>>, <<"LCR", 128>>, <<"DATA", 3>>, <<"IER", 0>>, <<"FCR", 199>> >>

(* uart::init *)
UartInit ==
    << <<"IER", 0>>, <<"LCR", 128>>, <<"DATA", 3>>, <<"IER", 0>>, <<"LCR", 3>>,
       <<"FCR", 199>> >>

Writes == IF board = "x86_64" THEN SerialInit ELSE UartInit

(* The firmware may have used the port. *)
Init ==
    /\ board \in Boards
    /\ lcr = 3 /\ divisor = <<1, 0>> /\ fifo \in BOOLEAN /\ tx \in {0, 1}
    /\ lost = FALSE
    /\ step = 0 /\ pc = "init" /\ ifl = FALSE
    /\ hpc = "none" /\ left = 0

InitStep ==
    /\ pc = "init"
    /\ Outb(Writes[step + 1][1], Writes[step + 1][2])
    /\ step' = step + 1
    /\ pc' = IF step + 1 = Len(Writes) THEN "idle" ELSE "init"
    /\ UNCHANGED <<board, ifl, hpc, left>>

-------------------------------------------------------------------------------
(* put_char: wait for the transmitter, then write. *)

Main(from, to) == /\ hpc = "none" /\ pc = from /\ pc' = to
                  /\ UNCHANGED <<board, step, hpc, left>>

Call  == Main("idle", "wait") /\ UNCHANGED <<port, ifl>>

(* Mutant: the character is written without a look at the transmitter. *)
Wait_Skip == Main("wait", "write") /\ UNCHANGED <<port, ifl>>

Wait  == Main("wait", "write") /\ TransmitterEmpty /\ UNCHANGED <<port, ifl>>

(* Mutant: put_char goes round its write again. *)
Write_Again == Main("write", "wait") /\ Outb("DATA", 65) /\ UNCHANGED ifl

Write == Main("write", "idle") /\ Outb("DATA", 65) /\ UNCHANGED ifl

(* kernel_main has printed its strings and enables interrupts. *)
Sti == Main("idle", "idle") /\ board = "x86_64" /\ ~ifl /\ ifl' = TRUE /\ UNCHANGED port

(* interrupt_dispatcher, for a vector without handler. *)
Handler(from, to) == /\ hpc = from /\ hpc' = to
                     /\ UNCHANGED <<board, step, pc, ifl>>

Interrupt == /\ ifl
             /\ Handler("none", "wait")
             /\ left' = MessageSize
             /\ UNCHANGED port

HandlerWait == Handler("wait", "write") /\ TransmitterEmpty /\ UNCHANGED <<port, left>>

(* Mutant: the message's terminator is printed, and what follows it. *)
HandlerWrite_OnePast ==
    /\ Handler("write", IF left > 0 THEN "wait" ELSE "none")
    /\ Outb("DATA", 65)
    /\ left' = left - 1

(* Mutant: the pointer into the message is not moved on. *)
HandlerWrite_Stuck ==
    /\ Handler("write", IF left > 1 THEN "wait" ELSE "none")
    /\ Outb("DATA", 65)
    /\ UNCHANGED left

HandlerWrite ==
    /\ Handler("write", IF left > 1 THEN "wait" ELSE "none")
    /\ Outb("DATA", 65)
    /\ left' = left - 1

Cpu == InitStep \/ Call \/ Wait \/ Write \/ Sti \/ HandlerWait \/ HandlerWrite

Next == Cpu \/ Interrupt \/ Transmit

Spec == Init /\ [][Next]_vars

-------------------------------------------------------------------------------
(* Properties. *)

TypeOK ==
    /\ board \in Boards
    /\ lcr \in 0 .. 255 /\ divisor \in (0 .. 255) \X (0 .. 255) /\ fifo \in BOOLEAN
    /\ tx \in 0 .. FifoDepth /\ lost \in BOOLEAN
    /\ step \in 0 .. Len(Writes) /\ pc \in {"init", "idle", "wait", "write"}
    /\ ifl \in BOOLEAN /\ hpc \in {"none", "wait", "write"}
    /\ left \in 0 .. MessageSize

(* Every character that put_char writes has a place in the transmitter,    *)
(* although the dispatcher's message may come between the main program's   *)
(* look at it and its write: the look is stale then, and it is the FIFO    *)
(* that init has enabled that keeps the character.                         *)
NothingLost == ~lost

(* No character goes into the divisor latch or out at another speed: once  *)
(* the main program is past init the port is set to 8N1 with divisor 3, on *)
(* both boards ("matches the x86 serial driver", uart.cpp:27).             *)
LineIsSet == pc # "init" => lcr = 3 /\ divisor = <<3, 0>>

(* The dispatcher's message ends: the handler, which runs with interrupts  *)
(* off, waits for nothing but the transmitter.                             *)
MessageEnds == (hpc = "wait") ~> (hpc = "none")

(* put_char returns, unless interrupts without handler never cease.        *)
PutCharReturns == []<>(hpc # "none") \/ ((pc = "wait") ~> (pc = "idle"))
===============================================================================
