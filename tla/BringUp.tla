------------------------------- MODULE BringUp -------------------------------
(***************************************************************************)
(* Both boards from their boot code to the printing kernel_main: BootX86   *)
(* or BootRiscv runs on its board, and when it has called kernel_main the  *)
(* kernel sets up its serial port and prints, which is SerialPort.         *)
(***************************************************************************)
EXTENDS BootX86, BootRiscv, SerialPort

bootVars    == <<x86Vars, riscvVars>>
bringUpVars == <<bootVars, vars>>

(* What is not on the board stays as it is, and one such state will do.    *)
BringUpInit ==
    /\ BootX86Init /\ BootRiscvInit /\ Init
    /\ board = "x86_64"  => bssEnd = CHOOSE size \in BssSizes : TRUE
    /\ board = "riscv64" => tables = CHOOSE m \in Memories : TRUE

(* Has kernel_main been called? *)
Started == IF board = "x86_64" THEN at = "kernel_main" ELSE stub = "kernel_main"

Halted == at = "halt"

RunBootX86 ==
    /\ board = "x86_64"
    /\ BootX86Next
    /\ UNCHANGED <<riscvVars, vars>>

RunBootRiscv ==
    /\ board = "riscv64"
    /\ BootRiscvNext
    /\ UNCHANGED <<x86Vars, vars>>

(* .halt: hlt; jmp .halt, with interrupts off. *)
Halt == Halted /\ UNCHANGED bringUpVars

RunKernel == Started /\ Cpu /\ UNCHANGED bootVars

TakeInterrupt == Started /\ Interrupt /\ UNCHANGED bootVars

(* The firmware's last character may still be on its way. *)
Send == Transmit /\ UNCHANGED bootVars

BringUpNext == RunBootX86 \/ RunBootRiscv \/ Halt \/ RunKernel \/ TakeInterrupt \/ Send

BringUpSpec == BringUpInit /\ [][BringUpNext]_bringUpVars

(* The one CPU goes on, and the transmitter sends what it has been given.  *)
FairBringUp == BringUpSpec /\ WF_bringUpVars(RunBootX86 \/ RunBootRiscv \/ RunKernel)
                           /\ WF_bringUpVars(Send)

-------------------------------------------------------------------------------
(* Properties.                                                             *)

(* On either board kernel_main is called, or the CPU has no long mode: the *)
(* loops of the boot code end, those of boot.asm, which count down and     *)
(* test after the body, and the one of boot.S, which steps by eight to an  *)
(* end of .bss that nothing aligns.                                        *)
KernelMainStarts == <>(Started \/ Halted)
===============================================================================
