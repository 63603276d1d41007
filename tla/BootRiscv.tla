------------------------------ MODULE BootRiscv ------------------------------
(***************************************************************************)
(* The RISC-V boot stub, boot/riscv64/boot.S, on the memory laid out by    *)
(* linker-riscv64.ld: OpenSBI leaves memory as it is, and the stub zeroes  *)
(* .bss eight bytes at a time before it calls kernel_main.  The linker     *)
(* script aligns the start of .bss (to 4K) but not its end, and puts the   *)
(* stack right behind it.                                                  *)
(*                                                                         *)
(* Addresses count bytes from __bss_start.                                 *)
(***************************************************************************)
EXTENDS Integers

CONSTANTS BssSizes,     \* the sizes of .bss that a build may have
          StackSize,    \* 0x4000 in the linker script
          Garbage       \* what memory holds before

ASSUME BssSizesAssumption == BssSizes \subseteq Nat
ASSUME StackSizeAssumption == StackSize \in Nat
ASSUME GarbageAssumption == Garbage # 0

VARIABLES bssEnd,    \* __bss_end
          ram,       \* the bytes from __bss_start to __stack_top
          t0,        \* the next doubleword to zero
          sp,
          stub       \* where the stub is

riscvVars == <<bssEnd, ram, t0, sp, stub>>

(* The linker script: . = ALIGN(16). *)
AlignUp(a)  == ((a + 15) \div 16) * 16
StackBottom == AlignUp(bssEnd)
StackTop    == StackBottom + StackSize
Address     == 0 .. StackTop - 1

BootRiscvInit ==
    /\ bssEnd \in BssSizes
    /\ ram = [a \in Address |-> Garbage]
    /\ t0 = 0 /\ sp = Garbage
    /\ stub = "test"

(* Mutant: the loop stops before a doubleword that is not all of .bss. *)
Test_Short ==
    /\ stub = "test"
    /\ stub' = IF t0 + 8 > bssEnd THEN "stack" ELSE "store"
    /\ UNCHANGED <<bssEnd, ram, t0, sp>>

(* Mutant: the loop goes on as long as t0 is not above the end. *)
Test_OneMore ==
    /\ stub = "test"
    /\ stub' = IF t0 > bssEnd THEN "stack" ELSE "store"
    /\ UNCHANGED <<bssEnd, ram, t0, sp>>

(* bgeu t0, t1, 2f *)
Test ==
    /\ stub = "test"
    /\ stub' = IF t0 >= bssEnd THEN "stack" ELSE "store"
    /\ UNCHANGED <<bssEnd, ram, t0, sp>>

(* sd zero, 0(t0) *)
Store ==
    /\ stub = "store" /\ stub' = "advance"
    /\ ram' = [a \in Address |-> IF a \in t0 .. t0 + 7 THEN 0 ELSE ram[a]]
    /\ UNCHANGED <<bssEnd, t0, sp>>

(* Mutant: t0 stays where it is. *)
Advance_Stay ==
    /\ stub = "advance" /\ stub' = "test"
    /\ UNCHANGED <<bssEnd, ram, t0, sp>>

(* addi t0, t0, 8 *)
Advance ==
    /\ stub = "advance" /\ stub' = "test"
    /\ t0' = t0 + 8
    /\ UNCHANGED <<bssEnd, ram, sp>>

(* la sp, __stack_top; call kernel_main *)
CallKernel ==
    /\ stub = "stack" /\ stub' = "kernel_main"
    /\ sp' = StackTop
    /\ UNCHANGED <<bssEnd, ram, t0>>

BootRiscvNext == Test \/ Store \/ Advance \/ CallKernel

BootRiscvSpec == BootRiscvInit /\ [][BootRiscvNext]_riscvVars

-------------------------------------------------------------------------------
(* Properties.                                                             *)

(* kernel_main finds every byte of .bss zeroed, the last ones included,    *)
(* whatever the end of .bss is aligned to: the drivers rely on it for      *)
(* base, last_used, shift and the rings.                                   *)
BssIsZero == stub = "kernel_main" => \A a \in 0 .. bssEnd - 1 : ram[a] = 0

(* The doubleword that runs over the end of .bss stays out of the stack.   *)
StackUntouched == \A a \in StackBottom .. StackTop - 1 : ram[a] = Garbage

===============================================================================
