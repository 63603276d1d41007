------------------------------- MODULE IsrFrame -------------------------------
(***************************************************************************)
(* The interrupt stubs of boot/isr_stubs.asm on the stack of the program   *)
(* they interrupt: CPU, stub, isr_common, interrupt_dispatcher and iretq   *)
(* against the frame that interrupt.hpp declares and against what the      *)
(* interrupted function keeps on its stack.                                *)
(*                                                                         *)
(* The stack is an array of 8-byte words that grows towards 0; an even     *)
(* address is 16-byte aligned.  Straight-line code that runs with          *)
(* interrupts off and that nothing else observes is one step.              *)
(***************************************************************************)
EXTENDS Integers, Sequences

CONSTANTS Routines,   \* which functions of the main program are interrupted
          Vectors     \* by what

ASSUME RoutinesAssumption == Routines \subseteq {"poll", "put_char"}
ASSUME VectorsAssumption == Vectors \subseteq 0 .. 47

VARIABLES mem,       \* the stack
          sp,        \* RSP
          regs,      \* the general-purpose registers
          routine,   \* the function that runs
          pc,        \* where the main program is
          hpc,       \* where the interrupt's handling is
          vector,    \* what was raised
          before     \* the main program as it was when interrupted

vars == <<mem, sp, regs, routine, pc, hpc, vector, before>>

Top  == 42
Addr == 0 .. Top

(* A word of the stack or of a register, named for what it is. *)
Word(name, n) == <<name, n>>
Junk          == Word("junk", 0)

(* isr_common's pushes and pops. *)
PushOrder == <<"rax", "rbx", "rcx", "rdx", "rsi", "rdi", "rbp", "r8",
               "r9", "r10", "r11", "r12", "r13", "r14", "r15">>

(* Mutant: two registers are popped in the order they were pushed. *)
PopOrder_Swapped == <<"r15", "r14", "r13", "r12", "r11", "r10", "r9", "r8",
                      "rbp", "rsi", "rdi", "rdx", "rcx", "rbx", "rax">>

PopOrder == <<"r15", "r14", "r13", "r12", "r11", "r10", "r9", "r8",
              "rbp", "rdi", "rsi", "rdx", "rcx", "rbx", "rax">>

Saved == Len(PushOrder)
Reg   == {PushOrder[i] : i \in 1 .. Saved}

(* InterruptFrame, from the lowest address up. *)
FrameFields == <<"r15", "r14", "r13", "r12", "r11", "r10", "r9", "r8",
                 "rbp", "rdi", "rsi", "rdx", "rcx", "rbx", "rax",
                 "vector", "error_code", "rip", "cs", "rflags", "rsp", "ss">>
OffsetOf(field) == CHOOSE i \in 0 .. Len(FrameFields) - 1 : FrameFields[i + 1] = field
Field(field)    == mem[sp + OffsetOf(field)]

(* The vectors whose stub is an ISR_ERR. *)
StubErr == {8, 17, 30} \cup 10 .. 14

(* External: the exceptions for which the CPU pushes an error code, of     *)
(* those that it can raise here.  (Vectors 21 and 29 have one too, but     *)
(* belong to features the kernel never turns on.)                          *)
CpuErr == {8, 17, 30} \cup 10 .. 14

(* What the ABI lets a called function change. *)
CallerSaved == {"rax", "rcx", "rdx", "rsi", "rdi", "r8", "r9", "r10", "r11"}

(* The words ws pushed in turn on stack m below s: the last is the lowest. *)
Push(m, s, ws) == [a \in Addr |-> IF a \in s - Len(ws) .. s - 1 THEN ws[s - a] ELSE m[a]]

Init ==
    /\ mem = [a \in Addr |-> Junk]
    /\ sp = Top - 2                       \* in kernel_main, between two calls
    /\ regs = [r \in Reg |-> Word(r, 0)]
    /\ routine \in Routines
    /\ pc = "caller" /\ hpc = "none"
    /\ vector = 0 /\ before = <<>>

-------------------------------------------------------------------------------
(* The main program: kernel_main calls a function, which saves RBP and     *)
(* keeps its locals below.  poll() calls others, so it moves RSP below its *)
(* two locals; put_char() calls none, and the compiler leaves its three    *)
(* (c, video, offset) in the red zone, below RSP.                          *)

Locals       == IF routine = "poll" THEN 2 ELSE 3
LocalAddr(i) == IF routine = "poll" THEN sp + (2 - i) ELSE sp - i

Run(from, to) == /\ hpc = "none" /\ pc = from /\ pc' = to
                 /\ UNCHANGED <<hpc, vector, before>>

Call ==
    /\ Run("caller", "entry")
    /\ routine' \in Routines
    /\ mem' = Push(mem, sp, <<Word("return", 0)>>)
    /\ sp' = sp - 1
    /\ UNCHANGED regs

Prologue ==
    /\ Run("entry", "frame")
    /\ mem' = Push(mem, sp, <<regs["rbp"]>>)
    /\ regs' = [regs EXCEPT !["rbp"] = Word("frame", sp - 1)]
    /\ sp' = IF routine = "poll" THEN sp - 1 - Locals ELSE sp - 1
    /\ UNCHANGED routine

StoreLocals ==
    /\ Run("frame", "body")
    /\ mem' = [a \in Addr |->
                 IF \E i \in 1 .. Locals : a = LocalAddr(i)
                 THEN Word("local", CHOOSE i \in 1 .. Locals : a = LocalAddr(i))
                 ELSE mem[a]]
    /\ UNCHANGED <<sp, regs, routine>>

(* leave / pop rbp, and ret. *)
Epilogue ==
    /\ Run("body", "caller")
    /\ LET rbp == regs["rbp"][2] IN
       /\ regs' = [regs EXCEPT !["rbp"] = mem[rbp]]
       /\ sp' = rbp + 2
    /\ UNCHANGED <<mem, routine>>

MainProgram == Call \/ Prologue \/ StoreLocals \/ Epilogue

-------------------------------------------------------------------------------
(* The handling of an interrupt. *)

Then(from, to) == hpc = from /\ hpc' = to /\ UNCHANGED routine

(* External: the CPU aligns RSP, pushes the five words that iretq wants    *)
(* and, for some exceptions, an error code.  No gate names a stack of its  *)
(* own (ist = 0).                                                          *)
Enter(v) ==
    /\ hpc = "none" /\ hpc' = "stub"
    /\ vector' = v
    /\ before' = [mem |-> mem, sp |-> sp, regs |-> regs, pc |-> pc]
    /\ LET pushed == <<Word("ss", 16), Word("rsp", sp), Word("rflags", 0),
                       Word("cs", 8), Word(pc, 0)>>
                     \o (IF v \in CpuErr THEN <<Word("error", v)>> ELSE << >>)
           aligned == sp - (sp % 2)
       IN  /\ mem' = Push(mem, aligned, pushed)
           /\ sp' = aligned - Len(pushed)
    /\ UNCHANGED <<regs, routine, pc>>

(* Mutant: no stub pushes a dummy error code. *)
Stub_NoDummy ==
    /\ Then("stub", "save")
    /\ mem' = Push(mem, sp, <<Word("vector", vector)>>)
    /\ sp' = sp - 1
    /\ UNCHANGED <<regs, pc, vector, before>>

(* ISR_NOERR pushes a dummy error code, ISR_ERR finds one; both push the   *)
(* vector.                                                                 *)
Stub ==
    /\ Then("stub", "save")
    /\ LET pushed == (IF vector \in StubErr THEN << >> ELSE <<Word("error", 0)>>)
                     \o <<Word("vector", vector)>>
       IN  /\ mem' = Push(mem, sp, pushed)
           /\ sp' = sp - Len(pushed)
    /\ UNCHANGED <<regs, pc, vector, before>>

(* isr_common saves the registers and passes the frame's address. *)
Save ==
    /\ Then("save", "dispatch")
    /\ mem' = Push(mem, sp, [i \in 1 .. Saved |-> regs[PushOrder[i]]])
    /\ sp' = sp - Saved
    /\ UNCHANGED <<regs, pc, vector, before>>

(* interrupt_dispatcher and its handler use the stack below the frame and  *)
(* the registers that are theirs.                                          *)
Dispatcher ==
    /\ Then("dispatch", "restore")
    /\ mem' = [a \in Addr |-> IF a < sp THEN Junk ELSE mem[a]]
    /\ regs' = [r \in Reg |-> IF r \in CallerSaved THEN Junk ELSE regs[r]]
    /\ UNCHANGED <<sp, pc, vector, before>>

Restore ==
    /\ Then("restore", "iret")
    /\ regs' = [r \in Reg |-> mem[sp + (CHOOSE i \in 1 .. Saved : PopOrder[i] = r) - 1]]
    /\ sp' = sp + Saved
    /\ UNCHANGED <<mem, pc, vector, before>>

(* Drop vector and error code; iretq. *)
Iretq ==
    /\ Then("iret", "none")
    /\ pc' = mem[sp + 2][1]
    /\ sp' = mem[sp + 5][2]
    /\ vector' = 0 /\ before' = << >>
    /\ UNCHANGED <<mem, regs>>

Handling == Stub \/ Save \/ Dispatcher \/ Restore \/ Iretq

Next == MainProgram \/ (\E v \in Vectors : Enter(v)) \/ Handling

Spec == Init /\ [][Next]_vars

-------------------------------------------------------------------------------
(* Properties. *)

(* The dispatcher is called as the ABI wants it, with RSP aligned, and     *)
(* what it reads as an InterruptFrame is one: the vector that was raised,  *)
(* the error code the CPU pushed, the registers and the place of the       *)
(* interrupted program -- whichever stub built it, and however the stack   *)
(* was aligned.                                                            *)
FrameIsTrue ==
    hpc = "dispatch" =>
        /\ sp % 2 = 0
        /\ Field("vector") = Word("vector", vector)
        /\ Field("error_code") = Word("error", IF vector \in CpuErr THEN vector ELSE 0)
        /\ \A r \in Reg : Field(r) = before.regs[r]
        /\ Field("rip") = Word(before.pc, 0) /\ Field("rsp") = Word("rsp", before.sp)

(* The interrupted program goes on where it was: same instruction, same    *)
(* registers, same RSP, and nothing at or above RSP has changed.           *)
GoesOnWhereItWas ==
    [][hpc = "iret" /\ hpc' = "none" =>
         /\ pc' = before.pc /\ sp' = before.sp /\ regs' = before.regs
         /\ \A a \in Addr : a >= before.sp => mem'[a] = before.mem[a]]_vars

(* A function finds its locals as it left them: the stubs "save registers, *)
(* call C++, restore, iretq" (boot/isr_stubs.asm:26) for the System V ABI  *)
(* that they cite (line 44), which gives a leaf function 128 bytes below   *)
(* RSP.                                                                    *)
LocalsSurvive ==
    hpc = "none" /\ pc = "body" =>
        \A i \in 1 .. Locals : mem[LocalAddr(i)] = Word("local", i)
===============================================================================
