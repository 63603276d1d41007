---------------------------- MODULE IsrFrame_proofs ----------------------------
(***************************************************************************)
(* Theorems about IsrFrame: for any of the routines interrupted by any of  *)
(* the vectors.                                                            *)
(***************************************************************************)
EXTENDS IsrFrame, TLAPS

-------------------------------------------------------------------------------
(* The inductive invariant: what lies on the stack while an interrupt is   *)
(* handled, counted down from the aligned RSP.                             *)

(* Where the CPU's words end: the interrupted RSP, aligned. *)
Base == before.sp - (before.sp % 2)

(* Where a function of the main program has its stack pointer, and where   *)
(* its frame pointer points.                                               *)
MainState(at, rsp, general) ==
    /\ at \in {"caller", "entry", "frame", "body"}
    /\ at = "caller" => rsp = 40
    /\ at = "entry" => rsp = 39
    /\ at \in {"frame", "body"} => /\ rsp = IF routine = "poll" THEN 36 ELSE 38
                                   /\ general["rbp"] = Word("frame", 38)
    /\ general = [r \in Reg |-> general[r]]

(* What the CPU, the stub and isr_common have pushed. *)
CpuWords   == mem[Base - 2] = Word("rsp", before.sp) /\ mem[Base - 5] = Word(before.pc, 0)
ErrorCode  == mem[Base - 6] = Word("error", IF vector \in CpuErr THEN vector ELSE 0)
StubWords  == ErrorCode /\ mem[Base - 7] = Word("vector", vector)
SavedWords == \A i \in 1 .. Saved : mem[Base - 7 - i] = before.regs[PushOrder[i]]

StageInv ==
    /\ hpc = "stub" => /\ sp = Base - (IF vector \in CpuErr THEN 6 ELSE 5)
                       /\ vector \in CpuErr => ErrorCode
    /\ hpc \in {"save", "iret"} => sp = Base - 7 /\ StubWords
    /\ hpc \in {"dispatch", "restore"} => sp = Base - 7 - Saved /\ StubWords /\ SavedWords
    /\ hpc \in {"stub", "save", "dispatch", "iret"} => regs = before.regs

IInv ==
    /\ hpc \in {"none", "stub", "save", "dispatch", "restore", "iret"}
    /\ hpc = "none" => MainState(pc, sp, regs)
    /\ hpc # "none" => /\ MainState(before.pc, before.sp, before.regs)
                       /\ pc = before.pc
                       /\ \A a \in Addr : a >= before.sp => mem[a] = before.mem[a]
                       /\ CpuWords /\ StageInv

-------------------------------------------------------------------------------
(* The tables of the stubs. *)

LEMMA Orders ==
  /\ Saved = 15
  /\ \A i \in 1 .. 15 : PushOrder[i] = PopOrder[16 - i]
  /\ \A i \in 1 .. 15 : FrameFields[i] = PopOrder[i]
  /\ \A i \in 1 .. 15 : PushOrder[i] \in Reg
  /\ \A r \in Reg : \E i \in 1 .. 15 : PopOrder[i] = r
<1>1. Saved = 15
  BY DEF Saved, PushOrder
<1>2. \A i \in 1 .. 15 : PushOrder[i] = PopOrder[16 - i]
  BY DEF PushOrder, PopOrder
<1>3. \A i \in 1 .. 15 : FrameFields[i] = PopOrder[i]
  BY DEF FrameFields, PopOrder
<1>4. \A i \in 1 .. 15 : PushOrder[i] \in Reg
  BY <1>1 DEF Reg
<1>5. ASSUME NEW r \in Reg
      PROVE  \E i \in 1 .. 15 : PopOrder[i] = r
  <2>1. PICK i \in 1 .. 15 : PushOrder[i] = r
    BY <1>1 DEF Reg
  <2>2. 16 - i \in 1 .. 15
    OBVIOUS
  <2> QED  BY <1>2, <2>1, <2>2
<1> QED  BY <1>1, <1>2, <1>3, <1>4, <1>5

(* Where a field of the frame is. *)
LEMMA Offsets ==
  /\ OffsetOf("vector") = 15 /\ OffsetOf("error_code") = 16
  /\ OffsetOf("rip") = 17 /\ OffsetOf("rsp") = 20
  /\ \A r \in Reg : OffsetOf(r) \in 0 .. 14 /\ PopOrder[OffsetOf(r) + 1] = r
<1>1. Len(FrameFields) - 1 = 21
  BY DEF FrameFields
<1>2. /\ \A i \in 0 .. 21 : FrameFields[i + 1] = "vector" <=> i = 15
      /\ \A i \in 0 .. 21 : FrameFields[i + 1] = "error_code" <=> i = 16
      /\ \A i \in 0 .. 21 : FrameFields[i + 1] = "rip" <=> i = 17
      /\ \A i \in 0 .. 21 : FrameFields[i + 1] = "rsp" <=> i = 20
  BY DEF FrameFields
<1>3. ASSUME NEW r \in Reg
      PROVE  OffsetOf(r) \in 0 .. 14 /\ PopOrder[OffsetOf(r) + 1] = r
  <2>1. PICK i \in 1 .. 15 : PopOrder[i] = r
    BY Orders
  <2>2. i - 1 \in 0 .. 21 /\ FrameFields[(i - 1) + 1] = r
    BY <2>1, Orders
  <2>3. OffsetOf(r) \in 0 .. 21 /\ FrameFields[OffsetOf(r) + 1] = r
    BY <1>1, <2>2 DEF OffsetOf
  <2>4. r \notin {"vector", "error_code", "rip", "cs", "rflags", "rsp", "ss"}
    BY <2>1 DEF PopOrder
  <2>5. \A j \in 15 .. 21 : FrameFields[j + 1] \in {"vector", "error_code", "rip", "cs", "rflags", "rsp", "ss"}
    BY DEF FrameFields
  <2>6. OffsetOf(r) \in 0 .. 14
    BY <2>3, <2>4, <2>5
  <2> QED  BY <2>3, <2>6, Orders
<1>4. 15 \in 0 .. 21 /\ 16 \in 0 .. 21 /\ 17 \in 0 .. 21 /\ 20 \in 0 .. 21
  OBVIOUS
<1>5. OffsetOf("vector") = 15
  BY <1>1, <1>2, <1>4 DEF OffsetOf
<1>6. OffsetOf("error_code") = 16
  BY <1>1, <1>2, <1>4 DEF OffsetOf
<1>7. OffsetOf("rip") = 17
  BY <1>1, <1>2, <1>4 DEF OffsetOf
<1>8. OffsetOf("rsp") = 20
  BY <1>1, <1>2, <1>4 DEF OffsetOf
<1> QED  BY <1>3, <1>5, <1>6, <1>7, <1>8

(* Where the interrupted program can be. *)
LEMMA MainStack ==
  ASSUME NEW at, NEW rsp, NEW general, MainState(at, rsp, general)
  PROVE  /\ rsp \in {36, 38, 39, 40}
         /\ rsp - (rsp % 2) \in {36, 38, 40} /\ rsp - (rsp % 2) <= rsp
<1>1. rsp \in {36, 38, 39, 40}
  BY DEF MainState
<1>2. 36 % 2 = 0 /\ 38 % 2 = 0 /\ 39 % 2 = 1 /\ 40 % 2 = 0
  OBVIOUS
<1> QED  BY <1>1, <1>2

-------------------------------------------------------------------------------
LEMMA InvInit == Init => IInv
BY DEF Init, IInv, MainState, Top

(* The main program runs outside the handling of an interrupt. *)
LEMMA InvMain ==
  ASSUME IInv, MainProgram
  PROVE  IInv'
<1>1. hpc = "none" /\ hpc' = "none" /\ MainState(pc, sp, regs)
  BY DEF MainProgram, Call, Prologue, StoreLocals, Epilogue, Run, IInv
<1>2. "rbp" \in Reg
  BY Orders DEF PopOrder, Reg, Saved, PushOrder
<1>3. MainState(pc, sp, regs)'
  <2>1. CASE Call
    BY <1>1, <2>1 DEF Call, Run, MainState
  <2>2. CASE Prologue
    BY <1>1, <1>2, <2>2 DEF Prologue, Run, MainState, Locals
  <2>3. CASE StoreLocals
    BY <1>1, <2>3 DEF StoreLocals, Run, MainState
  <2>4. CASE Epilogue
    <3>1. pc = "body" /\ pc' = "caller" /\ regs["rbp"][2] = 38
      BY <1>1, <2>4 DEF Epilogue, Run, MainState, Word
    <3>2. sp' = 40 /\ regs' = [regs EXCEPT !["rbp"] = mem[38]]
      BY <2>4, <3>1 DEF Epilogue
    <3> QED  BY <1>1, <1>2, <3>1, <3>2 DEF MainState
  <2> QED  BY <2>1, <2>2, <2>3, <2>4 DEF MainProgram
<1> QED  BY <1>1, <1>3 DEF IInv

(* The CPU's words. *)
LEMMA InvEnter ==
  ASSUME IInv, NEW v \in Vectors, Enter(v)
  PROVE  IInv'
<1> DEFINE A == sp - (sp % 2)
           e == IF v \in CpuErr THEN 1 ELSE 0
           ws == <<Word("ss", 16), Word("rsp", sp), Word("rflags", 0), Word("cs", 8), Word(pc, 0)>>
                 \o (IF v \in CpuErr THEN <<Word("error", v)>> ELSE << >>)
<1>1. /\ hpc = "none" /\ hpc' = "stub" /\ vector' = v
      /\ before' = [mem |-> mem, sp |-> sp, regs |-> regs, pc |-> pc]
      /\ mem' = Push(mem, A, ws) /\ sp' = A - Len(ws)
      /\ UNCHANGED <<regs, routine, pc>>
  BY DEF Enter
<1>2. MainState(pc, sp, regs) /\ A \in {36, 38, 40} /\ A <= sp /\ sp \in {36, 38, 39, 40}
  BY <1>1, MainStack DEF IInv
<1>3. Len(ws) = 5 + e /\ ws[2] = Word("rsp", sp) /\ ws[5] = Word(pc, 0)
      /\ (v \in CpuErr => ws[6] = Word("error", v))
  <2>1. CASE v \in CpuErr
    BY <2>1
  <2>2. CASE v \notin CpuErr
    BY <2>2
  <2> QED  BY <2>1, <2>2
<1>4. Base' = A
  BY <1>1 DEF Base
<1> HIDE DEF A, ws
<1>5. \A a \in Addr : mem'[a] = IF a \in A - (5 + e) .. A - 1 THEN ws[A - a] ELSE mem[a]
  BY <1>1, <1>3 DEF Push
<1>6. CpuWords'
  <2>1. /\ A - 2 \in Addr /\ A - 2 \in A - (5 + e) .. A - 1 /\ A - (A - 2) = 2
        /\ A - 5 \in Addr /\ A - 5 \in A - (5 + e) .. A - 1 /\ A - (A - 5) = 5
    BY <1>2 DEF Addr, Top
  <2> QED  BY <1>1, <1>3, <1>4, <1>5, <2>1 DEF CpuWords
<1>7. v \in CpuErr => ErrorCode'
  <2>1. v \in CpuErr => A - 6 \in Addr /\ A - 6 \in A - (5 + e) .. A - 1 /\ A - (A - 6) = 6
    BY <1>2 DEF Addr, Top
  <2> QED  BY <1>1, <1>3, <1>4, <1>5, <2>1 DEF ErrorCode
<1>8. StageInv'
  <2>1. sp' = A - (IF v \in CpuErr THEN 6 ELSE 5)
    BY <1>1, <1>2, <1>3
  <2> QED  BY <1>1, <1>4, <1>7, <2>1 DEF StageInv
<1>9. \A a \in Addr : a >= sp => mem'[a] = mem[a]
  <2>1. \A a \in Addr : a >= sp => a \notin A - (5 + e) .. A - 1
    BY <1>2 DEF Addr
  <2> QED  BY <1>5, <2>1
<1> QED  BY <1>1, <1>2, <1>6, <1>8, <1>9 DEF IInv, MainState

(* What the steps of the handling keep: the main program's state, and what *)
(* lies at Base - 6 and above.                                             *)
LEMMA Kept ==
  ASSUME IInv, hpc # "none", UNCHANGED <<before, routine>>,
         \A a \in Addr : a >= Base - 5 => mem'[a] = mem[a]
  PROVE  /\ MainState(before.pc, before.sp, before.regs)'
         /\ (\A a \in Addr : a >= before.sp => mem[a] = before.mem[a])'
         /\ CpuWords' /\ Base' = Base /\ Base \in {36, 38, 40}
<1>1. MainState(before.pc, before.sp, before.regs)
  BY DEF IInv
<1>2. Base \in {36, 38, 40} /\ Base <= before.sp
  BY <1>1, MainStack DEF Base
<1>3. Base' = Base
  BY DEF Base
<1>4. CpuWords'
  <2>1. Base - 2 \in Addr /\ Base - 5 \in Addr /\ Base - 2 >= Base - 5
    BY <1>2 DEF Addr, Top
  <2>2. CpuWords /\ before' = before
    BY DEF IInv
  <2>3. mem'[Base - 2] = mem[Base - 2] /\ mem'[Base - 5] = mem[Base - 5]
    BY <1>2, <2>1
  <2>4. Base' - 2 = Base - 2 /\ Base' - 5 = Base - 5
    BY <1>3
  <2> QED  BY <2>2, <2>3, <2>4 DEF CpuWords
<1>5. (\A a \in Addr : a >= before.sp => mem[a] = before.mem[a])'
  <2>1. \A a \in Addr : a >= before.sp => a >= Base - 5
    <3>1. before.sp \in {36, 38, 39, 40}
      BY <1>1, MainStack
    <3> QED  BY <1>2, <3>1 DEF Addr
  <2> QED  BY <2>1 DEF IInv
<1>6. MainState(before.pc, before.sp, before.regs)'
  BY <1>1 DEF MainState
<1> QED  BY <1>2, <1>3, <1>4, <1>5, <1>6

(* The stub makes seven words of them, error code or not. *)
LEMMA InvStub ==
  ASSUME IInv, Stub
  PROVE  IInv'
<1> DEFINE ws == (IF vector \in StubErr THEN << >> ELSE <<Word("error", 0)>>)
                 \o <<Word("vector", vector)>>
<1>1. /\ hpc = "stub" /\ hpc' = "save" /\ mem' = Push(mem, sp, ws) /\ sp' = sp - Len(ws)
      /\ UNCHANGED <<regs, pc, vector, before, routine>>
  BY DEF Stub, Then
<1>2. /\ sp = Base - (IF vector \in CpuErr THEN 6 ELSE 5)
      /\ vector \in CpuErr => ErrorCode
      /\ regs = before.regs /\ Base \in {36, 38, 40}
  BY <1>1, MainStack DEF IInv, StageInv, Base
<1>3. StubErr = CpuErr
  BY DEF StubErr, CpuErr
<1>4. /\ vector \in CpuErr => Len(ws) = 1 /\ ws[1] = Word("vector", vector)
      /\ vector \notin CpuErr => Len(ws) = 2 /\ ws[1] = Word("error", 0) /\ ws[2] = Word("vector", vector)
  BY <1>3
<1> HIDE DEF ws
<1>5. \A a \in Addr : mem'[a] = IF a \in sp - Len(ws) .. sp - 1 THEN ws[sp - a] ELSE mem[a]
  BY <1>1 DEF Push
<1>6. sp' = Base - 7 /\ sp - Len(ws) = Base - 7
  <2>1. CASE vector \in CpuErr
    <3>1. Base \in {36, 38, 40} /\ sp = Base - 6 /\ Len(ws) = 1
      BY <1>2, <1>4, <2>1
    <3>2. sp - Len(ws) = Base - 7
      BY <3>1
    <3> QED  BY <1>1, <3>2
  <2>2. CASE vector \notin CpuErr
    <3>1. Base \in {36, 38, 40} /\ sp = Base - 5 /\ Len(ws) = 2
      BY <1>2, <1>4, <2>2
    <3>2. sp - Len(ws) = Base - 7
      BY <3>1
    <3> QED  BY <1>1, <3>2
  <2> QED  BY <2>1, <2>2
<1>7. \A a \in Addr : a >= Base - 5 => mem'[a] = mem[a]
  BY <1>2, <1>5, <1>6 DEF Addr
<1>8. StubWords'
  <2>1. Base - 6 \in Addr /\ Base - 7 \in Addr /\ Base' = Base
    BY <1>1, <1>2 DEF Addr, Top, Base
  <2>2. CASE vector \in CpuErr
    <3>1. sp = Base - 6 /\ sp - (Base - 7) = 1
      BY <1>2, <2>2
    <3>2. Base - 7 \in Base - 7 .. sp - 1 /\ Base - 6 \notin Base - 7 .. sp - 1
      BY <1>2, <3>1
    <3> QED  BY <1>1, <1>2, <1>4, <1>5, <1>6, <2>1, <2>2, <3>1, <3>2 DEF StubWords, ErrorCode
  <2>3. CASE vector \notin CpuErr
    <3>1. sp = Base - 5 /\ sp - (Base - 7) = 2 /\ sp - (Base - 6) = 1
      BY <1>2, <2>3
    <3>2. Base - 7 \in Base - 7 .. sp - 1 /\ Base - 6 \in Base - 7 .. sp - 1
      BY <1>2, <3>1
    <3> QED  BY <1>1, <1>4, <1>5, <1>6, <2>1, <2>3, <3>1, <3>2 DEF StubWords, ErrorCode
  <2> QED  BY <2>2, <2>3
<1>9. StageInv'
  BY <1>1, <1>2, <1>6, <1>8 DEF StageInv, Base
<1> QED  BY <1>1, <1>7, <1>9, Kept DEF IInv

(* Nothing above the vector changes from there on. *)
LEMMA StubWordsKept ==
  ASSUME IInv, hpc # "none", StubWords, UNCHANGED <<before, vector>>,
         \A a \in Addr : a >= Base - 7 => mem'[a] = mem[a]
  PROVE  StubWords'
<1>1. Base \in {36, 38, 40}
  BY MainStack DEF IInv, Base
<1>2. Base' = Base /\ Base - 6 \in Addr /\ Base - 7 \in Addr
  BY <1>1 DEF Base, Addr, Top
<1>3. Base - 6 >= Base - 7 /\ Base - 7 >= Base - 7
  BY <1>1
<1> QED  BY <1>2, <1>3 DEF StubWords, ErrorCode

LEMMA InvSave ==
  ASSUME IInv, Save
  PROVE  IInv'
<1> DEFINE ws == [i \in 1 .. Saved |-> regs[PushOrder[i]]]
<1>1. /\ hpc = "save" /\ hpc' = "dispatch" /\ mem' = Push(mem, sp, ws) /\ sp' = sp - 15
      /\ UNCHANGED <<regs, pc, vector, before, routine>>
  BY Orders DEF Save, Then
<1>2. sp = Base - 7 /\ StubWords /\ regs = before.regs /\ Base \in {36, 38, 40} /\ Base' = Base
  BY <1>1, MainStack DEF IInv, StageInv, Base
<1>3. Len(ws) = 15 /\ \A i \in 1 .. 15 : ws[i] = before.regs[PushOrder[i]]
  BY <1>2, Orders
<1> HIDE DEF ws
<1>4. \A a \in Addr : mem'[a] = IF a \in sp - 15 .. sp - 1 THEN ws[sp - a] ELSE mem[a]
  BY <1>1, <1>3 DEF Push
<1>5. \A a \in Addr : a >= Base - 7 => mem'[a] = mem[a]
  BY <1>2, <1>4 DEF Addr
<1>6. \A a \in Addr : a >= Base - 5 => mem'[a] = mem[a]
  BY <1>2, <1>5 DEF Addr
<1>7. SavedWords'
  <2>1. ASSUME NEW i \in 1 .. 15
        PROVE  mem'[Base - 7 - i] = before.regs[PushOrder[i]]
    <3>1. Base - 7 - i \in Addr /\ Base - 7 - i \in sp - 15 .. sp - 1 /\ sp - (Base - 7 - i) = i
      BY <1>2 DEF Addr, Top
    <3> QED  BY <1>3, <1>4, <3>1
  <2> QED  BY <1>1, <1>2, <2>1, Orders DEF SavedWords
<1>8. StubWords'
  BY <1>1, <1>2, <1>5, StubWordsKept
<1>9. sp' = Base - 7 - 15
  BY <1>1, <1>2
<1>10. StageInv'
  BY <1>1, <1>2, <1>7, <1>8, <1>9, Orders DEF StageInv
<1> QED  BY <1>1, <1>6, <1>10, Kept DEF IInv

(* What the C++ code does with the stack stays below the frame. *)
LEMMA InvDispatcher ==
  ASSUME IInv, Dispatcher
  PROVE  IInv'
<1>1. /\ hpc = "dispatch" /\ hpc' = "restore"
      /\ mem' = [a \in Addr |-> IF a < sp THEN Junk ELSE mem[a]]
      /\ UNCHANGED <<sp, pc, vector, before, routine>>
  BY DEF Dispatcher, Then
<1>2. /\ sp = Base - 7 - 15 /\ StubWords /\ SavedWords
      /\ Base \in {36, 38, 40} /\ Base' = Base
  BY <1>1, MainStack, Orders DEF IInv, StageInv, Base
<1>3. \A a \in Addr : a >= Base - 7 - 15 => mem'[a] = mem[a]
  BY <1>1, <1>2 DEF Addr
<1>4. (\A a \in Addr : a >= Base - 5 => mem'[a] = mem[a])
      /\ (\A a \in Addr : a >= Base - 7 => mem'[a] = mem[a])
  BY <1>2, <1>3 DEF Addr
<1>5. SavedWords'
  <2>1. ASSUME NEW i \in 1 .. 15
        PROVE  mem'[Base - 7 - i] = before.regs[PushOrder[i]]
    <3>1. Base - 7 - i \in Addr /\ Base - 7 - i >= Base - 7 - 15
      BY <1>2 DEF Addr, Top
    <3> QED  BY <1>2, <1>3, <3>1, Orders DEF SavedWords
  <2> QED  BY <1>1, <1>2, <2>1, Orders DEF SavedWords
<1>6. StubWords'
  BY <1>1, <1>2, <1>4, StubWordsKept
<1>7. StageInv'
  BY <1>1, <1>2, <1>5, <1>6, Orders DEF StageInv
<1> QED  BY <1>1, <1>4, <1>7, Kept DEF IInv

(* The registers are popped from where they were pushed. *)
LEMMA InvRestore ==
  ASSUME IInv, Restore
  PROVE  IInv'
<1>1. /\ hpc = "restore" /\ hpc' = "iret" /\ sp' = sp + 15
      /\ regs' = [r \in Reg |-> mem[sp + (CHOOSE i \in 1 .. 15 : PopOrder[i] = r) - 1]]
      /\ UNCHANGED <<mem, pc, vector, before, routine>>
  BY Orders DEF Restore, Then
<1>2. /\ sp = Base - 7 - 15 /\ StubWords /\ SavedWords
      /\ Base \in {36, 38, 40} /\ Base' = Base
  BY <1>1, MainStack, Orders DEF IInv, StageInv, Base
<1>3. ASSUME NEW r \in Reg
      PROVE  regs'[r] = before.regs[r]
  <2> DEFINE i == CHOOSE i \in 1 .. 15 : PopOrder[i] = r
  <2>1. i \in 1 .. 15 /\ PopOrder[i] = r
    BY Orders
  <2>2. regs'[r] = mem[sp + i - 1]
    BY <1>1
  <2> HIDE DEF i
  <2>3. 16 - i \in 1 .. 15 /\ 16 - (16 - i) = i /\ sp + i - 1 = Base - 7 - (16 - i)
    BY <1>2, <2>1
  <2>4. PushOrder[16 - i] = r
    BY <2>1, <2>3, Orders
  <2> QED  BY <1>2, <2>2, <2>3, <2>4, Orders DEF SavedWords
<1>4. regs' = before.regs
  <2>1. before.regs = [r \in Reg |-> before.regs[r]]
    BY <1>1 DEF IInv, MainState
  <2>2. regs' = [r \in Reg |-> regs'[r]]
    BY <1>1
  <2> QED  BY <1>3, <2>1, <2>2
<1>5. \A a \in Addr : mem'[a] = mem[a]
  BY <1>1
<1>6. StubWords'
  BY <1>1, <1>2, <1>5, StubWordsKept
<1>7. sp' = Base - 7
  BY <1>1, <1>2
<1>8. StageInv'
  BY <1>1, <1>2, <1>4, <1>6, <1>7 DEF StageInv
<1> QED  BY <1>1, <1>5, <1>8, Kept DEF IInv

(* iretq finds its words: the program goes on where it was. *)
LEMMA IretqReturns ==
  ASSUME IInv, Iretq
  PROVE  /\ hpc = "iret" /\ hpc' = "none"
         /\ pc' = before.pc /\ sp' = before.sp /\ regs' = before.regs
         /\ \A a \in Addr : a >= before.sp => mem'[a] = before.mem[a]
<1>1. /\ hpc = "iret" /\ hpc' = "none" /\ pc' = mem[sp + 2][1] /\ sp' = mem[sp + 5][2]
      /\ UNCHANGED <<mem, regs>>
  BY DEF Iretq, Then
<1>2. /\ sp = Base - 7 /\ regs = before.regs /\ CpuWords /\ Base \in {36, 38, 40}
      /\ \A a \in Addr : a >= before.sp => mem[a] = before.mem[a]
  BY <1>1, MainStack DEF IInv, StageInv, Base
<1>3. sp + 2 = Base - 5 /\ sp + 5 = Base - 2
  BY <1>2
<1>4. pc' = before.pc /\ sp' = before.sp
  BY <1>1, <1>2, <1>3 DEF CpuWords, Word
<1> QED  BY <1>1, <1>2, <1>4

LEMMA InvStep ==
  ASSUME IInv, [Next]_vars
  PROVE  IInv'
<1>1. CASE Iretq
  <2>1. UNCHANGED routine
    BY <1>1 DEF Iretq, Then
  <2>2. MainState(before.pc, before.sp, before.regs)
    BY <1>1, IretqReturns DEF IInv
  <2> QED  BY <1>1, <2>1, <2>2, IretqReturns DEF IInv, MainState
<1>2. CASE UNCHANGED vars
  BY <1>2 DEF vars, IInv, MainState, CpuWords, StageInv, StubWords, ErrorCode, SavedWords, Base
<1> QED
  BY <1>1, <1>2, InvMain, InvEnter, InvStub, InvSave, InvDispatcher, InvRestore
     DEF Next, Handling

LEMMA Invariance == Spec => []IInv
<1> QED  BY InvInit, InvStep, PTL DEF Spec

(* What interrupt_dispatcher reads as an InterruptFrame is one, whichever  *)
(* stub built it and however the interrupted program's stack was aligned;  *)
(* and it is called with the stack aligned as the ABI wants it.            *)
THEOREM FramesAreTrue == Spec => []FrameIsTrue
<1>1. IInv => FrameIsTrue
  <2> SUFFICES ASSUME IInv, hpc = "dispatch"
               PROVE  /\ sp % 2 = 0
                      /\ Field("vector") = Word("vector", vector)
                      /\ Field("error_code") = Word("error", IF vector \in CpuErr THEN vector ELSE 0)
                      /\ \A r \in Reg : Field(r) = before.regs[r]
                      /\ Field("rip") = Word(before.pc, 0) /\ Field("rsp") = Word("rsp", before.sp)
    BY DEF FrameIsTrue
  <2>1. /\ sp = Base - 7 - 15 /\ StubWords /\ SavedWords /\ CpuWords
        /\ Base \in {36, 38, 40}
    BY MainStack, Orders DEF IInv, StageInv, Base
  <2>2. sp % 2 = 0
    BY <2>1
  <2>3. sp + 15 = Base - 7 /\ sp + 16 = Base - 6 /\ sp + 17 = Base - 5 /\ sp + 20 = Base - 2
    BY <2>1
  <2>4. ASSUME NEW r \in Reg
        PROVE  Field(r) = before.regs[r]
    <3> DEFINE i == OffsetOf(r)
    <3>1. i \in 0 .. 14 /\ PopOrder[i + 1] = r
      BY Offsets
    <3> HIDE DEF i
    <3>2. 15 - i \in 1 .. 15 /\ 16 - (15 - i) = i + 1 /\ sp + i = Base - 7 - (15 - i)
      BY <2>1, <3>1
    <3>3. PushOrder[15 - i] = r
      BY <3>1, <3>2, Orders
    <3>4. mem[sp + i] = before.regs[r]
      BY <2>1, <3>2, <3>3, Orders DEF SavedWords
    <3> QED  BY <3>4 DEF Field, i
  <2> QED
    BY <2>1, <2>2, <2>3, <2>4, Offsets DEF Field, StubWords, ErrorCode, CpuWords
<1> QED  BY <1>1, Invariance, PTL

(* And the interrupted program goes on where it was, its registers as they *)
(* were and nothing at or above its RSP changed.                           *)
THEOREM GoesOn == Spec => GoesOnWhereItWas
<1> DEFINE Returns ==
      hpc = "iret" /\ hpc' = "none" =>
        /\ pc' = before.pc /\ sp' = before.sp /\ regs' = before.regs
        /\ \A a \in Addr : a >= before.sp => mem'[a] = before.mem[a]
<1>1. IInv /\ [Next]_vars => [Returns]_vars
  <2> SUFFICES ASSUME IInv, Next, hpc = "iret", hpc' = "none"
               PROVE  Returns
    BY DEF Returns
  <2>1. Iretq
    BY DEF Next, MainProgram, Call, Prologue, StoreLocals, Epilogue, Run, Enter,
           Handling, Stub, Save, Dispatcher, Restore, Then
  <2> QED  BY <2>1, IretqReturns DEF Returns
<1> QED  BY <1>1, Invariance, PTL DEF Spec, GoesOnWhereItWas
==============================================================================
