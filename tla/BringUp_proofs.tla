---------------------------- MODULE BringUp_proofs ----------------------------
(***************************************************************************)
(* Proofs about the bring-up of both boards, for all values of the         *)
(* constants: about each of its three parts by itself, and about BringUp,  *)
(* which is what its parts promise, whatever the others do.                *)
(***************************************************************************)
EXTENDS BringUp, TLAPS

-------------------------------------------------------------------------------
(***************************************************************************)
(* BootX86, for every address of the tables and every number of entries    *)
(* up to the code's 512.                                                   *)
(***************************************************************************)

(* The page directory's first n entries, in memory m. *)
Filled(m, n) ==
    \A j \in 0 .. n - 1 : /\ m[PdWord + 2 * j] = 131 + j * Big
                          /\ m[PdWord + 2 * j + 1] = 0

(* The two tables above it, but for their links. *)
RestZero(m) == \A w \in 0 .. PdWord - 1 : w # 0 /\ w # PdpWord => m[w] = 0

Linked(m) == m[0] = PdpTable + 3 /\ m[PdpWord] = PdTable + 3

ModePC == {"cr3", "pae", "lme", "paging", "entry", "kernel_main"}

MemInv ==
    /\ at \in {"cpuid", "clear", "pml4", "pdp", "pd", "fill_pd", "halt"} \cup ModePC
    /\ tables \in [Word -> Nat]
    /\ at = "clear" => /\ eax = 0 /\ ecx \in 1 .. 3 * Words
                       /\ \A w \in Word : w >= ecx => tables[w] = 0
    /\ at = "pml4" => \A w \in Word : tables[w] = 0
    /\ at = "pdp" => tables[0] = PdpTable + 3 /\ tables[PdpWord] = 0 /\ RestZero(tables)
    /\ at = "pd" => Linked(tables) /\ RestZero(tables)
    /\ at = "fill_pd" => /\ Linked(tables) /\ RestZero(tables)
                         /\ ecx \in 1 .. Entries
                         /\ edi = PdWord + 2 * (Entries - ecx)
                         /\ eax = 131 + (Entries - ecx) * Big
                         /\ Filled(tables, Entries - ecx)
    /\ at \in ModePC => Linked(tables) /\ RestZero(tables) /\ Filled(tables, Entries)

ModeInv ==
    /\ at \in ModePC \ {"cr3"} => cr3 = Pml4
    /\ at \in {"lme", "paging", "entry", "kernel_main"} => pae = TRUE
    /\ at \in {"paging", "entry", "kernel_main"} => lme = TRUE
    /\ paging => at \in {"entry", "kernel_main"}

TablesInv == MemInv /\ ModeInv

(* Sizes and places. *)
LEMMA TableSizes ==
    /\ Entries \in Nat /\ Entries >= 2
    /\ Words = 2 * Entries /\ PdpWord = 2 * Entries /\ PdWord = 4 * Entries
    /\ Word = 0 .. 6 * Entries - 1
    /\ PdpTable + 3 \in Nat /\ PdTable + 3 \in Nat
  BY EntriesAssumption, Pml4Assumption
  DEF Words, PdpWord, PdWord, Word, PdpTable, PdTable, Page

(* A pass of the first loop. *)
LEMMA ClearKeeps == MemInv /\ Clear => MemInv'
  <1> SUFFICES ASSUME MemInv, Clear PROVE MemInv'
    OBVIOUS
  <1>1. /\ eax = 0 /\ ecx \in 1 .. 6 * Entries /\ tables \in [Word -> Nat]
        /\ \A w \in Word : w >= ecx => tables[w] = 0
    BY TableSizes DEF Clear, MemInv
  <1>2. /\ tables' = [tables EXCEPT ![ecx - 1] = 0] /\ ecx' = ecx - 1 /\ eax' = 0
        /\ at' = IF ecx = 1 THEN "pml4" ELSE "clear"
    BY <1>1 DEF Clear
  <1>3. tables' \in [Word -> Nat]
    BY <1>1, <1>2
  <1>4. \A w \in Word : w >= ecx' => tables'[w] = 0
    BY <1>1, <1>2, TableSizes
  <1>5. CASE ecx = 1
    <2>1. \A w \in Word : tables'[w] = 0
      BY <1>2, <1>4, <1>5, TableSizes
    <2> QED
      BY <1>2, <1>3, <1>5, <2>1 DEF MemInv, ModePC
  <1>6. CASE ecx # 1
    <2>1. ecx' \in 1 .. 3 * Words
      BY <1>1, <1>2, <1>6, TableSizes
    <2> QED
      BY <1>2, <1>3, <1>4, <1>6, <2>1 DEF MemInv, ModePC
  <1> QED
    BY <1>5, <1>6

(* The two links. *)
LEMMA LinksKeep == MemInv /\ (LinkPml4 \/ LinkPdp) => MemInv'
  <1> SUFFICES ASSUME MemInv, LinkPml4 \/ LinkPdp PROVE MemInv'
    OBVIOUS
  <1>1. tables \in [Word -> Nat]
    BY DEF MemInv
  <1>2. CASE LinkPml4
    <2>1. /\ \A w \in Word : tables[w] = 0
          /\ at' = "pdp" /\ tables' = [tables EXCEPT ![0] = PdpTable + 3, ![1] = 0]
      BY <1>2 DEF LinkPml4, Goto, MemInv
    <2>2. tables' \in [Word -> Nat]
      BY <1>1, <2>1, TableSizes
    <2>3. tables'[0] = PdpTable + 3 /\ tables'[PdpWord] = 0 /\ RestZero(tables')
      BY <1>1, <2>1, TableSizes DEF RestZero
    <2> QED
      BY <2>1, <2>2, <2>3 DEF MemInv, ModePC
  <1>3. CASE LinkPdp
    <2>1. /\ tables[0] = PdpTable + 3 /\ tables[PdpWord] = 0 /\ RestZero(tables)
          /\ at' = "pd"
          /\ tables' = [tables EXCEPT ![PdpWord] = PdTable + 3, ![PdpWord + 1] = 0]
      BY <1>3 DEF LinkPdp, Goto, MemInv
    <2>2. tables' \in [Word -> Nat]
      BY <1>1, <2>1, TableSizes
    <2>3. Linked(tables') /\ RestZero(tables')
      BY <1>1, <2>1, TableSizes DEF RestZero, Linked
    <2> QED
      BY <2>1, <2>2, <2>3 DEF MemInv, ModePC
  <1> QED
    BY <1>2, <1>3

(* A pass of the second loop. *)
LEMMA FillKeeps == MemInv /\ FillPd => MemInv'
  <1> SUFFICES ASSUME MemInv, FillPd PROVE MemInv'
    OBVIOUS
  <1>a. PICK n \in 0 .. Entries - 1 : n = Entries - ecx
    BY TableSizes DEF FillPd, MemInv
  <1>1. /\ tables \in [Word -> Nat] /\ Linked(tables) /\ RestZero(tables) /\ Filled(tables, n)
        /\ ecx \in 1 .. Entries
        /\ edi = PdWord + 2 * n /\ eax = 131 + n * Big
    BY <1>a DEF FillPd, MemInv
  <1>2. /\ tables' = [tables EXCEPT ![edi] = eax, ![edi + 1] = 0]
        /\ eax' = eax + Big /\ edi' = edi + 2 /\ ecx' = ecx - 1
        /\ at' = IF ecx = 1 THEN "cr3" ELSE "fill_pd"
    BY DEF FillPd
  <1>3. n \in 0 .. Entries - 1 /\ Big \in Nat
    BY <1>1, TableSizes DEF Big
  <1>4. /\ edi \in Word /\ edi + 1 \in Word /\ edi \in Nat /\ edi >= 4 * Entries
        /\ eax \in Nat
    BY <1>1, <1>3, TableSizes DEF Big
  <1>5. tables' \in [Word -> Nat]
    BY <1>1, <1>2, <1>4
  <1>6. /\ tables'[edi] = eax /\ tables'[edi + 1] = 0
        /\ \A w \in Word : w # edi /\ w # edi + 1 => tables'[w] = tables[w]
    BY <1>1, <1>2, <1>4
  <1>7. Linked(tables') /\ RestZero(tables')
    <2>1. \A w \in 0 .. PdWord - 1 : w \in Word /\ w # edi /\ w # edi + 1
      BY <1>4, TableSizes
    <2>2. \A w \in 0 .. PdWord - 1 : tables'[w] = tables[w]
      BY <1>6, <2>1
    <2>3. 0 \in 0 .. PdWord - 1 /\ PdpWord \in 0 .. PdWord - 1
      BY TableSizes
    <2>4. Linked(tables')
      BY <1>1, <2>2, <2>3 DEF Linked
    <2>5. RestZero(tables')
      BY <1>1, <2>2 DEF RestZero
    <2> QED
      BY <2>4, <2>5
  <1>8. Filled(tables', n + 1)
    <2> SUFFICES ASSUME NEW j \in 0 .. n
                 PROVE  tables'[PdWord + 2 * j] = 131 + j * Big /\ tables'[PdWord + 2 * j + 1] = 0
      BY <1>3 DEF Filled
    <2>1. CASE j = n
      BY <1>1, <1>6, <2>1
    <2>2. CASE j # n
      <3>1. j \in 0 .. n - 1
        BY <1>3, <2>2
      <3>2. tables[PdWord + 2 * j] = 131 + j * Big /\ tables[PdWord + 2 * j + 1] = 0
        BY <1>1, <3>1 DEF Filled
      <3>3. /\ PdWord + 2 * j \in Word /\ PdWord + 2 * j + 1 \in Word
            /\ PdWord + 2 * j + 1 < edi
        BY <1>1, <1>3, <3>1, TableSizes
      <3>4. /\ PdWord + 2 * j # edi /\ PdWord + 2 * j # edi + 1
            /\ PdWord + 2 * j + 1 # edi /\ PdWord + 2 * j + 1 # edi + 1
        BY <1>3, <1>4, <3>1, <3>3, TableSizes
      <3> QED
        BY <1>6, <3>2, <3>3, <3>4
    <2> QED
      BY <2>1, <2>2
  <1>9. Entries - ecx' = n + 1
    BY <1>a, <1>1, <1>2, TableSizes
  <1>10. CASE ecx = 1
    <2>1. n + 1 = Entries
      BY <1>a, <1>10, TableSizes
    <2> QED
      BY <1>2, <1>5, <1>7, <1>8, <1>10, <2>1 DEF MemInv, ModePC
  <1>11. CASE ecx # 1
    <2>1. ecx' \in 1 .. Entries
      BY <1>1, <1>2, <1>11, TableSizes
    <2>2. edi' = PdWord + 2 * (n + 1)
      BY <1>1, <1>2, <1>3, TableSizes
    <2>3. eax' = 131 + (n + 1) * Big
      BY <1>1, <1>2, <1>3 DEF Big
    <2>4. PdWord' = PdWord
      BY DEF PdWord, Words
    <2> QED
      BY <1>2, <1>5, <1>7, <1>8, <1>9, <1>11, <2>1, <2>2, <2>3, <2>4 DEF MemInv, ModePC
  <1> QED
    BY <1>10, <1>11

LEMMA MemStep == MemInv /\ [BootX86Next]_x86Vars => MemInv'
  <1> SUFFICES ASSUME MemInv, [BootX86Next]_x86Vars PROVE MemInv'
    OBVIOUS
  <1>1. CASE VerifyLongMode
    <2>1. \A w \in Word : ~(w >= 3 * Words)
      BY TableSizes
    <2>2. 3 * Words \in 1 .. 3 * Words
      BY TableSizes
    <2> QED
      BY <1>1, <2>1, <2>2 DEF VerifyLongMode, Goto, MemInv, ModePC
  <1>2. CASE Clear
    BY <1>2, ClearKeeps
  <1>3. CASE LinkPml4 \/ LinkPdp
    BY <1>3, LinksKeep
  <1>4. CASE StartPd
    <2>1. /\ Linked(tables) /\ RestZero(tables) /\ tables' = tables /\ at' = "fill_pd"
          /\ edi' = PdWord /\ eax' = 131 /\ ecx' = Entries /\ tables \in [Word -> Nat]
      BY <1>4 DEF StartPd, Goto, MemInv
    <2>2. Linked(tables') /\ RestZero(tables')
      BY <2>1 DEF Linked, RestZero
    <2>3. /\ ecx' \in 1 .. Entries /\ edi' = PdWord + 2 * (Entries - ecx')
          /\ eax' = 131 + (Entries - ecx') * Big
      BY <2>1, TableSizes DEF Big
    <2>4. Filled(tables', 0)
      BY <2>1, TableSizes DEF Filled
    <2> QED
      BY <2>1, <2>2, <2>3, <2>4 DEF MemInv, ModePC
  <1>5. CASE FillPd
    BY <1>5, FillKeeps
  <1>6. CASE LoadCr3 \/ EnablePae \/ EnableLongMode \/ EnablePaging \/ EnterKernel
    <2>1. at \in ModePC /\ at' \in ModePC /\ tables' = tables
      BY <1>6 DEF LoadCr3, EnablePae, EnableLongMode, EnablePaging, EnterKernel, Goto, ModePC
    <2>2. Linked(tables') /\ RestZero(tables') /\ Filled(tables', Entries)
      BY <2>1 DEF MemInv, Linked, RestZero, Filled
    <2> QED
      BY <2>1, <2>2 DEF MemInv, ModePC
  <1>7. CASE UNCHANGED x86Vars
    BY <1>7 DEF x86Vars, regs, MemInv, Linked, RestZero, Filled
  <1> QED
    BY <1>1, <1>2, <1>3, <1>4, <1>5, <1>6, <1>7 DEF BootX86Next

LEMMA ModeStep == TablesInv /\ [BootX86Next]_x86Vars => ModeInv'
  BY DEF TablesInv, MemInv, ModeInv, ModePC, BootX86Next, x86Vars, regs, modes, Goto, VerifyLongMode, Clear,
         LinkPml4, LinkPdp, StartPd, FillPd, LoadCr3, EnablePae, EnableLongMode, EnablePaging,
         EnterKernel

LEMMA TablesInit == BootX86Init => TablesInv
  BY MemoriesAssumption DEF BootX86Init, TablesInv, MemInv, ModeInv, ModePC

LEMMA TablesInvariant == BootX86Spec => []TablesInv
  <1>1. TablesInv /\ [BootX86Next]_x86Vars => TablesInv'
    BY MemStep, ModeStep DEF TablesInv
  <1> QED
    BY <1>1, TablesInit, PTL DEF BootX86Spec

-------------------------------------------------------------------------------
(* What the CPU reads in the entries. *)
LEMMA LinkBits ==
    ASSUME NEW t \in Nat, t % 4096 = 0
    PROVE  (t + 3) % 2 = 1 /\ ((t + 3) \div 128) % 2 = 0 /\ (t + 3) - ((t + 3) % 4096) = t
  <1>1. PICK k \in Nat : t = 4096 * k
    <2>1. t = 4096 * (t \div 4096) + (t % 4096) /\ t \div 4096 \in Nat
      OBVIOUS
    <2> QED
      BY <2>1
  <1>2. (t + 3) % 2 = 1
    BY <1>1
  <1>3. (t + 3) \div 128 = 32 * k
    BY <1>1
  <1>4. (32 * k) % 2 = 0
    OBVIOUS
  <1>5. (t + 3) % 4096 = 3
    BY <1>1
  <1> QED
    BY <1>2, <1>3, <1>4, <1>5

LEMMA PageBits ==
    ASSUME NEW n \in Nat
    PROVE  LET e == 131 + n * Big IN e % 2 = 1 /\ (e \div 128) % 2 = 1 /\ e - (e % 4096) = n * Big
  <1>1. (131 + n * 2097152) % 2 = 1
    OBVIOUS
  <1>2. (131 + n * 2097152) \div 128 = 1 + n * 16384
    OBVIOUS
  <1>3. (1 + n * 16384) % 2 = 1
    OBVIOUS
  <1>4. (131 + n * 2097152) % 4096 = 131
    OBVIOUS
  <1> QED
    BY <1>1, <1>2, <1>3, <1>4 DEF Big

(* When paging is on, the tables map the first Entries pages of 2 MB, a    *)
(* gigabyte with the code's 512, to themselves and nothing else, and the   *)
(* CPU has been told to expect them: boot.asm:47-95.                       *)
THEOREM IdentityMapped == BootX86Spec => []PagingIsIdentity
  <1>1. TablesInv => PagingIsIdentity
    <2> SUFFICES ASSUME TablesInv, paging PROVE PagingIsIdentity!2
      BY DEF PagingIsIdentity
    <2>1. at \in ModePC /\ pae /\ lme /\ cr3 = Pml4
      BY DEF TablesInv, ModeInv, ModePC
    <2>2. Linked(tables) /\ RestZero(tables) /\ Filled(tables, Entries)
      BY <2>1 DEF TablesInv, MemInv
    <2>3. LinksTo(0, PdpTable)
      <3>1. PdpTable \in Nat /\ PdpTable % 4096 = 0
        BY Pml4Assumption DEF PdpTable, Page
      <3>2. tables[0] = PdpTable + 3 /\ tables[1] = 0
        BY <2>2, TableSizes DEF Linked, RestZero
      <3> QED
        BY <3>1, <3>2, LinkBits DEF LinksTo, Present, BigPage, High, Target, Page
    <2>4. LinksTo(PdpWord, PdTable)
      <3>1. PdTable \in Nat /\ PdTable % 4096 = 0
        BY Pml4Assumption DEF PdTable, Page
      <3>2. tables[PdpWord] = PdTable + 3 /\ tables[PdpWord + 1] = 0
        BY <2>2, TableSizes DEF Linked, RestZero
      <3> QED
        BY <3>1, <3>2, LinkBits DEF LinksTo, Present, BigPage, High, Target, Page
    <2>5. ASSUME NEW n \in 0 .. Entries - 1
          PROVE  MapsTo(PdWord + 2 * n, n)
      <3>1. tables[PdWord + 2 * n] = 131 + n * Big /\ tables[PdWord + 2 * n + 1] = 0
        BY <2>2 DEF Filled
      <3>2. n \in Nat
        BY TableSizes
      <3> QED
        BY <3>1, <3>2, PageBits DEF MapsTo, Present, BigPage, High, Target, Page
    <2>6. ASSUME NEW n \in 1 .. Entries - 1
          PROVE  ~Present(2 * n) /\ ~Present(PdpWord + 2 * n)
      <3>1. tables[2 * n] = 0 /\ tables[PdpWord + 2 * n] = 0
        BY <2>2, TableSizes DEF RestZero
      <3> QED
        BY <3>1 DEF Present
    <2> QED
      BY <2>1, <2>3, <2>4, <2>5, <2>6
  <1> QED
    BY <1>1, TablesInvariant, PTL

-------------------------------------------------------------------------------
(***************************************************************************)
(* BootRiscv, for every size of .bss and of the stack.                     *)
(***************************************************************************)

(* The first byte that the loop has not zeroed yet. *)
Frontier == IF stub = "advance" THEN t0 + 8 ELSE t0

LoopInv ==
    /\ bssEnd \in Nat
    /\ t0 \in Nat /\ t0 % 8 = 0
    /\ stub \in {"test", "store", "advance", "stack", "kernel_main"}
    /\ stub \in {"store", "advance"} => t0 < bssEnd
    /\ stub \in {"stack", "kernel_main"} => t0 >= bssEnd

StubInv ==
    /\ LoopInv
    /\ \A a \in Address : a < Frontier => ram[a] = 0
    /\ StackUntouched

(* The stack begins on a multiple of eight, not below the end of .bss.     *)
LEMMA Layout ==
    ASSUME bssEnd \in Nat
    PROVE  /\ StackBottom \in Nat /\ StackBottom >= bssEnd /\ StackBottom % 8 = 0
           /\ StackTop \in Nat /\ StackTop >= StackBottom
  <1>1. StackBottom \in Nat /\ StackBottom >= bssEnd /\ StackBottom % 8 = 0
    BY DEF StackBottom, AlignUp
  <1> QED
    BY <1>1, StackSizeAssumption DEF StackTop

(* A doubleword that begins inside .bss ends below the stack.              *)
LEMMA DoublewordFits ==
    ASSUME LoopInv, t0 < bssEnd
    PROVE  t0 + 8 <= StackBottom
  <1>1. t0 \in Nat /\ bssEnd \in Nat /\ t0 % 8 = 0
    BY DEF LoopInv
  <1>2. StackBottom \in Nat /\ t0 < StackBottom /\ StackBottom % 8 = 0
    BY <1>1, Layout
  <1>3. \A i, j \in Nat : i < j /\ i % 8 = 0 /\ j % 8 = 0 => i + 8 <= j
    OBVIOUS
  <1> QED
    BY <1>1, <1>2, <1>3

LEMMA StubInit == BootRiscvInit => StubInv
  <1> SUFFICES ASSUME BootRiscvInit PROVE StubInv
    OBVIOUS
  <1>1. LoopInv /\ Frontier = 0
    BY BssSizesAssumption DEF BootRiscvInit, LoopInv, Frontier
  <1>2. \A a \in StackBottom .. StackTop - 1 : a \in Address
    BY <1>1, Layout DEF LoopInv, Address
  <1>3. StackUntouched
    BY <1>2 DEF BootRiscvInit, StackUntouched
  <1>4. \A a \in Address : ~(a < Frontier)
    BY <1>1 DEF Address
  <1> QED
    BY <1>1, <1>3, <1>4 DEF StubInv

LEMMA StubStep == StubInv /\ [BootRiscvNext]_riscvVars => StubInv'
  <1> SUFFICES ASSUME StubInv, [BootRiscvNext]_riscvVars PROVE StubInv'
    OBVIOUS
  <1>1. LoopInv /\ t0 \in Nat /\ bssEnd \in Nat
    BY DEF StubInv, LoopInv
  <1>2. bssEnd' = bssEnd
    BY DEF BootRiscvNext, Test, Store, Advance, CallKernel, riscvVars
  <1>3. StackBottom' = StackBottom /\ StackTop' = StackTop /\ Address' = Address
    BY <1>2 DEF StackBottom, StackTop, Address
  <1>4. CASE ram' = ram /\ LoopInv' /\ Frontier' = Frontier
    BY <1>3, <1>4 DEF StubInv, StackUntouched
  <1>5. CASE Test
    <2>1. ram' = ram /\ LoopInv'
      BY <1>1, <1>5 DEF Test, LoopInv
    <2>2. Frontier' = Frontier
      BY <1>5 DEF Test, Frontier
    <2> QED
      BY <1>4, <2>1, <2>2
  <1>6. CASE Store
    <2>1. /\ t0 < bssEnd /\ stub = "store" /\ stub' = "advance" /\ t0' = t0
          /\ ram' = [a \in Address |-> IF a \in t0 .. t0 + 7 THEN 0 ELSE ram[a]]
      BY <1>1, <1>6 DEF Store, LoopInv
    <2>2. LoopInv'
      BY <1>1, <1>2, <2>1 DEF LoopInv
    <2>3. Frontier' = t0 + 8 /\ Frontier = t0
      BY <2>1 DEF Frontier
    <2>4. \A a \in Address' : a < Frontier' => ram'[a] = 0
      <3> SUFFICES ASSUME NEW a \in Address, a < t0 + 8 PROVE ram'[a] = 0
        BY <1>3, <2>3
      <3>1. a \in Int
        BY <1>1, Layout DEF Address
      <3>2. CASE a < t0
        <4>1. ram[a] = 0
          BY <2>3, <3>2 DEF StubInv
        <4> QED
          BY <2>1, <4>1
      <3>3. CASE ~(a < t0)
        <4>1. a \in t0 .. t0 + 7
          BY <1>1, <3>1, <3>3
        <4> QED
          BY <2>1, <4>1
      <3> QED
        BY <3>2, <3>3
    <2>5. StackUntouched'
      <3> SUFFICES ASSUME NEW a \in StackBottom .. StackTop - 1 PROVE ram'[a] = Garbage
        BY <1>3 DEF StackUntouched
      <3>1. ram[a] = Garbage
        BY DEF StubInv, StackUntouched
      <3>2. t0 + 8 <= StackBottom /\ StackBottom \in Nat /\ StackTop \in Nat
        BY <1>1, <2>1, DoublewordFits, Layout
      <3>3. a \in Address /\ a \notin t0 .. t0 + 7
        BY <1>1, <3>2 DEF Address
      <3> QED
        BY <2>1, <3>1, <3>3
    <2> QED
      BY <2>2, <2>4, <2>5 DEF StubInv
  <1>7. CASE Advance
    <2>1. ram' = ram /\ stub = "advance" /\ stub' = "test" /\ t0' = t0 + 8
      BY <1>7 DEF Advance
    <2>2. LoopInv'
      BY <1>1, <1>2, <2>1 DEF LoopInv
    <2>3. Frontier' = Frontier
      BY <2>1 DEF Frontier
    <2> QED
      BY <1>4, <2>1, <2>2, <2>3
  <1>8. CASE CallKernel
    <2>1. ram' = ram /\ LoopInv'
      BY <1>1, <1>8 DEF CallKernel, LoopInv
    <2>2. Frontier' = Frontier
      BY <1>8 DEF CallKernel, Frontier
    <2> QED
      BY <1>4, <2>1, <2>2
  <1>9. CASE UNCHANGED riscvVars
    <2>1. ram' = ram /\ LoopInv' /\ Frontier' = Frontier
      BY <1>1, <1>9 DEF riscvVars, LoopInv, Frontier
    <2> QED
      BY <1>4, <2>1
  <1> QED
    BY <1>5, <1>6, <1>7, <1>8, <1>9 DEF BootRiscvNext

LEMMA StubInvariant == BootRiscvSpec => []StubInv
  BY StubInit, StubStep, PTL DEF BootRiscvSpec

-------------------------------------------------------------------------------
(* kernel_main finds .bss zeroed to its last byte, for every size of .bss. *)
THEOREM KernelFindsZeroedBss == BootRiscvSpec => []BssIsZero
  <1>1. StubInv => BssIsZero
    <2> SUFFICES ASSUME StubInv, stub = "kernel_main", NEW a \in 0 .. bssEnd - 1
                 PROVE  ram[a] = 0
      BY DEF BssIsZero
    <2>1. bssEnd \in Nat /\ t0 \in Nat /\ t0 >= bssEnd /\ Frontier = t0
      BY DEF StubInv, LoopInv, Frontier
    <2>2. StackTop \in Nat /\ StackTop >= bssEnd
      BY <2>1, Layout
    <2>3. a \in Address /\ a < Frontier
      BY <2>1, <2>2 DEF Address
    <2> QED
      BY <2>3 DEF StubInv
  <1> QED
    BY <1>1, StubInvariant, PTL

(* The loop writes up to seven bytes past .bss and never into the stack,   *)
(* which the linker script aligns to 16.                                   *)
THEOREM StackIsKept == BootRiscvSpec => []StackUntouched
  <1>1. StubInv => StackUntouched
    BY DEF StubInv
  <1> QED
    BY <1>1, StubInvariant, PTL

-------------------------------------------------------------------------------
(***************************************************************************)
(* SerialPort, for every depth of the transmitter's FIFO that is at least  *)
(* two: one place for the main program's character and one for a message's *)
(* last character that is still to be sent.                                *)
(***************************************************************************)

(* How far init has come with the port. *)
LineDuringInit ==
    /\ step \in 0 .. 7
    /\ step < 2 \/ step >= 5 => lcr = 3
    /\ step >= 2 /\ step < 5 => lcr = 128
    /\ step >= 3 => divisor[1] = 3
    /\ step >= 4 => divisor[2] = 0
    /\ step >= 6 => fifo

(* Before init is done nobody else uses the port. *)
InitAlone == pc = "init" => step < Len(Writes) /\ hpc = "none" /\ ~ifl /\ tx <= 1

InitDone == pc # "init" => step >= 6

(* The dispatcher looks at the transmitter with interrupts off, so what it *)
(* saw still holds when it writes; the main program's look may be stale by *)
(* the last character of a message, and no more.                           *)
RoomLeft ==
    /\ tx \in 0 .. 2
    /\ pc = "write" => tx \in 0 .. 1
    /\ hpc = "write" => tx = 0
    /\ left \in 0 .. MessageSize
    /\ hpc # "none" => left \in 1 .. MessageSize

PortInv == TypeOK /\ LineDuringInit /\ InitAlone /\ InitDone /\ RoomLeft /\ NothingLost

-------------------------------------------------------------------------------
(* What init writes, by step. *)
LEMMA WritesAre ==
    ASSUME TypeOK
    PROVE  /\ Len(Writes) \in {6, 7}
           /\ Writes[1] = <<"IER", 0>> /\ Writes[2] = <<"LCR", 128>>
           /\ Writes[3] = <<"DATA", 3>> /\ Writes[4] = <<"IER", 0>>
           /\ Writes[5] = <<"LCR", 3>> /\ Writes[6] = <<"FCR", 199>>
           /\ Len(Writes) = 7 => Writes[7] = <<"MCR", 11>>
  <1>1. CASE board = "x86_64"
    BY <1>1 DEF Writes, SerialInit
  <1>2. CASE board # "x86_64"
    BY <1>2 DEF Writes, UartInit
  <1> QED
    BY <1>1, <1>2

LEMMA PortInit == Init => PortInv
  <1> SUFFICES ASSUME Init PROVE PortInv
    OBVIOUS
  <1>1. Len(Writes) \in {6, 7}
    BY DEF Writes, SerialInit, UartInit
  <1>2. 0 \in 0 .. Len(Writes) /\ 0 < Len(Writes)
    BY <1>1
  <1>3. 0 \in 0 .. MessageSize /\ {0, 1} \subseteq 0 .. FifoDepth
    BY FifoDepthAssumption, MessageSizeAssumption
  <1>4. TypeOK
    <2>1. lcr \in 0 .. 255 /\ divisor \in (0 .. 255) \X (0 .. 255)
      BY DEF Init
    <2>2. tx \in 0 .. FifoDepth /\ left \in 0 .. MessageSize /\ step \in 0 .. Len(Writes)
      BY <1>2, <1>3 DEF Init
    <2> QED
      BY <2>1, <2>2 DEF Init, TypeOK
  <1>5. LineDuringInit
    BY DEF Init, LineDuringInit
  <1>6. InitAlone /\ InitDone
    BY <1>2 DEF Init, InitAlone, InitDone
  <1>7. RoomLeft /\ NothingLost
    BY <1>3 DEF Init, RoomLeft, NothingLost
  <1> QED
    BY <1>4, <1>5, <1>6, <1>7 DEF PortInv

(* One of init's writes, with nobody else at the port.  Steps count from 0. *)
LEMMA InitStepKeeps == PortInv /\ InitStep => PortInv'
  <1> SUFFICES ASSUME PortInv, InitStep PROVE PortInv'
    OBVIOUS
  <1>1. Writes' = Writes
    BY DEF InitStep, Writes
  <1>2. /\ Len(Writes) \in {6, 7}
        /\ Writes[1] = <<"IER", 0>> /\ Writes[2] = <<"LCR", 128>>
        /\ Writes[3] = <<"DATA", 3>> /\ Writes[4] = <<"IER", 0>>
        /\ Writes[5] = <<"LCR", 3>> /\ Writes[6] = <<"FCR", 199>>
        /\ Len(Writes) = 7 => Writes[7] = <<"MCR", 11>>
    BY WritesAre DEF PortInv
  <1>3. /\ pc = "init" /\ step' = step + 1
        /\ Outb(Writes[step + 1][1], Writes[step + 1][2])
        /\ pc' = IF step + 1 = Len(Writes) THEN "idle" ELSE "init"
        /\ board' = board /\ ifl' = ifl /\ hpc' = hpc /\ left' = left
    BY DEF InitStep
  <1>4. step \in 0 .. 7 /\ step < Len(Writes) /\ hpc = "none" /\ ~ifl /\ tx \in 0 .. 1
    BY <1>3 DEF PortInv, InitAlone, LineDuringInit, RoomLeft
  <1>5. step \in 0 .. 6 /\ step' \in 1 .. 7 /\ step' \in 0 .. Len(Writes)
    BY <1>2, <1>3, <1>4, SMTT(20)
  <1>6. /\ LineDuringInit'
        /\ lcr' \in 0 .. 255 /\ divisor' \in (0 .. 255) \X (0 .. 255) /\ fifo' \in BOOLEAN
        /\ tx' \in 0 .. 1 /\ lost' = FALSE
    <2>1. /\ lcr \in 0 .. 255 /\ divisor \in (0 .. 255) \X (0 .. 255) /\ fifo \in BOOLEAN
          /\ LineDuringInit /\ lost = FALSE
      BY DEF PortInv, TypeOK, NothingLost
    <2>2. CASE step = 0
      <3>1. Outb("IER", 0) /\ Dlab = FALSE /\ lcr = 3 /\ step' = 1
        BY <1>2, <1>3, <2>1, <2>2 DEF Dlab, LineDuringInit
      <3>2. lcr' = lcr /\ divisor' = divisor /\ fifo' = fifo /\ tx' = tx /\ lost' = lost
        BY <2>1, <3>1, ZenonT(20) DEF Outb
      <3> QED
        BY <1>4, <2>1, <3>1, <3>2 DEF LineDuringInit
    <2>3. CASE step = 1
      <3>1. Outb("LCR", 128) /\ step' = 2
        BY <1>2, <1>3, <2>3
      <3>2. lcr' = 128 /\ divisor' = divisor /\ fifo' = fifo /\ tx' = tx /\ lost' = lost
        BY <2>1, <3>1, ZenonT(20) DEF Outb
      <3> QED
        BY <1>4, <2>1, <3>1, <3>2 DEF LineDuringInit
    <2>4. CASE step = 2
      <3>1. Outb("DATA", 3) /\ Dlab = TRUE /\ lcr = 128 /\ step' = 3
        BY <1>2, <1>3, <2>1, <2>4 DEF Dlab, LineDuringInit
      <3>2. /\ lcr' = lcr /\ divisor' = <<3, divisor[2]>> /\ fifo' = fifo
            /\ tx' = tx /\ lost' = lost
        BY <2>1, <3>1, ZenonT(20) DEF Outb
      <3> QED
        BY <1>4, <2>1, <3>1, <3>2 DEF LineDuringInit
    <2>5. CASE step = 3
      <3>1. Outb("IER", 0) /\ Dlab = TRUE /\ lcr = 128 /\ step' = 4 /\ divisor[1] = 3
        BY <1>2, <1>3, <2>1, <2>5 DEF Dlab, LineDuringInit
      <3>2. /\ lcr' = lcr /\ divisor' = <<3, 0>> /\ fifo' = fifo
            /\ tx' = tx /\ lost' = lost
        BY <2>1, <3>1, ZenonT(20) DEF Outb
      <3> QED
        BY <1>4, <2>1, <3>1, <3>2 DEF LineDuringInit
    <2>6. CASE step = 4
      <3>1. Outb("LCR", 3) /\ step' = 5 /\ divisor[1] = 3 /\ divisor[2] = 0
        BY <1>2, <1>3, <2>1, <2>6 DEF LineDuringInit
      <3>2. lcr' = 3 /\ divisor' = divisor /\ fifo' = fifo /\ tx' = tx /\ lost' = lost
        BY <2>1, <3>1, ZenonT(20) DEF Outb
      <3> QED
        BY <1>4, <2>1, <3>1, <3>2 DEF LineDuringInit
    <2>7. CASE step = 5
      <3>1. Outb("FCR", 199) /\ step' = 6 /\ lcr = 3 /\ divisor[1] = 3 /\ divisor[2] = 0
        BY <1>2, <1>3, <2>1, <2>7 DEF LineDuringInit
      <3>2. fifo' = TRUE
        <4>1. 199 % 2 = 1
          OBVIOUS
        <4> QED
          BY <3>1, <4>1 DEF Outb
      <3>3. lcr' = lcr /\ divisor' = divisor /\ tx' = 0 /\ lost' = lost
        BY <2>1, <3>1, ZenonT(20) DEF Outb
      <3> QED
        BY <1>4, <2>1, <3>1, <3>2, <3>3 DEF LineDuringInit
    <2>8. CASE step = 6
      <3>0. Len(Writes) = 7
        <4>1. Len(Writes) = 6 \/ Len(Writes) = 7
          BY <1>2
        <4>2. Len(Writes) # 6
          <5>1. SUFFICES ASSUME Len(Writes) = 6 PROVE FALSE
            OBVIOUS
          <5>2. step < 6
            BY <1>4, <5>1
          <5> QED
            BY <2>8, <5>2
        <4> QED
          BY <4>1, <4>2
      <3>1. /\ Outb("MCR", 11) /\ step' = 7 /\ lcr = 3 /\ divisor[1] = 3 /\ divisor[2] = 0
            /\ fifo = TRUE
        BY <1>2, <1>3, <2>1, <2>8, <3>0 DEF LineDuringInit
      <3>2. lcr' = lcr /\ divisor' = divisor /\ fifo' = fifo /\ tx' = tx /\ lost' = lost
        BY <2>1, <3>1, ZenonT(20) DEF Outb
      <3> QED
        BY <1>4, <2>1, <3>1, <3>2 DEF LineDuringInit
    <2>9. \/ step = 0 \/ step = 1 \/ step = 2 \/ step = 3 \/ step = 4
          \/ step = 5 \/ step = 6
      BY <1>5
    <2> QED
      BY <2>2, <2>3, <2>4, <2>5, <2>6, <2>7, <2>8, <2>9
  <1>7. tx' \in 0 .. FifoDepth /\ left' \in 0 .. MessageSize /\ left' = left
    BY <1>3, <1>6, FifoDepthAssumption DEF PortInv, RoomLeft
  <1>8. TypeOK'
    BY <1>1, <1>3, <1>4, <1>5, <1>6, <1>7 DEF PortInv, TypeOK
  <1>9. InitAlone' /\ InitDone'
    BY <1>1, <1>2, <1>3, <1>4, <1>5, <1>6, SMTT(20) DEF InitAlone, InitDone
  <1>10. RoomLeft' /\ NothingLost'
    BY <1>3, <1>4, <1>6, <1>7 DEF RoomLeft, NothingLost
  <1> QED
    BY <1>6, <1>8, <1>9, <1>10 DEF PortInv

(* A character written when a place is free. *)
LEMMA CharacterKept ==
    ASSUME lcr = 3, fifo = TRUE, lost = FALSE, tx \in 0 .. 1, Outb("DATA", 65)
    PROVE  /\ lcr' = lcr /\ divisor' = divisor /\ fifo' = fifo /\ lost' = FALSE
           /\ tx' = tx + 1
  <1>1. Dlab = FALSE /\ Places(fifo) = FifoDepth
    BY DEF Dlab, Places
  <1>2. tx < FifoDepth /\ ~(tx >= FifoDepth)
    BY FifoDepthAssumption
  <1>3. /\ lcr' = lcr /\ fifo' = fifo
        /\ tx' = IF tx < FifoDepth THEN tx + 1 ELSE tx
        /\ lost' = (lost \/ tx >= FifoDepth)
    BY <1>1 DEF Outb
  <1>4. divisor' = divisor
    BY <1>1 DEF Outb
  <1> QED
    BY <1>2, <1>3, <1>4

(* Once init is done the line settings do not change any more, and what is *)
(* left to look at are the two users and the transmitter.                  *)
LEMMA AfterInit ==
    ASSUME PortInv, pc # "init",
           board' = board, lcr' = lcr, divisor' = divisor, fifo' = fifo, step' = step,
           lost' = FALSE, RoomLeft',
           pc' \in {"idle", "wait", "write"}, hpc' \in {"none", "wait", "write"},
           ifl' \in BOOLEAN
    PROVE  PortInv'
  <1>1. Writes' = Writes
    BY DEF Writes
  <1>2. tx' \in 0 .. FifoDepth /\ left' \in 0 .. MessageSize
    BY FifoDepthAssumption DEF RoomLeft
  <1>3. TypeOK'
    BY <1>1, <1>2 DEF PortInv, TypeOK
  <1>4. LineDuringInit'
    BY DEF PortInv, LineDuringInit
  <1>5. InitAlone' /\ InitDone'
    BY DEF PortInv, InitAlone, InitDone
  <1>6. NothingLost'
    BY DEF NothingLost
  <1> QED
    BY <1>3, <1>4, <1>5, <1>6 DEF PortInv

LEMMA PortStep == PortInv /\ [Next]_vars => PortInv'
  <1> SUFFICES ASSUME PortInv, [Next]_vars PROVE PortInv'
    OBVIOUS
  <1>0. MessageSize \in Nat /\ MessageSize >= 1
    BY MessageSizeAssumption
  <1>1. /\ RoomLeft /\ pc \in {"init", "idle", "wait", "write"}
        /\ hpc \in {"none", "wait", "write"} /\ ifl \in BOOLEAN /\ lost = FALSE
    BY DEF PortInv, TypeOK, NothingLost
  <1>2. pc = "init" => hpc = "none" /\ ifl = FALSE /\ tx \in 0 .. 1
    BY <1>1 DEF PortInv, InitAlone, RoomLeft
  <1>3. pc # "init" => lcr = 3 /\ fifo = TRUE
    BY DEF PortInv, InitDone, LineDuringInit, TypeOK
  <1>4. CASE InitStep
    BY <1>4, InitStepKeeps
  <1>5. CASE Call
    <2>1. /\ pc = "idle" /\ pc' = "wait" /\ board' = board /\ step' = step /\ hpc' = hpc
          /\ left' = left /\ ifl' = ifl /\ lcr' = lcr /\ divisor' = divisor
          /\ fifo' = fifo /\ tx' = tx /\ lost' = lost
      BY <1>5 DEF Call, Main, port
    <2>2. RoomLeft'
      BY <1>1, <2>1 DEF RoomLeft
    <2> QED
      BY <1>1, <2>1, <2>2, AfterInit
  <1>6. CASE Wait
    <2>1. /\ pc = "wait" /\ pc' = "write" /\ board' = board /\ step' = step /\ hpc' = hpc
          /\ left' = left /\ ifl' = ifl /\ lcr' = lcr /\ divisor' = divisor
          /\ fifo' = fifo /\ tx' = tx /\ lost' = lost /\ tx = 0
      BY <1>6 DEF Wait, Main, port, TransmitterEmpty
    <2>2. RoomLeft'
      BY <1>1, <2>1 DEF RoomLeft
    <2> QED
      BY <1>1, <2>1, <2>2, AfterInit
  <1>7. CASE Write
    <2>1. /\ pc = "write" /\ Outb("DATA", 65) /\ hpc = "none" /\ pc' = "idle"
          /\ board' = board /\ step' = step /\ hpc' = hpc /\ left' = left /\ ifl' = ifl
      BY <1>7 DEF Write, Main
    <2>2. tx \in 0 .. 1
      BY <1>1, <2>1 DEF RoomLeft
    <2>3. lcr = 3 /\ fifo = TRUE /\ lost = FALSE
      BY <1>1, <1>3, <2>1
    <2>4. /\ lcr' = lcr /\ divisor' = divisor /\ fifo' = fifo /\ lost' = FALSE
          /\ tx' = tx + 1
      BY <2>1, <2>2, <2>3, CharacterKept
    <2>5. RoomLeft'
      BY <1>1, <2>1, <2>2, <2>4 DEF RoomLeft
    <2> QED
      BY <1>1, <2>1, <2>4, <2>5, AfterInit
  <1>8. CASE Sti
    <2>1. /\ pc = "idle" /\ pc' = "idle" /\ board' = board /\ step' = step /\ hpc' = hpc
          /\ left' = left /\ ifl' = TRUE /\ lcr' = lcr /\ divisor' = divisor
          /\ fifo' = fifo /\ tx' = tx /\ lost' = lost
      BY <1>8 DEF Sti, Main, port
    <2>2. RoomLeft'
      BY <1>1, <2>1 DEF RoomLeft
    <2> QED
      BY <1>1, <2>1, <2>2, AfterInit
  <1>9. CASE Interrupt
    <2>1. /\ hpc' = "wait" /\ left' = MessageSize /\ ifl
          /\ board' = board /\ step' = step /\ pc' = pc /\ ifl' = ifl /\ lcr' = lcr
          /\ divisor' = divisor /\ fifo' = fifo /\ tx' = tx /\ lost' = lost
      BY <1>9 DEF Interrupt, Handler, port
    <2>2. pc # "init"
      BY <1>2, <2>1
    <2>3. RoomLeft'
      BY <1>0, <1>1, <2>1 DEF RoomLeft
    <2> QED
      BY <1>1, <2>1, <2>2, <2>3, AfterInit
  <1>10. CASE HandlerWait
    <2>1. /\ hpc = "wait" /\ hpc' = "write" /\ tx = 0 /\ left' = left
          /\ board' = board /\ step' = step /\ pc' = pc /\ ifl' = ifl /\ lcr' = lcr
          /\ divisor' = divisor /\ fifo' = fifo /\ tx' = tx /\ lost' = lost
      BY <1>10 DEF HandlerWait, Handler, port, TransmitterEmpty
    <2>2. pc # "init"
      BY <1>2, <2>1
    <2>3. RoomLeft'
      BY <1>1, <2>1 DEF RoomLeft
    <2> QED
      BY <1>1, <2>1, <2>2, <2>3, AfterInit
  <1>11. CASE HandlerWrite
    <2>1. /\ hpc = "write" /\ Outb("DATA", 65)
          /\ hpc' = IF left > 1 THEN "wait" ELSE "none"
          /\ left' = left - 1
          /\ board' = board /\ step' = step /\ pc' = pc /\ ifl' = ifl
      BY <1>11 DEF HandlerWrite, Handler
    <2>2. tx = 0 /\ left \in 1 .. MessageSize
      BY <1>1, <2>1 DEF RoomLeft
    <2>3. pc # "init" /\ lcr = 3 /\ fifo = TRUE /\ lost = FALSE
      BY <1>1, <1>2, <1>3, <2>1
    <2>4. tx \in 0 .. 1
      BY <2>2
    <2>5. /\ lcr' = lcr /\ divisor' = divisor /\ fifo' = fifo /\ lost' = FALSE
          /\ tx' = tx + 1
      BY <2>1, <2>3, <2>4, CharacterKept
    <2>6. RoomLeft' /\ hpc' \in {"none", "wait"}
      BY <1>0, <2>1, <2>2, <2>5 DEF RoomLeft
    <2> QED
      BY <1>1, <2>1, <2>3, <2>5, <2>6, AfterInit
  <1>12. CASE Transmit
    <2>1. /\ tx > 0 /\ tx' = tx - 1
          /\ board' = board /\ step' = step /\ pc' = pc /\ ifl' = ifl /\ lcr' = lcr
          /\ divisor' = divisor /\ fifo' = fifo /\ lost' = lost /\ hpc' = hpc
          /\ left' = left
      BY <1>12 DEF Transmit
    <2>2. RoomLeft'
      BY <1>1, <2>1 DEF RoomLeft
    <2>3. CASE pc # "init"
      BY <1>1, <2>1, <2>2, <2>3, AfterInit
    <2>4. CASE pc = "init"
      <3>1. Writes' = Writes
        BY <2>1 DEF Writes
      <3>2. tx' \in 0 .. 1 /\ tx' \in 0 .. FifoDepth
        BY <1>2, <2>1, <2>4, FifoDepthAssumption
      <3>3. TypeOK'
        BY <2>1, <3>1, <3>2 DEF PortInv, TypeOK
      <3> QED
        BY <2>1, <2>2, <2>4, <3>1, <3>2, <3>3
        DEF PortInv, LineDuringInit, InitAlone, InitDone, NothingLost
    <2> QED
      BY <2>3, <2>4
  <1>13. CASE UNCHANGED vars
    <2>1. Writes' = Writes
      BY <1>13 DEF vars, Writes
    <2> QED
      BY <1>13, <2>1
      DEF vars, port, PortInv, TypeOK, LineDuringInit, InitAlone, InitDone, RoomLeft, NothingLost
  <1> QED
    BY <1>4, <1>5, <1>6, <1>7, <1>8, <1>9, <1>10, <1>11, <1>12, <1>13 DEF Next, Cpu

LEMMA PortInvariant == Spec => []PortInv
  BY PortInit, PortStep, PTL DEF Spec

-------------------------------------------------------------------------------
(* The port's registers, the counts and both users of the port keep their  *)
(* types; the transmitter never holds more than it has places.             *)
THEOREM TypeCorrect == Spec => []TypeOK
  <1>1. PortInv => TypeOK
    BY DEF PortInv
  <1> QED
    BY <1>1, PortInvariant, PTL

(* No character of put_char's is lost, also when the dispatcher's message  *)
(* comes between the main program's look at the transmitter (serial.cpp:30)*)
(* and its write (serial.cpp:32), as long as the FIFO has two places.      *)
THEOREM CharactersKept == Spec => []NothingLost
  <1>1. PortInv => NothingLost
    BY DEF PortInv
  <1> QED
    BY <1>1, PortInvariant, PTL

(* From the end of init on both boards' ports are at 38400 baud and 8N1.   *)
THEOREM LineSet == Spec => []LineIsSet
  <1>1. PortInv => LineIsSet
    BY DEF PortInv, LineIsSet, InitDone, LineDuringInit, TypeOK
  <1> QED
    BY <1>1, PortInvariant, PTL

-------------------------------------------------------------------------------
(***************************************************************************)
(* BringUp.                                                                *)
(***************************************************************************)

(* Each part takes its own steps in BringUp, and stands still in the       *)
(* others'.                                                                *)
LEMMA PartsOfBringUp == BringUpSpec => BootX86Spec /\ BootRiscvSpec /\ Spec
  <1>1. BringUpInit => BootX86Init /\ BootRiscvInit /\ Init
    BY DEF BringUpInit
  <1>2. BringUpNext => [BootX86Next]_x86Vars
    BY DEF BringUpNext, RunBootX86, RunBootRiscv, Halt, RunKernel, TakeInterrupt, Send,
           bringUpVars, bootVars
  <1>3. BringUpNext => [BootRiscvNext]_riscvVars
    BY DEF BringUpNext, RunBootX86, RunBootRiscv, Halt, RunKernel, TakeInterrupt, Send,
           bringUpVars, bootVars
  <1>4. BringUpNext => [Next]_vars
    BY DEF BringUpNext, RunBootX86, RunBootRiscv, Halt, RunKernel, TakeInterrupt, Send,
           bringUpVars, bootVars, Next
  <1>5. /\ UNCHANGED bringUpVars => UNCHANGED x86Vars
        /\ UNCHANGED bringUpVars => UNCHANGED riscvVars
        /\ UNCHANGED bringUpVars => UNCHANGED vars
    BY DEF bringUpVars, bootVars
  <1>6. [BringUpNext]_bringUpVars =>
           [BootX86Next]_x86Vars /\ [BootRiscvNext]_riscvVars /\ [Next]_vars
    BY <1>2, <1>3, <1>4, <1>5
  <1> QED
    BY <1>1, <1>6, PTL DEF BringUpSpec, BootX86Spec, BootRiscvSpec, Spec

(* From the loader to the printing kernel, on either board: paging comes   *)
(* on with an identity map, kernel_main finds .bss zeroed and its stack    *)
(* untouched, and from the first write of init on the port loses no        *)
(* character and none goes out at another speed.                           *)
THEOREM BoardsComeUp ==
    BringUpSpec => [](/\ PagingIsIdentity /\ BssIsZero /\ StackUntouched
                      /\ TypeOK /\ NothingLost /\ LineIsSet)
  BY PartsOfBringUp, IdentityMapped, KernelFindsZeroedBss, StackIsKept,
     TypeCorrect, CharactersKept, LineSet, PTL
===============================================================================
