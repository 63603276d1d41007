------------------------------- MODULE BootX86 -------------------------------
(***************************************************************************)
(* The x86-64 boot code, boot/x86_64/boot.asm, from the CPU's 32-bit mode  *)
(* to kernel_main: it checks that the CPU has a long mode, builds page     *)
(* tables that map the first gigabyte to itself, and turns paging on while *)
(* running from the memory they map.                                       *)
(*                                                                         *)
(* The three tables are one array of 32-bit words: PML4, page directory    *)
(* pointers and page directory, each of Entries double words.              *)
(***************************************************************************)
EXTENDS Integers

CONSTANTS Entries,    \* the entries of a table, 512 in the code
          Pml4,       \* the address of pml4_table
          Memories    \* what .bss may hold when the boot loader is done

Words == 2 * Entries
Word  == 0 .. 3 * Words - 1
Page  == 4096
Big   == 2097152      \* 2 MB

ASSUME EntriesAssumption == Entries \in 2 .. 512
ASSUME Pml4Assumption == Pml4 \in Nat /\ Pml4 % Page = 0
ASSUME MemoriesAssumption == Memories \subseteq [Word -> Nat]

VARIABLES tables,  \* the three of them
          eax, ecx, edi,
          cr3, pae, lme, paging,
          at       \* where the boot code is

regs    == <<eax, ecx, edi>>
modes   == <<cr3, pae, lme, paging>>
x86Vars == <<tables, regs, modes, at>>

(* Where the other two tables are: in memory, and in the array. *)
PdpTable == Pml4 + Page
PdTable  == Pml4 + 2 * Page
PdpWord  == Words
PdWord   == 2 * Words

BootX86Init ==
    /\ tables \in Memories
    /\ eax = 0 /\ ecx = 0 /\ edi = 0
    /\ cr3 = 0 /\ pae = FALSE /\ lme = FALSE /\ paging = FALSE
    /\ at = "cpuid"

Goto(from, to) == at = from /\ at' = to

(* Both cpuid checks: the CPU has a long mode, or it does not. *)
VerifyLongMode ==
    \/ /\ Goto("cpuid", "clear")
       /\ ecx' = 3 * Words /\ edi' = 0 /\ eax' = 0
       /\ UNCHANGED <<tables, modes>>
    \/ /\ Goto("cpuid", "halt")
       /\ UNCHANGED <<tables, regs, modes>>

(* Mutant: the count stays. *)
Clear_Stuck ==
    /\ at = "clear"
    /\ tables' = [tables EXCEPT ![ecx - 1] = eax]
    /\ at' = IF ecx = 1 THEN "pml4" ELSE "clear"
    /\ UNCHANGED <<regs, modes>>

(* mov [edi + ecx*4 - 4], eax; dec ecx; jnz .clear *)
Clear ==
    /\ at = "clear"
    /\ tables' = [tables EXCEPT ![ecx - 1] = eax]
    /\ ecx' = ecx - 1
    /\ at' = IF ecx = 1 THEN "pml4" ELSE "clear"
    /\ UNCHANGED <<eax, edi, modes>>

(* An entry: present, writable, and the address of the next table. *)
LinkPml4 ==
    /\ Goto("pml4", "pdp")
    /\ eax' = PdpTable + 3
    /\ tables' = [tables EXCEPT ![0] = eax', ![1] = 0]
    /\ UNCHANGED <<ecx, edi, modes>>

LinkPdp ==
    /\ Goto("pdp", "pd")
    /\ eax' = PdTable + 3
    /\ tables' = [tables EXCEPT ![PdpWord] = eax', ![PdpWord + 1] = 0]
    /\ UNCHANGED <<ecx, edi, modes>>

(* Mutant: one entry less. *)
StartPd_OneLess ==
    /\ Goto("pd", "fill_pd")
    /\ edi' = PdWord /\ eax' = 131 /\ ecx' = Entries - 1
    /\ UNCHANGED <<tables, modes>>

(* present | writable | page_size *)
StartPd ==
    /\ Goto("pd", "fill_pd")
    /\ edi' = PdWord /\ eax' = 131 /\ ecx' = Entries
    /\ UNCHANGED <<tables, modes>>

(* mov [edi], eax; the next entry; dec ecx; jnz .fill_pd *)
FillPd ==
    /\ at = "fill_pd"
    /\ tables' = [tables EXCEPT ![edi] = eax, ![edi + 1] = 0]
    /\ eax' = eax + Big /\ edi' = edi + 2 /\ ecx' = ecx - 1
    /\ at' = IF ecx = 1 THEN "cr3" ELSE "fill_pd"
    /\ UNCHANGED modes

LoadCr3 ==
    /\ Goto("cr3", "pae")
    /\ cr3' = Pml4
    /\ UNCHANGED <<tables, regs, pae, lme, paging>>

EnablePae ==
    /\ Goto("pae", "lme")
    /\ pae' = TRUE
    /\ UNCHANGED <<tables, regs, cr3, lme, paging>>

EnableLongMode ==
    /\ Goto("lme", "paging")
    /\ lme' = TRUE
    /\ UNCHANGED <<tables, regs, cr3, pae, paging>>

EnablePaging ==
    /\ Goto("paging", "entry")
    /\ paging' = TRUE
    /\ UNCHANGED <<tables, regs, cr3, pae, lme>>

(* lgdt, the far jump, the segment registers, the stack, the call. *)
EnterKernel ==
    /\ Goto("entry", "kernel_main")
    /\ UNCHANGED <<tables, regs, modes>>

BootX86Next == VerifyLongMode \/ Clear \/ LinkPml4 \/ LinkPdp \/ StartPd \/ FillPd
               \/ LoadCr3 \/ EnablePae \/ EnableLongMode \/ EnablePaging \/ EnterKernel

BootX86Spec == BootX86Init /\ [][BootX86Next]_x86Vars

-------------------------------------------------------------------------------
(* External: the CPU's walk of the tables for an address, which is a page  *)
(* number, <<PML4 entry, PDP entry, PD entry>>, of 2 MB.                   *)

Present(w)  == tables[w] % 2 = 1
BigPage(w)  == (tables[w] \div 128) % 2 = 1
High(w)     == tables[w + 1]
Target(w)   == tables[w] - (tables[w] % Page)

(* The second word of an entry is the upper half of its address. *)
LinksTo(w, table) == Present(w) /\ ~BigPage(w) /\ High(w) = 0 /\ Target(w) = table
MapsTo(w, n)      == Present(w) /\ BigPage(w) /\ High(w) = 0 /\ Target(w) = n * Big

-------------------------------------------------------------------------------
(* Properties.                                                             *)

(* When paging comes on the CPU is ready for it, and the code goes on at   *)
(* the next instruction: the tables map each of the first Entries pages of *)
(* 2 MB to itself (the kernel is at 1 MB, the screen at 0xB8000), and no   *)
(* other address to anything.                                              *)
PagingIsIdentity ==
    paging =>
        /\ pae /\ lme /\ cr3 = Pml4
        /\ LinksTo(0, PdpTable)
        /\ LinksTo(PdpWord, PdTable)
        /\ \A n \in 0 .. Entries - 1 : MapsTo(PdWord + 2 * n, n)
        /\ \A n \in 1 .. Entries - 1 : ~Present(2 * n) /\ ~Present(PdpWord + 2 * n)

===============================================================================
