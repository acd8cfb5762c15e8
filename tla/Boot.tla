-------------------------------- MODULE Boot --------------------------------
(***************************************************************************)
(* boot.asm and long_mode_init.asm: from the boot loader's jump to start   *)
(* up to the call of kernel_main.  The checks, the page tables, the switch *)
(* to long mode and the return addresses on the stack, on a CPU that may   *)
(* lack what is checked for.  Once paging is on, an instruction runs only  *)
(* if the CPU can translate the kernel's page; translations are cached.    *)
(***************************************************************************)
EXTENDS Naturals, Sequences, SequencesExt

CONSTANTS
  ENTRIES,       (* of a page table (512)                                   *)
  NoPage,        (* no page of memory, or one that is not known             *)
  KERNEL_PAGE    (* the page with the kernel, its tables, stack and screen: *)
                 (* the first, 1 MiB and 0xb8000 lie in it                  *)

Pages == 0 .. ENTRIES - 1

ASSUME BootAssumption ==
  /\ ENTRIES \in Nat \ {0} /\ KERNEL_PAGE \in Pages /\ NoPage \notin Pages

VARIABLES
  machine,   (* what the loader and the CPU are, as far as the checks ask   *)
  pc, stack, (* the next step of the code; the return addresses, top first  *)
  screen,    (* the text printed                                            *)
  ecx,       (* the loop counter                                            *)
  tables,    (* p4_table[0], p3_table[0] and p2_table                       *)
  control,   (* the control registers set so far                            *)
  cached,    (* has the CPU cached the translation of the kernel's page?    *)
  lost       (* has it failed to look that page up?                         *)

code == <<pc, stack, screen, ecx, tables, control>>
bootVars == <<machine, code, cached, lost>>

-----------------------------------------------------------------------------
(* What the CPU makes of the page tables: one entry of each of the upper   *)
(* two levels and a table p2 whose entries map one page of 2 MiB each.  An *)
(* entry is the address it holds, in units of such pages for p2 and as the *)
(* name of a table above it, with the set of its flag bits.  A p2 entry    *)
(* without the page-size bit points to a further table: whatever memory    *)
(* lies there decides, and NoPage stands for all it may decide.  We run as *)
(* supervisor with cr0.WP clear, so the writable bit changes nothing.      *)
PRESENT_BIT == 0
HUGE_BIT    == 7

Empty == [addr |-> NoPage, flags |-> {}]

Points(entry, table) ==
  entry.addr = table /\ PRESENT_BIT \in entry.flags /\ HUGE_BIT \notin entry.flags

(* The page of memory an access to page p reaches, when it is looked up.   *)
Walk(t, p) ==
  IF /\ Points(t.p4, "p3") /\ Points(t.p3, "p2")
     /\ {PRESENT_BIT, HUGE_BIT} \subseteq t.p2[p].flags
  THEN t.p2[p].addr ELSE NoPage

-----------------------------------------------------------------------------
(* idBit: FLAGS bit 21 can be flipped; extended: CPUID leaf 0x80000001     *)
(* exists; lm: its long mode bit.                                          *)
Machines == [multiboot : BOOLEAN, idBit : BOOLEAN, extended : BOOLEAN, lm : BOOLEAN]

BootInit ==
  /\ machine \in Machines
  /\ pc = "check_multiboot" /\ stack = <<>> /\ screen = ""
  /\ ecx = 0
  /\ tables = [p4 |-> Empty, p3 |-> Empty, p2 |-> [p \in Pages |-> Empty]]
  /\ control = {} /\ cached = FALSE /\ lost = FALSE

-----------------------------------------------------------------------------
(* With paging on the CPU must have translated the page it runs in.        *)
Paging == "pg" \in control
Reached(label) == pc = label /\ (Paging => cached)

(* A check returns, or jumps to error, which prints the code and halts.    *)
Check(here, passed, digit, next) ==
  /\ Reached(here)
  /\ IF passed THEN pc' = next /\ UNCHANGED <<stack, screen>>
               ELSE pc' = "error" /\ stack' = <<next>> \o stack /\ screen' = digit
  /\ UNCHANGED <<machine, ecx, tables, control, cached, lost>>

check_multiboot == Check("check_multiboot", machine.multiboot, "ERR: 0", "check_cpuid")
check_cpuid     == Check("check_cpuid", machine.idBit, "ERR: 1", "check_long_mode")

HasLongMode(m) == m.extended /\ m.lm
check_long_mode ==
  Check("check_long_mode", HasLongMode(machine), "ERR: 2", "call set_up_page_tables")

PRESENT_WRITABLE == {0, 1}
set_up_page_tables ==
  /\ Reached("call set_up_page_tables")
  /\ pc' = "map_p2_table" /\ stack' = <<"call enable_paging">> \o stack
  /\ tables' = [tables EXCEPT !.p4 = [addr |-> "p3", flags |-> PRESENT_WRITABLE],
                              !.p3 = [addr |-> "p2", flags |-> PRESENT_WRITABLE]]
  /\ ecx' = 0
  /\ UNCHANGED <<machine, screen, control, cached, lost>>

PageFlags_small == PRESENT_WRITABLE                   \* mutant of PageFlags
PageFlags       == PRESENT_WRITABLE \union {HUGE_BIT}
Filled(n) == n = ENTRIES
(* The loop runs on into enable_paging: set_up_page_tables has no ret, so  *)
(* the ret of enable_paging returns from its call as well.                 *)
LoopExit == "cr3"
map_p2_table ==
  /\ Reached("map_p2_table")
  /\ tables' = [tables EXCEPT !.p2[ecx] = [addr |-> ecx, flags |-> PageFlags]]
  /\ ecx' = ecx + 1
  /\ pc' = IF Filled(ecx') THEN LoopExit ELSE pc
  /\ UNCHANGED <<machine, stack, screen, control, cached, lost>>

call_enable_paging ==
  /\ Reached("call enable_paging")
  /\ pc' = "cr3" /\ stack' = <<"lgdt">> \o stack
  /\ UNCHANGED <<machine, screen, ecx, tables, control, cached, lost>>

(* cr3, PAE in cr4, LME in EFER, and last PG in cr0.                       *)
After_pgFirst(r) ==                                   \* mutant of After
  CASE r = "cr3" -> "pg"  [] r = "pg"  -> "pae"
    [] r = "pae" -> "lme" [] r = "lme" -> "ret"
After(r) ==
  CASE r = "cr3" -> "pae" [] r = "pae" -> "lme"
    [] r = "lme" -> "pg"  [] r = "pg"  -> "ret"
(* Loading cr3, the second time with paging on, empties the cache.         *)
enable_paging ==
  /\ Reached(pc) /\ pc \in {"cr3", "pae", "lme", "pg"}
  /\ control' = control \union {pc}
  /\ cached' = (cached /\ pc # "cr3")
  /\ pc' = After(pc)
  /\ UNCHANGED <<machine, stack, screen, ecx, tables, lost>>

ret ==
  /\ Reached("ret") /\ pc' = Head(stack) /\ stack' = Tail(stack)
  /\ UNCHANGED <<machine, screen, ecx, tables, control, cached, lost>>

(* lgdt, the far jump, the segment registers, OKAY.                        *)
long_mode_start ==
  /\ Reached("lgdt") /\ pc' = "kernel_main" /\ screen' = "OKAY"
  /\ UNCHANGED <<machine, stack, ecx, tables, control, cached, lost>>

(* The CPU looks up the kernel's page; if it is not there, no instruction  *)
(* runs any more, the ones that would handle the page fault included.      *)
LookUp ==
  /\ Paging /\ ~ cached /\ ~ lost
  /\ IF Walk(tables, KERNEL_PAGE) = KERNEL_PAGE THEN cached' = TRUE /\ UNCHANGED lost
                                                ELSE lost' = TRUE /\ UNCHANGED cached
  /\ UNCHANGED <<machine, code>>

BootStep == \/ check_multiboot \/ check_cpuid \/ check_long_mode
            \/ set_up_page_tables \/ map_p2_table \/ call_enable_paging
            \/ enable_paging \/ ret \/ long_mode_start

-----------------------------------------------------------------------------
(* Properties                                                              *)

(* Paging is switched on last: with the root of the tables loaded, in the  *)
(* mode long mode needs, and with every page mapped to itself.             *)
Remapped == tables.p4.flags # PRESENT_WRITABLE
PagingComplete ==
  Paging => /\ {"cr3", "pae", "lme"} \subseteq control
            /\ ~ Remapped => \A p \in Pages : Walk(tables, p) = p
=============================================================================
