------------------------------- MODULE Paging -------------------------------
(***************************************************************************)
(* paging.c: map_page_tables, which kernel_main calls last, rewrites the   *)
(* tables boot.asm built while the CPU runs on them.  Flags are sets of    *)
(* bit positions.  The file writes them as hexadecimal digits, one digit   *)
(* per flag, so WRITABLE is bit 4 (to the CPU: uncached) and HUGE bit 28,  *)
(* which the uint16_t parameter of map_entry cuts off.                     *)
(***************************************************************************)
EXTENDS Boot

PRESENT  == {0}
WRITABLE == {4}
HUGE     == {28}
Low16(bits) == bits \cap 0 .. 15

map_entry(address, flags) == [addr |-> address, flags |-> Low16(flags)]

MapTable(here, next, t) ==
  /\ Reached(here) /\ pc' = next
  /\ tables' = t
  /\ ecx' = 0
  /\ UNCHANGED <<machine, stack, screen, control, cached, lost>>
MapP4 == MapTable("kernel_main", "map p3",
           [tables EXCEPT !.p4 = map_entry("p3", PRESENT \union WRITABLE)])
MapP3 == MapTable("map p3", "map p2",
           [tables EXCEPT !.p3 = map_entry("p2", PRESENT \union WRITABLE)])

PageOf_fromOne(i) == i + 1                            \* mutant of PageOf
PageOf(i)         == i
MapP2 ==
  /\ Reached("map p2")
  /\ tables' = [tables EXCEPT !.p2[ecx] =
                  map_entry(PageOf(ecx), PRESENT \union WRITABLE \union HUGE)]
  /\ ecx' = ecx + 1
  /\ pc' = IF ecx' = ENTRIES THEN "hlt" ELSE pc
  /\ UNCHANGED <<machine, stack, screen, control, cached, lost>>

(* The CPU may forget a cached translation at any time; nothing in the     *)
(* code asks it to keep one.                                               *)
Drop ==
  /\ cached
  /\ cached' = FALSE
  /\ UNCHANGED <<machine, code, lost>>

(* hlt, with interrupts off after an error and in a loop in kernel_main.   *)
Halted == pc \in {"error", "hlt"}
Stopped == (Halted \/ lost) /\ UNCHANGED bootVars

CodeStep == BootStep \/ MapP4 \/ MapP3 \/ MapP2
PagingNext == CodeStep \/ LookUp \/ Drop \/ Stopped
PagingSpec == BootInit /\ [][PagingNext]_bootVars

(* The CPU keeps executing, which takes a translation of its own page: one *)
(* it has looked up serves the instruction it was looked up for.           *)
PagingFairSpec == PagingSpec /\ SF_bootVars(CodeStep) /\ WF_bootVars(LookUp)

-----------------------------------------------------------------------------
(* Properties                                                              *)

(* The entries of p2 that map_page_tables has rewritten so far.            *)
Rewritten == {p \in Pages : pc = "hlt" \/ (pc = "map p2" /\ p < ecx)}

(* Rewriting the tables in use never makes a look-up reach other memory,   *)
(* but it unmaps: each entry goes on holding the address of its own page,  *)
(* and that page is found until the entry is rewritten and no more after   *)
(* it, the page-size bit being cut off.                                    *)
FramesKept ==
  Paging => \A p \in Pages :
    /\ tables.p2[p].addr = p
    /\ Walk(tables, p) = IF p \in Rewritten THEN NoPage ELSE p

(* However often the CPU forgets its translation, while the tables are     *)
(* built, used and rewritten, it finds the kernel's page where it was up   *)
(* to the moment map_page_tables has rewritten that page's own entry.      *)
KernelMapped == lost => KERNEL_PAGE \in Rewritten

(* paging.c says of the entries it writes: "Each entry is 2mb."  Then the  *)
(* kernel's page would be found at every look-up.                          *)
KernelFound == ~ lost

(* Start-up ends in the error report or in kernel_main's loop, unless the  *)
(* CPU has to look the kernel's page up after its entry was rewritten.     *)
StartsUp == <>(Halted \/ (lost /\ KERNEL_PAGE \in Rewritten))
=============================================================================
