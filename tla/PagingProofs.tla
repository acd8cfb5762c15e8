---------------------------- MODULE PagingProofs ----------------------------
(***************************************************************************)
(* What start-up and map_page_tables keep, for tables of every size and a  *)
(* kernel in any page: paging comes on complete, no look-up ever reaches   *)
(* other memory, and a page is lost exactly when its entry is rewritten.   *)
(***************************************************************************)
EXTENDS Paging, SequenceTheorems, TLAPS

-----------------------------------------------------------------------------
(* The inductive invariant: what is built and switched on at each place.   *)

Entry == [addr : {"p3", "p2", NoPage} \union Pages, flags : SUBSET (0 .. 15)]
Tables == [p4 : Entry, p3 : Entry, p2 : [Pages -> Entry]]

Upper == /\ tables.p4 = [addr |-> "p3", flags |-> PRESENT_WRITABLE]
         /\ tables.p3 = [addr |-> "p2", flags |-> PRESENT_WRITABLE]
Identity(p) == [addr |-> p, flags |-> PageFlags]
Built == Upper /\ \A p \in Pages : tables.p2[p] = Identity(p)
(* An entry as map_entry leaves it: uncached, without the page-size bit.   *)
Cut == {0, 4}
CutTo(a) == [addr |-> a, flags |-> Cut]
Mapped ==
  /\ tables.p4 = CutTo("p3")
  /\ tables.p3 = [addr |-> "p2", flags |-> PRESENT_WRITABLE] \/ tables.p3 = CutTo("p2")
  /\ \A p \in Pages : tables.p2[p] = IF p \in Rewritten THEN CutTo(p) ELSE Identity(p)

Everything == {"cr3", "pae", "lme", "pg"}
SetBefore(r) ==
  CASE r = "cr3" -> {}             [] r = "pae" -> {"cr3"}
    [] r = "lme" -> {"cr3", "pae"} [] r = "pg"  -> {"cr3", "pae", "lme"}
    [] r = "ret" -> Everything

Starting ==
  /\ pc \in {"check_multiboot", "check_cpuid", "check_long_mode", "call set_up_page_tables", "error"}
  /\ control = {}
  /\ pc # "error" => stack = <<>>
Filling ==
  /\ pc = "map_p2_table" /\ stack = <<"call enable_paging">> /\ control = {}
  /\ Upper /\ ecx \in Pages /\ \A p \in 0 .. ecx - 1 : tables.p2[p] = Identity(p)
Enabling ==
  /\ pc \in Everything \union {"ret"} /\ Built
  /\ \/ stack = <<"call enable_paging">> /\ control = SetBefore(pc)
     \/ stack = <<"lgdt">> /\ control = Everything
Enabled ==
  /\ pc \in {"call enable_paging", "lgdt", "kernel_main"} /\ stack = <<>>
  /\ Built /\ control = Everything
Remapping ==
  /\ pc \in {"map p3", "map p2", "hlt"} /\ control = Everything
  /\ Mapped
  /\ pc # "hlt" => ecx \in Pages

IInv ==
  /\ tables \in Tables
  /\ Starting \/ Filling \/ Enabling \/ Enabled \/ Remapping

-----------------------------------------------------------------------------
(* The flags as map_entry leaves them: uncached and without page size.     *)
LEMMA FlagsCut ==
  /\ Low16(PRESENT \union WRITABLE) = {0, 4}
  /\ Low16(PRESENT \union WRITABLE \union HUGE) = {0, 4}
  BY DEF Low16, PRESENT, WRITABLE, HUGE

(* A table that is being mapped again shows it.                            *)
LEMMA RemappingShows == Remapping => Remapped
<1>1. Cut # PRESENT_WRITABLE
  <2>1. 4 \notin PRESENT_WRITABLE /\ 4 \in Cut
    BY DEF PRESENT_WRITABLE, Cut
  <2>. QED  BY <2>1
<1>2. Remapping => tables.p4.flags = Cut
  <2>1. Remapping => tables.p4 = CutTo("p3")
    BY DEF Remapping, Mapped
  <2>. QED  BY <2>1 DEF CutTo
<1>. QED  BY <1>1, <1>2 DEF Remapped

(* A stack of one return address.                                          *)
LEMMA Push == ASSUME NEW x PROVE <<x>> \o <<>> = <<x>>
<1>1. <<x>> \in Seq({x})
  OBVIOUS
<1>. QED  BY <1>1, ConcatEmptySeq

(* The stack of one return address.                                        *)
LEMMA Pop == ASSUME NEW x PROVE Head(<<x>>) = x /\ Tail(<<x>>) = <<>>
  OBVIOUS

(* One turn of a loop over the pages.                                      *)
LEMMA Turn ==
  ASSUME NEW n \in Pages
  PROVE  /\ n + 1 \in Nat
         /\ \A p \in 0 .. n : p \in Pages /\ (p = n \/ p \in 0 .. n - 1)
         /\ n + 1 # ENTRIES => n + 1 \in Pages /\ \A p \in 0 .. (n + 1) - 1 : p \in 0 .. n
         /\ n + 1 = ENTRIES => \A p \in Pages : p \in 0 .. n
  BY BootAssumption DEF Pages

(* The loop over the pages starts at the first.                            *)
LEMMA First == 0 \in Pages /\ \A p \in 0 .. 0 - 1 : FALSE
  BY BootAssumption DEF Pages

(* One entry of the third table is replaced.                               *)
WithPage(t, p, e) == [t EXCEPT !.p2[p] = e]
LEMMA SetPage ==
  ASSUME NEW t \in Tables, NEW e \in Entry, NEW p \in Pages
  PROVE  LET u == WithPage(t, p, e)
         IN  /\ u \in Tables /\ u.p4 = t.p4 /\ u.p3 = t.p3
             /\ \A q \in Pages : u.p2[q] = IF q = p THEN e ELSE t.p2[q]
<1>. DEFINE u == WithPage(t, p, e)
<1>1. t.p4 \in Entry /\ t.p3 \in Entry /\ t.p2 \in [Pages -> Entry]
  BY DEF Tables
<1>2. u.p4 = t.p4 /\ u.p3 = t.p3 /\ u.p2 = [t.p2 EXCEPT ![p] = e]
  BY DEF Tables, WithPage
<1>3. [t.p2 EXCEPT ![p] = e] \in [Pages -> Entry]
  BY <1>1
<1>4. \A q \in Pages : [t.p2 EXCEPT ![p] = e][q] = IF q = p THEN e ELSE t.p2[q]
  BY <1>1
<1>5. u \in Tables
  BY <1>1, <1>3 DEF Tables, WithPage
<1>. QED  BY <1>2, <1>4, <1>5

(* On complete tables every page is found where it is.                     *)
LEMMA BuiltWalks == ASSUME Built PROVE \A p \in Pages : Walk(tables, p) = p
<1>. SUFFICES ASSUME NEW p \in Pages PROVE Walk(tables, p) = p
  OBVIOUS
<1>1. Points(tables.p4, "p3") /\ Points(tables.p3, "p2")
  <2>1. PRESENT_BIT \in PRESENT_WRITABLE /\ HUGE_BIT \notin PRESENT_WRITABLE
    BY DEF PRESENT_WRITABLE, PRESENT_BIT, HUGE_BIT
  <2>. QED  BY <2>1 DEF Built, Upper, Points
<1>2. tables.p2[p].addr = p /\ tables.p2[p].flags = PageFlags
  <2>1. tables.p2[p] = [addr |-> p, flags |-> PageFlags]
    BY DEF Built, Identity
  <2>. QED  BY <2>1
<1>3. {PRESENT_BIT, HUGE_BIT} \subseteq PageFlags
  BY DEF PageFlags, PRESENT_WRITABLE, PRESENT_BIT, HUGE_BIT
<1>. QED  BY <1>1, <1>2, <1>3 DEF Walk

(* On tables that are being rewritten a page is found where it is, or, if  *)
(* its entry has been rewritten, not at all.                               *)
LEMMA MappedWalks ==
  ASSUME Mapped
  PROVE  \A p \in Pages : /\ tables.p2[p].addr = p
                         /\ Walk(tables, p) = IF p \in Rewritten THEN NoPage ELSE p
<1>. SUFFICES ASSUME NEW p \in Pages
              PROVE  /\ tables.p2[p].addr = p
                     /\ Walk(tables, p) = IF p \in Rewritten THEN NoPage ELSE p
  OBVIOUS
<1>1. /\ PRESENT_BIT \in PRESENT_WRITABLE /\ HUGE_BIT \notin PRESENT_WRITABLE
      /\ PRESENT_BIT \in Cut /\ HUGE_BIT \notin Cut
      /\ {PRESENT_BIT, HUGE_BIT} \subseteq PageFlags
  BY DEF PRESENT_WRITABLE, PRESENT_BIT, HUGE_BIT, Cut, PageFlags
<1>2. Points(tables.p4, "p3")
  BY <1>1 DEF Mapped, CutTo, Points
<1>3. Points(tables.p3, "p2")
  BY <1>1 DEF Mapped, CutTo, Points
<1>4. CASE p \in Rewritten
  <2>1. tables.p2[p] = CutTo(p)
    BY <1>4 DEF Mapped
  <2>2. tables.p2[p].addr = p /\ tables.p2[p].flags = Cut
    BY <2>1 DEF CutTo
  <2>. QED  BY <1>1, <1>4, <2>2 DEF Walk
<1>5. CASE p \notin Rewritten
  <2>1. tables.p2[p] = Identity(p)
    BY <1>5 DEF Mapped
  <2>2. tables.p2[p].addr = p /\ tables.p2[p].flags = PageFlags
    BY <2>1 DEF Identity
  <2>. QED  BY <1>1, <1>2, <1>3, <1>5, <2>2 DEF Walk
<1>. QED  BY <1>4, <1>5

(* The loader leaves the CPU without paging, at the first check.           *)
LEMMA Initially == BootInit => IInv
<1>. SUFFICES ASSUME BootInit PROVE IInv
  OBVIOUS
<1>1. Empty \in Entry
  BY DEF Empty, Entry
<1>2. tables \in Tables
  BY <1>1 DEF BootInit, Tables
<1>. QED  BY <1>2 DEF BootInit, IInv, Starting

(* A check goes on to the next, or to the error report.                    *)
LEMMA ChecksPreserve ==
  ASSUME IInv, check_multiboot \/ check_cpuid \/ check_long_mode
  PROVE  IInv'
<1>1. /\ pc' \in {"check_cpuid", "check_long_mode", "call set_up_page_tables", "error"}
      /\ pc' # "error" => UNCHANGED stack
      /\ UNCHANGED <<tables, control>>
      /\ pc \in {"check_multiboot", "check_cpuid", "check_long_mode"}
  BY DEF check_multiboot, check_cpuid, check_long_mode, Check, Reached
<1>2. Starting
  BY <1>1 DEF IInv, Filling, Enabling, Enabled, Remapping, Everything
<1>3. Starting'
  BY <1>1, <1>2 DEF Starting
<1>. QED  BY <1>1, <1>3 DEF IInv

(* The two upper tables, and the count of the loop that fills the third.   *)
LEMMA SetUpPreserves == ASSUME IInv, set_up_page_tables PROVE IInv'
<1>1. Starting /\ stack = <<>> /\ tables \in Tables
  BY DEF set_up_page_tables, Reached, IInv, Starting, Filling, Enabling, Enabled, Remapping, Everything
<1>2. /\ pc' = "map_p2_table" /\ control' = {} /\ ecx' = 0
      /\ tables' = [tables EXCEPT !.p4 = [addr |-> "p3", flags |-> PRESENT_WRITABLE],
                                  !.p3 = [addr |-> "p2", flags |-> PRESENT_WRITABLE]]
  BY <1>1 DEF set_up_page_tables, Starting
<1>3. tables' \in Tables /\ Upper'
  <2>1. PRESENT_WRITABLE \in SUBSET (0 .. 15)
    BY DEF PRESENT_WRITABLE
  <2>2. /\ [addr |-> "p3", flags |-> PRESENT_WRITABLE] \in Entry
        /\ [addr |-> "p2", flags |-> PRESENT_WRITABLE] \in Entry
    BY <2>1 DEF Entry
  <2>. QED  BY <1>1, <1>2, <2>2 DEF Tables, Upper
<1>4. stack' = <<"call enable_paging">>
  BY <1>1, Push DEF set_up_page_tables
<1>5. ecx' \in Pages /\ \A p \in 0 .. ecx' - 1 : tables'.p2[p] = Identity(p)
  BY <1>2, First
<1>6. Filling'
  BY <1>2, <1>3, <1>4, <1>5 DEF Filling
<1>. QED  BY <1>3, <1>6 DEF IInv

(* The loop fills one entry more, and ends with all of them filled.        *)
LEMMA FillPreserves == ASSUME IInv, map_p2_table PROVE IInv'
<1>1. Filling /\ tables \in Tables
  BY DEF map_p2_table, Reached, IInv, Starting, Filling, Enabling, Enabled, Remapping, Everything
<1>2. /\ ecx \in Pages /\ ecx' = ecx + 1 /\ UNCHANGED <<stack, control>>
      /\ tables' = [tables EXCEPT !.p2[ecx] = Identity(ecx)]
  BY <1>1 DEF Filling, map_p2_table, Identity
<1>3. Identity(ecx) \in Entry
  BY <1>2 DEF Identity, Entry, PageFlags, PRESENT_WRITABLE, HUGE_BIT
<1>4. /\ tables' \in Tables /\ Upper'
      /\ \A p \in Pages : tables'.p2[p] = IF p = ecx THEN Identity(p) ELSE tables.p2[p]
  BY <1>1, <1>2, <1>3 DEF Tables, Filling, Upper
<1>5. \A p \in 0 .. ecx : p \in Pages /\ tables'.p2[p] = Identity(p)
  BY <1>1, <1>2, <1>4, Turn DEF Filling
<1>6. CASE ecx + 1 = ENTRIES
  <2>1. pc' = "cr3"
    BY <1>2, <1>6 DEF map_p2_table, Filled, LoopExit
  <2>2. Built'
    BY <1>2, <1>4, <1>5, <1>6, Turn DEF Built
  <2>3. Enabling'
    BY <1>1, <1>2, <2>1, <2>2 DEF Enabling, Filling, SetBefore, Everything
  <2>. QED  BY <1>4, <2>3 DEF IInv
<1>7. CASE ecx + 1 # ENTRIES
  <2>1. pc' = "map_p2_table"
    BY <1>1, <1>2, <1>7 DEF map_p2_table, Filled, Filling
  <2>2. ecx' \in Pages /\ \A p \in 0 .. ecx' - 1 : p \in 0 .. ecx
    BY <1>2, <1>7, Turn
  <2>3. Filling'
    BY <1>1, <1>2, <1>4, <1>5, <2>1, <2>2 DEF Filling
  <2>. QED  BY <1>4, <2>3 DEF IInv
<1>. QED  BY <1>6, <1>7

(* Both passes through enable_paging: the one the loop runs on into, and   *)
(* the one that is called.                                                 *)
LEMMA EnablePreserves ==
  ASSUME IInv, call_enable_paging \/ enable_paging \/ ret \/ long_mode_start
  PROVE  IInv'
<1>1. tables' = tables /\ tables \in Tables
  BY DEF IInv, call_enable_paging, enable_paging, ret, long_mode_start
<1>2. Built => Built'
  BY <1>1 DEF Built, Upper
<1>3. CASE call_enable_paging
  <2>1. Enabled
    BY <1>3 DEF call_enable_paging, Reached, IInv, Starting, Filling, Enabling, Enabled, Remapping, Everything
  <2>2. stack' = <<"lgdt">>
    BY <1>3, <2>1, Push DEF call_enable_paging, Enabled
  <2>3. Enabling'
    BY <1>2, <1>3, <2>1, <2>2 DEF call_enable_paging, Enabled, Enabling, Everything
  <2>. QED  BY <1>1, <2>3 DEF IInv
<1>4. CASE enable_paging
  <2>1. Enabling /\ pc \in Everything
    BY <1>4 DEF enable_paging, IInv, Starting, Filling, Enabling, Enabled, Remapping, Everything
  <2>2. pc' = After(pc) /\ control' = control \union {pc} /\ stack' = stack
    BY <1>4 DEF enable_paging
  <2>3. pc' \in Everything \union {"ret"} /\ SetBefore(pc') = SetBefore(pc) \union {pc}
    BY <2>1, <2>2 DEF After, SetBefore, Everything
  <2>4. Enabling'
    BY <1>2, <2>1, <2>2, <2>3 DEF Enabling
  <2>. QED  BY <1>1, <2>4 DEF IInv
<1>5. CASE ret
  <2>1. Enabling /\ control = Everything
    BY <1>5 DEF ret, Reached, IInv, Starting, Filling, Enabling, Enabled, Remapping, Everything, SetBefore
  <2>2. pc' \in {"call enable_paging", "lgdt"} /\ stack' = <<>> /\ control' = control
    BY <1>5, <2>1, Pop DEF ret, Enabling
  <2>3. Enabled'
    BY <1>2, <2>1, <2>2 DEF Enabling, Enabled
  <2>. QED  BY <1>1, <2>3 DEF IInv
<1>6. CASE long_mode_start
  <2>1. Enabled
    BY <1>6 DEF long_mode_start, Reached, IInv, Starting, Filling, Enabling, Enabled, Remapping, Everything
  <2>2. Enabled'
    BY <1>2, <1>6, <2>1 DEF long_mode_start, Enabled
  <2>. QED  BY <1>1, <2>2 DEF IInv
<1>. QED  BY <1>3, <1>4, <1>5, <1>6

(* One turn of its loop: one page more has been rewritten.                 *)
LEMMA MapGrows ==
  ASSUME MapP2, Remapping
  PROVE  \A p \in Pages : p \in Rewritten' <=> p = ecx \/ p \in Rewritten
<1>1. pc = "map p2" /\ ecx \in Pages /\ ecx' = ecx + 1
      /\ pc' = IF ecx' = ENTRIES THEN "hlt" ELSE pc
  BY DEF MapP2, Reached, Remapping
<1>. SUFFICES ASSUME NEW p \in Pages PROVE p \in Rewritten' <=> p = ecx \/ p \in Rewritten
  OBVIOUS
<1>2. p \in Nat /\ ecx \in Nat /\ ENTRIES \in Nat /\ p < ENTRIES
  <2>1. ENTRIES \in Nat /\ p \in 0 .. ENTRIES - 1 /\ ecx \in 0 .. ENTRIES - 1
    BY <1>1, BootAssumption DEF Pages
  <2>. QED  BY <2>1
<1>3. p \in Rewritten <=> p < ecx
  BY <1>1 DEF Rewritten
<1>4. p \in Rewritten' <=> p < ecx + 1
  <2>1. CASE ecx + 1 = ENTRIES
    <3>1. pc' = "hlt"
      BY <1>1, <2>1
    <3>2. p \in Rewritten'
      BY <3>1 DEF Rewritten, Pages
    <3>. QED  BY <1>2, <2>1, <3>2
  <2>2. CASE ecx + 1 # ENTRIES
    BY <1>1, <2>2 DEF Rewritten, Pages
  <2>. QED  BY <2>1, <2>2
<1>. QED  BY <1>2, <1>3, <1>4

(* map_page_tables cuts one entry after the other.                         *)
LEMMA MapPreserves ==
  ASSUME IInv, MapP4 \/ MapP3 \/ MapP2
  PROVE  IInv'
<1>1. tables \in Tables /\ 0 \in Pages
  BY First DEF IInv
<1>2. CASE MapP4
  <2>1. Enabled /\ pc = "kernel_main"
    BY <1>2 DEF MapP4, MapTable, Reached, IInv, Starting, Filling, Enabling, Enabled, Remapping, Everything
  <2>2. tables' = [tables EXCEPT !.p4 = CutTo("p3")]
    BY <1>2, FlagsCut DEF MapP4, MapTable, map_entry, CutTo, Cut
  <2>3. /\ tables' \in Tables /\ tables'.p3 = tables.p3 /\ tables'.p2 = tables.p2
        /\ tables'.p4 = CutTo("p3")
    BY <1>1, <2>2 DEF Tables, Entry, CutTo, Cut
  <2>4. pc' = "map p3" /\ ecx' = 0 /\ control' = control
    BY <1>2 DEF MapP4, MapTable
  <2>5. Rewritten' = {}
    BY <2>4 DEF Rewritten, Pages
  <2>6. Mapped'
    BY <2>1, <2>3, <2>5 DEF Enabled, Built, Upper, Mapped
  <2>7. Remapping'
    BY <1>1, <2>1, <2>4, <2>6 DEF Enabled, Remapping
  <2>. QED  BY <2>3, <2>7 DEF IInv
<1>3. CASE MapP3
  <2>1. Remapping /\ pc = "map p3"
    BY <1>3 DEF MapP3, MapTable, Reached, IInv, Starting, Filling, Enabling, Enabled, Everything
  <2>2. tables' = [tables EXCEPT !.p3 = CutTo("p2")]
    BY <1>3, FlagsCut DEF MapP3, MapTable, map_entry, CutTo, Cut
  <2>3. /\ tables' \in Tables /\ tables'.p4 = tables.p4 /\ tables'.p2 = tables.p2
        /\ tables'.p3 = CutTo("p2")
    BY <1>1, <2>2 DEF Tables, Entry, CutTo, Cut
  <2>4. pc' = "map p2" /\ ecx' = 0 /\ control' = control
    BY <1>3 DEF MapP3, MapTable
  <2>5. Rewritten = {} /\ Rewritten' = {}
    <3>1. \A p \in Pages : ~ (p < 0)
      BY DEF Pages
    <3>2. Rewritten' = {}
      BY <2>4, <3>1 DEF Rewritten
    <3>. QED  BY <2>1, <3>2 DEF Rewritten
  <2>6. Mapped'
    BY <2>1, <2>3, <2>5 DEF Remapping, Mapped
  <2>7. Remapping'
    BY <1>1, <2>1, <2>4, <2>6 DEF Remapping
  <2>. QED  BY <2>3, <2>7 DEF IInv
<1>4. CASE MapP2
  <2>1. Remapping /\ pc = "map p2"
    BY <1>4 DEF MapP2, Reached, IInv, Starting, Filling, Enabling, Enabled, Everything
  <2>2. ecx \in Pages
    BY <2>1 DEF Remapping
  <2>3. tables' = WithPage(tables, ecx, CutTo(ecx))
    BY <1>4, FlagsCut DEF MapP2, map_entry, PageOf, WithPage, CutTo, Cut
  <2>4. CutTo(ecx) \in Entry
    BY <2>2 DEF Entry, CutTo, Cut
  <2>5. /\ tables' \in Tables /\ tables'.p4 = tables.p4 /\ tables'.p3 = tables.p3
        /\ \A p \in Pages : tables'.p2[p] = IF p = ecx THEN CutTo(ecx) ELSE tables.p2[p]
    BY <1>1, <2>2, <2>3, <2>4, SetPage
  <2>6. pc' = "hlt" \/ (pc' = "map p2" /\ ecx' \in Pages)
    BY <1>4, <2>1, <2>2, Turn DEF MapP2
  <2>7. \A p \in Pages : p \in Rewritten' <=> p = ecx \/ p \in Rewritten
    BY <1>4, <2>1, MapGrows
  <2>8. Mapped'
    BY <2>1, <2>5, <2>7 DEF Remapping, Mapped
  <2>9. Remapping'
    BY <1>4, <2>1, <2>6, <2>8 DEF MapP2, Remapping
  <2>. QED  BY <2>5, <2>9 DEF IInv
<1>. QED  BY <1>2, <1>3, <1>4

(* A step that leaves the code where it is leaves the invariant.           *)
LEMMA CodeKeeps ==
  ASSUME IInv, UNCHANGED code
  PROVE  IInv'
  BY DEF code, IInv, Starting, Filling, Enabling, Enabled, Remapping, Built, Upper, Mapped, Rewritten

(* Every step of the start-up code and of the processor keeps it.          *)
LEMMA Inductive == IInv /\ [PagingNext]_bootVars => IInv'
<1>. SUFFICES ASSUME IInv, [PagingNext]_bootVars PROVE IInv'
  OBVIOUS
<1>1. CASE CodeStep
  BY <1>1, ChecksPreserve, SetUpPreserves, FillPreserves, EnablePreserves, MapPreserves
     DEF CodeStep, BootStep
<1>2. CASE LookUp \/ Drop \/ Stopped \/ UNCHANGED bootVars
  BY <1>2, CodeKeeps DEF LookUp, Drop, Stopped, bootVars
<1>. QED  BY <1>1, <1>2 DEF PagingNext

(* The invariant holds in every reachable state.                           *)
THEOREM Invariant == PagingSpec => []IInv
  BY Initially, Inductive, PTL DEF PagingSpec

-----------------------------------------------------------------------------
(* With paging on, the tables are complete or being rewritten.             *)
LEMMA OnTables ==
  ASSUME IInv, Paging
  PROVE  (Built /\ Rewritten = {}) \/ Remapping
  BY DEF IInv, Paging, Starting, Filling, Enabling, Enabled, Everything, Rewritten

(* A look-up finds a page until its entry has been rewritten.              *)
LEMMA Found ==
  ASSUME IInv, Paging
  PROVE  \A p \in Pages : /\ tables.p2[p].addr = p
                         /\ Walk(tables, p) = IF p \in Rewritten THEN NoPage ELSE p
<1>1. CASE Built /\ Rewritten = {}
  <2>1. ASSUME NEW p \in Pages PROVE tables.p2[p].addr = p
    <3>1. tables.p2[p] = [addr |-> p, flags |-> PageFlags]
      BY <1>1 DEF Built, Identity
    <3>. QED  BY <3>1
  <2>. QED  BY <1>1, <2>1, BuiltWalks
<1>2. CASE Remapping
  BY <1>2, MappedWalks DEF Remapping
<1>. QED  BY <1>1, <1>2, OnTables

(* Paging is switched on last, on complete tables.                         *)
THEOREM PagingComesLast == PagingSpec => []PagingComplete
<1>1. IInv => PagingComplete
  <2>. SUFFICES ASSUME IInv, Paging PROVE PagingComplete
    BY DEF PagingComplete
  <2>1. {"cr3", "pae", "lme"} \subseteq control
    BY DEF IInv, Paging, Starting, Filling, Enabling, Enabled, Remapping, SetBefore, Everything
  <2>. QED  BY <2>1, OnTables, RemappingShows, BuiltWalks DEF PagingComplete
<1>. QED  BY <1>1, Invariant, PTL

(* No look-up ever reaches other memory, and a page is lost to it exactly  *)
(* when map_page_tables has rewritten its entry.                           *)
THEOREM FramesStay == PagingSpec => []FramesKept
<1>1. IInv => FramesKept
  BY Found DEF FramesKept
<1>. QED  BY <1>1, Invariant, PTL

(* The kernel's page is found at each look-up until its own entry has been *)
(* rewritten, whenever the CPU forgets its translation.                    *)
THEOREM KernelStays == PagingSpec => []KernelMapped
<1>1. BootInit => KernelMapped
  BY DEF BootInit, KernelMapped
<1>2. IInv /\ KernelMapped /\ [PagingNext]_bootVars => KernelMapped'
  <2>. SUFFICES ASSUME IInv, KernelMapped, [PagingNext]_bootVars PROVE KernelMapped'
    OBVIOUS
  <2>1. KERNEL_PAGE \in Pages
    BY BootAssumption
  <2>2. CASE LookUp
    <3>1. Paging /\ Rewritten' = Rewritten
      BY <2>2 DEF LookUp, code, Rewritten
    <3>2. KERNEL_PAGE \notin Rewritten => lost' = lost
      BY <2>1, <2>2, <3>1, Found DEF LookUp
    <3>. QED  BY <3>1, <3>2 DEF KernelMapped
  <2>3. CASE Drop \/ Stopped \/ UNCHANGED bootVars
    BY <2>3 DEF Drop, Stopped, bootVars, code, KernelMapped, Rewritten
  <2>4. CASE BootStep \/ MapP4 \/ MapP3
    <3>1. pc \notin {"map p2", "hlt"} /\ lost' = lost
      BY <2>4 DEF BootStep, check_multiboot, check_cpuid, check_long_mode, Check, set_up_page_tables,
         map_p2_table, call_enable_paging, enable_paging, ret, long_mode_start, Reached, MapP4, MapP3, MapTable
    <3>2. ~ lost
      BY <3>1 DEF KernelMapped, Rewritten
    <3>. QED  BY <3>1, <3>2 DEF KernelMapped
  <2>5. CASE MapP2
    <3>1. Remapping
      BY <2>5 DEF MapP2, Reached, IInv, Starting, Filling, Enabling, Enabled, Everything
    <3>2. KERNEL_PAGE \in Rewritten => KERNEL_PAGE \in Rewritten'
      BY <2>1, <2>5, <3>1, MapGrows
    <3>3. lost' = lost
      BY <2>5 DEF MapP2
    <3>. QED  BY <3>2, <3>3 DEF KernelMapped
  <2>. QED  BY <2>2, <2>3, <2>4, <2>5 DEF PagingNext, CodeStep
<1>. QED  BY <1>1, <1>2, Invariant, PTL DEF PagingSpec
=============================================================================
