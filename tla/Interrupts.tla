----------------------------- MODULE Interrupts -----------------------------
(***************************************************************************)
(* Interrupt dispatch: src/arch/x86_64/InterruptDescriptorTable.c and      *)
(* interrupts.asm.  The single CPU runs kernel_main or, on top of it, the  *)
(* stack of handlers in `frames' (innermost first).  main builds the IDT,  *)
(* programs the controllers, sets IF, and may register handlers at any     *)
(* time; devices latch lines at any time; the CPU may fault at any time.   *)
(***************************************************************************)
EXTENDS Pic8259, Sequences

CONSTANTS
  IDT_SIZE,    (* entries of idt (256 in the code)                         *)
  Raisable,    (* the lines a device is wired to                           *)
  Spurious,    (* the spurious lines that may be answered, within {7, 15}  *)
  Exceptions,  (* the exceptions the CPU may raise                         *)
  MaxFrames,   (* bound: the frames an exception may find on the stack     *)
  Handlers,    (* the functions main may register                          *)
  Indices,     (* the indices main may pass to register_handler            *)
  NULL         (* the null function pointer, and "no line"                 *)

ASSUME InterruptsAssumption ==
  /\ IDT_SIZE \in Int /\ IDT_SIZE >= 48
  /\ Raisable \subseteq Lines \ {Cascade}
  /\ Spurious \subseteq {7, 15}
  /\ Exceptions \subseteq 0 .. 31 /\ MaxFrames \in Nat
  /\ Indices \subseteq Int
  /\ NULL \notin Handlers /\ NULL \notin Lines

VARIABLES
  stage,              (* how far InterruptDescriptorTable_Initialize got   *)
  ifl,                (* the CPU's interrupt flag                          *)
  idt,                (* the interrupt descriptor table                    *)
  interrupt_handlers, (* the C handler of each vector from 32 on           *)
  pic,                (* the controllers                                   *)
  frames              (* the interrupt frames on the kernel stack          *)

vars == <<stage, ifl, idt, interrupt_handlers, pic, frames>>

Vector == 0 .. IDT_SIZE - 1
Slot   == 0 .. IDT_SIZE - 33
Gate   == [type_attr : 0 .. 255, stub : Vector]
Frame  == [vec : Vector, line : Lines \union {NULL}, saved : BOOLEAN,
           pc : {"stub", "fault", "call", "eoi_slave", "eoi_master", "iretq"},
           ran : Handlers \union {NULL}]

NoGate             == [type_attr |-> 0, stub |-> 0]
Present(g)         == g.type_attr >= 128
MasksInterrupts(g) == g.type_attr % 16 = 14   \* 0xE; a trap gate, 0xF, does not

TypeOK ==
  /\ stage \in {"start", "idt", "irqs", "isrs", "on", "reset"}
  /\ ifl \in BOOLEAN
  /\ idt \in [Vector -> Gate]
  /\ interrupt_handlers \in [Slot -> Handlers \union {NULL}]
  /\ pic \in PicType
  /\ frames \in Seq(Frame)

(* The state boot.asm and long_mode_init.asm hand to kernel_main: IF clear *)
(* as the boot loader left it, .bss zero, controllers as the BIOS set them *)
Init ==
  /\ stage = "start"
  /\ ifl = FALSE
  /\ idt = [v \in Vector |-> NoGate]
  /\ interrupt_handlers = [i \in Slot |-> NULL]
  /\ pic = [irr |-> {}, isr |-> {}, imr |-> {}, master |-> 8, slave |-> 112]
  /\ frames = <<>>

InMain == frames = <<>> /\ stage # "reset"

-----------------------------------------------------------------------------
(* main: building the table and opening the interrupts                     *)

TrapFlags  == 143             \* mutant of GateFlags
GateFlags  == 142             \* 0x8E: a present interrupt gate

MissingLast == 32 .. 46       \* mutant of IrqVectors
IrqVectors  == 32 .. 47

SetGates(table, vectors) ==
  [v \in Vector |-> IF v \in vectors THEN [type_attr |-> GateFlags, stub |-> v]
                                     ELSE table[v]]

idt_install ==
  /\ InMain /\ stage = "start"
  /\ stage' = "idt"
  /\ idt' = [v \in Vector |-> NoGate]
  /\ UNCHANGED <<ifl, interrupt_handlers, pic, frames>>

SwappedBases == [master |-> 40, slave |-> 32]      \* mutant of VectorBases
VectorBases  == [master |-> 32, slave |-> 40]

irq_remap == pic' = Initialise(pic, VectorBases.master, VectorBases.slave)

irq_install ==
  /\ InMain /\ stage = "idt"
  /\ stage' = "irqs"
  /\ irq_remap
  /\ idt' = SetGates(idt, IrqVectors)
  /\ UNCHANGED <<ifl, interrupt_handlers, frames>>

isrs_install ==
  /\ InMain /\ stage = "irqs"
  /\ stage' = "isrs"
  /\ idt' = SetGates(idt, 0 .. 31)
  /\ UNCHANGED <<ifl, interrupt_handlers, pic, frames>>

sti ==
  /\ InMain /\ stage = "isrs"
  /\ stage' = "on"
  /\ ifl' = TRUE
  /\ UNCHANGED <<idt, interrupt_handlers, pic, frames>>

NoLowerBound(slot) == slot <= IDT_SIZE - 33       \* mutant of InTable
InTable(slot)      == slot >= 0 /\ slot < IDT_SIZE - 32

(* An index outside the table is ignored.                                  *)
SetHandler(index, h) ==
  /\ InMain
  /\ interrupt_handlers' =
       IF InTable(index - 32)
       THEN [i \in Slot \union {index - 32} |->
               IF i = index - 32 THEN h ELSE interrupt_handlers[i]]
       ELSE interrupt_handlers
  /\ UNCHANGED <<stage, ifl, idt, pic, frames>>

register_handler(h, index) == SetHandler(index, h)
unregister_handler(index)  == SetHandler(index, NULL)

-----------------------------------------------------------------------------
(* the hardware: device edges, acknowledge cycles, exceptions              *)

Raise(n) ==
  /\ pic' = Latch(pic, n)
  /\ UNCHANGED <<stage, ifl, idt, interrupt_handlers, frames>>

(* The number the stub of a gate pushes as iframe.vector.                  *)
StubVector(stub) == stub

(* Enter the gate of vector v; without one the CPU resets.                 *)
Enter(v, line) ==
  /\ IF Present(idt[v])
     THEN /\ frames' = <<[vec |-> StubVector(idt[v].stub), line |-> line,
                          saved |-> ifl, pc |-> "stub", ran |-> NULL]>> \o frames
          /\ ifl' = (ifl /\ ~ MasksInterrupts(idt[v]))
          /\ UNCHANGED stage
     ELSE /\ stage' = "reset"
          /\ ifl' = FALSE
          /\ UNCHANGED frames
  /\ UNCHANGED <<idt, interrupt_handlers>>

Deliver(n) ==
  /\ ifl /\ Wins(pic, n)
  /\ pic' = Acknowledge(pic, n)
  /\ Enter(VectorOf(pic, n), n)

DeliverSpurious(n) ==
  /\ ifl /\ Eligible(pic) = {}
  /\ pic' = AcknowledgeSpurious(pic, n)
  /\ Enter(VectorOf(pic, n), NULL)

(* An exception, at any instruction: of main, of an interrupt handler or   *)
(* of fault_handler, which is entered once more.  An NMI is held back      *)
(* after an NMI until an iretq, and no exception's handler gets to one.    *)
NMI     == 2
NmiHeld == \E i \in DOMAIN frames : frames[i].vec = NMI
Fault(v) ==
  /\ stage # "reset" /\ Len(frames) <= MaxFrames
  /\ v = NMI => ~ NmiHeld
  /\ Enter(v, NULL)
  /\ UNCHANGED pic

-----------------------------------------------------------------------------
(* the handlers                                                            *)

At(label) == frames # <<>> /\ Head(frames).pc = label
Goto(label) == frames' = [frames EXCEPT ![1].pc = label]

(* cli, push error code and number, jump to the common stub                *)
Stub ==
  /\ At("stub")
  /\ ifl' = FALSE
  /\ Goto(IF Head(frames).vec < 32 THEN "fault" ELSE "call")
  /\ UNCHANGED <<stage, idt, interrupt_handlers, pic>>

(* fault_handler ends in for (;;);                                         *)
fault_handler == At("fault") /\ UNCHANGED vars

(* irq_handler calls the registered function, if there is one, ...         *)
HandlerOf(vec) == IF InTable(vec - 32) THEN interrupt_handlers[vec - 32] ELSE NULL

NeedsSlaveEoi_after40(vec) == vec > 40             \* mutant of NeedsSlaveEoi
NeedsSlaveEoi(vec)         == vec >= 40

call_handler ==
  /\ At("call")
  /\ LET vec == Head(frames).vec
     IN  frames' = [frames EXCEPT
                      ![1].ran = HandlerOf(vec),
                      ![1].pc  = IF NeedsSlaveEoi(vec) THEN "eoi_slave" ELSE "eoi_master"]
  /\ UNCHANGED <<stage, ifl, idt, interrupt_handlers, pic>>

(* ... then tells the slave, for vectors from 40 on, and the master.       *)
MasterCommand      == 32      \* 0x20, also a mutant of SlaveCommand
SlaveCommand       == 160     \* 0xA0
SendNothing(port)  == UNCHANGED pic                \* mutant of SendEoi
SendEoi(port) ==
  pic' = Retire(pic, IF port = 160 THEN SlaveLines ELSE MasterLines)

EoiSlave ==
  /\ At("eoi_slave")
  /\ SendEoi(SlaveCommand)
  /\ Goto("eoi_master")
  /\ UNCHANGED <<stage, ifl, idt, interrupt_handlers>>

EoiMaster ==
  /\ At("eoi_master")
  /\ SendEoi(MasterCommand)
  /\ Goto("iretq")
  /\ UNCHANGED <<stage, ifl, idt, interrupt_handlers>>

iretq ==
  /\ At("iretq")
  /\ ifl' = Head(frames).saved
  /\ frames' = Tail(frames)
  /\ UNCHANGED <<stage, idt, interrupt_handlers, pic>>

-----------------------------------------------------------------------------
Setup   == idt_install \/ irq_install \/ isrs_install \/ sti
Client  == \E i \in Indices : \/ \E h \in Handlers : register_handler(h, i)
                              \/ unregister_handler(i)
Running == Stub \/ fault_handler \/ call_handler \/ EoiSlave \/ EoiMaster \/ iretq
Accept  == \E n \in Raisable : Deliver(n)
Devices == \/ \E n \in Raisable : Raise(n)
           \/ \E n \in Spurious : DeliverSpurious(n)
           \/ \E v \in Exceptions : Fault(v)

Next == Setup \/ Client \/ Running \/ Accept \/ Devices
Spec == Init /\ [][Next]_vars

(* The CPU keeps executing, and takes a request as soon as IF allows it.   *)
(* Nothing obliges a device to raise a line or the CPU to fault.           *)
FairSpec == Spec /\ WF_vars(Setup) /\ WF_vars(Running) /\ WF_vars(Accept)
-----------------------------------------------------------------------------
(* Properties                                                              *)

Irqs    == {i \in DOMAIN frames : frames[i].vec >= 32}
Faulted == frames # <<>> /\ Head(frames).vec < 32

(* "All ISRs disable interrupts while they are being serviced": with IF    *)
(* set the CPU is in main and neither controller has a line in service, so *)
(* no end-of-interrupt can ever meet another handler's line.               *)
IdleWhenEnabled == ifl => frames = <<>> /\ pic.isr = {}

(* Interrupt handlers never nest: an IRQ frame is the outermost, it has    *)
(* interrupted main itself, and whatever lies on top of it is exceptions.  *)
OneAtATime == \A i \in Irqs : i = Len(frames)

(* What the controllers have in service is what the IRQ frame still has to *)
(* retire: its own line until the EOI of its controller, nothing after.    *)
Own(f) == IF f.line # NULL THEN Service(f.line)
          ELSE IF f.vec = 47 THEN {Cascade} ELSE {}   \* spurious 15 or 7
Unretired(f) == IF f.pc = "iretq" THEN {}
                ELSE IF f.pc = "eoi_master" THEN Own(f) \intersect MasterLines
                ELSE Own(f)
InServiceMatchesFrame ==
  pic.isr = UNION {Unretired(frames[i]) : i \in Irqs}

(* The function an interrupt runs is the one registered for index 32 + its *)
(* line: remapping, gates, stub numbers and table slots all agree.         *)
RightHandler ==
  \A i \in Irqs :
     frames[i].line # NULL /\ frames[i].pc \in {"eoi_slave", "eoi_master", "iretq"}
       => frames[i].ran = interrupt_handlers[frames[i].line]

(* Once interrupts have been switched on, no interrupt or exception finds  *)
(* its gate missing: the machine never resets.                             *)
NoResetOnceOn == [][stage = "on" => stage' = "on"]_vars

(* "Right now, we simply halt the system": after an exception nothing      *)
(* returns, the handler it broke off included (its line stays in service); *)
(* only exceptions come on top, no interrupt is taken, no handler changes. *)
Above == Len(frames') - Len(frames)
FaultIsFinal ==
  [][Faulted => /\ Above >= 0
                /\ \A i \in DOMAIN frames :
                      /\ i > 1 => frames'[i + Above] = frames[i]
                      /\ i = 1 => frames'[i + Above].vec = frames[i].vec
                /\ \A i \in 1 .. Above : frames'[i].vec < 32
                /\ ~ ifl' /\ pic'.isr = pic.isr
                /\ UNCHANGED interrupt_handlers]_vars

(* A latched line is served, unless the CPU faults or resets or lines of   *)
(* higher priority never stay quiet.                                       *)
QuietAbove(n) == \A m \in pic.irr : Rank(n) <= Rank(m)
EveryRequestServed ==
  \A n \in Raisable :
     <>[]QuietAbove(n) =>
        (stage = "on" /\ n \in pic.irr ~> n \notin pic.irr \/ Faulted)

(* The abstract service every line gets: one at a time, each latched edge  *)
(* once, in priority order.                                                *)
Service1 == INSTANCE IrqService WITH
  accepting <- stage = "on",
  pending   <- pic.irr,
  active    <- {frames[i].line : i \in Irqs} \ {NULL}
ImplementsIrqService == Service1!Spec
=============================================================================
