-------------------------- MODULE InterruptsProofs --------------------------
(***************************************************************************)
(* The safety properties of Interrupts, and that it implements IrqService, *)
(* for every wiring of the lines, set of exceptions and use of handlers.   *)
(***************************************************************************)
EXTENDS Interrupts, SequenceTheorems, TLAPS

-----------------------------------------------------------------------------
(* The inductive invariant                                                 *)

OurGate(v) == [type_attr |-> GateFlags, stub |-> v]

(* What InterruptDescriptorTable_Initialize has done by each stage.        *)
SetUpSoFar ==
  /\ \A v \in Vector : idt[v] \in {NoGate, OurGate(v)}
  /\ stage \in {"irqs", "isrs", "on"} =>
        /\ \A v \in 32 .. 47 : idt[v] = OurGate(v)
        /\ pic.master = 32 /\ pic.slave = 40
  /\ stage \in {"isrs", "on"} => \A v \in 0 .. 31 : idt[v] = OurGate(v)

Called(f) == f.pc \in {"eoi_slave", "eoi_master", "iretq"}

ExceptionFrame(f) == f.vec < 32 /\ f.pc \in {"stub", "fault"}

(* An IRQ frame interrupted main with IF set, and its vector is its line's *)
IrqFrame(f) ==
  /\ f.vec >= 32 /\ f.saved = TRUE /\ f.pc # "fault"
  /\ IF f.line = NULL THEN f.vec \in {39, 47}
     ELSE /\ f.line \in Raisable /\ f.vec = 32 + f.line
          /\ Called(f) => f.ran = interrupt_handlers[f.line]
  /\ f.pc = "eoi_slave" => f.vec >= 40

(* The controllers have in service just what IRQ frame f must retire.      *)
Busy(f) == stage = "on" /\ IrqFrame(f) /\ pic.isr = Unretired(f)

(* The outermost frame may be an IRQ's; every other is an exception's.     *)
Outermost == frames[Len(frames)]
Shape ==
  /\ Len(frames) = 0 => pic.isr = {}
  /\ Len(frames) # 0 => \/ Busy(Outermost)
                        \/ ExceptionFrame(Outermost) /\ pic.isr = {}
  /\ \A i \in 1 .. Len(frames) - 1 : ExceptionFrame(frames[i])

Masked == ifl => stage = "on" /\ Len(frames) = 0

IInv == TypeOK /\ SetUpSoFar /\ Masked /\ Shape

-----------------------------------------------------------------------------
(* The stack of frames                                                     *)

(* A gate puts its frame on top of the stack.                              *)
LEMMA Push ==
  ASSUME NEW s \in Seq(Frame), NEW f \in Frame
  PROVE  /\ <<f>> \o s \in Seq(Frame)
         /\ Len(<<f>> \o s) = Len(s) + 1
         /\ (<<f>> \o s)[1] = f
         /\ \A i \in 1 .. Len(s) : (<<f>> \o s)[i + 1] = s[i]
<1>1. <<f>> \in Seq(Frame) /\ Len(<<f>>) = 1 /\ <<f>>[1] = f
  OBVIOUS
<1>2. Len(s) \in Nat
  BY LenProperties
<1>. QED  BY <1>1, <1>2, ConcatProperties

(* A handler rewrites the top frame and leaves those under it alone.       *)
LEMMA Relabel ==
  ASSUME NEW s \in Seq(Frame), s # <<>>, NEW f \in Frame, NEW t,
         t = [s EXCEPT ![1] = f]
  PROVE  /\ t \in Seq(Frame) /\ Len(t) = Len(s) /\ t[1] = f
         /\ \A i \in 2 .. Len(s) : t[i] = s[i]
<1>1. Len(s) \in Nat \ {0}
  BY EmptySeq
<1>. QED  BY <1>1, ExceptSeq

(* The empty stack is the one of length 0, and the top of any other is a   *)
(* frame.                                                                  *)
LEMMA Top ==
  ASSUME NEW s \in Seq(Frame)
  PROVE  /\ Len(s) \in Nat
         /\ s = <<>> <=> Len(s) = 0
         /\ s # <<>> => Head(s) = s[1]
         /\ \A i \in 1 .. Len(s) : s[i] \in Frame
         /\ DOMAIN s = 1 .. Len(s)
  BY EmptySeq, LenProperties, ElementOfSeq

(* The top frame of a stack of several is not the outermost.               *)
LEMMA UnderTop == \A n \in Nat \ {0} : n # 1 => 1 \in 1 .. n - 1
  OBVIOUS

(* A stack of one frame is not the empty one.                              *)
LEMMA NonEmpty == ASSUME NEW s, Len(s) = 1 PROVE s # <<>>
  OBVIOUS

-----------------------------------------------------------------------------
(* The end-of-interrupt commands                                           *)

(* The command to the slave retires the slave's line of an IRQ frame, and  *)
(* leaves what the master has in service.                                  *)
LEMMA SlaveRetired ==
  ASSUME NEW p \in PicType, NEW f \in Frame, IrqFrame(f),
         f.pc = "eoi_slave", p.isr = Unretired(f)
  PROVE  Retire(p, SlaveLines).isr = Own(f) \intersect MasterLines
<1>1. Own(f) \subseteq SlaveLines \union {Cascade}
  <2>1. CASE f.line = NULL
    BY <2>1 DEF Own
  <2>2. CASE f.line # NULL
    <3>1. f.line \in Raisable /\ f.vec = 32 + f.line /\ f.vec >= 40
      BY <2>2 DEF IrqFrame
    <3>2. f.line \in 0 .. 15
      BY <3>1, InterruptsAssumption DEF Lines
    <3>3. f.line \in SlaveLines
      BY <3>1, <3>2 DEF SlaveLines
    <3>. QED  BY <2>2, <3>3 DEF Own, Service
  <2>. QED  BY <2>1, <2>2
<1>2. \A m, k \in Own(f) \intersect SlaveLines : m = k
  BY InterruptsAssumption DEF Own, Service, IrqFrame, Lines, SlaveLines, Cascade
<1>3. p.isr = Own(f)
  BY DEF Unretired
<1>4. Retire(p, SlaveLines).isr = Own(f) \ SlaveLines
  BY <1>1, <1>2, <1>3 DEF Retire, PicType, SlaveLines, Cascade
<1>. QED  BY <1>1, <1>4 DEF SlaveLines, MasterLines, Cascade

(* The command to the master retires what is left.                         *)
LEMMA MasterRetired ==
  ASSUME NEW p \in PicType, NEW f \in Frame, IrqFrame(f),
         f.pc = "eoi_master", p.isr = Unretired(f)
  PROVE  Retire(p, MasterLines).isr = {}
<1>1. p.isr = Own(f) \intersect MasterLines
  BY DEF Unretired
<1>2. \A m, k \in p.isr : m = k
  BY <1>1, InterruptsAssumption
     DEF Own, Service, IrqFrame, Lines, SlaveLines, MasterLines, Cascade
<1>. QED  BY <1>1, <1>2 DEF Retire, PicType, MasterLines

(* Neither command changes anything else of the controllers.               *)
LEMMA RetireKeeps ==
  ASSUME NEW p \in PicType, NEW lines
  PROVE  /\ Retire(p, lines) \in PicType
         /\ Retire(p, lines).master = p.master /\ Retire(p, lines).slave = p.slave
  BY DEF Retire, PicType

-----------------------------------------------------------------------------
(* Each action preserves the invariant                                     *)

(* The state the boot code hands over satisfies the invariant.             *)
LEMMA Initially == Init => IInv
<1>. SUFFICES ASSUME Init PROVE IInv
  OBVIOUS
<1>. USE InterruptsAssumption DEF Init
<1>1. idt \in [Vector -> Gate]
  BY DEF Vector, Gate, NoGate
<1>2. pic \in PicType
  BY DEF PicType
<1>3. TypeOK
  BY <1>1, <1>2, EmptySeq DEF TypeOK, Slot
<1>4. SetUpSoFar /\ Masked
  BY DEF SetUpSoFar, Masked
<1>5. Shape
  BY EmptySeq DEF Shape
<1>. QED  BY <1>3, <1>4, <1>5 DEF IInv

(* The setup steps run in main, on an empty stack; those that leave a gate *)
(* missing precede the sti.                                                *)
LEMMA SetupPreserves == IInv /\ Setup => IInv'
<1>. SUFFICES ASSUME IInv, Setup PROVE IInv'
  OBVIOUS
<1>. USE InterruptsAssumption DEF IInv
<1>. frames = <<>> /\ frames' = frames
  BY DEF Setup, idt_install, irq_install, isrs_install, sti, InMain
<1>1. CASE idt_install
  <2>1. TypeOK'
    BY <1>1 DEF idt_install, TypeOK, Vector, Gate, NoGate
  <2>2. SetUpSoFar'
    BY <1>1 DEF idt_install, SetUpSoFar
  <2>3. Masked' /\ Shape'
    BY <1>1, EmptySeq DEF idt_install, Masked, Shape
  <2>. QED  BY <2>1, <2>2, <2>3
<1>2. CASE irq_install
  <2>. USE <1>2 DEF irq_install
  <2>1. pic' \in PicType /\ pic'.master = 32 /\ pic'.slave = 40 /\ pic'.isr = {}
    <3>1. pic' = [irr |-> {}, isr |-> {}, imr |-> {}, master |-> 32, slave |-> 40]
      BY DEF TypeOK, PicType, irq_remap, Initialise, VectorBases
    <3>. QED  BY <3>1 DEF PicType
  <2>2. \A v \in Vector : idt'[v] = IF v \in 32 .. 47 THEN OurGate(v) ELSE idt[v]
    BY DEF SetGates, IrqVectors, OurGate, Vector
  <2>3. idt' \in [Vector -> Gate]
    <3>1. \A v \in Vector : OurGate(v) \in Gate /\ idt[v] \in Gate
      BY DEF TypeOK, Gate, OurGate, GateFlags
    <3>2. idt' = [v \in Vector |-> IF v \in IrqVectors THEN OurGate(v) ELSE idt[v]]
      BY DEF SetGates, OurGate
    <3>. QED  BY <3>1, <3>2
  <2>4. TypeOK'
    BY <2>1, <2>3 DEF TypeOK
  <2>5. SetUpSoFar'
    <3>1. stage' = "irqs"
      OBVIOUS
    <3>2. \A v \in 32 .. 47 : v \in Vector
      BY DEF Vector
    <3>3. \A v \in Vector : idt'[v] \in {NoGate, OurGate(v)}
      BY <2>2 DEF SetUpSoFar
    <3>4. \A v \in 32 .. 47 : idt'[v] = OurGate(v)
      BY <2>2, <3>2
    <3>. HIDE <1>2 DEF irq_install, IInv
    <3>. QED  BY <2>1, <3>1, <3>3, <3>4 DEF SetUpSoFar
  <2>6. Masked' /\ Shape'
    BY <2>1, EmptySeq DEF Masked, Shape
  <2>. QED  BY <2>4, <2>5, <2>6
<1>3. CASE isrs_install
  <2>. USE <1>3 DEF isrs_install
  <2>1. \A v \in Vector : idt'[v] = IF v \in 0 .. 31 THEN OurGate(v) ELSE idt[v]
    BY DEF SetGates, OurGate, Vector
  <2>2. idt' \in [Vector -> Gate]
    BY DEF SetGates, TypeOK, Vector, Gate, GateFlags
  <2>3. TypeOK'
    BY <2>2 DEF TypeOK
  <2>4. SetUpSoFar'
    <3>1. \A v \in 32 .. 47 : idt[v] = OurGate(v)
      BY DEF SetUpSoFar
    <3>2. pic.master = 32 /\ pic.slave = 40
      BY DEF SetUpSoFar
    <3>3. \A v \in 0 .. 47 : idt'[v] = OurGate(v)
      <4>1. \A v \in 0 .. 47 : v \in Vector /\ (v \in 0 .. 31 \/ v \in 32 .. 47)
        BY InterruptsAssumption DEF Vector
      <4>2. \A v \in Vector : v \in 0 .. 31 => idt'[v] = OurGate(v)
        BY <2>1
      <4>3. \A v \in Vector : v \in 32 .. 47 => idt'[v] = OurGate(v)
        <5>. SUFFICES ASSUME NEW v \in Vector, v \in 32 .. 47 PROVE idt'[v] = OurGate(v)
          OBVIOUS
        <5>1. ~ v \in 0 .. 31
          OBVIOUS
        <5>. HIDE <1>3 DEF isrs_install, IInv
        <5>. QED  BY <2>1, <3>1, <5>1
      <4>. HIDE <1>3 DEF isrs_install, IInv
      <4>. QED  BY <4>1, <4>2, <4>3
    <3>4. \A v \in Vector : idt'[v] \in {NoGate, OurGate(v)}
      BY <2>1 DEF SetUpSoFar
    <3>. QED  BY <3>2, <3>3, <3>4 DEF SetUpSoFar
  <2>5. Masked' /\ Shape'
    BY EmptySeq DEF Masked, Shape
  <2>. QED  BY <2>3, <2>4, <2>5
<1>4. CASE sti
  <2>. USE <1>4 DEF sti
  <2>1. TypeOK'
    BY DEF TypeOK
  <2>2. SetUpSoFar'
    BY DEF SetUpSoFar
  <2>3. Masked' /\ Shape'
    BY EmptySeq DEF Masked, Shape
  <2>. QED  BY <2>1, <2>2, <2>3
<1>. QED  BY <1>1, <1>2, <1>3, <1>4 DEF Setup

(* Registering a handler changes interrupt_handlers and nothing else.      *)
LEMMA ClientPreserves == IInv /\ Client => IInv'
<1>. SUFFICES ASSUME IInv, NEW i \in Indices, NEW h \in Handlers \union {NULL},
                     SetHandler(i, h)
              PROVE  IInv'
  BY DEF Client, register_handler, unregister_handler
<1>. USE InterruptsAssumption DEF IInv, SetHandler
<1>1. interrupt_handlers' \in [Slot -> Handlers \union {NULL}]
  BY DEF InTable, TypeOK, Slot
<1>2. TypeOK'
  BY <1>1 DEF TypeOK
<1>3. SetUpSoFar' /\ Masked'
  BY DEF SetUpSoFar, Masked
<1>4. Shape'
  BY EmptySeq DEF Shape, InMain
<1>. QED  BY <1>2, <1>3, <1>4

(* A device that latches its line disturbs nothing in service.             *)
LEMMA RaisePreserves == ASSUME IInv, NEW n \in Raisable, Raise(n) PROVE IInv'
<1>. USE InterruptsAssumption DEF IInv, Raise
<1>1. pic' = [pic EXCEPT !.irr = @ \union {n}] /\ n \in Lines
  BY DEF Latch
<1>2. pic \in PicType /\ pic.irr \union {n} \subseteq Lines
  BY <1>1 DEF TypeOK, PicType
<1>3. /\ pic' \in PicType /\ pic'.isr = pic.isr
      /\ pic'.master = pic.master /\ pic'.slave = pic.slave
  BY <1>1, <1>2 DEF PicType
<1>4. TypeOK' /\ SetUpSoFar' /\ Masked'
  BY <1>3 DEF TypeOK, SetUpSoFar, Masked
<1>5. Shape'
  BY <1>3 DEF Shape, Outermost, Busy, IrqFrame
<1>. QED  BY <1>4, <1>5

(* A gate that idt_set_gate wrote masks interrupts and stacks a frame that *)
(* carries its own vector.                                                 *)
LEMMA EnterGate ==
  ASSUME TypeOK, NEW v \in 0 .. 47, NEW line \in Lines \union {NULL},
         idt[v] = OurGate(v), Enter(v, line)
  PROVE  /\ ifl' = FALSE
         /\ UNCHANGED <<stage, idt, interrupt_handlers>>
         /\ frames' \in Seq(Frame) /\ Len(frames') = Len(frames) + 1
         /\ frames'[1] = [vec |-> v, line |-> line, saved |-> ifl,
                          pc |-> "stub", ran |-> NULL]
         /\ \A i \in 1 .. Len(frames) : frames'[i + 1] = frames[i]
<1>. DEFINE f == [vec |-> v, line |-> line, saved |-> ifl, pc |-> "stub", ran |-> NULL]
<1>1. Present(idt[v]) /\ MasksInterrupts(idt[v]) /\ StubVector(idt[v].stub) = v
  BY DEF OurGate, GateFlags, Present, MasksInterrupts, StubVector
<1>2. frames' = <<f>> \o frames /\ ifl' = (ifl /\ FALSE)
      /\ UNCHANGED <<stage, idt, interrupt_handlers>>
  BY <1>1 DEF Enter
<1>3. f \in Frame
  BY InterruptsAssumption DEF TypeOK, Frame, Vector
<1>4. frames \in Seq(Frame)
  BY DEF TypeOK
<1>5. ifl' = FALSE
  BY <1>2
<1>. HIDE DEF f
<1>6. /\ frames' \in Seq(Frame) /\ Len(frames') = Len(frames) + 1
      /\ frames'[1] = f
      /\ \A i \in 1 .. Len(frames) : frames'[i + 1] = frames[i]
  BY <1>2, <1>3, <1>4, Push
<1>. QED  BY <1>2, <1>5, <1>6 DEF f

(* With IF set there is no frame under an IRQ's, and nothing in service.   *)
LEMMA AcceptPreserves ==
  ASSUME IInv, ifl,
         NEW n \in Lines, NEW line \in Lines \union {NULL},
         \/ line = n /\ n \in Raisable
         \/ line = NULL /\ n \in {7, 15},
         pic' \in PicType, pic'.master = pic.master, pic'.slave = pic.slave,
         pic'.isr = pic.isr \union (IF line = NULL THEN Service(n) \ {n} ELSE Service(n)),
         Enter(VectorOf(pic, n), line)
  PROVE  IInv'
<1>. USE DEF IInv
<1>1. stage = "on" /\ Len(frames) = 0 /\ pic.isr = {}
  BY DEF Masked, Shape
<1>2. pic.master = 32 /\ pic.slave = 40 /\ idt[32 + n] = OurGate(32 + n)
  <2>1. SetUpSoFar
    OBVIOUS
  <2>2. 32 + n \in 32 .. 47
    BY DEF Lines
  <2>. HIDE DEF IInv
  <2>3. pic.master = 32 /\ pic.slave = 40 /\ \A v \in 32 .. 47 : idt[v] = OurGate(v)
    BY <1>1, <2>1 DEF SetUpSoFar
  <2>. QED  BY <2>2, <2>3
<1>3. VectorOf(pic, n) = 32 + n /\ 32 + n \in 0 .. 47
  BY <1>2 DEF VectorOf, Lines, SlaveLines
<1>. DEFINE v == 32 + n
            f == [vec |-> v, line |-> line, saved |-> TRUE, pc |-> "stub", ran |-> NULL]
<1>4. /\ ifl' = FALSE /\ UNCHANGED <<stage, idt, interrupt_handlers>>
      /\ frames' \in Seq(Frame) /\ Len(frames') = 1 /\ frames'[1] = f
  <2>1. Enter(v, line)
    BY <1>3 DEF Enter
  <2>2. v \in 0 .. 47 /\ idt[v] = OurGate(v)
    BY <1>2, <1>3
  <2>3. ifl = TRUE
    BY DEF TypeOK
  <2>. HIDE DEF v
  <2>4. TypeOK
    OBVIOUS
  <2>. HIDE DEF IInv
  <2>5. /\ ifl' = FALSE /\ UNCHANGED <<stage, idt, interrupt_handlers>>
        /\ frames' \in Seq(Frame) /\ Len(frames') = Len(frames) + 1
        /\ frames'[1] = [vec |-> v, line |-> line, saved |-> ifl, pc |-> "stub", ran |-> NULL]
    BY <2>1, <2>2, <2>4, EnterGate
  <2>. QED  BY <1>1, <2>3, <2>5
<1>5. TypeOK'
  BY <1>4 DEF TypeOK
<1>6. SetUpSoFar' /\ Masked'
  BY <1>4 DEF SetUpSoFar, Masked
<1>7. IrqFrame(f)'
  <2>1. 32 + n >= 32 /\ (line = NULL => 32 + n \in {39, 47})
    BY InterruptsAssumption DEF Lines
  <2>2. line # NULL => line = n /\ n \in Raisable
    OBVIOUS
  <2>. QED  BY <2>1, <2>2 DEF IrqFrame, Called
<1>8. pic'.isr = Unretired(f)
  <2>1. Unretired(f) = Own(f)
    BY DEF Unretired
  <2>2. CASE line = NULL
    <3>1. Service(n) \ {n} = IF n = 15 THEN {Cascade} ELSE {}
      BY <2>2, InterruptsAssumption DEF Service, SlaveLines, Cascade
    <3>. QED  BY <1>1, <2>1, <2>2, <3>1, InterruptsAssumption DEF Own, Lines
  <2>3. CASE line # NULL
    BY <1>1, <2>1, <2>3 DEF Own
  <2>. QED  BY <2>2, <2>3
<1>9. Busy(frames[1])'
  BY <1>1, <1>4, <1>7, <1>8 DEF Busy, Unretired, Own, IrqFrame, Called
<1>10. Shape'
  BY <1>4, <1>9 DEF Shape, Outermost
<1>. QED  BY <1>5, <1>6, <1>10

(* The controller keeps its type when it acknowledges a line.              *)
Acknowledged(p, n, lines) == [p EXCEPT !.irr = @ \ {n}, !.isr = @ \union lines]
LEMMA AcknowledgedType ==
  ASSUME NEW p \in PicType, NEW n \in Lines, NEW lines \in SUBSET Lines
  PROVE  /\ Acknowledged(p, n, lines) \in PicType
         /\ Acknowledged(p, n, lines).master = p.master /\ Acknowledged(p, n, lines).slave = p.slave
         /\ Acknowledged(p, n, lines).isr = p.isr \union lines
<1>. DEFINE a == p.irr \ {n}
            b == p.isr \union lines
            q == Acknowledged(p, n, lines)
<1>1. a \in SUBSET Lines /\ b \in SUBSET Lines
  BY DEF PicType
<1>2. q = [p EXCEPT !.irr = a, !.isr = b]
  BY DEF PicType, Acknowledged
<1>. HIDE DEF a, b, q
<1>3. q \in PicType /\ q.master = p.master /\ q.slave = p.slave /\ q.isr = b
  BY <1>1, <1>2 DEF PicType
<1>. QED  BY <1>3 DEF b, q

(* Accepting line n stacks a frame that owns what n puts in service.       *)
LEMMA DeliverPreserves == ASSUME IInv, NEW n \in Raisable, Deliver(n) PROVE IInv'
<1>1. n \in Lines /\ pic \in PicType
  BY InterruptsAssumption DEF IInv, TypeOK
<1>2. pic' = [pic EXCEPT !.irr = @ \ {n}, !.isr = @ \union Service(n)]
  BY DEF Deliver, Acknowledge
<1>3. Service(n) \in SUBSET Lines
  BY <1>1 DEF Service, Lines, Cascade
<1>4. /\ pic' \in PicType /\ pic'.master = pic.master /\ pic'.slave = pic.slave
      /\ pic'.isr = pic.isr \union Service(n)
  <2>1. pic' = Acknowledged(pic, n, Service(n))
    BY <1>2 DEF Acknowledged
  <2>. QED  BY <1>1, <1>3, <2>1, AcknowledgedType
<1>. QED  BY <1>1, <1>4, AcceptPreserves, InterruptsAssumption DEF Deliver

(* A spurious interrupt owns at most the cascade input.                    *)
LEMMA SpuriousPreserves == ASSUME IInv, NEW n \in Spurious, DeliverSpurious(n) PROVE IInv'
<1>. USE InterruptsAssumption
<1>1. n \in {7, 15} /\ n \in Lines /\ pic \in PicType
  BY DEF IInv, TypeOK, Lines
<1>2. pic' = [pic EXCEPT !.isr = @ \union (Service(n) \ {n})]
  BY DEF DeliverSpurious, AcknowledgeSpurious
<1>3. Service(n) \subseteq Lines
  BY <1>1 DEF Service, Lines, Cascade
<1>4. /\ pic' \in PicType /\ pic'.master = pic.master /\ pic'.slave = pic.slave
      /\ pic'.isr = pic.isr \union (Service(n) \ {n})
  BY <1>1, <1>2, <1>3 DEF PicType
<1>. QED  BY <1>1, <1>4, AcceptPreserves DEF DeliverSpurious

(* An exception adds a frame that owns nothing, or resets the CPU.         *)
LEMMA FaultPreserves == ASSUME IInv, NEW v \in Exceptions, Fault(v) PROVE IInv'
<1>. USE DEF IInv
<1>1. v \in 0 .. 31 /\ v \in 0 .. 47 /\ v \in Vector
  BY InterruptsAssumption DEF Vector
<1>2. Enter(v, NULL) /\ UNCHANGED pic /\ stage # "reset"
  BY DEF Fault
<1>3. frames \in Seq(Frame) /\ Len(frames) \in Nat
  BY Top DEF TypeOK
<1>5. CASE idt[v] = OurGate(v)
  <2>. DEFINE e == [vec |-> v, line |-> NULL, saved |-> ifl, pc |-> "stub", ran |-> NULL]
  <2>1. TypeOK /\ NULL \in Lines \union {NULL}
    OBVIOUS
  <2>. HIDE DEF IInv
  <2>2. /\ ifl' = FALSE /\ UNCHANGED <<stage, idt, interrupt_handlers>>
        /\ frames' \in Seq(Frame) /\ Len(frames') = Len(frames) + 1
        /\ frames'[1] = e
        /\ \A i \in 1 .. Len(frames) : frames'[i + 1] = frames[i]
    BY <1>1, <1>2, <1>5, <2>1, EnterGate
  <2>. USE DEF IInv
  <2>3. TypeOK'
    BY <1>2, <2>2 DEF TypeOK
  <2>4. SetUpSoFar' /\ Masked'
    BY <1>2, <2>2 DEF SetUpSoFar, Masked
  <2>5. ExceptionFrame(frames[1])'
    <3>1. e.vec < 32 /\ e.pc = "stub"
      BY <1>1
    <3>. HIDE DEF e
    <3>. QED  BY <2>2, <3>1 DEF ExceptionFrame
  <2>6. \A i \in 1 .. Len(frames') - 1 : ExceptionFrame(frames'[i])
    <3>. SUFFICES ASSUME NEW i \in 1 .. Len(frames') - 1, i # 1
                  PROVE  ExceptionFrame(frames'[i])
      BY <2>5 DEF ExceptionFrame
    <3>1. i - 1 \in 1 .. Len(frames) - 1 /\ (i - 1) + 1 = i
      BY <1>3, <2>2
    <3>2. frames'[i] = frames[i - 1]
      BY <1>3, <2>2, <3>1
    <3>. QED  BY <3>1, <3>2 DEF Shape
  <2>7. CASE Len(frames) = 0
    <3>1. Len(frames') = 1 /\ pic'.isr = {}
      BY <1>2, <2>2, <2>7 DEF Shape
    <3>2. ExceptionFrame(Outermost)'
      BY <2>5, <3>1 DEF Outermost
    <3>. QED  BY <2>3, <2>4, <2>6, <3>1, <3>2 DEF Shape
  <2>8. CASE Len(frames) # 0
    <3>1. frames'[Len(frames')] = Outermost
      BY <1>3, <2>2, <2>8 DEF Outermost
    <3>2. Len(frames') # 0 /\ pic'.isr = pic.isr
      BY <1>2, <1>3, <2>2
    <3>3. CASE Busy(Outermost)
      <4>1. Busy(Outermost)'
        BY <1>2, <2>2, <3>1, <3>3 DEF Busy, IrqFrame, Outermost, Called, Unretired, Own
      <4>. QED  BY <2>3, <2>4, <2>6, <3>2, <4>1 DEF Shape
    <3>4. CASE ExceptionFrame(Outermost) /\ pic.isr = {}
      <4>1. ExceptionFrame(Outermost)'
        BY <3>1, <3>4 DEF ExceptionFrame, Outermost
      <4>. QED  BY <2>3, <2>4, <2>6, <3>2, <3>4, <4>1 DEF Shape
    <3>. QED  BY <2>8, <3>3, <3>4 DEF Shape
  <2>. QED  BY <2>7, <2>8
<1>6. CASE idt[v] # OurGate(v)
  <2>1. ~ Present(idt[v])
    BY <1>1, <1>6 DEF SetUpSoFar, Present, NoGate
  <2>2. stage' = "reset" /\ ifl' = FALSE /\ UNCHANGED <<idt, interrupt_handlers, pic, frames>>
    BY <1>2, <2>1 DEF Enter
  <2>3. stage # "on"
    BY <1>1, <1>6 DEF SetUpSoFar
  <2>4. TypeOK' /\ SetUpSoFar' /\ Masked'
    BY <2>2 DEF TypeOK, SetUpSoFar, Masked
  <2>5. Shape'
    BY <2>2, <2>3 DEF Shape, Outermost, Busy
  <2>. QED  BY <2>4, <2>5
<1>. QED  BY <1>5, <1>6

(* What runs is the top frame, and its step rewrites that frame only.      *)
LEMMA Running1 ==
  ASSUME IInv, NEW label, At(label)
  PROVE  /\ frames \in Seq(Frame) /\ Len(frames) \in Nat \ {0} /\ frames # <<>>
         /\ Head(frames) = frames[1] /\ frames[1] \in Frame /\ frames[1].pc = label
         /\ ifl = FALSE
         /\ label \in {"call", "eoi_slave", "eoi_master", "iretq"} =>
               Len(frames) = 1 /\ Busy(frames[1])
<1>. USE DEF IInv
<1>1. /\ frames \in Seq(Frame) /\ frames # <<>> /\ Head(frames).pc = label
      /\ Len(frames) \in Nat \ {0}
  <2>1. frames \in Seq(Frame) /\ frames # <<>> /\ Head(frames).pc = label
    BY DEF At, TypeOK
  <2>2. Len(frames) \in Nat /\ Len(frames) # 0
    BY <2>1, Top
  <2>. QED  BY <2>1, <2>2
<1>2. Head(frames) = frames[1] /\ frames[1] \in Frame
  BY <1>1, Top
<1>3. ifl = FALSE
  BY <1>1 DEF Masked, TypeOK
<1>4. ASSUME label \in {"call", "eoi_slave", "eoi_master", "iretq"}
      PROVE  Len(frames) = 1 /\ Busy(frames[1])
  <2>1. ~ ExceptionFrame(frames[1])
    BY <1>1, <1>2, <1>4 DEF ExceptionFrame
  <2>2. Len(frames) = 1
    BY <1>1, <2>1, UnderTop DEF Shape
  <2>. QED  BY <2>1, <2>2 DEF Shape, Outermost
<1>. QED  BY <1>1, <1>2, <1>3, <1>4

(* A step of the handler that holds the only frame, an IRQ's.              *)
LEMMA TopPreserves ==
  ASSUME IInv, Len(frames) = 1, Busy(frames[1]), NEW f \in Frame,
         frames' = [frames EXCEPT ![1] = f], IrqFrame(f),
         pic' \in PicType, pic'.isr = Unretired(f),
         pic'.master = pic.master, pic'.slave = pic.slave,
         ifl' = FALSE, UNCHANGED <<stage, idt, interrupt_handlers>>
  PROVE  IInv'
<1>. USE DEF IInv
<1>1. frames \in Seq(Frame)
  BY DEF TypeOK
<1>. frames # <<>>
  BY NonEmpty
<1>2. frames' \in Seq(Frame) /\ Len(frames') = 1 /\ frames'[1] = f
  BY <1>1, Relabel
<1>3. TypeOK' /\ SetUpSoFar' /\ Masked'
  BY <1>2 DEF TypeOK, SetUpSoFar, Masked
<1>4. Busy(frames[1])'
  BY <1>2 DEF Busy, Unretired, Own, IrqFrame, Called
<1>5. Shape'
  <2>1. Len(frames') # 0 /\ Len(frames') - 1 = 0
    BY <1>2
  <2>2. Busy(Outermost)'
    BY <1>2, <1>4 DEF Outermost, Busy
  <2>3. \A i \in 1 .. Len(frames') - 1 : FALSE
    <3>1. \A i \in 1 .. 0 : FALSE
      OBVIOUS
    <3>. HIDE DEF IInv
    <3>. QED  BY <2>1, <3>1
  <2>. HIDE DEF IInv
  <2>. QED  BY <2>1, <2>2, <2>3 DEF Shape
<1>. QED  BY <1>3, <1>5

(* The stub clears IF, which its gate has already done.                    *)
LEMMA StubPreserves == ASSUME IInv, Stub PROVE IInv'
<1>. USE DEF IInv
<1>. DEFINE label == IF Head(frames).vec < 32 THEN "fault" ELSE "call"
            f == [frames[1] EXCEPT !.pc = label]
<1>1. /\ frames \in Seq(Frame) /\ Len(frames) \in Nat \ {0} /\ frames # <<>>
      /\ Head(frames) = frames[1] /\ frames[1] \in Frame /\ frames[1].pc = "stub"
  BY Running1 DEF Stub
<1>2. frames' = [frames EXCEPT ![1] = f]
  BY <1>1 DEF Stub, Goto
<1>3. f \in Frame /\ f.vec = frames[1].vec /\ f.line = frames[1].line
      /\ f.saved = frames[1].saved /\ f.ran = frames[1].ran /\ f.pc = label
  BY <1>1 DEF Frame
<1>4. CASE Busy(frames[1])
  <2>1. f.pc = "call" /\ Len(frames) = 1
    <3>1. ~ frames[1].vec < 32
      BY <1>1, <1>4 DEF Busy, IrqFrame, Frame, Vector
    <3>2. Len(frames) = 1
      BY <1>1, <3>1, UnderTop DEF Shape, ExceptionFrame
    <3>. QED  BY <1>1, <1>3, <3>1, <3>2
  <2>. HIDE DEF f
  <2>2. IrqFrame(f)
    BY <1>3, <1>4, <2>1 DEF Busy, IrqFrame, Called
  <2>3. pic'.isr = Unretired(f)
    BY <1>1, <1>3, <1>4, <2>1 DEF Busy, Unretired, Own, Stub
  <2>4. /\ pic' \in PicType /\ pic'.master = pic.master /\ pic'.slave = pic.slave
        /\ ifl' = FALSE /\ UNCHANGED <<stage, idt, interrupt_handlers>>
    BY DEF Stub, TypeOK
  <2>. QED  BY <1>2, <1>3, <1>4, <2>1, <2>2, <2>3, <2>4, TopPreserves
<1>5. CASE ExceptionFrame(frames[1])
  <2>1. f.pc = "fault" /\ f.vec < 32
    BY <1>1, <1>3, <1>5 DEF ExceptionFrame
  <2>. HIDE DEF f
  <2>2. /\ frames' \in Seq(Frame) /\ Len(frames') = Len(frames) /\ frames'[1] = f
        /\ \A i \in 2 .. Len(frames) : frames'[i] = frames[i]
    BY <1>1, <1>2, <1>3, Relabel
  <2>3. TypeOK' /\ SetUpSoFar' /\ Masked'
    BY <2>2 DEF Stub, TypeOK, SetUpSoFar, Masked
  <2>4. ExceptionFrame(frames[1])'
    BY <2>1, <2>2 DEF ExceptionFrame
  <2>5. \A i \in 1 .. Len(frames') - 1 : ExceptionFrame(frames'[i])
    <3>. SUFFICES ASSUME NEW i \in 1 .. Len(frames') - 1, i # 1
                  PROVE  ExceptionFrame(frames'[i])
      BY <2>4 DEF ExceptionFrame
    <3>1. i \in 2 .. Len(frames) /\ i \in 1 .. Len(frames) - 1
      BY <1>1, <2>2
    <3>. QED  BY <2>2, <3>1 DEF Shape
  <2>6. CASE Len(frames) = 1
    <3>1. pic'.isr = {}
      <4>1. ~ Busy(frames[1])
        BY <1>1, <1>5 DEF Busy, IrqFrame, ExceptionFrame, Frame, Vector
      <4>. QED  BY <2>6, <4>1 DEF Shape, Outermost, Stub
    <3>. QED  BY <2>2, <2>3, <2>4, <2>5, <2>6, <3>1 DEF Shape, Outermost
  <2>7. CASE Len(frames) # 1
    <3>1. frames'[Len(frames')] = Outermost /\ Len(frames') # 0
      BY <1>1, <2>2, <2>7 DEF Outermost
    <3>2. CASE Busy(Outermost)
      <4>1. Busy(Outermost)'
        BY <3>1, <3>2 DEF Stub, Busy, IrqFrame, Outermost, Called, Unretired, Own
      <4>. QED  BY <2>3, <2>5, <3>1, <4>1 DEF Shape
    <3>3. CASE ExceptionFrame(Outermost) /\ pic.isr = {}
      <4>1. ExceptionFrame(Outermost)' /\ pic'.isr = {}
        BY <3>1, <3>3 DEF ExceptionFrame, Outermost, Stub
      <4>. QED  BY <2>3, <2>5, <3>1, <4>1 DEF Shape
    <3>. QED  BY <1>1, <3>2, <3>3 DEF Shape
  <2>. QED  BY <2>6, <2>7
<1>6. Busy(frames[1]) \/ ExceptionFrame(frames[1])
  <2>1. CASE Len(frames) = 1
    BY <2>1 DEF Shape, Outermost
  <2>2. CASE Len(frames) # 1
    BY <1>1, <2>2, UnderTop DEF Shape
  <2>. QED  BY <2>1, <2>2
<1>. QED  BY <1>4, <1>5, <1>6

(* irq_handler calls what is registered for the frame's vector.            *)
LEMMA CallPreserves == ASSUME IInv, call_handler PROVE IInv'
<1>. USE DEF IInv
<1>. DEFINE vec == Head(frames).vec
            label == IF NeedsSlaveEoi(vec) THEN "eoi_slave" ELSE "eoi_master"
            f == [frames[1] EXCEPT !.ran = HandlerOf(vec), !.pc = label]
<1>1. /\ frames \in Seq(Frame) /\ frames # <<>> /\ Len(frames) = 1 /\ Busy(frames[1])
      /\ vec = frames[1].vec /\ frames[1] \in Frame /\ frames[1].pc = "call"
      /\ ifl = FALSE
  BY Running1 DEF call_handler
<1>2. frames' = [frames EXCEPT ![1] = f]
  BY <1>1 DEF call_handler
<1>3. HandlerOf(vec) \in Handlers \union {NULL}
  BY <1>1, InterruptsAssumption DEF HandlerOf, InTable, TypeOK, Slot, Frame, Vector
<1>4. f \in Frame /\ f.vec = frames[1].vec /\ f.line = frames[1].line
      /\ f.saved = frames[1].saved /\ f.ran = HandlerOf(vec) /\ f.pc = label
  BY <1>1, <1>3 DEF Frame
<1>5. frames[1].line # NULL => HandlerOf(vec) = interrupt_handlers[frames[1].line]
  <2>. SUFFICES ASSUME frames[1].line # NULL
                PROVE  HandlerOf(vec) = interrupt_handlers[frames[1].line]
    OBVIOUS
  <2>1. frames[1].line \in 0 .. 15 /\ vec = 32 + frames[1].line
    BY <1>1, InterruptsAssumption DEF Busy, IrqFrame, Lines
  <2>2. InTable(vec - 32) /\ vec - 32 = frames[1].line
    BY <2>1, InterruptsAssumption DEF InTable
  <2>. QED  BY <2>2 DEF HandlerOf
<1>. HIDE DEF f, vec
<1>6. IrqFrame(f)
  <2>1. f.pc = "eoi_slave" => f.vec >= 40
    BY <1>1, <1>4 DEF NeedsSlaveEoi
  <2>. QED  BY <1>1, <1>4, <1>5, <2>1 DEF Busy, IrqFrame, Called
<1>7. Unretired(f) = Own(frames[1])
  <2>1. CASE NeedsSlaveEoi(vec)
    BY <1>4, <2>1 DEF Unretired, Own
  <2>2. CASE ~ NeedsSlaveEoi(vec)
    <3>1. frames[1].vec < 40
      BY <1>1, <2>2 DEF NeedsSlaveEoi, Frame, Vector
    <3>2. Own(frames[1]) \subseteq MasterLines
      <4>1. CASE frames[1].line = NULL
        BY <3>1, <4>1 DEF Own
      <4>2. CASE frames[1].line # NULL
        <5>1. frames[1].line \in 0 .. 15 /\ frames[1].vec = 32 + frames[1].line
          BY <1>1, <4>2, InterruptsAssumption DEF Busy, IrqFrame, Lines
        <5>2. frames[1].line \in MasterLines /\ frames[1].line \notin SlaveLines
          BY <3>1, <5>1 DEF MasterLines, SlaveLines
        <5>. QED  BY <4>2, <5>2 DEF Own, Service
      <4>. QED  BY <4>1, <4>2
    <3>. QED  BY <1>4, <2>2, <3>2 DEF Unretired, Own
  <2>. QED  BY <2>1, <2>2
<1>8. pic'.isr = Unretired(f)
  BY <1>1, <1>7 DEF call_handler, Busy, Unretired
<1>9. /\ pic' \in PicType /\ pic'.master = pic.master /\ pic'.slave = pic.slave
      /\ ifl' = FALSE /\ UNCHANGED <<stage, idt, interrupt_handlers>>
  BY <1>1 DEF call_handler, TypeOK
<1>. QED  BY <1>1, <1>2, <1>4, <1>6, <1>8, <1>9, TopPreserves

(* An end of interrupt takes its lines out of service.                     *)
LEMMA EoiPreserves ==
  ASSUME IInv, NEW from, NEW to, NEW lines,
         At(from), Goto(to), UNCHANGED <<stage, ifl, idt, interrupt_handlers>>,
         pic' = Retire(pic, lines),
         \/ from = "eoi_slave" /\ to = "eoi_master" /\ lines = SlaveLines
         \/ from = "eoi_master" /\ to = "iretq" /\ lines = MasterLines
  PROVE  IInv'
<1>. USE DEF IInv
<1>. DEFINE f == [frames[1] EXCEPT !.pc = to]
<1>1. /\ frames \in Seq(Frame) /\ frames # <<>> /\ Len(frames) = 1 /\ Busy(frames[1])
      /\ frames[1] \in Frame /\ frames[1].pc = from /\ ifl = FALSE
  <2>1. from \in {"call", "eoi_slave", "eoi_master", "iretq"}
    OBVIOUS
  <2>. HIDE DEF IInv
  <2>. QED  BY <2>1, Running1
<1>2. frames' = [frames EXCEPT ![1] = f]
  BY <1>1 DEF Goto
<1>3. f \in Frame /\ f.vec = frames[1].vec /\ f.line = frames[1].line
      /\ f.saved = frames[1].saved /\ f.ran = frames[1].ran /\ f.pc = to
  BY <1>1 DEF Frame
<1>4. pic \in PicType /\ IrqFrame(frames[1]) /\ pic.isr = Unretired(frames[1])
  BY <1>1 DEF TypeOK, Busy
<1>5. pic' \in PicType /\ pic'.master = pic.master /\ pic'.slave = pic.slave
  BY <1>4, RetireKeeps
<1>. HIDE DEF f
<1>6. IrqFrame(f)
  BY <1>1, <1>3, <1>4 DEF IrqFrame, Called
<1>7. pic'.isr = Unretired(f)
  <2>1. CASE from = "eoi_slave"
    <3>1. to = "eoi_master" /\ lines = SlaveLines
      BY <2>1
    <3>2. pic'.isr = Own(frames[1]) \intersect MasterLines
      BY <1>1, <1>4, <2>1, <3>1, SlaveRetired
    <3>. QED  BY <1>3, <3>1, <3>2 DEF Unretired, Own
  <2>2. CASE from = "eoi_master"
    <3>1. to = "iretq" /\ lines = MasterLines
      BY <2>2
    <3>2. pic'.isr = {}
      BY <1>1, <1>4, <2>2, <3>1, MasterRetired
    <3>. QED  BY <1>3, <3>1, <3>2 DEF Unretired
  <2>. QED  BY <2>1, <2>2
<1>8. ifl' = FALSE /\ UNCHANGED <<stage, idt, interrupt_handlers>>
  BY <1>1
<1>. QED  BY <1>1, <1>2, <1>3, <1>5, <1>6, <1>7, <1>8, TopPreserves

(* Only a frame with nothing left to retire returns.                       *)
LEMMA IretqPreserves == ASSUME IInv, iretq PROVE IInv'
<1>. USE DEF IInv
<1>1. /\ frames \in Seq(Frame) /\ frames # <<>> /\ Len(frames) = 1 /\ Busy(frames[1])
      /\ Head(frames) = frames[1] /\ frames[1] \in Frame /\ frames[1].pc = "iretq"
  BY Running1 DEF iretq
<1>2. frames' \in Seq(Frame) /\ Len(frames') = 0
  BY <1>1, HeadTailProperties DEF iretq
<1>3. ifl' = TRUE /\ stage = "on" /\ pic.isr = {}
  BY <1>1 DEF iretq, Busy, IrqFrame, Unretired
<1>4. TypeOK' /\ SetUpSoFar' /\ Masked'
  BY <1>2, <1>3 DEF iretq, TypeOK, SetUpSoFar, Masked
<1>5. Shape'
  <2>1. pic'.isr = {}
    BY <1>3 DEF iretq
  <2>. QED  BY <1>2, <2>1 DEF Shape
<1>. QED  BY <1>4, <1>5

-----------------------------------------------------------------------------
(* The theorems                                                            *)

(* Every step of the system preserves the invariant.                       *)
LEMMA Inductive == IInv /\ [Next]_vars => IInv'
<1>. SUFFICES ASSUME IInv, [Next]_vars PROVE IInv'
  OBVIOUS
<1>1. CASE Setup
  BY <1>1, SetupPreserves
<1>2. CASE Client
  BY <1>2, ClientPreserves
<1>3. CASE Running
  <2>1. CASE Stub
    BY <2>1, StubPreserves
  <2>2. CASE fault_handler
    BY <2>2 DEF fault_handler, vars, IInv, TypeOK, SetUpSoFar, Masked, Shape, Outermost,
                Busy, IrqFrame
  <2>3. CASE call_handler
    BY <2>3, CallPreserves
  <2>4. CASE EoiSlave
    <3>1. /\ At("eoi_slave") /\ Goto("eoi_master") /\ pic' = Retire(pic, SlaveLines)
          /\ UNCHANGED <<stage, ifl, idt, interrupt_handlers>>
      BY <2>4 DEF EoiSlave, SendEoi, SlaveCommand
    <3>. QED  BY <3>1, EoiPreserves
  <2>5. CASE EoiMaster
    <3>1. /\ At("eoi_master") /\ Goto("iretq") /\ pic' = Retire(pic, MasterLines)
          /\ UNCHANGED <<stage, ifl, idt, interrupt_handlers>>
      BY <2>5 DEF EoiMaster, SendEoi, MasterCommand
    <3>. QED  BY <3>1, EoiPreserves
  <2>6. CASE iretq
    BY <2>6, IretqPreserves
  <2>. QED  BY <1>3, <2>1, <2>2, <2>3, <2>4, <2>5, <2>6 DEF Running
<1>4. CASE Accept
  BY <1>4, DeliverPreserves DEF Accept
<1>5. CASE Devices
  BY <1>5, RaisePreserves, SpuriousPreserves, FaultPreserves DEF Devices
<1>6. CASE UNCHANGED vars
  BY <1>6 DEF vars, IInv, TypeOK, SetUpSoFar, Masked, Shape, Outermost, Busy, IrqFrame
<1>. QED  BY <1>1, <1>2, <1>3, <1>4, <1>5, <1>6 DEF Next

(* The inductive invariant holds in every reachable state.                 *)
THEOREM Invariant == Spec => []IInv
  BY Initially, Inductive, PTL DEF Spec

(* Every variable keeps its type: in particular register_handler never     *)
(* writes outside interrupt_handlers, whatever index it is given.          *)
THEOREM TypeCorrect == Spec => []TypeOK
<1>1. IInv => TypeOK
  BY DEF IInv
<1>. QED  BY <1>1, Invariant, PTL

(* With IF set the CPU is in main and both controllers are idle.           *)
THEOREM IdleOnceEnabled == Spec => []IdleWhenEnabled
<1>1. IInv => IdleWhenEnabled
  <2>. SUFFICES ASSUME IInv, ifl PROVE frames = <<>> /\ pic.isr = {}
    BY DEF IdleWhenEnabled
  <2>1. Len(frames) = 0 /\ pic.isr = {} /\ frames \in Seq(Frame)
    BY DEF IInv, Masked, Shape, TypeOK
  <2>. QED  BY <2>1, Top
<1>. QED  BY <1>1, Invariant, PTL

(* Either no frame is an IRQ's and nothing is in service, or the outermost *)
(* alone is, and it owns what is in service.                               *)
LEMMA IrqsOfShape ==
  ASSUME IInv
  PROVE  /\ Len(frames) \in Nat
         /\ \/ Irqs = {} /\ pic.isr = {}
            \/ /\ Len(frames) # 0 /\ Irqs = {Len(frames)}
               /\ Busy(frames[Len(frames)])
<1>1. /\ DOMAIN frames = 1 .. Len(frames) /\ Len(frames) \in Nat
      /\ \A i \in 1 .. Len(frames) : frames[i] \in Frame
  BY Top DEF IInv, TypeOK
<1>2. CASE Len(frames) = 0
  BY <1>1, <1>2 DEF Irqs, IInv, Shape
<1>3. CASE Len(frames) # 0
  <2>1. \A i \in 1 .. Len(frames) - 1 : i \notin Irqs
    BY <1>1 DEF IInv, Shape, Irqs, ExceptionFrame, Frame, Vector
  <2>2. \A i \in 1 .. Len(frames) : i = Len(frames) \/ i \in 1 .. Len(frames) - 1
    <3>1. \A n \in Nat : \A i \in 1 .. n : i = n \/ i \in 1 .. n - 1
      OBVIOUS
    <3>. QED  BY <1>1, <3>1
  <2>3. Irqs \subseteq {Len(frames)}
    BY <1>1, <2>1, <2>2 DEF Irqs
  <2>4. Len(frames) \in 1 .. Len(frames) /\ frames[Len(frames)] \in Frame
    BY <1>1, <1>3
  <2>5. CASE Busy(frames[Len(frames)])
    <3>1. frames[Len(frames)].vec >= 32
      BY <2>5 DEF Busy, IrqFrame
    <3>. QED  BY <1>1, <1>3, <2>3, <2>4, <2>5, <3>1 DEF Irqs
  <2>6. CASE ExceptionFrame(frames[Len(frames)]) /\ pic.isr = {}
    <3>1. ~ frames[Len(frames)].vec >= 32
      BY <2>4, <2>6 DEF ExceptionFrame, Frame, Vector
    <3>. QED  BY <1>1, <2>3, <2>6, <3>1 DEF Irqs
  <2>. QED  BY <1>3, <2>5, <2>6 DEF IInv, Shape, Outermost
<1>. QED  BY <1>1, <1>2, <1>3

(* Interrupt handlers never nest: only exceptions interrupt one, and each  *)
(* other, however many there are.                                          *)
THEOREM NeverNested == Spec => []OneAtATime
<1>1. IInv => OneAtATime
  BY IrqsOfShape DEF OneAtATime
<1>. QED  BY <1>1, Invariant, PTL

(* The controllers have in service exactly what the running handler is     *)
(* still going to retire.                                                  *)
THEOREM ServiceMatchesFrame == Spec => []InServiceMatchesFrame
<1>1. IInv => InServiceMatchesFrame
  <2>. SUFFICES ASSUME IInv PROVE InServiceMatchesFrame
    OBVIOUS
  <2>1. \/ Irqs = {} /\ pic.isr = {}
        \/ \E i \in Nat : Irqs = {i} /\ pic.isr = Unretired(frames[i])
    BY IrqsOfShape DEF Busy
  <2>. QED  BY <2>1 DEF InServiceMatchesFrame
<1>. QED  BY <1>1, Invariant, PTL

(* An interrupt runs the function registered for its own line.             *)
THEOREM RightHandlerRuns == Spec => []RightHandler
<1>1. IInv => RightHandler
  <2>. SUFFICES ASSUME IInv PROVE RightHandler
    OBVIOUS
  <2>1. \A i \in Irqs : IrqFrame(frames[i])
    BY IrqsOfShape DEF Busy
  <2>. QED  BY <2>1 DEF RightHandler, IrqFrame, Called
<1>. QED  BY <1>1, Invariant, PTL

(* Once interrupts are on the machine never resets for want of a gate.     *)
THEOREM NeverReset == Spec => NoResetOnceOn
<1>1. IInv /\ [Next]_vars => (stage = "on" => stage' = "on")
  <2>. SUFFICES ASSUME IInv, stage = "on", [Next]_vars PROVE stage' = "on"
    OBVIOUS
  <2>1. CASE Setup
    BY <2>1 DEF Setup, idt_install, irq_install, isrs_install, sti
  <2>2. CASE Client
    BY <2>2 DEF Client, register_handler, unregister_handler, SetHandler
  <2>3. CASE Running
    BY <2>3 DEF Running, Stub, fault_handler, vars, call_handler, EoiSlave, EoiMaster, iretq
  <2>4. ASSUME NEW n \in Lines, NEW line \in Lines \union {NULL}, Enter(VectorOf(pic, n), line)
        PROVE  stage' = "on"
    <3>1. VectorOf(pic, n) = 32 + n /\ Present(idt[32 + n])
      BY DEF IInv, SetUpSoFar, VectorOf, Lines, SlaveLines, OurGate, GateFlags, Present
    <3>. QED  BY <2>4, <3>1 DEF Enter
  <2>5. CASE Accept
    <3>1. PICK n \in Raisable : Deliver(n)
      BY <2>5 DEF Accept
    <3>2. n \in Lines /\ Enter(VectorOf(pic, n), n)
      BY <3>1, InterruptsAssumption DEF Deliver
    <3>. QED  BY <2>4, <3>2
  <2>6. CASE \E n \in Raisable : Raise(n)
    BY <2>6 DEF Raise
  <2>7. CASE \E n \in Spurious : DeliverSpurious(n)
    <3>1. PICK n \in Spurious : DeliverSpurious(n)
      BY <2>7
    <3>2. n \in Lines /\ Enter(VectorOf(pic, n), NULL)
      BY <3>1, InterruptsAssumption DEF DeliverSpurious, Lines
    <3>. QED  BY <2>4, <3>2
  <2>8. CASE \E v \in Exceptions : Fault(v)
    <3>1. PICK v \in Exceptions : Fault(v)
      BY <2>8
    <3>2. v \in 0 .. 31
      BY InterruptsAssumption
    <3>3. Present(idt[v])
      BY <3>2 DEF IInv, SetUpSoFar, OurGate, GateFlags, Present
    <3>. QED  BY <3>1, <3>3 DEF Fault, Enter
  <2>9. CASE UNCHANGED vars
    BY <2>9 DEF vars
  <2>10. CASE Devices
    BY <2>6, <2>7, <2>8, <2>10 DEF Devices
  <2>. QED  BY <2>1, <2>2, <2>3, <2>5, <2>9, <2>10 DEF Next
<1>2. IInv /\ [Next]_vars => [stage = "on" => stage' = "on"]_vars
  BY <1>1
<1>. QED  BY <1>2, Invariant, PTL DEF NoResetOnceOn, Spec

(* After an exception the frames on the stack stay there for good, only    *)
(* further exceptions come on top, no end of interrupt is sent, and no     *)
(* handler changes.                                                        *)
THEOREM FaultsAreFinal == Spec => FaultIsFinal
<1>. DEFINE Final == /\ Above >= 0
                     /\ \A i \in DOMAIN frames :
                          /\ i > 1 => frames'[i + Above] = frames[i]
                          /\ i = 1 => frames'[i + Above].vec = frames[i].vec
                     /\ \A i \in 1 .. Above : frames'[i].vec < 32
                     /\ ~ ifl' /\ pic'.isr = pic.isr
                     /\ UNCHANGED interrupt_handlers
<1>1. IInv /\ [Next]_vars => (Faulted => Final)
  <2>. SUFFICES ASSUME IInv, Faulted, [Next]_vars PROVE Final
    OBVIOUS
  <2>1. /\ frames \in Seq(Frame) /\ frames # <<>> /\ Head(frames) = frames[1]
        /\ frames[1] \in Frame /\ frames[1].vec < 32
        /\ Len(frames) \in Nat /\ DOMAIN frames = 1 .. Len(frames)
    BY Top, EmptySeq DEF Faulted, IInv, TypeOK
  <2>2. ~ InMain
    BY <2>1 DEF InMain
  <2>3. ifl = FALSE
    BY <2>1, Top DEF IInv, Masked, TypeOK
  <2>4. ASSUME NEW label \in {"call", "eoi_slave", "eoi_master", "iretq"}
        PROVE  ~ At(label)
    <3>. SUFFICES ASSUME At(label) PROVE FALSE
      OBVIOUS
    <3>1. Busy(frames[1])
      BY Running1
    <3>. QED  BY <2>1, <3>1 DEF Busy, IrqFrame, Frame, Vector
  <2>5. CASE Stub
    <3>. DEFINE f == [frames[1] EXCEPT !.pc = IF frames[1].vec < 32 THEN "fault" ELSE "call"]
    <3>1. frames' = [frames EXCEPT ![1] = f] /\ f \in Frame /\ f.vec = frames[1].vec
      BY <2>1, <2>5 DEF Stub, Goto, Frame
    <3>. HIDE DEF f
    <3>2. frames' \in Seq(Frame) /\ Len(frames') = Len(frames) /\ frames'[1] = f
      BY <2>1, <3>1, Relabel
    <3>3. Above = 0 /\ \A i \in 2 .. Len(frames) : frames'[i] = frames[i]
      <4>1. \A i \in 2 .. Len(frames) : frames'[i] = frames[i]
        BY <2>1, <3>1, Relabel
      <4>. QED  BY <2>1, <3>2, <4>1 DEF Above
    <3>4. \A i \in DOMAIN frames : i + 0 = i /\ (i > 1 => i \in 2 .. Len(frames))
      BY <2>1
    <3>. QED  BY <2>1, <2>5, <3>1, <3>2, <3>3, <3>4 DEF Stub
  <2>6. ASSUME UNCHANGED <<ifl, frames, interrupt_handlers>>, pic'.isr = pic.isr
        PROVE  Final
    <3>1. Above = 0 /\ \A i \in DOMAIN frames : i + 0 = i
      BY <2>1, <2>6 DEF Above
    <3>. QED  BY <2>3, <2>6, <3>1
  <2>7. CASE \E n \in Raisable : Raise(n)
    <3>1. UNCHANGED <<ifl, frames, interrupt_handlers>> /\ pic'.isr = pic.isr
      BY <2>7 DEF Raise, Latch, IInv, TypeOK, PicType
    <3>. QED  BY <2>6, <3>1
  <2>8. ~ Setup /\ ~ Client /\ ~ Accept
    BY <2>2, <2>3 DEF Setup, idt_install, irq_install, isrs_install, sti, Client,
       register_handler, unregister_handler, SetHandler, Accept, Deliver
  <2>9. ~ (\E n \in Spurious : DeliverSpurious(n))
    BY <2>3 DEF DeliverSpurious
  <2>10. CASE \E v \in Exceptions : Fault(v)
    <3>1. PICK v \in Exceptions : Fault(v)
      BY <2>10
    <3>2. v \in 0 .. 31 /\ v \in 0 .. 47 /\ Enter(v, NULL) /\ UNCHANGED pic
      BY <3>1, InterruptsAssumption DEF Fault
    <3>3. CASE idt[v] = OurGate(v)
      <4>. DEFINE e == [vec |-> v, line |-> NULL, saved |-> ifl, pc |-> "stub", ran |-> NULL]
      <4>1. TypeOK /\ NULL \in Lines \union {NULL}
        BY DEF IInv
      <4>2. /\ ifl' = FALSE /\ UNCHANGED interrupt_handlers
            /\ Len(frames') = Len(frames) + 1 /\ frames'[1] = e
            /\ \A i \in 1 .. Len(frames) : frames'[i + 1] = frames[i]
        BY <3>2, <3>3, <4>1, EnterGate
      <4>3. frames'[1].vec = v
        BY <4>2
      <4>. HIDE DEF e
      <4>4. Above = 1
        BY <2>1, <4>2 DEF Above
      <4>5. \A i \in 1 .. 1 : frames'[i].vec < 32
        BY <3>2, <4>3
      <4>. QED  BY <2>1, <3>2, <4>2, <4>4, <4>5
    <3>4. CASE idt[v] # OurGate(v)
      <4>1. ~ Present(idt[v])
        BY <3>2, <3>4, InterruptsAssumption DEF IInv, SetUpSoFar, Present, NoGate, Vector
      <4>2. UNCHANGED <<ifl, frames, interrupt_handlers>> /\ pic'.isr = pic.isr
        BY <2>3, <3>2, <4>1 DEF Enter
      <4>. QED  BY <2>6, <4>2
    <3>. QED  BY <3>3, <3>4
  <2>11. ~ call_handler /\ ~ EoiSlave /\ ~ EoiMaster /\ ~ iretq
    BY <2>4 DEF call_handler, EoiSlave, EoiMaster, iretq
  <2>12. fault_handler => UNCHANGED vars
    BY DEF fault_handler
  <2>13. CASE UNCHANGED vars
    BY <2>6, <2>13 DEF vars
  <2>14. CASE Running
    BY <2>5, <2>11, <2>12, <2>14, <2>13 DEF Running
  <2>15. CASE Devices
    BY <2>7, <2>9, <2>15, <2>10 DEF Devices
  <2>. QED  BY <2>8, <2>14, <2>15, <2>13 DEF Next
<1>2. IInv /\ [Next]_vars => [Faulted => Final]_vars
  BY <1>1
<1>. QED  BY <1>2, Invariant, PTL DEF FaultIsFinal, Spec
-----------------------------------------------------------------------------
(* The service every line gets                                             *)

(* No line is ever masked.                                                 *)
Unmasked == pic.imr = {}

(* No line is ever masked.                                                 *)
LEMMA NothingMasked == Spec => []Unmasked
<1>1. Init => Unmasked
  BY DEF Init, Unmasked
<1>2. IInv /\ Unmasked /\ [Next]_vars => Unmasked'
  <2>. SUFFICES ASSUME IInv, Unmasked, [Next]_vars PROVE Unmasked'
    OBVIOUS
  <2>1. pic \in PicType
    BY DEF IInv, TypeOK
  <2>2. UNCHANGED pic => Unmasked'
    BY DEF Unmasked
  <2>3. CASE Setup
    BY <2>1, <2>2, <2>3 DEF Setup, idt_install, irq_install, isrs_install, sti, irq_remap, Initialise,
       PicType, Unmasked
  <2>4. CASE Client
    BY <2>2, <2>4 DEF Client, register_handler, unregister_handler, SetHandler
  <2>5. CASE Running
    BY <2>1, <2>2, <2>5 DEF Running, Stub, fault_handler, vars, call_handler, EoiSlave, EoiMaster, iretq,
       SendEoi, Retire, PicType, Unmasked
  <2>6. CASE Accept
    BY <2>1, <2>6 DEF Accept, Deliver, Acknowledge, PicType, Unmasked
  <2>7. CASE Devices
    BY <2>1, <2>2, <2>7 DEF Devices, Raise, Latch, DeliverSpurious, AcknowledgeSpurious, Fault, PicType,
       Unmasked
  <2>8. CASE UNCHANGED vars
    BY <2>2, <2>8 DEF vars
  <2>. QED  BY <2>3, <2>4, <2>5, <2>6, <2>7, <2>8 DEF Next
<1>. QED  BY <1>1, <1>2, Invariant, PTL DEF Spec

(* The lines whose handlers are on stack s.                                *)
ActiveIn(s) == {s[i].line : i \in {j \in DOMAIN s : s[j].vec >= 32}} \ {NULL}

(* A frame pushed is a line's if it is an interrupt of a device.           *)
LEMMA PushActive ==
  ASSUME NEW s \in Seq(Frame), NEW t \in Seq(Frame), Len(t) = Len(s) + 1,
         \A i \in 1 .. Len(s) : t[i + 1] = s[i]
  PROVE  ActiveIn(t) = ActiveIn(s) \union
                       (IF t[1].vec >= 32 THEN {t[1].line} \ {NULL} ELSE {})
<1>1. Len(s) \in Nat /\ DOMAIN s = 1 .. Len(s) /\ DOMAIN t = 1 .. Len(s) + 1
  BY Top
<1>. DEFINE Of(u) == {j \in DOMAIN u : u[j].vec >= 32}
<1>2. ASSUME NEW i \in Of(t), i # 1
      PROVE  \E j \in Of(s) : t[i].line = s[j].line
  <2>1. i - 1 \in 1 .. Len(s) /\ t[(i - 1) + 1] = s[i - 1] /\ (i - 1) + 1 = i
    BY <1>1, <1>2
  <2>. QED  BY <1>1, <1>2, <2>1
<1>3. ASSUME NEW j \in Of(s)
      PROVE  \E i \in Of(t) : i # 1 /\ t[i].line = s[j].line
  <2>1. j + 1 \in DOMAIN t /\ t[j + 1] = s[j] /\ j + 1 # 1
    BY <1>1
  <2>. QED  BY <2>1
<1>4. 1 \in Of(t) <=> t[1].vec >= 32
  BY <1>1
<1>5. ActiveIn(s) = {s[i].line : i \in Of(s)} \ {NULL} /\ ActiveIn(t) = {t[i].line : i \in Of(t)} \ {NULL}
  BY DEF ActiveIn
<1>. DEFINE L(u) == {u[j].line : j \in Of(u)}
<1>. HIDE DEF Of
<1>6. L(t) = L(s) \union (IF 1 \in Of(t) THEN {t[1].line} ELSE {})
  <2>1. \A l \in L(t) : l \in L(s) \/ (1 \in Of(t) /\ l = t[1].line)
    BY <1>2
  <2>2. \A l \in L(s) : l \in L(t)
    BY <1>3
  <2>3. 1 \in Of(t) => t[1].line \in L(t)
    OBVIOUS
  <2>. HIDE DEF L
  <2>. QED  BY <2>1, <2>2, <2>3
<1>7. ActiveIn(s) = L(s) \ {NULL} /\ ActiveIn(t) = L(t) \ {NULL}
  BY <1>5
<1>. HIDE DEF L
<1>. QED  BY <1>4, <1>6, <1>7

(* A handler's step leaves the line of its frame.                          *)
LEMMA RelabelActive ==
  ASSUME NEW s \in Seq(Frame), NEW t \in Seq(Frame), Len(t) = Len(s),
         s # <<>> => t[1].vec = s[1].vec /\ t[1].line = s[1].line,
         \A i \in 2 .. Len(s) : t[i] = s[i]
  PROVE  ActiveIn(t) = ActiveIn(s)
<1>1. Len(s) \in Nat /\ DOMAIN s = 1 .. Len(s) /\ DOMAIN t = 1 .. Len(s) /\ (s = <<>> <=> Len(s) = 0)
  BY Top
<1>2. \A i \in 1 .. Len(s) : t[i].vec = s[i].vec /\ t[i].line = s[i].line
  BY <1>1
<1>. QED  BY <1>1, <1>2 DEF ActiveIn

(* Stub, call_handler and the end-of-interrupt commands rewrite the top    *)
(* frame's place only.                                                     *)
LEMMA HandlerKeepsActive ==
  ASSUME IInv, Stub \/ call_handler \/ EoiSlave \/ EoiMaster
  PROVE  ActiveIn(frames') = ActiveIn(frames)
<1>1. PICK label \in {"stub", "call", "eoi_slave", "eoi_master"} : At(label)
  BY DEF Stub, call_handler, EoiSlave, EoiMaster
<1>2. /\ frames \in Seq(Frame) /\ frames # <<>> /\ Len(frames) \in Nat \ {0}
      /\ Head(frames) = frames[1] /\ frames[1] \in Frame
  BY <1>1, Running1
<1>3. frames' \in Seq(Frame)
  <2>1. IInv'
    BY Inductive DEF Next, Running
  <2>. QED  BY <2>1 DEF IInv, TypeOK
<1>4. PICK f \in Frame : frames' = [frames EXCEPT ![1] = f] /\ f.vec = frames[1].vec /\ f.line = frames[1].line
  <2>1. CASE call_handler
    <3>. DEFINE f == [frames[1] EXCEPT !.ran = HandlerOf(frames[1].vec),
                        !.pc = IF NeedsSlaveEoi(frames[1].vec) THEN "eoi_slave" ELSE "eoi_master"]
    <3>1. frames' = [frames EXCEPT ![1] = f]
      BY <1>2, <2>1 DEF call_handler
    <3>2. f.vec = frames[1].vec /\ f.line = frames[1].line
      BY <1>2 DEF Frame
    <3>3. HandlerOf(frames[1].vec) \in Handlers \union {NULL}
      BY <1>2, InterruptsAssumption DEF HandlerOf, InTable, IInv, TypeOK, Slot, Frame, Vector
    <3>4. f \in Frame
      BY <1>2, <3>3 DEF Frame
    <3>. QED  BY <3>1, <3>2, <3>4
  <2>2. ASSUME NEW place \in {"fault", "call", "eoi_master", "iretq"}, Goto(place)
        PROVE  \E f \in Frame : /\ frames' = [frames EXCEPT ![1] = f]
                                /\ f.vec = frames[1].vec /\ f.line = frames[1].line
    <3>. DEFINE f == [frames[1] EXCEPT !.pc = place]
    <3>1. frames' = [frames EXCEPT ![1] = f]
      BY <1>2, <2>2 DEF Goto
    <3>2. f \in Frame /\ f.vec = frames[1].vec /\ f.line = frames[1].line
      BY <1>2 DEF Frame
    <3>. QED  BY <3>1, <3>2
  <2>3. Stub \/ EoiSlave \/ EoiMaster => \E place \in {"fault", "call", "eoi_master", "iretq"} : Goto(place)
    BY DEF Stub, EoiSlave, EoiMaster
  <2>. QED  BY <2>1, <2>2, <2>3
<1>5. Len(frames') = Len(frames) /\ frames'[1] = f /\ \A i \in 2 .. Len(frames) : frames'[i] = frames[i]
  BY <1>2, <1>4, Relabel
<1>. QED  BY <1>2, <1>3, <1>4, <1>5, RelabelActive

(* Only a line's interrupt makes it the active one; it finds none active.  *)
LEMMA AcceptActive ==
  ASSUME IInv, ifl, NEW n \in Lines, NEW line \in Lines \union {NULL}, Enter(VectorOf(pic, n), line)
  PROVE  /\ stage = "on" /\ UNCHANGED stage
         /\ ActiveIn(frames) = {} /\ ActiveIn(frames') = {line} \ {NULL}
<1>1. stage = "on" /\ frames \in Seq(Frame) /\ Len(frames) = 0
  BY DEF IInv, Masked, TypeOK
<1>2. pic.master = 32 /\ pic.slave = 40 /\ \A v \in 32 .. 47 : idt[v] = OurGate(v)
  <2>1. SetUpSoFar
    BY DEF IInv
  <2>. QED  BY <1>1, <2>1 DEF SetUpSoFar
<1>3. PICK v \in 32 .. 47 : VectorOf(pic, n) = v
  BY <1>2 DEF VectorOf, Lines, SlaveLines
<1>4. /\ UNCHANGED stage /\ frames' \in Seq(Frame) /\ Len(frames') = Len(frames) + 1
      /\ frames'[1].vec = v /\ frames'[1].line = line
      /\ \A i \in 1 .. Len(frames) : frames'[i + 1] = frames[i]
  <2>1. v \in 0 .. 47 /\ idt[v] = OurGate(v) /\ Enter(v, line) /\ TypeOK
    BY <1>2, <1>3 DEF IInv
  <2>2. /\ UNCHANGED <<stage, idt, interrupt_handlers>>
        /\ frames' \in Seq(Frame) /\ Len(frames') = Len(frames) + 1
        /\ frames'[1] = [vec |-> v, line |-> line, saved |-> ifl, pc |-> "stub", ran |-> NULL]
        /\ \A i \in 1 .. Len(frames) : frames'[i + 1] = frames[i]
    BY <2>1, EnterGate
  <2>. QED  BY <2>2
<1>5. ActiveIn(frames) = {}
  BY <1>1, Top DEF ActiveIn
<1>6. ActiveIn(frames') = {line} \ {NULL}
  <2>1. ActiveIn(frames') = ActiveIn(frames) \union
                            (IF frames'[1].vec >= 32 THEN {frames'[1].line} \ {NULL} ELSE {})
    BY <1>1, <1>4, PushActive
  <2>2. frames'[1].vec >= 32 /\ frames'[1].line = line
    BY <1>3, <1>4
  <2>. QED  BY <1>5, <2>1, <2>2
<1>. QED  BY <1>1, <1>4, <1>5, <1>6

(* An exception changes neither the active line nor whether requests are   *)
(* accepted.                                                               *)
LEMMA FaultActive ==
  ASSUME IInv, NEW v \in Exceptions, Fault(v)
  PROVE  /\ (stage = "on") <=> (stage' = "on")
         /\ ActiveIn(frames') = ActiveIn(frames)
<1>1. v \in 0 .. 47 /\ v < 32 /\ v \in Vector
  BY InterruptsAssumption DEF Vector
<1>2. frames \in Seq(Frame) /\ Enter(v, NULL) /\ TypeOK
  BY DEF IInv, TypeOK, Fault
<1>3. CASE idt[v] = OurGate(v)
  <2>1. NULL \in Lines \union {NULL}
    OBVIOUS
  <2>2. /\ UNCHANGED <<stage, idt, interrupt_handlers>>
        /\ frames' \in Seq(Frame) /\ Len(frames') = Len(frames) + 1
        /\ frames'[1] = [vec |-> v, line |-> NULL, saved |-> ifl, pc |-> "stub", ran |-> NULL]
        /\ \A i \in 1 .. Len(frames) : frames'[i + 1] = frames[i]
    BY <1>1, <1>2, <1>3, <2>1, EnterGate
  <2>3. ~ (frames'[1].vec >= 32)
    <3>1. frames'[1].vec = v
      BY <2>2
    <3>2. \A w \in 0 .. 47 : w < 32 => ~ (w >= 32)
      OBVIOUS
    <3>. QED  BY <1>1, <3>1, <3>2
  <2>4. ActiveIn(frames') = ActiveIn(frames) \union {}
    BY <1>2, <2>2, <2>3, PushActive
  <2>. QED  BY <2>2, <2>4
<1>4. CASE idt[v] # OurGate(v)
  <2>1. ~ Present(idt[v]) /\ stage # "on"
    BY <1>1, <1>4, InterruptsAssumption DEF IInv, SetUpSoFar, Present, NoGate
  <2>. QED  BY <1>2, <2>1 DEF Enter
<1>. QED  BY <1>3, <1>4

(* Every step is one of the service's or changes nothing it knows of.      *)
LEMMA StepRefined ==
  ASSUME IInv, Unmasked, [Next]_vars
  PROVE  [Service1!Next]_Service1!vars
<1>1. ASSUME UNCHANGED <<pic, frames>>, (stage = "on") <=> (stage' = "on")
      PROVE  UNCHANGED Service1!vars
  BY <1>1 DEF Service1!vars, Irqs
<1>2. ASSUME (stage = "on") <=> (stage' = "on"), pic'.irr = pic.irr, ActiveIn(frames') = ActiveIn(frames)
      PROVE  UNCHANGED Service1!vars
  BY <1>2 DEF Service1!vars, Irqs, ActiveIn
<1>3. pic \in PicType /\ frames \in Seq(Frame)
  BY DEF IInv, TypeOK
<1>4. CASE Setup
  <2>1. CASE idt_install \/ isrs_install
    BY <1>1, <2>1 DEF idt_install, isrs_install
  <2>2. CASE irq_install
    <3>1. pic'.irr = {} /\ stage # "on" /\ stage' # "on" /\ UNCHANGED frames
      BY <1>3, <2>2 DEF irq_install, irq_remap, Initialise, PicType
    <3>2. Service1!Forget
      BY <3>1 DEF Service1!Forget, Irqs
    <3>. QED  BY <3>2 DEF Service1!Next
  <2>3. CASE sti
    <3>1. Service1!Open
      BY <2>3 DEF sti, Service1!Open, Irqs
    <3>. QED  BY <3>1 DEF Service1!Next
  <2>. QED  BY <1>4, <2>1, <2>2, <2>3 DEF Setup
<1>5. CASE Client
  BY <1>1, <1>5 DEF Client, register_handler, unregister_handler, SetHandler
<1>6. CASE Running
  <2>1. CASE fault_handler
    BY <1>1, <2>1 DEF fault_handler, vars
  <2>2. CASE Stub \/ call_handler \/ EoiSlave \/ EoiMaster
    <3>1. ActiveIn(frames') = ActiveIn(frames)
      BY <2>2, HandlerKeepsActive
    <3>2. UNCHANGED stage /\ pic'.irr = pic.irr
      BY <1>3, <2>2 DEF Stub, call_handler, EoiSlave, EoiMaster, SendEoi, Retire, PicType
    <3>. QED  BY <1>2, <3>1, <3>2
  <2>3. CASE iretq
    <3>1. /\ frames # <<>> /\ Len(frames) = 1
      BY <2>3, Running1 DEF iretq
    <3>2. frames' \in Seq(Frame) /\ Len(frames') = 0
      BY <1>3, <2>3, <3>1, HeadTailProperties DEF iretq
    <3>3. ActiveIn(frames') = {}
      BY <3>2, Top DEF ActiveIn
    <3>4. Service1!Complete
      BY <2>3, <3>3 DEF iretq, Service1!Complete, ActiveIn, Irqs
    <3>. QED  BY <3>4 DEF Service1!Next
  <2>. QED  BY <1>6, <2>1, <2>2, <2>3 DEF Running
<1>7. CASE Accept
  <2>1. PICK n \in Raisable : Deliver(n)
    BY <1>7 DEF Accept
  <2>2. n \in Lines /\ NULL \notin Lines
    BY InterruptsAssumption
  <2>3. stage = "on" /\ UNCHANGED stage /\ ActiveIn(frames) = {} /\ ActiveIn(frames') = {n}
    BY <2>1, <2>2, AcceptActive DEF Deliver
  <2>4. pic.isr = {} /\ pic.imr = {}
    BY <2>1 DEF Deliver, IInv, Masked, Shape, Unmasked
  <2>5. Eligible(pic) = pic.irr
    BY <2>4 DEF Eligible, Blocked
  <2>6. n \in pic.irr /\ \A m \in pic.irr : Rank(n) <= Rank(m)
    BY <2>1, <2>5 DEF Deliver, Wins
  <2>7. pic'.irr = pic.irr \ {n}
    BY <1>3, <2>1 DEF Deliver, Acknowledge, PicType
  <2>8. Service1!Serve(n)
    BY <2>3, <2>6, <2>7 DEF Service1!Serve, Service1!Rank, Rank, Service1!SlaveLines, SlaveLines, ActiveIn, Irqs
  <2>. QED  BY <2>8 DEF Service1!Next
<1>8. CASE Devices
  <2>1. ASSUME NEW n \in Raisable, Raise(n)
        PROVE  Service1!Request(n)
    <3>1. pic'.irr = pic.irr \union {n} /\ UNCHANGED <<stage, frames>>
      BY <1>3, <2>1 DEF Raise, Latch, PicType
    <3>. QED  BY <3>1 DEF Service1!Request, Irqs
  <2>2. ASSUME NEW n \in Spurious, DeliverSpurious(n)
        PROVE  UNCHANGED Service1!vars
    <3>1. n \in Lines
      BY InterruptsAssumption DEF Lines
    <3>2. UNCHANGED stage /\ ActiveIn(frames) = {} /\ ActiveIn(frames') = {}
      BY <2>2, <3>1, AcceptActive DEF DeliverSpurious
    <3>3. pic'.irr = pic.irr
      BY <1>3, <2>2 DEF DeliverSpurious, AcknowledgeSpurious, PicType
    <3>. QED  BY <1>2, <3>2, <3>3
  <2>3. ASSUME NEW v \in Exceptions, Fault(v)
        PROVE  UNCHANGED Service1!vars
    <3>1. pic'.irr = pic.irr
      BY <2>3 DEF Fault
    <3>. QED  BY <1>2, <2>3, <3>1, FaultActive
  <2>. QED  BY <1>8, <2>1, <2>2, <2>3 DEF Devices, Service1!Next
<1>9. CASE UNCHANGED vars
  BY <1>1, <1>9 DEF vars
<1>. QED  BY <1>4, <1>5, <1>6, <1>7, <1>8, <1>9 DEF Next

(* Interrupt dispatch gives each line the service IrqService describes:    *)
(* each request is served once, one at a time, by priority.                *)
THEOREM ServiceImplemented == Spec => ImplementsIrqService
<1>1. Init => Service1!Init
  BY EmptySeq DEF Init, Service1!Init, Irqs
<1>2. IInv /\ Unmasked /\ [Next]_vars => [Service1!Next]_Service1!vars
  BY StepRefined
<1>. QED  BY <1>1, <1>2, Invariant, NothingMasked, PTL DEF Spec, ImplementsIrqService, Service1!Spec
=============================================================================
