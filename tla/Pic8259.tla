------------------------------- MODULE Pic8259 -------------------------------
(***************************************************************************)
(* The two cascaded 8259A interrupt controllers, as much of them as        *)
(* InterruptDescriptorTable.c relies on.  They are hardware, outside the   *)
(* repository: irq_remap programs them, irq_handler sends them             *)
(* end-of-interrupt commands, and they decide which line interrupts the    *)
(* CPU.  A controller pair is a record:                                    *)
(*   irr, isr, imr : the lines latched, in service and masked              *)
(*   master, slave : the vectors of lines 0 and 8                          *)
(***************************************************************************)
EXTENDS Integers

Lines       == 0 .. 15
MasterLines == 0 .. 7
SlaveLines  == 8 .. 15
Cascade     == 2              \* the master input the slave is wired to

PicType == [irr : SUBSET Lines, isr : SUBSET Lines, imr : SUBSET Lines,
            master : 0 .. 255, slave : 0 .. 255]

(* ICW1 clears the edge latches, the in-service bits and the masks.        *)
Initialise(p, master, slave) ==
  [p EXCEPT !.irr = {}, !.isr = {}, !.imr = {},
            !.master = master, !.slave = slave]

(* A rising edge on input n is latched until it is acknowledged.           *)
Latch(p, n) == [p EXCEPT !.irr = @ \union {n}]

(* Fixed priority: 0, 1, then the slave's 8..15 through input 2, then 3..7 *)
Rank(n) == IF n \in SlaveLines THEN n - 6 ELSE IF n < 2 THEN n ELSE n + 8

(* A line in service holds back its own and every lower priority.          *)
Blocked(p, n) ==
  \E m \in p.isr :
     \/ m \in MasterLines /\ n \in MasterLines /\ m <= n
     \/ m \in MasterLines /\ n \in SlaveLines  /\ m <= Cascade
     \/ m \in SlaveLines  /\ n \in SlaveLines  /\ m <= n

Eligible(p)  == {n \in p.irr \ p.imr : ~ Blocked(p, n)}
Wins(p, n)   == n \in Eligible(p) /\ \A m \in Eligible(p) : Rank(n) <= Rank(m)
VectorOf(p, n) == IF n \in SlaveLines THEN p.slave + n - 8 ELSE p.master + n

(* The CPU's acknowledge cycle moves line n from irr to isr; a slave line  *)
(* occupies the cascade input of the master as well.                       *)
Service(n) == IF n \in SlaveLines THEN {n, Cascade} ELSE {n}
Acknowledge(p, n) ==
  [p EXCEPT !.irr = @ \ {n}, !.isr = @ \union Service(n)]

(* The line dropped before the acknowledge cycle: the controller answers   *)
(* with its lowest priority, 7 or 15, and marks nothing in service but the *)
(* cascade input when it is the slave that answers.                        *)
AcknowledgeSpurious(p, n) ==
  [p EXCEPT !.isr = @ \union (Service(n) \ {n})]

(* A non-specific EOI retires the controller's highest line in service.    *)
Retire(p, lines) ==
  [p EXCEPT !.isr = @ \ {m \in p.isr \intersect lines :
                            \A k \in p.isr \intersect lines : m <= k}]
=============================================================================
