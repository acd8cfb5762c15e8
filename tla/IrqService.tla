----------------------------- MODULE IrqService -----------------------------
(***************************************************************************)
(* What the interrupt system promises its devices: once it accepts         *)
(* requests, each pending one is served exactly once, one at a time,       *)
(* higher priority first.  Interrupts.tla implements it.                   *)
(***************************************************************************)
EXTENDS Pic8259

CONSTANT Raisable     \* the lines a device is wired to

VARIABLES
  accepting,          \* are interrupts on?
  pending,            \* the lines with a request
  active              \* the line being served, as a set of at most one

vars == <<accepting, pending, active>>

Init == accepting = FALSE /\ pending = {} /\ active = {}

Request(n) ==
  /\ pending' = pending \union {n}
  /\ UNCHANGED <<accepting, active>>

(* Requests made before the controllers were programmed are forgotten.     *)
Forget ==
  /\ ~ accepting
  /\ pending' = {}
  /\ UNCHANGED <<accepting, active>>

Open ==
  /\ ~ accepting
  /\ accepting' = TRUE
  /\ UNCHANGED <<pending, active>>

Serve(n) ==
  /\ accepting /\ active = {}
  /\ n \in pending /\ \A m \in pending : Rank(n) <= Rank(m)
  /\ pending' = pending \ {n}
  /\ active' = {n}
  /\ UNCHANGED accepting

Complete ==
  /\ active' = {}
  /\ UNCHANGED <<accepting, pending>>

Next == Forget \/ Open \/ Complete \/ \E n \in Raisable : Request(n) \/ Serve(n)
Spec == Init /\ [][Next]_vars
=============================================================================
