------------------------------- MODULE MCBare -------------------------------
(***************************************************************************)
(* What the kernel is made of, each part on its own: start-up, interrupt   *)
(* dispatch and the units, on small instances. Page tables of 64 entries;  *)
(* a screen of 3 rows of 2 cells; a letter, a shift, left control and left *)
(* arrow; an 8-bit int, 3 ticks a second, 4 seconds a minute, 5 minutes an *)
(* hour; a frame buffer of 4 by 3 pixels.                                  *)
(***************************************************************************)
EXTENDS Units, Paging, Interrupts, TLC

MCGlyphs   == {"a", "f", " "}
MCFirst    == <<"f", "f">>
MCLast     == <<"f">>
MCKeys     == {29, 30, 42}
MCCursor   == {75}
MCExtended == {29, 75}                \* right control: the code of the left one
MCScancode == 29 :> "nul" @@ 30 :> "a" @@ 42 :> "nul" @@ 75 :> "nul" @@ 96 :> "nul"
MCUpper    == "a" :> "A" @@ "nul" :> "nul"
MCValues   == -128 .. 127
MCBases    == {1, 2, 10, 16, 36, 37}
MCXs       == {0, 1, 3, 4, 5, 15}
MCYs       == {0, 1, 2, 3, 15}
MCSizes    == {0, 1, 2, 3, 4, 5, 15}

-----------------------------------------------------------------------------
VARIABLE part                                    (* the part looked at      *)

bareVars == <<part, unitsVars, bootVars, vars>>

(* A part that is not looked at stays in one first state.                  *)
BareInit ==
  /\ part \in {"start-up", "interrupts", "units"}
  /\ BootInit
  /\ part # "start-up" => ~ \E f \in DOMAIN machine : machine[f]
  /\ Init
  /\ UnitsInit
  /\ part # "units" => unit = "console"

StartUpPart(A)    == part = "start-up" /\ A /\ UNCHANGED <<part, unitsVars, vars>>
InterruptsPart(A) == part = "interrupts" /\ A /\ UNCHANGED <<part, unitsVars, bootVars>>
UnitsPart(A)      == part = "units" /\ A /\ UNCHANGED <<part, bootVars, vars>>

BareNext == StartUpPart(PagingNext) \/ InterruptsPart(Next) \/ UnitsPart(UnitsNext)

(* The fairness of PagingFairSpec and of FairSpec.                         *)
BareSpec ==
  /\ BareInit /\ [][BareNext]_bareVars
  /\ SF_bareVars(StartUpPart(CodeStep)) /\ WF_bareVars(StartUpPart(LookUp))
  /\ WF_bareVars(InterruptsPart(Setup)) /\ WF_bareVars(InterruptsPart(Running))
  /\ WF_bareVars(InterruptsPart(Accept))

(* The keyboard alone.                                                     *)
KeyboardSpec ==
  /\ BareInit /\ part = "units" /\ unit = "keyboard"
  /\ [][UnitsPart(Keyboard)]_bareVars

(* Start-up ends in the error report or in kernel_main's loop, unless the  *)
(* CPU has to look the kernel's page up after its entry was rewritten.     *)
StartUpEnds == part = "start-up" => StartsUp
=============================================================================
