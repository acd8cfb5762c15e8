------------------------------- MODULE MCMain -------------------------------
(***************************************************************************)
(* The two main programs, each on its own: kernel_main, and the UEFI       *)
(* application at its real resolution, on cards with up to two of five     *)
(* modes: the right one, with and without padding of its lines, one of the *)
(* wrong format, and one smaller and one larger.                           *)
(***************************************************************************)
EXTENDS MCKernel, EfiMain

MCMode(h, v, format, line) == [h |-> h, v |-> v, format |-> format, line |-> line]
MCModes == {MCMode(1024, 768, "BGR", 1024), MCMode(1024, 768, "BGR", 1088),
            MCMode(1024, 768, "RGB", 1024), MCMode(800, 600, "BGR", 800),
            MCMode(1280, 1024, "BGR", 1280)}

-----------------------------------------------------------------------------
VARIABLE program                                 (* the program looked at   *)

programVars == <<program, vars, appVars>>

(* A program that is not looked at stays in one first state.               *)
ProgramInit ==
  /\ program \in {"kernel_main", "efi_main"}
  /\ Init
  /\ AppInit
  /\ program # "efi_main" => card = <<>>

KernelPart(A) == program = "kernel_main" /\ A /\ UNCHANGED <<program, appVars>>
AppPart(A)    == program = "efi_main" /\ A /\ UNCHANGED <<program, vars>>

ProgramNext == KernelPart(Next) \/ AppPart(AppNext)

(* The fairness of Kernel's FairSpec.                                      *)
ProgramSpec ==
  /\ ProgramInit /\ [][ProgramNext]_programVars
  /\ WF_programVars(KernelPart(Main)) /\ WF_irqVars(KernelPart(Irq!Running))
  /\ SF_irqVars(KernelPart(Irq!Deliver(0))) /\ SF_irqVars(KernelPart(Irq!Deliver(1)))
=============================================================================
