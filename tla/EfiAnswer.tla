------------------------------ MODULE EfiAnswer ------------------------------
(***************************************************************************)
(* What the modules on functions of gnu-efi without a state of their own   *)
(* have in common: one call is made, on something, and returns a result.   *)
(***************************************************************************)
VARIABLE asked                        \* <<the call made, on what, its result>>

question == asked[1]
subject  == asked[2]
answer   == asked[3]

Init == asked = <<"none", <<>>, <<>>>>
Ask(q, s, a) == asked' = <<q, s, a>>
Again == question # "none" /\ UNCHANGED asked
=============================================================================
