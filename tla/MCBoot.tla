-------------------------------- MODULE MCBoot --------------------------------
(* Boot with two addresses. *)
EXTENDS Boot, TLC
Symmetry == Permutations(Emails)
===============================================================================
