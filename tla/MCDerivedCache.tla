---------------------------- MODULE MCDerivedCache ----------------------------
(* Instances of DerivedCache for TLC.                                      *)
EXTENDS DerivedCache, TLC

RequestSymmetry == Permutations(Requests)
=============================================================================
