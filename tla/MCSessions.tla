------------------------------ MODULE MCSessions ------------------------------
(* Instances of Sessions for TLC.                                          *)
EXTENDS Sessions, TLC

RequestSymmetry == Permutations(Requests)
UserSymmetry == Permutations(Users)
Symmetry == RequestSymmetry \cup UserSymmetry
=============================================================================
