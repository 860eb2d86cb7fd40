----------------------------- MODULE MCPageStore -----------------------------
(* Instances of PageStore for TLC.                                         *)
EXTENDS PageStore, TLC

\* One song of two pages, and one id for an import or a create to draw.
TwoPages == [g \in Songs |-> IF g = "old" THEN <<"p1", "p2">> ELSE <<>>]

RequestSymmetry == Permutations(Requests)
=============================================================================
