----------------------------- MODULE MCRateLimit -----------------------------
(* Instances of RateLimit for TLC.                                         *)
EXTENDS RateLimit, TLC

\* A rate, a quota over a longer window, and an action configured off.
MCLimit == [b \in Buckets |-> CASE b = "rate" -> 1 [] b = "quota" -> 2
                                [] b = "off" -> 0]
MCWindow == [b \in Buckets |-> CASE b = "rate" -> 2 [] b = "quota" -> 3
                                 [] b = "off" -> 1]

\* Recognitions, uploads and saves charge a rate and then a quota, the others
\* one bucket.
MCRoutes == {<<"rate", "quota">>, <<"quota">>, <<"rate">>, <<"off">>}

RequestSymmetry == Permutations(Requests)
=============================================================================
