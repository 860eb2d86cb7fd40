---------------------------- MODULE MCRecognition ----------------------------
(* Instances of Recognition for TLC.                                       *)
EXTENDS Recognition, TLC

\* Two pages of one song: the deletes of a page and of the song both race.
OneSongOf == [s \in Scans |-> CHOOSE song \in Songs : TRUE]

RequestSymmetry == Permutations(Requests)
=============================================================================
