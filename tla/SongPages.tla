------------------------------ MODULE SongPages ------------------------------
(***************************************************************************)
(* What the library promises about a song, without numbers, files or       *)
(* requests: it is a sequence of pages, a new page goes to the end, and a  *)
(* deleted one leaves the others in their order.                           *)
(***************************************************************************)
EXTENDS Sequences, SequencesExt

CONSTANTS
  Songs,
  Scans

VARIABLE book   \* [Songs -> Seq(Scans)], the pages of a song in order

AddLast(g) ==
  \E s \in Scans :
    /\ \A h \in Songs : ~ Contains(book[h], s)
    /\ book' = [book EXCEPT ![g] = Append(@, s)]

RemoveOne(g) ==
  \E i \in DOMAIN book[g] : book' = [book EXCEPT ![g] = RemoveAt(@, i)]

Clear(g) == book' = [book EXCEPT ![g] = <<>>]

BInit == book \in [Songs -> Seq(Scans)]
BNext == \E g \in Songs : AddLast(g) \/ RemoveOne(g) \/ Clear(g)
BSpec == BInit /\ [][BNext]_book
=============================================================================
