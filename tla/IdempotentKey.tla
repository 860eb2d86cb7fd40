---------------------------- MODULE IdempotentKey ----------------------------
(***************************************************************************)
(* What an Idempotency-Key promises its clients, without requests, runs or *)
(* tables: a key is claimed once, its claim gets at most one outcome, and  *)
(* that outcome never changes until the key is forgotten as a whole.       *)
(***************************************************************************)
EXTENDS Naturals, FiniteSets

CONSTANTS
  Keys,
  Outcomes,   \* the runs a claim can end in
  Free,       \* the key has no row
  Pending,    \* a claim under way, or one whose request was lost
  Lost        \* completed before outcomes were recorded

VARIABLE outcome   \* [Keys -> Outcomes \cup {Free, Pending, Lost}]

KInit == outcome \in [Keys -> {Free, Lost}]

Claim(k) ==
  /\ outcome[k] = Free
  /\ outcome' = [outcome EXCEPT ![k] = Pending]

\* An outcome settles one claim: two keys never share it.
Settle(k) ==
  /\ outcome[k] = Pending
  /\ \E o \in Outcomes :
       /\ \A other \in Keys : outcome[other] # o
       /\ outcome' = [outcome EXCEPT ![k] = o]

\* The page is deleted, or the keys are past their retention at boot.
Forget(K) ==
  outcome' = [k \in Keys |-> IF k \in K THEN Free ELSE outcome[k]]

KNext ==
  \/ \E k \in Keys : Claim(k) \/ Settle(k)
  \/ \E K \in SUBSET Keys : Forget(K)

KSpec == KInit /\ [][KNext]_outcome
=============================================================================
