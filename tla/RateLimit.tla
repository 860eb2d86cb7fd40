------------------------------ MODULE RateLimit ------------------------------
(***************************************************************************)
(* The rate limits and quotas of backend/app/security.py: one table of     *)
(* stamped events, one sliding window per bucket (an action and a          *)
(* subject), and routes that charge one bucket or a rate and then a quota. *)
(*                                                                         *)
(* `now` is read before the DELETE that takes SQLite's write lock, so a    *)
(* request may wait for the lock with a stamp that grows old, and events   *)
(* are inserted out of the order of their stamps.                          *)
(***************************************************************************)
EXTENDS Naturals, Sequences, FiniteSets

CONSTANTS
  Buckets,    \* pairs of an action and a subject
  Limit,      \* [Buckets -> Nat], the configured limits
  Window,     \* [Buckets -> Nat], window_seconds
  Routes,     \* what the routes charge, in order: sequences of buckets
  Requests,   \* HTTP requests, each served once
  Retention,  \* LIMIT_EVENT_RETENTION_SECONDS
  Patience,   \* sqlite3's busy timeout: how old a stamp gets before its use
  Horizon     \* bound: the last second of the run

ASSUME LimitAssumption == Limit \in [Buckets -> Nat]
ASSUME WindowAssumption == Window \in [Buckets -> Nat]
ASSUME RoutesAssumption == Routes \subseteq Seq(Buckets)
ASSUME TimeAssumption == Retention \in Nat /\ Patience \in Nat /\ Horizon \in Nat

\* 172 800 s against windows of at most 86 400 s and a timeout of 5 s.
ASSUME RetentionAssumption ==
  \A b \in Buckets : Window[b] + Patience <= Retention

VARIABLES
  clock,      \* the second the wall clock shows
  pc,         \* where each request is
  left,       \* the buckets it has still to charge
  now,        \* its local `now`
  rows,       \* the table security_limit_events
  admitted    \* history: every event that was ever inserted

vars == <<clock, pc, left, now, rows, admitted>>

Events == [by : Requests, bucket : Buckets, at : Nat]

TypeOK ==
  /\ clock \in Nat
  /\ pc \in [Requests -> {"idle", "stamp", "check", "served", "denied", "failed"}]
  /\ left \in [Requests -> Seq(Buckets)]
  /\ now \in [Requests -> Nat]
  /\ rows \in SUBSET Events
  /\ admitted \in SUBSET Events

-----------------------------------------------------------------------------
Init ==
  /\ clock = 0
  /\ pc = [r \in Requests |-> "idle"]
  /\ left = [r \in Requests |-> <<>>]
  /\ now = [r \in Requests |-> 0]
  /\ rows = {}
  /\ admitted = {}

Goto(r, place) == pc' = [pc EXCEPT ![r] = place]

Arrive(r) ==
  /\ pc[r] = "idle"
  /\ \E route \in Routes :
       /\ route # <<>>
       /\ left' = [left EXCEPT ![r] = route]
  /\ Goto(r, "stamp")
  /\ UNCHANGED <<clock, now, rows, admitted>>

\* A limit below one refuses without touching the table; otherwise the clock
\* is read before the lock is asked for.
Stamp(r) ==
  /\ pc[r] = "stamp"
  /\ IF Limit[Head(left[r])] < 1
       THEN Goto(r, "denied") /\ UNCHANGED now
       ELSE Goto(r, "check") /\ now' = [now EXCEPT ![r] = clock]
  /\ UNCHANGED <<clock, left, rows, admitted>>

\* Seeded bug: events are dropped at the end of the shortest window.
SweepShort(n) ==
  {e \in rows : \A b \in Buckets : e.at + Window[b] >= n}

\* The rows the DELETE leaves.
Sweep(n) == {e \in rows : e.at + Retention >= n}

\* Seeded bug: an event exactly one window old still counts.
InWindowClosed(e, b, n) == e.bucket = b /\ e.at + Window[b] >= n

\* `occurred_at > cutoff`: also true of stamps newer than the request's own.
InWindow(e, b, n) == e.bucket = b /\ e.at + Window[b] > n

\* Seeded bug: the window is full only when it holds more than its limit.
FullLate(r, b) ==
  Cardinality({e \in Sweep(now[r]) : InWindow(e, b, now[r])}) > Limit[b]

\* The window that ends at the request's stamp holds its limit.
Full(r, b) ==
  Cardinality({e \in Sweep(now[r]) : InWindow(e, b, now[r])}) >= Limit[b]

\* The event charges the bucket, and the next bucket of the route is up.
Admit(r) ==
  /\ pc[r] = "check"
  /\ LET b == Head(left[r])
         event == [by |-> r, bucket |-> b, at |-> now[r]]
     IN  /\ ~ Full(r, b)
         /\ rows' = Sweep(now[r]) \cup {event}
         /\ admitted' = admitted \cup {event}
         /\ left' = [left EXCEPT ![r] = Tail(left[r])]
         /\ Goto(r, IF Tail(left[r]) = <<>> THEN "served" ELSE "stamp")
  /\ UNCHANGED <<clock, now>>

\* 429: only the sweep is committed, a denial charges nothing more.
Deny(r) ==
  /\ pc[r] = "check"
  /\ Full(r, Head(left[r]))
  /\ rows' = Sweep(now[r])
  /\ Goto(r, "denied")
  /\ UNCHANGED <<clock, left, now, admitted>>

\* The write lock does not come in time: "database is locked", a bare 500.
LockTimeout(r) ==
  /\ pc[r] = "check"
  /\ Goto(r, "failed")
  /\ UNCHANGED <<clock, left, now, rows, admitted>>

\* A stamp is used, or given up with the lock, before it is older than the
\* busy timeout.
Tick ==
  /\ clock < Horizon
  /\ \A r \in Requests : pc[r] = "check" => clock < now[r] + Patience
  /\ clock' = clock + 1
  /\ UNCHANGED <<pc, left, now, rows, admitted>>

\* The process restarts: requests in flight are lost, prune_expired sweeps.
Reboot ==
  /\ pc' = [r \in Requests |-> IF pc[r] \in {"stamp", "check"}
                                 THEN "failed" ELSE pc[r]]
  /\ rows' = Sweep(clock)
  /\ UNCHANGED <<clock, left, now, admitted>>

Step(r) == Stamp(r) \/ Admit(r) \/ Deny(r) \/ LockTimeout(r)

Next ==
  \/ \E r \in Requests : Arrive(r) \/ Step(r)
  \/ Tick
  \/ Reboot

Spec == Init /\ [][Next]_vars

-----------------------------------------------------------------------------
(* Properties.                                                             *)

\* The events of bucket b stamped in the window that ends with second t.
Within(b, t) ==
  {e \in admitted : e.bucket = b /\ e.at <= t /\ t < e.at + Window[b]}

\* No window, wherever it ends, ever holds more admitted requests than the
\* limit: neither stamps inserted out of order, nor the sweeps, nor a restart
\* lets one more through (_limited).
WindowBound ==
  \A b \in Buckets, t \in 0..(Horizon + Patience) :
    Cardinality(Within(b, t)) <= Limit[b]

\* A denial is earned: as many requests as the limit were admitted within the
\* window before the denied request's stamp, or after it.
DenialIsEarned ==
  [][\A r \in Requests :
       pc[r] = "check" /\ pc'[r] = "denied" =>
         LET b == Head(left[r]) IN
           Cardinality({e \in admitted : /\ e.bucket = b
                                         /\ now[r] < e.at + Window[b]}) >= Limit[b]]_vars

\* The table forgets nothing a window can still see: an event that a request
\* with a legal stamp would count is still a row, whoever swept last.
NothingSweptEarly ==
  \A e \in admitted :
    clock < e.at + Window[e.bucket] + Patience => e \in rows
=============================================================================
