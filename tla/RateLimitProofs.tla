--------------------------- MODULE RateLimitProofs ---------------------------
(***************************************************************************)
(* What holds of RateLimit for every set of buckets and requests, every    *)
(* limit, and every retention that outlasts the windows.                   *)
(***************************************************************************)
EXTENDS RateLimit, FiniteSetTheorems, SequenceTheorems, TLAPS

\* A request that is to charge still has a bucket to charge.
Route ==
  \A r \in Requests : pc[r] \in {"stamp", "check"} => left[r] # <<>>

\* A stamp waits for the lock at most Patience seconds.
FreshStamps ==
  \A r \in Requests :
    pc[r] = "check" => now[r] <= clock /\ clock <= now[r] + Patience

\* An event that is no longer a row is older than the retention.
SweptAreOld ==
  \A e \in admitted : e \notin rows => e.at + Retention < clock

\* The bound itself, over every window.
AllWindows ==
  \A b \in Buckets, t \in Nat : Cardinality(Within(b, t)) <= Limit[b]

Inv ==
  /\ TypeOK
  /\ Route
  /\ FreshStamps
  /\ rows \subseteq admitted
  /\ IsFiniteSet(admitted)
  /\ SweptAreOld
  /\ AllWindows

-----------------------------------------------------------------------------
\* A sweep keeps rows only.
LEMMA SweepRows == \A n \in Nat : Sweep(n) \subseteq rows
BY DEF Sweep

\* An event that a sweep with a fresh stamp drops is older than the retention.
LEMMA SweepDropsOld ==
  ASSUME TypeOK, NEW n \in Nat, n <= clock, NEW e \in rows, e \notin Sweep(n)
  PROVE  e.at + Retention < clock
<1>1. e.at \in Nat /\ clock \in Nat
  BY DEF TypeOK, Events
<1>2. e.at + Retention < n
  BY <1>1, TimeAssumption DEF Sweep
<1> QED
  BY <1>1, <1>2, TimeAssumption

LEMMA InitInv == Init => Inv
<1> SUFFICES ASSUME Init PROVE Inv
  OBVIOUS
<1>1. TypeOK
  BY EmptySeq DEF Init, TypeOK
<1>2. Route /\ FreshStamps /\ SweptAreOld /\ rows \subseteq admitted
  BY DEF Init, Route, FreshStamps, SweptAreOld
<1>3. IsFiniteSet(admitted)
  BY FS_EmptySet DEF Init
<1>4. AllWindows
  <2> SUFFICES ASSUME NEW b \in Buckets, NEW t \in Nat
               PROVE  Cardinality(Within(b, t)) <= Limit[b]
    BY DEF AllWindows
  <2>1. Within(b, t) = {}
    BY DEF Init, Within
  <2>2. Cardinality(Within(b, t)) = 0
    BY <2>1, FS_EmptySet
  <2> QED
    BY <2>2, LimitAssumption
<1> QED
  BY <1>1, <1>2, <1>3, <1>4 DEF Inv

-----------------------------------------------------------------------------
(* The window that admits an event has room for it.                        *)

\* An event of the history that shares a window with a fresh stamp is a row
\* its count sees: the sweeps cannot have dropped it.
LEMMA CountSeesWindow ==
  ASSUME Inv, NEW r \in Requests, pc[r] = "check", NEW b \in Buckets,
         NEW e \in admitted, e.bucket = b, now[r] < e.at + Window[b]
  PROVE  e \in Sweep(now[r]) /\ InWindow(e, b, now[r])
<1> DEFINE n == now[r]
<1>1. n \in Nat /\ clock \in Nat /\ e.at \in Nat /\ e.bucket \in Buckets
  BY DEF Inv, TypeOK, Events
<1>2. n <= clock /\ clock <= n + Patience
  BY DEF Inv, FreshStamps
<1>3. Window[b] \in Nat /\ Window[b] + Patience <= Retention
  BY WindowAssumption, RetentionAssumption
<1>4. n < e.at + Window[b]
  OBVIOUS
<1> HIDE DEF n
<1>5. ~ (e.at + Retention < clock)
  BY <1>1, <1>2, <1>3, <1>4, TimeAssumption
<1>6. e \in rows
  BY <1>5 DEF Inv, SweptAreOld
<1>7. e.at + Retention >= n
  BY <1>1, <1>3, <1>4, TimeAssumption
<1> QED
  BY <1>1, <1>4, <1>6, <1>7 DEF Sweep, InWindow, n

\* The admission keeps the bound of every window: the events that share a
\* window with the new one were all counted, and were fewer than the limit.
LEMMA AdmitWindows ==
  ASSUME Inv, NEW r \in Requests, Admit(r)
  PROVE  AllWindows'
<1> DEFINE b == Head(left[r])
           n == now[r]
           event == [by |-> r, bucket |-> b, at |-> n]
           counted == {e \in Sweep(n) : InWindow(e, b, n)}
<1>1. b \in Buckets
  BY HeadTailProperties DEF Inv, TypeOK, Route, Admit
<1>2. pc[r] = "check" /\ admitted' = admitted \cup {event}
  BY DEF Admit
<1>3. counted \subseteq admitted
  BY DEF Inv, Sweep
<1>4. IsFiniteSet(counted) /\ Cardinality(counted) \in Nat
  BY <1>3, FS_Subset, FS_CardinalityType DEF Inv
<1>5. Limit[b] \in Nat
  BY <1>1, LimitAssumption
<1>6. Cardinality(counted) < Limit[b]
  BY <1>4, <1>5 DEF Admit, Full
<1>7. n \in Nat
  BY DEF Inv, TypeOK
<1>8. event.bucket = b /\ event.at = n
  OBVIOUS
<1>9. \A e \in admitted : e.bucket = b /\ n < e.at + Window[b] => e \in counted
  BY <1>1, <1>2, CountSeesWindow
<1>10. IsFiniteSet(admitted)
  BY DEF Inv
<1> HIDE DEF b, n, event, counted
<1> SUFFICES ASSUME NEW c \in Buckets, NEW t \in Nat
             PROVE  Cardinality(Within(c, t)') <= Limit[c]
  BY DEF AllWindows
<1>11. Limit[c] \in Nat /\ Window[b] \in Nat
  BY <1>1, LimitAssumption, WindowAssumption
<1>12. CASE event \notin Within(c, t)'
  <2>1. Within(c, t)' \subseteq Within(c, t)
    BY <1>2, <1>12 DEF Within
  <2>2. IsFiniteSet(Within(c, t))
    BY <1>10, FS_Subset DEF Within
  <2>3. IsFiniteSet(Within(c, t)') /\ Cardinality(Within(c, t)') <= Cardinality(Within(c, t))
    BY <2>1, <2>2, FS_Subset
  <2>4. Cardinality(Within(c, t)') \in Nat /\ Cardinality(Within(c, t)) \in Nat
    BY <2>2, <2>3, FS_CardinalityType
  <2>5. Cardinality(Within(c, t)) <= Limit[c]
    BY DEF Inv, AllWindows
  <2> QED
    BY <1>11, <2>3, <2>4, <2>5
<1>13. CASE event \in Within(c, t)'
  <2>1. c = b /\ n <= t
    BY <1>8, <1>13 DEF Within
  <2>2. Within(c, t)' \subseteq counted \cup {event}
    <3> SUFFICES ASSUME NEW e \in Within(c, t)', e # event
                 PROVE  e \in counted
      OBVIOUS
    <3>1. e \in admitted /\ e.bucket = b /\ t < e.at + Window[b]
      BY <1>2, <2>1 DEF Within
    <3>2. e.at \in Nat
      BY <3>1 DEF Inv, TypeOK, Events
    <3>3. n < e.at + Window[b]
      BY <1>7, <1>11, <2>1, <3>1, <3>2
    <3> QED
      BY <1>9, <3>1, <3>3
  <2>3. /\ IsFiniteSet(counted \cup {event})
        /\ Cardinality(counted \cup {event}) \in Nat
        /\ Cardinality(counted \cup {event}) <= Cardinality(counted) + 1
    BY <1>4, FS_AddElement, FS_CardinalityType
  <2>4. /\ IsFiniteSet(Within(c, t)')
        /\ Cardinality(Within(c, t)') <= Cardinality(counted \cup {event})
    BY <2>2, <2>3, FS_Subset
  <2>5. Cardinality(Within(c, t)') \in Nat
    BY <2>4, FS_CardinalityType
  <2> QED
    BY <1>4, <1>6, <1>11, <2>1, <2>3, <2>4, <2>5
<1> QED
  BY <1>12, <1>13

-----------------------------------------------------------------------------
\* A step that admits nothing leaves every window alone.
LEMMA SameWindows ==
  ASSUME AllWindows, UNCHANGED admitted
  PROVE  AllWindows'
BY DEF AllWindows, Within

\* The sweep of a fresh stamp keeps the swept old.
LEMMA SweepInv ==
  ASSUME Inv, NEW n \in Nat, n <= clock, rows' = Sweep(n),
         UNCHANGED <<admitted, clock>>
  PROVE  rows' \subseteq admitted' /\ SweptAreOld'
BY SweepDropsOld DEF Inv, SweptAreOld, Sweep

LEMMA NextInv == Inv /\ [Next]_vars => Inv'
<1> SUFFICES ASSUME Inv, [Next]_vars PROVE Inv'
  OBVIOUS
<1> USE DEF Goto
<1>1. ASSUME NEW r \in Requests, Arrive(r) PROVE Inv'
  <2>1. TypeOK'
    BY <1>1, RoutesAssumption DEF Inv, TypeOK, Arrive
  <2>2. Route' /\ FreshStamps'
    BY <1>1 DEF Inv, TypeOK, Route, FreshStamps, Arrive
  <2>3. rows' \subseteq admitted' /\ IsFiniteSet(admitted') /\ SweptAreOld'
    BY <1>1 DEF Inv, SweptAreOld, Arrive
  <2>4. AllWindows'
    BY <1>1, SameWindows DEF Inv, Arrive
  <2> QED
    BY <2>1, <2>2, <2>3, <2>4 DEF Inv
<1>2. ASSUME NEW r \in Requests, Stamp(r) PROVE Inv'
  <2>1. TypeOK'
    BY <1>2 DEF Inv, TypeOK, Stamp
  <2>2. Route' /\ FreshStamps'
    BY <1>2, TimeAssumption DEF Inv, TypeOK, Route, FreshStamps, Stamp
  <2>3. rows' \subseteq admitted' /\ IsFiniteSet(admitted') /\ SweptAreOld'
    BY <1>2 DEF Inv, SweptAreOld, Stamp
  <2>4. AllWindows'
    BY <1>2, SameWindows DEF Inv, Stamp
  <2> QED
    BY <2>1, <2>2, <2>3, <2>4 DEF Inv
<1>3. ASSUME NEW r \in Requests, Admit(r) PROVE Inv'
  <2> DEFINE b == Head(left[r])
             event == [by |-> r, bucket |-> b, at |-> now[r]]
  <2>1. b \in Buckets /\ Tail(left[r]) \in Seq(Buckets)
    BY <1>3, HeadTailProperties DEF Inv, TypeOK, Route, Admit
  <2>2. now[r] \in Nat /\ now[r] <= clock
    BY <1>3 DEF Inv, TypeOK, FreshStamps, Admit
  <2>3. event \in Events
    BY <2>1, <2>2 DEF Events
  <2>4. rows' = Sweep(now[r]) \cup {event} /\ admitted' = admitted \cup {event}
    BY <1>3 DEF Admit
  <2> HIDE DEF b, event
  <2>5. rows' \in SUBSET Events /\ admitted' \in SUBSET Events
    BY <2>2, <2>3, <2>4, SweepRows DEF Inv, TypeOK
  <2>6. TypeOK'
    BY <1>3, <2>1, <2>5 DEF Inv, TypeOK, Admit
  <2>7. Route' /\ FreshStamps'
    BY <1>3 DEF Inv, TypeOK, Route, FreshStamps, Admit
  <2>8. rows' \subseteq admitted' /\ IsFiniteSet(admitted')
    BY <2>2, <2>4, SweepRows, FS_AddElement DEF Inv
  <2>9. SweptAreOld'
    <3>1. clock' = clock
      BY <1>3 DEF Admit
    <3> QED
      BY <2>2, <2>4, <3>1, SweepDropsOld DEF Inv, SweptAreOld
  <2>10. AllWindows'
    BY <1>3, AdmitWindows
  <2> QED
    BY <2>6, <2>7, <2>8, <2>9, <2>10 DEF Inv
<1>4. ASSUME NEW r \in Requests, Deny(r) PROVE Inv'
  <2>1. now[r] \in Nat /\ now[r] <= clock
    BY <1>4 DEF Inv, TypeOK, FreshStamps, Deny
  <2>2. rows' \subseteq admitted' /\ SweptAreOld'
    BY <1>4, <2>1, SweepInv DEF Deny
  <2>3. TypeOK'
    BY <1>4, <2>1, SweepRows DEF Inv, TypeOK, Deny
  <2>4. Route' /\ FreshStamps'
    BY <1>4 DEF Inv, TypeOK, Route, FreshStamps, Deny
  <2>5. AllWindows' /\ IsFiniteSet(admitted')
    BY <1>4, SameWindows DEF Inv, Deny
  <2> QED
    BY <2>2, <2>3, <2>4, <2>5 DEF Inv
<1>5. ASSUME NEW r \in Requests, LockTimeout(r) PROVE Inv'
  <2>1. TypeOK' /\ Route' /\ FreshStamps'
    BY <1>5 DEF Inv, TypeOK, Route, FreshStamps, LockTimeout
  <2>2. rows' \subseteq admitted' /\ IsFiniteSet(admitted') /\ SweptAreOld'
    BY <1>5 DEF Inv, SweptAreOld, LockTimeout
  <2>3. AllWindows'
    BY <1>5, SameWindows DEF Inv, LockTimeout
  <2> QED
    BY <2>1, <2>2, <2>3 DEF Inv
<1>6. CASE Tick
  <2>1. clock \in Nat /\ clock' = clock + 1
    BY <1>6 DEF Inv, TypeOK, Tick
  <2>2. TypeOK' /\ Route'
    BY <1>6, <2>1 DEF Inv, TypeOK, Route, Tick
  <2>3. FreshStamps'
    BY <1>6, <2>1, TimeAssumption DEF Inv, TypeOK, FreshStamps, Tick
  <2>4. rows' \subseteq admitted' /\ IsFiniteSet(admitted')
    BY <1>6 DEF Inv, Tick
  <2>5. SweptAreOld'
    <3> SUFFICES ASSUME NEW e \in admitted, e \notin rows
                 PROVE  e.at + Retention < clock + 1
      BY <1>6, <2>1 DEF SweptAreOld, Tick
    <3>1. e.at \in Nat /\ e.at + Retention < clock
      BY DEF Inv, TypeOK, Events, SweptAreOld
    <3> QED
      BY <2>1, <3>1, TimeAssumption
  <2>6. AllWindows'
    BY <1>6, SameWindows DEF Inv, Tick
  <2> QED
    BY <2>2, <2>3, <2>4, <2>5, <2>6 DEF Inv
<1>7. CASE Reboot
  <2>1. clock \in Nat /\ clock <= clock
    BY DEF Inv, TypeOK
  <2>2. rows' \subseteq admitted' /\ SweptAreOld'
    BY <1>7, <2>1, SweepInv DEF Reboot
  <2>3. TypeOK'
    BY <1>7, <2>1, SweepRows DEF Inv, TypeOK, Reboot
  <2>4. Route' /\ FreshStamps'
    BY <1>7 DEF Inv, TypeOK, Route, FreshStamps, Reboot
  <2>5. AllWindows' /\ IsFiniteSet(admitted')
    BY <1>7, SameWindows DEF Inv, Reboot
  <2> QED
    BY <2>2, <2>3, <2>4, <2>5 DEF Inv
<1>8. CASE UNCHANGED vars
  <2>1. TypeOK' /\ Route' /\ FreshStamps'
    BY <1>8 DEF Inv, TypeOK, Route, FreshStamps, vars
  <2>2. rows' \subseteq admitted' /\ IsFiniteSet(admitted') /\ SweptAreOld'
    BY <1>8 DEF Inv, SweptAreOld, vars
  <2>3. AllWindows'
    BY <1>8, SameWindows DEF Inv, vars
  <2> QED
    BY <2>1, <2>2, <2>3 DEF Inv
<1> QED
  BY <1>1, <1>2, <1>3, <1>4, <1>5, <1>6, <1>7, <1>8 DEF Next, Step

-----------------------------------------------------------------------------
\* The invariant of the table, its stamps and its windows holds in every run.
THEOREM Invariant == Spec => []Inv
<1>1. Init => Inv
  BY InitInv
<1>2. Inv /\ [Next]_vars => Inv'
  BY NextInv
<1> QED
  BY <1>1, <1>2, PTL DEF Spec

\* Stamps, rows and the buckets left keep their types.
THEOREM TypeCorrect == Spec => []TypeOK
<1>1. Inv => TypeOK
  BY DEF Inv
<1> QED
  BY <1>1, Invariant, PTL

\* _limited never lets a window hold more events than its limit, for every
\* limit, window and number of requests, in whatever order they get the lock.
THEOREM WindowHolds == Spec => []WindowBound
<1>1. Inv => WindowBound
  BY TimeAssumption DEF Inv, AllWindows, WindowBound
<1> QED
  BY <1>1, Invariant, PTL

\* The sweeps never drop an event that a window can still see.
THEOREM SweepsAreSafe == Spec => []NothingSweptEarly
<1>1. ASSUME Inv PROVE NothingSweptEarly
  <2> SUFFICES ASSUME NEW e \in admitted, clock < e.at + Window[e.bucket] + Patience,
                      e \notin rows
               PROVE  FALSE
    BY DEF NothingSweptEarly
  <2>1. e.at \in Nat /\ e.bucket \in Buckets /\ clock \in Nat
    BY <1>1 DEF Inv, TypeOK, Events
  <2>2. e.at + Retention < clock
    BY <1>1 DEF Inv, SweptAreOld
  <2>3. Window[e.bucket] \in Nat /\ Window[e.bucket] + Patience <= Retention
    BY <2>1, WindowAssumption, RetentionAssumption
  <2> QED
    BY <2>1, <2>2, <2>3, TimeAssumption
<1> QED
  BY <1>1, Invariant, PTL

\* A 429 means that the window really holds its limit.
THEOREM DenialsAreEarned == Spec => DenialIsEarned
<1> DEFINE Earned ==
      \A r \in Requests :
        pc[r] = "check" /\ pc'[r] = "denied" =>
          LET b == Head(left[r]) IN
            Cardinality({e \in admitted : /\ e.bucket = b
                                          /\ now[r] < e.at + Window[b]}) >= Limit[b]
<1>1. ASSUME Inv, Next PROVE Earned
  <2> SUFFICES ASSUME NEW r \in Requests, pc[r] = "check", pc'[r] = "denied"
               PROVE  Cardinality({e \in admitted :
                                     /\ e.bucket = Head(left[r])
                                     /\ now[r] < e.at + Window[Head(left[r])]})
                        >= Limit[Head(left[r])]
    OBVIOUS
  <2> DEFINE b == Head(left[r])
             counted == {e \in Sweep(now[r]) : InWindow(e, b, now[r])}
             seen == {e \in admitted : e.bucket = b /\ now[r] < e.at + Window[b]}
  <2>1. Deny(r)
    BY <1>1 DEF Inv, TypeOK, Next, Step, Goto, Arrive, Stamp, Admit, LockTimeout,
                Deny, Tick, Reboot
  <2>2. b \in Buckets
    BY <1>1, HeadTailProperties DEF Inv, TypeOK, Route
  <2>3. Cardinality(counted) >= Limit[b]
    BY <2>1 DEF Deny, Full
  <2>4. counted \subseteq seen
    <3> SUFFICES ASSUME NEW e \in counted PROVE e \in seen
      OBVIOUS
    <3>1. e \in admitted /\ e.bucket = b /\ e.at + Window[b] > now[r]
      BY <1>1 DEF Inv, Sweep, InWindow
    <3>2. e.at \in Nat /\ now[r] \in Nat /\ Window[b] \in Nat
      BY <1>1, <2>2, <3>1, WindowAssumption DEF Inv, TypeOK, Events
    <3> QED
      BY <3>1, <3>2
  <2>5. IsFiniteSet(seen)
    BY <1>1, FS_Subset DEF Inv
  <2>6. IsFiniteSet(counted) /\ Cardinality(counted) <= Cardinality(seen)
    BY <2>4, <2>5, FS_Subset
  <2>7. Cardinality(seen) \in Nat /\ Cardinality(counted) \in Nat /\ Limit[b] \in Nat
    BY <2>2, <2>5, <2>6, FS_CardinalityType, LimitAssumption
  <2> HIDE DEF counted
  <2>8. Cardinality(seen) >= Limit[b]
    BY <2>3, <2>6, <2>7
  <2> QED
    BY <2>8
<1>2. Inv /\ [Next]_vars => [Earned]_vars
  BY <1>1
<1> QED
  BY <1>2, Invariant, PTL DEF Spec, DenialIsEarned
=============================================================================
