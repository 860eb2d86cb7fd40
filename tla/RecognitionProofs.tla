--------------------------- MODULE RecognitionProofs ---------------------------
(***************************************************************************)
(* What holds of Recognition for every set of songs, pages, keys and       *)
(* requests.                                                               *)
(***************************************************************************)
EXTENDS Recognition, TLAPS

Kinds == {"recognize", "save", "deleteScan", "deleteSong", "rename"}

\* A request asks one of the five things, of a page, and only recognize
\* carries a key.
LEMMA QueryFields ==
  ASSUME NEW q \in Queries
  PROVE  /\ q.kind \in Kinds
         /\ q.scan \in Scans
         /\ q.key \in Keys \cup {NoKey}
         /\ q.status \in Statuses
         /\ q.key # NoKey => q.kind = "recognize"
BY DEF Queries, Recognize, Save, Other, Kinds, Statuses

\* What a request at that place of a handler can be asking.
Fits(place, q) ==
  /\ q = NoRow <=> place = "idle"
  /\ place = "lookup" => q.key \in Keys
  /\ place = "claim" => q.kind = "recognize" /\ q.key \in Keys
  /\ place = "calling" => q.kind = "recognize"
  /\ place = "answer" => q.kind \in {"recognize", "save"}

Route == \A r \in Requests : Fits(pc[r], req[r])

TypeInv == TypeOK /\ Route

LEMMA TypeInit == Init => TypeInv
<1> SUFFICES ASSUME Init PROVE TypeInv
  OBVIOUS
<1>1. keys \in [Keys -> KeyRow \cup {NoRow}]
  <2>1. \A s \in Scans : LegacyKey(s) \in KeyRow
    BY DEF LegacyKey, KeyRow
  <2>2. {NoRow} \cup {LegacyKey(s) : s \in Scans} \subseteq KeyRow \cup {NoRow}
    BY <2>1
  <2> QED
    BY <2>2 DEF Init
<1>2. title \in [Songs -> Titles \cup {NoRow}]
  BY DEF Init, Titles
<1>3. pc \in [Requests -> Places]
  BY DEF Init, Places
<1>4. TypeOK
  BY <1>1, <1>2, <1>3 DEF Init, TypeOK
<1>5. Route
  BY DEF Init, Route, Fits
<1> QED
  BY <1>4, <1>5 DEF TypeInv

\* A response is a well-formed answer, and the step leaves the rest alone.
LEMMA ReplyType ==
  ASSUME TypeInv, NEW r \in Requests, NEW code \in {200, 201, 204, 404, 409, 429, 500, 503},
         NEW stf \in Requests \cup {NoRow}, NEW status \in Statuses \cup {NoRow},
         Reply(r, code, stf, status)
  PROVE  /\ pc' \in [Requests -> Places]
         /\ answer' \in [Requests -> Answers \cup {NoRow}]
         /\ pc' = [pc EXCEPT ![r] = "done"]
<1>1. [code |-> code, stf |-> stf, status |-> status] \in Answers
  BY DEF Answers
<1> QED
  BY <1>1 DEF Reply, Goto, TypeInv, TypeOK, Places

\* A request that is being served is one of the queries.
LEMMA Served ==
  ASSUME TypeInv, NEW r \in Requests, pc[r] # "idle"
  PROVE  /\ req[r] \in Queries
         /\ req[r].kind \in Kinds
         /\ req[r].scan \in Scans
         /\ req[r].key \in Keys \cup {NoKey}
         /\ req[r].status \in Statuses
         /\ req[r].key # NoKey => req[r].kind = "recognize"
<1>1. req[r] \in Queries
  BY DEF TypeInv, TypeOK, Route, Fits
<1> QED
  BY <1>1, QueryFields

\* Moving one request on, to a place that fits it, keeps the routes right.
LEMMA RouteMoves ==
  ASSUME TypeInv, NEW r \in Requests, NEW place \in Places,
         Goto(r, place), req' = req, Fits(place, req[r])
  PROVE  Route' /\ pc' \in [Requests -> Places]
BY DEF Goto, TypeInv, TypeOK, Route, Fits

\* A request that leaves a handler does so to a place that fits it.
LEMMA ReplyRoute ==
  ASSUME TypeInv, NEW r \in Requests, pc[r] # "idle", req' = req,
         NEW code \in {200, 201, 204, 404, 409, 429, 500, 503},
         NEW stf \in Requests \cup {NoRow}, NEW status \in Statuses \cup {NoRow},
         Reply(r, code, stf, status)
  PROVE  /\ Route'
         /\ pc' \in [Requests -> Places]
         /\ answer' \in [Requests -> Answers \cup {NoRow}]
<1>1. Goto(r, "done")
  BY DEF Reply
<1>2. Fits("done", req[r])
  BY DEF TypeInv, Route, Fits
<1>3. "done" \in Places
  BY DEF Places
<1>4. Route' /\ pc' \in [Requests -> Places]
  BY <1>1, <1>2, <1>3, RouteMoves
<1>5. answer' \in [Requests -> Answers \cup {NoRow}]
  BY ReplyType
<1> QED
  BY <1>4, <1>5

LEMMA RefuseRoute ==
  ASSUME TypeInv, NEW r \in Requests, pc[r] # "idle", req' = req,
         NEW code \in {200, 201, 204, 404, 409, 429, 500, 503},
         Refuse(r, code)
  PROVE  /\ Route'
         /\ pc' \in [Requests -> Places]
         /\ answer' \in [Requests -> Answers \cup {NoRow}]
BY ReplyRoute DEF Refuse

LEMMA CascadeType ==
  ASSUME TypeInv, NEW gone \in SUBSET Scans, Cascade(gone)
  PROVE  /\ scans' \in SUBSET Scans
         /\ trs' \in [Scans -> TrRow \cup {NoRow}]
         /\ runs' \in [Requests -> RunRow \cup {NoRow}]
         /\ revisions' \in [Requests -> RevRow \cup {NoRow}]
         /\ keys' \in [Keys -> KeyRow \cup {NoRow}]
BY DEF Cascade, TypeInv, TypeOK

LEMMA CompleteKeyType ==
  ASSUME TypeInv, NEW r \in Requests, CompleteKey(r)
  PROVE  keys' \in [Keys -> KeyRow \cup {NoRow}]
<1>1. ASSUME NEW k \in Keys, keys[k] # NoRow
      PROVE  [keys[k] EXCEPT !.status = "completed", !.run = r] \in KeyRow
  BY <1>1 DEF TypeInv, TypeOK, KeyRow
<1> QED
  BY <1>1 DEF CompleteKey, TypeInv, TypeOK

LEMMA TypeNext == TypeInv /\ [Next]_vars => TypeInv'
<1> SUFFICES ASSUME TypeInv, [Next]_vars PROVE TypeInv'
  OBVIOUS
<1>0. CASE UNCHANGED vars
  BY <1>0 DEF vars, TypeInv, TypeOK, Route, Fits
<1>1. ASSUME NEW r \in Requests, Arrive(r) PROVE TypeInv'
  <2>1. PICK q \in Queries : req' = [req EXCEPT ![r] = q] /\ Goto(r, Entry(q))
    BY <1>1 DEF Arrive
  <2>2. Entry(q) \in Places /\ Fits(Entry(q), q)
    BY QueryFields, RowAssumption DEF Entry, Places, Fits
  <2>3. TypeOK'
    BY <1>1, <2>1, <2>2 DEF Arrive, TypeInv, TypeOK, Goto, db
  <2>4. Route'
    BY <2>1, <2>2 DEF TypeInv, TypeOK, Route, Goto
  <2> QED
    BY <2>3, <2>4 DEF TypeInv
<1>2. ASSUME NEW r \in Requests, Gate(r) PROVE TypeInv'
  <2> USE <1>2 DEF Gate
  <2>1. CASE req[r].scan \in scans
    <3>1. PastGate(req[r]) \in Places /\ Fits(PastGate(req[r]), req[r])
      BY Served, RowAssumption DEF PastGate, Keyed, Unkeyed, Kinds, Places, Fits
    <3>2. Route' /\ pc' \in [Requests -> Places]
      BY <2>1, <3>1, RouteMoves
    <3> QED
      BY <2>1, <3>2 DEF TypeInv, TypeOK, db
  <2>2. CASE req[r].scan \notin scans
    BY <2>2, RefuseRoute DEF TypeInv, TypeOK, db
  <2> QED
    BY <2>1, <2>2
<1>3. ASSUME NEW r \in Requests, Charge(r) PROVE TypeInv'
  <2> USE <1>3 DEF Charge
  <2>1. CASE Goto(r, PastCharge(req[r])) /\ UNCHANGED answer
    <3>1. PastCharge(req[r]) \in Places /\ Fits(PastCharge(req[r]), req[r])
      BY Served, RowAssumption DEF PastCharge, Keyed, Unkeyed, Kinds, Places, Fits
    <3>2. Route' /\ pc' \in [Requests -> Places]
      BY <2>1, <3>1, RouteMoves
    <3> QED
      BY <2>1, <3>2 DEF TypeInv, TypeOK, db
  <2>2. CASE Refuse(r, 429)
    BY <2>2, RefuseRoute DEF TypeInv, TypeOK, db
  <2> QED
    BY <2>1, <2>2
<1>4. ASSUME NEW r \in Requests, LockTimeout(r) PROVE TypeInv'
  BY <1>4, RefuseRoute DEF LockTimeout, TypeInv, TypeOK, db
<1>5. ASSUME NEW r \in Requests, Answer(r) PROVE TypeInv'
  <2> USE <1>5 DEF Answer
  <2>1. CASE trs[req[r].scan] = NoRow
    BY <2>1, RefuseRoute DEF TypeInv, TypeOK, db
  <2>2. CASE trs[req[r].scan] # NoRow
    <3>1. trs[req[r].scan] \in TrRow
      BY <2>2, Served DEF TypeInv, TypeOK
    <3> QED
      BY <2>2, <3>1, ReplyRoute DEF TrRow, TypeInv, TypeOK, db
  <2> QED
    BY <2>1, <2>2
<1>6. ASSUME NEW r \in Requests, Lookup(r) PROVE TypeInv'
  <2> USE <1>6 DEF Lookup
  <2>1. CASE Goto(r, "read") /\ UNCHANGED answer
    <3>1. "read" \in Places /\ Fits("read", req[r])
      BY Served, RowAssumption DEF Places, Fits
    <3> QED
      BY <2>1, <3>1, RouteMoves DEF TypeInv, TypeOK, db
  <2>2. CASE Refuse(r, 409) \/ Refuse(r, 503)
    BY <2>2, RefuseRoute DEF TypeInv, TypeOK, db
  <2>3. CASE keys[req[r].key] # NoRow /\ keys[req[r].key].run # NoRow
               /\ Reply(r, 201, keys[req[r].key].run, "draft")
    <3>1. keys[req[r].key].run \in Requests
      BY <2>3 DEF TypeInv, TypeOK, Route, Fits, KeyRow
    <3> QED
      BY <2>3, <3>1, ReplyRoute DEF TypeInv, TypeOK, db, Statuses
  <2> QED
    BY <2>1, <2>2, <2>3
<1>7. ASSUME NEW r \in Requests, CheckExisting(r) PROVE TypeInv'
  <2> USE <1>7 DEF CheckExisting, At
  <2>1. CASE Refuse(r, 409) \/ Refuse(r, 404)
    BY <2>1, RefuseRoute DEF TypeInv, TypeOK, db
  <2>2. CASE /\ seen' = [seen EXCEPT ![r] = trs[req[r].scan]]
             /\ Goto(r, "charge") /\ UNCHANGED answer
    <3>1. "charge" \in Places /\ Fits("charge", req[r])
      BY Served, RowAssumption DEF Places, Fits
    <3>2. trs[req[r].scan] \in TrRow \cup {NoRow}
      BY Served DEF TypeInv, TypeOK
    <3> QED
      BY <2>2, <3>1, <3>2, RouteMoves DEF TypeInv, TypeOK, db
  <2> QED
    BY <2>1, <2>2
<1>8. ASSUME NEW r \in Requests, ClaimKey(r) PROVE TypeInv'
  <2> USE <1>8 DEF ClaimKey
  <2>1. CASE Refuse(r, 409) /\ UNCHANGED keys
    BY <2>1, RefuseRoute DEF TypeInv, TypeOK
  <2>2. CASE /\ keys' = [keys EXCEPT ![req[r].key] =
                            [scan |-> req[r].scan, status |-> "started", run |-> NoRow]]
             /\ Goto(r, "calling") /\ UNCHANGED answer
    <3>1. "calling" \in Places /\ Fits("calling", req[r])
      BY Served, RowAssumption DEF Places, Fits, TypeInv, Route
    <3>2. [scan |-> req[r].scan, status |-> "started", run |-> NoRow] \in KeyRow
      BY Served DEF KeyRow
    <3> QED
      BY <2>2, <3>1, <3>2, RouteMoves DEF TypeInv, TypeOK
  <2> QED
    BY <2>1, <2>2
<1>9. ASSUME NEW r \in Requests, RecognitionSucceeds(r) PROVE TypeInv'
  <2> USE <1>9 DEF RecognitionSucceeds
  <2>1. "answer" \in Places /\ Fits("answer", req[r])
    BY Served, RowAssumption DEF Places, Fits, TypeInv, Route
  <2>2. Route' /\ pc' \in [Requests -> Places]
    BY <2>1, RouteMoves
  <2>3. title' \in [Songs -> Titles \cup {NoRow}]
    BY DEF TypeInv, TypeOK, Titles
  <2>4. trs' \in [Scans -> TrRow \cup {NoRow}]
    BY DEF TypeInv, TypeOK, TrRow, Statuses
  <2>5. runs' \in [Requests -> RunRow \cup {NoRow}]
    BY Served DEF TypeInv, TypeOK, RunRow
  <2>6. revisions' \in [Requests -> RevRow \cup {NoRow}]
    <3>1. [scan |-> req[r].scan, run |-> r, stf |-> r, status |-> "draft",
           source |-> "recognition"] \in RevRow
      BY Served DEF RevRow, Statuses
    <3> QED
      BY <3>1 DEF TypeInv, TypeOK
  <2> QED
    BY <2>2, <2>3, <2>4, <2>5, <2>6, CompleteKeyType DEF TypeInv, TypeOK
<1>10. ASSUME NEW r \in Requests, RecognitionFails(r) PROVE TypeInv'
  <2> USE <1>10 DEF RecognitionFails
  <2>1. runs' \in [Requests -> RunRow \cup {NoRow}]
    BY Served DEF TypeInv, TypeOK, RunRow
  <2> QED
    BY <2>1, RefuseRoute, CompleteKeyType DEF TypeInv, TypeOK
<1>11. ASSUME NEW r \in Requests, RecognitionConflicts(r) PROVE TypeInv'
  BY <1>11, RefuseRoute DEF RecognitionConflicts, TypeInv, TypeOK, db
<1>12. ASSUME NEW r \in Requests, ReadForSave(r) PROVE TypeInv'
  <2> USE <1>12 DEF ReadForSave, At
  <2>1. "write" \in Places /\ Fits("write", req[r])
    BY Served, RowAssumption DEF Places, Fits
  <2>2. trs[req[r].scan] \in TrRow \cup {NoRow}
    BY Served DEF TypeInv, TypeOK
  <2> QED
    BY <2>1, <2>2, RouteMoves DEF TypeInv, TypeOK, db
<1>13. ASSUME NEW r \in Requests, SaveSucceeds(r) PROVE TypeInv'
  <2> USE <1>13 DEF SaveSucceeds, At
  <2> DEFINE s == req[r].scan
  <2>1. "answer" \in Places /\ Fits("answer", req[r])
    BY Served, RowAssumption DEF Places, Fits
  <2>2. /\ s \in Scans
        /\ req[r].status \in Statuses
        /\ (IF trs[s] = NoRow THEN NoRow ELSE trs[s].run) \in Requests \cup {NoRow}
        /\ (IF seen[r] = NoRow THEN NoRow ELSE seen[r].run) \in Requests \cup {NoRow}
    BY Served DEF TypeInv, TypeOK, TrRow
  <2>3. trs' \in [Scans -> TrRow \cup {NoRow}]
    <3>1. [stf |-> r, status |-> req[r].status, rev |-> r,
           run |-> IF trs[s] = NoRow THEN NoRow ELSE trs[s].run] \in TrRow
      BY <2>2 DEF TrRow
    <3> QED
      BY <3>1 DEF TypeInv, TypeOK
  <2>4. revisions' \in [Requests -> RevRow \cup {NoRow}]
    <3>1. [scan |-> s, stf |-> r, status |-> req[r].status, source |-> "manual",
           run |-> IF seen[r] = NoRow THEN NoRow ELSE seen[r].run] \in RevRow
      BY <2>2 DEF RevRow
    <3> QED
      BY <3>1 DEF TypeInv, TypeOK
  <2> QED
    BY <2>1, <2>3, <2>4, RouteMoves DEF TypeInv, TypeOK
<1>14. ASSUME NEW r \in Requests, SaveConflicts(r) PROVE TypeInv'
  BY <1>14, RefuseRoute DEF SaveConflicts, At, TypeInv, TypeOK, db
<1>15. ASSUME NEW r \in Requests, Rename(r) PROVE TypeInv'
  <2>1. Refuse(r, 200) \/ Refuse(r, 404)
    BY <1>15 DEF Rename
  <2>2. title' \in [Songs -> Titles \cup {NoRow}]
    BY <1>15 DEF Rename, TypeInv, TypeOK, Titles
  <2> QED
    BY <1>15, <2>1, <2>2, RefuseRoute DEF Rename, At, TypeInv, TypeOK
<1>16. ASSUME NEW r \in Requests, DeleteScan(r) PROVE TypeInv'
  <2> USE <1>16 DEF DeleteScan, At
  <2>1. "unlink" \in Places /\ Fits("unlink", req[r])
    BY Served, RowAssumption DEF Places, Fits
  <2>2. {req[r].scan} \in SUBSET Scans
    BY Served
  <2> QED
    BY <2>1, <2>2, RouteMoves, CascadeType DEF TypeInv, TypeOK
<1>17. ASSUME NEW r \in Requests, DeleteSong(r) PROVE TypeInv'
  <2> USE <1>17 DEF DeleteSong, At
  <2> DEFINE song == SongOf[req[r].scan]
             pages == {s \in Scans : SongOf[s] = song}
  <2>1. CASE title[song] # NoRow
    <3>1. "unlink" \in Places /\ Fits("unlink", req[r])
      BY Served, RowAssumption DEF Places, Fits
    <3>2. pages \in SUBSET Scans /\ Cascade(pages)
      BY <2>1
    <3>3. title' \in [Songs -> Titles \cup {NoRow}]
      BY <2>1 DEF TypeInv, TypeOK
    <3>4. Route' /\ pc' \in [Requests -> Places]
      BY <2>1, <3>1, RouteMoves
    <3> QED
      BY <2>1, <3>2, <3>3, <3>4, CascadeType DEF TypeInv, TypeOK
  <2>2. CASE title[song] = NoRow
    BY <2>2, RefuseRoute DEF TypeInv, TypeOK, db
  <2> QED
    BY <2>1, <2>2
<1>18. ASSUME NEW r \in Requests, Unlink(r) PROVE TypeInv'
  <2>1. images' \in SUBSET Scans
    BY <1>18 DEF Unlink, TypeInv, TypeOK
  <2> QED
    BY <1>18, <2>1, RefuseRoute DEF Unlink, TypeInv, TypeOK, db
<1>19. ASSUME CrashAndBoot PROVE TypeInv'
  BY <1>19, RowAssumption DEF CrashAndBoot, InFlight, TypeInv, TypeOK, Route, Fits, Places
<1> QED
  BY <1>0, <1>1, <1>2, <1>3, <1>4, <1>5, <1>6, <1>7, <1>8, <1>9, <1>10, <1>11,
     <1>12, <1>13, <1>14, <1>15, <1>16, <1>17, <1>18, <1>19 DEF Next, Step

\* The tables, the handlers' locals and the responses keep their types, and no
\* request is ever at a place of a handler that does not serve it.
THEOREM TypeCorrect == Spec => []TypeOK
<1>1. Init => TypeInv
  BY TypeInit
<1>2. TypeInv /\ [Next]_vars => TypeInv'
  BY TypeNext
<1>3. TypeInv => TypeOK
  BY DEF TypeInv
<1> QED
  BY <1>1, <1>2, <1>3, PTL DEF Spec

-----------------------------------------------------------------------------
(* The inductive invariant.                                                *)

\* A run and a revision appear only when their request has done its writing.
Fresh ==
  \A r \in Requests :
    runs[r] # NoRow \/ revisions[r] # NoRow => pc[r] \in {"answer", "done", "died"}

\* A claimed key's row.
Started(s) == [scan |-> s, status |-> "started", run |-> NoRow]

\* While its page exists, a request waiting for the model owns its key's row.
HolderOwnsKey ==
  \A r \in Requests :
    Holds(r) /\ req[r].scan \in scans =>
      keys[req[r].key] = Started(req[r].scan)

\* What recognize keeps of the page's transcription was not reviewed.
SeenNotReviewed ==
  \A r \in Requests :
    /\ pc[r] \in {"charge", "claim", "calling"} /\ req[r].kind = "recognize"
    /\ seen[r] # NoRow
    => seen[r].status # "reviewed"

\* From its commit on, a save has its revision.
CommittedSaveIsKept ==
  \A r \in Requests :
    /\ req[r] # NoRow /\ req[r].kind = "save" /\ req[r].scan \in scans
    /\ pc[r] = "answer" \/ (pc[r] = "done" /\ answer[r].code = 200)
    => /\ revisions[r] # NoRow
       /\ revisions[r].stf = r /\ revisions[r].scan = req[r].scan

SafetyInv ==
  /\ Fresh
  /\ HolderOwnsKey
  /\ SingleFlight
  /\ CompletedKeyHasRun
  /\ SeenNotReviewed
  /\ TranscriptionMatchesHistory
  /\ CommittedSaveIsKept

Inv == TypeInv /\ SafetyInv

Others(r) ==
  \A o \in Requests \ {r} :
    pc'[o] = pc[o] /\ req'[o] = req[o] /\ seen'[o] = seen[o] /\ answer'[o] = answer[o]

\* A step of r that reads the tables and writes none the invariant is about.
Quiet(r) ==
  /\ UNCHANGED <<scans, trs, runs, revisions, keys>>
  /\ Others(r)
  /\ pc[r] \notin {"done", "died"}
  /\ pc'[r] \notin {"idle", "answer"}
  /\ pc[r] = "answer" => pc'[r] = "done"
  /\ pc[r] # "idle" => req'[r] = req[r]
  /\ pc'[r] = "calling" => req'[r].key = NoKey
  /\ pc'[r] \in {"charge", "claim", "calling"} /\ req'[r].kind = "recognize" =>
       \/ pc[r] = "charge" /\ seen'[r] = seen[r]
       \/ seen'[r] # NoRow => seen'[r].status # "reviewed"
  /\ pc'[r] = "done" /\ req'[r].kind = "save" /\ answer'[r].code = 200 =>
       pc[r] = "answer"

LEMMA RefuseQuiet ==
  ASSUME TypeInv, NEW r \in Requests, pc[r] \notin {"idle", "done", "died"},
         NEW code, code # 200, Refuse(r, code),
         UNCHANGED <<db, req, seen>>
  PROVE  Quiet(r)
BY DEF Refuse, Reply, Goto, Quiet, Others, db, TypeInv, TypeOK

LEMMA QuietSteps ==
  ASSUME TypeInv, NEW r \in Requests,
         \/ Arrive(r) \/ Gate(r) \/ Charge(r) \/ LockTimeout(r) \/ Answer(r)
         \/ Lookup(r) \/ CheckExisting(r) \/ RecognitionConflicts(r)
         \/ ReadForSave(r) \/ SaveConflicts(r) \/ Rename(r) \/ Unlink(r)
  PROVE  Quiet(r)
<1> USE DEF TypeInv, TypeOK
<1>1. CASE Arrive(r)
  BY <1>1, QueryFields DEF Arrive, Goto, Entry, Quiet, Others, db
<1>2. CASE Gate(r)
  <2>1. CASE req[r].scan \in scans
    <3>1. PastGate(req[r]) \in {"lookup", "read", "charge"}
            /\ (PastGate(req[r]) = "charge" => req[r].kind # "recognize")
      BY <1>2, Served DEF Gate, PastGate, Keyed, Unkeyed
    <3> QED
      BY <1>2, <2>1, <3>1 DEF Gate, Goto, Quiet, Others, db
  <2>2. CASE req[r].scan \notin scans
    BY <1>2, <2>2, RefuseQuiet DEF Gate
  <2> QED
    BY <2>1, <2>2
<1>3. CASE Charge(r)
  <2>1. CASE Goto(r, PastCharge(req[r])) /\ UNCHANGED answer
    <3>1. PastCharge(req[r]) \in {"claim", "calling", "read", "delete"}
            /\ (PastCharge(req[r]) = "calling" => req[r].key = NoKey)
      BY <1>3, Served DEF Charge, PastCharge, Keyed, Unkeyed
    <3> QED
      BY <1>3, <2>1, <3>1 DEF Charge, Goto, Quiet, Others, db
  <2>2. CASE Refuse(r, 429)
    BY <1>3, <2>2, RefuseQuiet DEF Charge
  <2> QED
    BY <1>3, <2>1, <2>2 DEF Charge
<1>4. CASE LockTimeout(r)
  BY <1>4, RefuseQuiet DEF LockTimeout
<1>5. CASE Answer(r)
  BY <1>5 DEF Answer, Refuse, Reply, Goto, Quiet, Others, db
<1>6. CASE Lookup(r)
  <2>1. req[r].kind # "save"
    BY <1>6, Served, NoKeyAssumption DEF Lookup, Route, Fits
  <2> QED
    BY <1>6, <2>1 DEF Lookup, Refuse, Reply, Goto, Quiet, Others, db
<1>7. CASE CheckExisting(r)
  BY <1>7, RefuseQuiet DEF CheckExisting, At, Goto, Quiet, Others, db
<1>8. CASE RecognitionConflicts(r)
  BY <1>8, RefuseQuiet DEF RecognitionConflicts
<1>9. CASE ReadForSave(r)
  BY <1>9 DEF ReadForSave, At, Goto, Quiet, Others, db
<1>10. CASE SaveConflicts(r)
  BY <1>10, RefuseQuiet DEF SaveConflicts, At
<1>11. CASE Rename(r)
  BY <1>11 DEF Rename, At, Refuse, Reply, Goto, Quiet, Others
<1>12. CASE Unlink(r)
  BY <1>12, RefuseQuiet DEF Unlink
<1> QED
  BY <1>1, <1>2, <1>3, <1>4, <1>5, <1>6, <1>7, <1>8, <1>9, <1>10, <1>11, <1>12

LEMMA StartedRow ==
  ASSUME NEW s \in Scans
  PROVE  Started(s) \in KeyRow /\ Started(s) # NoRow
<1>1. Started(s) \in KeyRow
  BY DEF Started, KeyRow
<1> QED
  BY <1>1, RowAssumption

LEMMA SafetyInit == Init => SafetyInv
<1> SUFFICES ASSUME Init PROVE SafetyInv
  OBVIOUS
<1>1. Fresh /\ HolderOwnsKey /\ SingleFlight /\ SeenNotReviewed
  BY DEF Init, Fresh, HolderOwnsKey, SingleFlight, SeenNotReviewed, Holds
<1>2. CompletedKeyHasRun
  <2>1. \A s \in Scans : LegacyKey(s).run = NoRow
    BY DEF LegacyKey
  <2>2. \A k \in Keys : keys[k] # NoRow => keys[k].run = NoRow
    BY <2>1 DEF Init
  <2> QED
    BY <2>2 DEF CompletedKeyHasRun
<1>3. TranscriptionMatchesHistory /\ CommittedSaveIsKept
  BY DEF Init, TranscriptionMatchesHistory, CommittedSaveIsKept
<1> QED
  BY <1>1, <1>2, <1>3 DEF SafetyInv

LEMMA QuietSafe ==
  ASSUME Inv, NEW r \in Requests, Quiet(r)
  PROVE  SafetyInv'
<1> USE DEF Inv, SafetyInv, Quiet, Others
<1>1. Fresh'
  BY DEF Fresh
<1>2. HolderOwnsKey'
  BY DEF HolderOwnsKey, Holds
<1>3. SingleFlight'
  BY DEF SingleFlight, Holds
<1>4. CompletedKeyHasRun'
  <2>1. ASSUME NEW k \in Keys, keys[k] # NoRow, keys[k].run # NoRow
        PROVE  req'[keys[k].run] = req[keys[k].run]
    <3>1. keys[k].run \in Requests /\ runs[keys[k].run] # NoRow
      BY <2>1 DEF CompletedKeyHasRun, TypeInv, TypeOK, KeyRow
    <3>2. pc[keys[k].run] # "idle"
      BY <3>1 DEF Fresh
    <3> QED
      BY <3>1, <3>2
  <2> QED
    BY <2>1 DEF CompletedKeyHasRun
<1>5. SeenNotReviewed'
  BY DEF SeenNotReviewed
<1>6. TranscriptionMatchesHistory'
  BY DEF TranscriptionMatchesHistory
<1>7. CommittedSaveIsKept'
  BY DEF CommittedSaveIsKept, TypeInv, Route, Fits
<1> QED
  BY <1>1, <1>2, <1>3, <1>4, <1>5, <1>6, <1>7

LEMMA ClaimSafe ==
  ASSUME Inv, NEW r \in Requests, ClaimKey(r)
  PROVE  SafetyInv'
<1> DEFINE k == req[r].key
           s == req[r].scan
<1>1. CASE Refuse(r, 409) /\ UNCHANGED keys
  <2>1. Quiet(r)
    BY <1>1, RefuseQuiet DEF ClaimKey, Inv, db
  <2> QED
    BY <2>1, QuietSafe
<1>2. CASE /\ keys[k] = NoRow /\ s \in scans
           /\ keys' = [keys EXCEPT ![k] = Started(s)]
           /\ Goto(r, "calling") /\ UNCHANGED answer
  <2> USE <1>2 DEF Inv, SafetyInv, ClaimKey, Goto, TypeInv, TypeOK
  <2>1. k \in Keys /\ Started(s) # NoRow /\ Started(s).run = NoRow
    BY Served, StartedRow DEF Route, Fits, Started
  <2>2. Fresh'
    BY DEF Fresh
  <2>9. \A o \in Requests : Holds(o) /\ req[o].scan \in scans => req[o].key # k
    BY Served, StartedRow DEF HolderOwnsKey, Holds
  <2>10. \A o \in Requests : o # r => Holds(o)' = Holds(o)
    BY DEF Holds
  <2>3. HolderOwnsKey'
    <3>1. keys'[k] = Started(s)
      BY <2>1
    <3>2. \A other \in Keys \ {k} : keys'[other] = keys[other]
      BY <2>1
    <3>3. ASSUME NEW o \in Requests, o # r, Holds(o), req[o].scan \in scans
          PROVE  keys'[req[o].key] = Started(req[o].scan)
      <4>1. req[o].key \in Keys \ {k}
        BY <2>9, <3>3, Served DEF Holds
      <4> QED
        BY <3>2, <3>3, <4>1 DEF HolderOwnsKey
    <3> QED
      BY <2>10, <3>1, <3>3 DEF HolderOwnsKey
  <2>4. SingleFlight'
    BY <2>9 DEF SingleFlight, Holds
  <2>5. CompletedKeyHasRun'
    BY <2>1 DEF CompletedKeyHasRun
  <2>6. SeenNotReviewed'
    BY DEF SeenNotReviewed
  <2>7. TranscriptionMatchesHistory'
    BY DEF TranscriptionMatchesHistory
  <2>8. CommittedSaveIsKept'
    BY DEF CommittedSaveIsKept
  <2> QED
    BY <2>2, <2>3, <2>4, <2>5, <2>6, <2>7, <2>8
<1> QED
  BY <1>1, <1>2 DEF ClaimKey, Started

\* The key a finished call completes is its own, and nobody else's who is
\* still waiting for the model.
LEMMA CompleteKeySafe ==
  ASSUME Inv, NEW r \in Requests, pc[r] = "calling", req[r].scan \in scans,
         CompleteKey(r), Goto(r, "answer") \/ Goto(r, "done"),
         scans' = scans, req' = req,
         runs'[r] # NoRow, runs'[r].scan = req[r].scan,
         \A o \in Requests \ {r} : runs'[o] = runs[o]
  PROVE  HolderOwnsKey' /\ SingleFlight' /\ CompletedKeyHasRun'
<1> USE DEF Inv, SafetyInv, Goto, TypeInv, TypeOK
<1>1. SingleFlight'
  BY DEF SingleFlight, Holds
<1>2. HolderOwnsKey'
  <2>1. ASSUME NEW o \in Requests, Holds(o)', req[o].scan \in scans
        PROVE  keys'[req[o].key] = keys[req[o].key] /\ Holds(o)
    <3>1. o # r /\ Holds(o)
      BY <2>1 DEF Holds
    <3>2. req[o].key \in Keys /\ req[o].key # NoKey
      BY <3>1, Served DEF Holds
    <3>3. req[o].key # req[r].key
      BY <2>1, <3>1, <3>2 DEF SingleFlight, Holds
    <3> QED
      BY <3>1, <3>2, <3>3 DEF CompleteKey
  <2> QED
    BY <2>1 DEF HolderOwnsKey
<1>3. CompletedKeyHasRun'
  <2>1. runs[r] = NoRow
    BY DEF Fresh
  <2>2. ASSUME NEW k \in Keys, k # req[r].key
        PROVE  keys'[k] = keys[k]
    BY <2>2 DEF CompleteKey
  <2>3. ASSUME NEW k \in Keys, keys[k] # NoRow, keys[k].run # NoRow
        PROVE  keys[k].run \in Requests \ {r}
    BY <2>1, <2>3 DEF CompletedKeyHasRun, KeyRow
  <2>5. ASSUME req[r].key \in Keys
        PROVE  /\ keys'[req[r].key].scan = req[r].scan
               /\ keys'[req[r].key].status = "completed"
               /\ keys'[req[r].key].run = r
    <3>1. keys[req[r].key] = Started(req[r].scan)
      BY <2>5, NoKeyAssumption DEF HolderOwnsKey, Holds
    <3>2. keys'[req[r].key] = [Started(req[r].scan) EXCEPT !.status = "completed", !.run = r]
      BY <2>5, <3>1, Served, StartedRow DEF CompleteKey
    <3> QED
      BY <3>2 DEF Started
  <2>4. req[r] # NoRow
    BY Served, RowAssumption
  <2> QED
    BY <2>2, <2>3, <2>4, <2>5 DEF CompletedKeyHasRun
<1> QED
  BY <1>1, <1>2, <1>3

\* The rows a transcription refers to are there.
LEMMA HistoryOf ==
  ASSUME Inv, NEW t \in Scans, trs[t] # NoRow
  PROVE  /\ t \in scans
         /\ trs[t].rev \in Requests
         /\ revisions[trs[t].rev] # NoRow
         /\ revisions[trs[t].rev].scan = t
         /\ trs[t].run \in Requests \cup {NoRow}
         /\ trs[t].run # NoRow =>
              /\ runs[trs[t].run] = [scan |-> t, outcome |-> "succeeded"]
              /\ runs[trs[t].run].scan = t
              /\ runs[trs[t].run] # NoRow
<1>1. trs[t] \in TrRow
  BY DEF Inv, TypeInv, TypeOK
<1>2. trs[t].rev \in Requests /\ trs[t].run \in Requests \cup {NoRow}
  BY <1>1 DEF TrRow
<1>3. TranscriptionMatchesHistory
  BY DEF Inv, SafetyInv
<1>4. /\ t \in scans
      /\ revisions[trs[t].rev] # NoRow
      /\ revisions[trs[t].rev].scan = t
      /\ trs[t].run # NoRow =>
           runs[trs[t].run] = [scan |-> t, outcome |-> "succeeded"]
  BY <1>3 DEF TranscriptionMatchesHistory
<1>5. [scan |-> t, outcome |-> "succeeded"] \in RunRow
  BY DEF RunRow
<1> QED
  BY <1>2, <1>4, <1>5, RowAssumption

LEMMA SucceedsSafe ==
  ASSUME Inv, NEW r \in Requests, RecognitionSucceeds(r)
  PROVE  SafetyInv'
<1> USE DEF Inv, SafetyInv, RecognitionSucceeds, Goto, TypeInv, TypeOK
<1> DEFINE s == req[r].scan
<1>0. s \in Scans /\ r \in Requests /\ req[r].kind = "recognize"
  BY Served DEF Route, Fits
<1>1. /\ runs'[r] = [scan |-> s, outcome |-> "succeeded"]
      /\ runs'[r].scan = s /\ runs'[r] # NoRow
      /\ \A o \in Requests \ {r} : runs'[o] = runs[o]
      /\ revisions'[r] # NoRow
  <2>1. [scan |-> s, outcome |-> "succeeded"] \in RunRow
    BY <1>0 DEF RunRow
  <2>2. [scan |-> s, run |-> r, stf |-> r, status |-> "draft",
         source |-> "recognition"] \in RevRow
    BY <1>0 DEF RevRow, Statuses
  <2> QED
    BY <2>1, <2>2, RowAssumption
<1>2. Fresh'
  BY DEF Fresh
<1>3. HolderOwnsKey' /\ SingleFlight' /\ CompletedKeyHasRun'
  <2>1. pc[r] = "calling" /\ CompleteKey(r) /\ Goto(r, "answer")
          /\ s \in scans /\ scans' = scans /\ req' = req
    BY DEF Goto
  <2> HIDE DEF RecognitionSucceeds, TypeInv, TypeOK, Goto, SafetyInv, Inv
  <2> QED
    BY <1>1, <2>1, CompleteKeySafe
<1>4. SeenNotReviewed'
  BY DEF SeenNotReviewed
<1>5. runs[r] = NoRow /\ revisions[r] = NoRow
  BY DEF Fresh
<1>6. TranscriptionMatchesHistory'
  <2>1. ASSUME NEW t \in Scans, t # s, trs[t] # NoRow
        PROVE  /\ trs'[t] = trs[t]
               /\ revisions'[trs[t].rev] = revisions[trs[t].rev]
               /\ trs[t].run # NoRow => runs'[trs[t].run] = runs[trs[t].run]
    BY <1>5, <2>1, HistoryOf
  <2>2. /\ trs'[s] = [stf |-> r, status |-> "draft", run |-> r, rev |-> r]
        /\ revisions'[r] = [scan |-> s, run |-> r, stf |-> r, status |-> "draft",
                            source |-> "recognition"]
        /\ runs'[r] = [scan |-> s, outcome |-> "succeeded"]
    BY <1>0
  <2> DEFINE Match(t) ==
               LET rev == revisions'[trs'[t].rev] IN
                 /\ t \in scans'
                 /\ rev # NoRow
                 /\ rev.scan = t /\ rev.stf = trs'[t].stf /\ rev.status = trs'[t].status
                 /\ trs'[t].run # NoRow =>
                      runs'[trs'[t].run] = [scan |-> t, outcome |-> "succeeded"]
  <2>3. Match(s)
    BY <1>1, <2>2
  <2>4. ASSUME NEW t \in Scans, t # s, trs'[t] # NoRow PROVE Match(t)
    <3>1. trs[t] # NoRow
      BY <2>4
    <3>2. LET rev == revisions[trs[t].rev] IN
            /\ t \in scans
            /\ rev # NoRow
            /\ rev.scan = t /\ rev.stf = trs[t].stf /\ rev.status = trs[t].status
            /\ trs[t].run # NoRow =>
                 runs[trs[t].run] = [scan |-> t, outcome |-> "succeeded"]
      BY <3>1 DEF TranscriptionMatchesHistory
    <3>3. /\ scans' = scans /\ trs'[t] = trs[t]
          /\ revisions'[trs[t].rev] = revisions[trs[t].rev]
          /\ trs[t].run # NoRow => runs'[trs[t].run] = runs[trs[t].run]
      BY <2>1, <2>4, <3>1
    <3> HIDE DEF RecognitionSucceeds, TypeInv, TypeOK, Goto, SafetyInv, Inv
    <3> QED
      BY <3>2, <3>3
  <2> QED
    BY <2>3, <2>4 DEF TranscriptionMatchesHistory
<1>7. CommittedSaveIsKept'
  BY <1>0 DEF CommittedSaveIsKept
<1> QED
  BY <1>2, <1>3, <1>4, <1>6, <1>7

LEMMA FailsSafe ==
  ASSUME Inv, NEW r \in Requests, RecognitionFails(r)
  PROVE  SafetyInv'
<1> USE DEF Inv, SafetyInv, RecognitionFails, Refuse, Reply, Goto, TypeInv, TypeOK
<1> DEFINE s == req[r].scan
<1>0. s \in Scans /\ req[r].kind = "recognize"
  BY Served DEF Route, Fits
<1>1. runs'[r] = [scan |-> s, outcome |-> "failed"] /\ runs'[r] # NoRow
  <2>1. [scan |-> s, outcome |-> "failed"] \in RunRow
    BY <1>0 DEF RunRow
  <2> QED
    BY <2>1, RowAssumption
<1>2. Fresh'
  BY DEF Fresh
<1>3. HolderOwnsKey' /\ SingleFlight' /\ CompletedKeyHasRun'
  BY <1>1, CompleteKeySafe
<1>4. SeenNotReviewed'
  BY DEF SeenNotReviewed
<1>5. runs[r] = NoRow
  BY DEF Fresh
<1>6. TranscriptionMatchesHistory'
  <2>1. ASSUME NEW t \in Scans, trs[t] # NoRow, trs[t].run # NoRow
        PROVE  runs'[trs[t].run] = runs[trs[t].run]
    BY <1>5, <2>1, HistoryOf
  <2> QED
    BY <2>1 DEF TranscriptionMatchesHistory
<1>7. CommittedSaveIsKept'
  BY <1>0 DEF CommittedSaveIsKept
<1> QED
  BY <1>2, <1>3, <1>4, <1>6, <1>7

LEMMA SaveSafe ==
  ASSUME Inv, NEW r \in Requests, SaveSucceeds(r)
  PROVE  SafetyInv'
<1> USE DEF Inv, SafetyInv, SaveSucceeds, At, Goto, TypeInv, TypeOK
<1> DEFINE s == req[r].scan
           st == req[r].status
<1>0. s \in Scans /\ st \in Statuses
  BY Served
<1>1. /\ revisions'[r] # NoRow
      /\ revisions'[r].scan = s /\ revisions'[r].stf = r /\ revisions'[r].status = st
  <2>1. seen[r] \in TrRow \cup {NoRow}
    OBVIOUS
  <2>2. [scan |-> s, stf |-> r, status |-> st, source |-> "manual",
         run |-> IF seen[r] = NoRow THEN NoRow ELSE seen[r].run] \in RevRow
    BY <1>0, <2>1 DEF RevRow, TrRow
  <2> QED
    BY <2>2, RowAssumption
<1>2. Fresh'
  BY DEF Fresh
<1>3. HolderOwnsKey' /\ SingleFlight' /\ CompletedKeyHasRun'
  BY DEF HolderOwnsKey, SingleFlight, CompletedKeyHasRun, Holds
<1>4. SeenNotReviewed'
  BY DEF SeenNotReviewed
<1>5. revisions[r] = NoRow
  BY DEF Fresh
<1>6. TranscriptionMatchesHistory'
  <2>1. ASSUME NEW t \in Scans, t # s, trs[t] # NoRow
        PROVE  trs'[t] = trs[t] /\ revisions'[trs[t].rev] = revisions[trs[t].rev]
    BY <1>5, <2>1, HistoryOf
  <2>2. /\ trs'[s].rev = r /\ trs'[s].stf = r /\ trs'[s].status = st
        /\ trs'[s].run = IF trs[s] = NoRow THEN NoRow ELSE trs[s].run
    BY <1>0
  <2>3. trs'[s].run # NoRow =>
          runs[trs'[s].run] = [scan |-> s, outcome |-> "succeeded"]
    BY <1>0, <2>2 DEF TranscriptionMatchesHistory
  <2> QED
    BY <1>1, <2>1, <2>2, <2>3 DEF TranscriptionMatchesHistory
<1>7. CommittedSaveIsKept'
  BY <1>1, <1>5 DEF CommittedSaveIsKept
<1> QED
  BY <1>2, <1>3, <1>4, <1>6, <1>7

\* A delete takes a page's rows together: what is left is about other pages.
LEMMA CascadeSafe ==
  ASSUME Inv, NEW r \in Requests, NEW gone \in SUBSET Scans, Cascade(gone),
         pc[r] = "delete", Goto(r, "unlink"), UNCHANGED <<req, seen, answer>>
  PROVE  SafetyInv'
<1> USE DEF Inv, SafetyInv, Cascade, Goto, TypeInv, TypeOK
<1>1. Fresh'
  BY DEF Fresh
<1>2. HolderOwnsKey'
  <2>1. ASSUME NEW o \in Requests, Holds(o), req[o].scan \in scans'
        PROVE  keys'[req[o].key] = Started(req[o].scan)
    <3>1. req[o].key \in Keys /\ keys[req[o].key] = Started(req[o].scan)
      BY <2>1, Served DEF Holds, HolderOwnsKey
    <3>2. Started(req[o].scan).scan \notin gone
      BY <2>1 DEF Started
    <3> QED
      BY <3>1, <3>2
  <2> QED
    BY <2>1 DEF HolderOwnsKey, Holds
<1>3. SingleFlight'
  BY DEF SingleFlight, Holds
<1>4. CompletedKeyHasRun'
  <2>1. ASSUME NEW k \in Keys, keys'[k] # NoRow, keys'[k].run # NoRow
        PROVE  /\ keys'[k] = keys[k]
               /\ keys[k].run \in Requests
               /\ runs'[keys[k].run] = runs[keys[k].run]
    <3>1. keys'[k] = keys[k] /\ keys[k].scan \notin gone
      BY <2>1
    <3>2. keys[k].run \in Requests /\ runs[keys[k].run].scan = keys[k].scan
      BY <2>1, <3>1 DEF CompletedKeyHasRun, KeyRow
    <3> QED
      BY <3>1, <3>2
  <2> QED
    BY <2>1 DEF CompletedKeyHasRun
<1>5. SeenNotReviewed'
  BY DEF SeenNotReviewed
<1>6. TranscriptionMatchesHistory'
  <2>1. ASSUME NEW t \in Scans, trs'[t] # NoRow
        PROVE  /\ trs'[t] = trs[t] /\ t \in scans'
               /\ revisions'[trs[t].rev] = revisions[trs[t].rev]
               /\ trs[t].run # NoRow => runs'[trs[t].run] = runs[trs[t].run]
    <3>1. t \notin gone /\ trs'[t] = trs[t] /\ t \in scans
      BY <2>1, HistoryOf
    <3>2. /\ trs[t].rev \in Requests /\ revisions[trs[t].rev].scan = t
          /\ trs[t].run \in Requests \cup {NoRow}
          /\ trs[t].run # NoRow => runs[trs[t].run].scan = t
      BY <2>1, <3>1, HistoryOf
    <3>3. revisions'[trs[t].rev] = revisions[trs[t].rev]
      BY <3>1, <3>2
    <3>4. trs[t].run # NoRow => runs'[trs[t].run] = runs[trs[t].run]
      BY <3>1, <3>2
    <3> QED
      BY <3>1, <3>3, <3>4
  <2> QED
    BY <2>1 DEF TranscriptionMatchesHistory
<1>7. CommittedSaveIsKept'
  BY DEF CommittedSaveIsKept
<1> QED
  BY <1>1, <1>2, <1>3, <1>4, <1>5, <1>6, <1>7

\* A crash takes the requests in flight; the boot prune takes keys, and no
\* request is left that owns one.
LEMMA CrashSafe ==
  ASSUME Inv, CrashAndBoot
  PROVE  SafetyInv'
<1> USE DEF Inv, SafetyInv, CrashAndBoot, InFlight, TypeInv, TypeOK
<1>1. Fresh'
  BY DEF Fresh
<1>2. HolderOwnsKey' /\ SingleFlight'
  BY DEF HolderOwnsKey, SingleFlight, Holds
<1>3. CompletedKeyHasRun'
  <2>1. \A k \in Keys : keys'[k] # NoRow => keys'[k] = keys[k]
    OBVIOUS
  <2> QED
    BY <2>1 DEF CompletedKeyHasRun
<1>4. SeenNotReviewed'
  BY DEF SeenNotReviewed
<1>5. TranscriptionMatchesHistory'
  BY DEF TranscriptionMatchesHistory
<1>6. CommittedSaveIsKept'
  BY DEF CommittedSaveIsKept
<1> QED
  BY <1>1, <1>2, <1>3, <1>4, <1>5, <1>6

LEMMA SafetyNext == Inv /\ [Next]_vars => SafetyInv'
<1> SUFFICES ASSUME Inv, [Next]_vars PROVE SafetyInv'
  OBVIOUS
<1>0. CASE UNCHANGED vars
  BY <1>0 DEF vars, Inv, SafetyInv, Fresh, HolderOwnsKey, SingleFlight, Holds,
       CompletedKeyHasRun, SeenNotReviewed, TranscriptionMatchesHistory,
       CommittedSaveIsKept
<1>1. ASSUME NEW r \in Requests, Quiet(r) PROVE SafetyInv'
  BY <1>1, QuietSafe
<1>2. ASSUME NEW r \in Requests, DeleteScan(r) PROVE SafetyInv'
  <2>1. {req[r].scan} \in SUBSET Scans
    BY <1>2, Served DEF DeleteScan, At, Inv
  <2> QED
    BY <1>2, <2>1, CascadeSafe DEF DeleteScan, At
<1>3. ASSUME NEW r \in Requests, DeleteSong(r) PROVE SafetyInv'
  <2> DEFINE song == SongOf[req[r].scan]
             pages == {s \in Scans : SongOf[s] = song}
  <2>1. CASE title[song] # NoRow
    <3>1. Cascade(pages) /\ pages \in SUBSET Scans
      BY <1>3, <2>1 DEF DeleteSong
    <3> QED
      BY <1>3, <2>1, <3>1, CascadeSafe DEF DeleteSong, At
  <2>2. CASE title[song] = NoRow
    <3>1. Quiet(r)
      BY <1>3, <2>2, RefuseQuiet DEF DeleteSong, At, Inv
    <3> QED
      BY <3>1, QuietSafe
  <2> QED
    BY <2>1, <2>2
<1>4. ASSUME NEW r \in Requests, ClaimKey(r) PROVE SafetyInv'
  BY <1>4, ClaimSafe
<1>5. ASSUME NEW r \in Requests, RecognitionSucceeds(r) PROVE SafetyInv'
  BY <1>5, SucceedsSafe
<1>6. ASSUME NEW r \in Requests, RecognitionFails(r) PROVE SafetyInv'
  BY <1>6, FailsSafe
<1>7. ASSUME NEW r \in Requests, SaveSucceeds(r) PROVE SafetyInv'
  BY <1>7, SaveSafe
<1>8. ASSUME CrashAndBoot PROVE SafetyInv'
  BY <1>8, CrashSafe
<1>9. ASSUME NEW r \in Requests,
             \/ Arrive(r) \/ Gate(r) \/ Charge(r) \/ LockTimeout(r) \/ Answer(r)
             \/ Lookup(r) \/ CheckExisting(r) \/ RecognitionConflicts(r)
             \/ ReadForSave(r) \/ SaveConflicts(r) \/ Rename(r) \/ Unlink(r)
      PROVE  SafetyInv'
  BY <1>1, <1>9, QuietSteps DEF Inv
<1> QED
  BY <1>0, <1>2, <1>3, <1>4, <1>5, <1>6, <1>7, <1>8, <1>9 DEF Next, Step

\* The whole invariant, for every library, set of keys and number of requests.
THEOREM Safety == Spec => []Inv
<1>1. Init => Inv
  BY TypeInit, SafetyInit DEF Inv
<1>2. Inv /\ [Next]_vars => Inv'
  BY TypeNext, SafetyNext DEF Inv
<1> QED
  BY <1>1, <1>2, PTL DEF Spec

\* A key never pays for two model calls at once, however many requests carry
\* it (the 'started' row is committed before the call).
THEOREM KeyPaysOnce == Spec => []SingleFlight
<1>1. Inv => SingleFlight
  BY DEF Inv, SafetyInv
<1> QED
  BY <1>1, Safety, PTL

\* Every completed key names a run of its own page, made with that key, so a
\* replay never runs out of something to say.
THEOREM ReplayHasRun == Spec => []CompletedKeyHasRun
<1>1. Inv => CompletedKeyHasRun
  BY DEF Inv, SafetyInv
<1> QED
  BY <1>1, Safety, PTL

\* The transcriptions row is always the materialized view of its current
\* revision.
THEOREM ViewOfHistory == Spec => []TranscriptionMatchesHistory
<1>1. Inv => TranscriptionMatchesHistory
  BY DEF Inv, SafetyInv
<1> QED
  BY <1>1, Safety, PTL

\* An acknowledged save is never lost from the history of a living page.
THEOREM NoSaveIsLost == Spec => []AcknowledgedSaveIsKept
<1>1. Inv => AcknowledgedSaveIsKept
  <2> SUFFICES ASSUME Inv, NEW r \in Requests, pc[r] = "done",
                      req[r].kind = "save", answer[r].code = 200,
                      req[r].scan \in scans
               PROVE  /\ revisions[r] # NoRow
                      /\ revisions[r].stf = r /\ revisions[r].scan = req[r].scan
    BY DEF AcknowledgedSaveIsKept
  <2>1. req[r] # NoRow
    BY DEF Inv, TypeInv, Route, Fits
  <2> QED
    BY <2>1 DEF Inv, SafetyInv, CommittedSaveIsKept
<1> QED
  BY <1>1, Safety, PTL

\* Recognition never replaces a review that its own check could see.
THEOREM SeenReviewsAreSafe == Spec => SeenReviewIsKept
<1> DEFINE Kept == \A s \in Scans, r \in Requests :
                     /\ trs[s] # NoRow /\ trs[s].status = "reviewed"
                     /\ trs'[s] # NoRow /\ trs'[s].rev = r /\ trs'[s] # trs[s]
                     /\ req[r].kind = "recognize"
                     => seen[r] # trs[s]
<1>1. Inv /\ [Next]_vars => [Kept]_vars
  <2> SUFFICES ASSUME Inv, Next PROVE Kept
    OBVIOUS
  <2> USE DEF Inv, TypeInv, TypeOK
  <2>1. ASSUME trs' = trs PROVE Kept
    BY <2>1
  <2>2. ASSUME NEW gone \in SUBSET Scans, Cascade(gone) PROVE Kept
    BY <2>2 DEF Cascade
  <2>3. ASSUME NEW o \in Requests, RecognitionSucceeds(o) PROVE Kept
    <3>1. req[o].scan \in Scans /\ req[o].kind = "recognize"
      BY <2>3, Served DEF RecognitionSucceeds, Route, Fits
    <3>2. \A s \in Scans : trs'[s] # trs[s] => s = req[o].scan /\ trs'[s].rev = o
      BY <2>3, <3>1 DEF RecognitionSucceeds
    <3>3. seen[o] # NoRow => seen[o].status # "reviewed"
      BY <2>3, <3>1 DEF RecognitionSucceeds, SafetyInv, SeenNotReviewed
    <3> QED
      BY <3>2, <3>3
  <2>4. ASSUME NEW o \in Requests, SaveSucceeds(o) PROVE Kept
    <3>1. req[o].scan \in Scans /\ req[o].kind = "save"
      BY <2>4, Served DEF SaveSucceeds, At
    <3>2. \A s \in Scans : trs'[s] # trs[s] => trs'[s].rev = o
      BY <2>4, <3>1 DEF SaveSucceeds
    <3> QED
      BY <3>1, <3>2
  <2>5. ASSUME NEW o \in Requests, DeleteScan(o) PROVE Kept
    <3>1. {req[o].scan} \in SUBSET Scans /\ Cascade({req[o].scan})
      BY <2>5, Served DEF DeleteScan, At
    <3> QED
      BY <3>1, <2>2
  <2>6. ASSUME NEW o \in Requests, DeleteSong(o) PROVE Kept
    <3>1. \/ trs' = trs
          \/ \E gone \in SUBSET Scans : Cascade(gone)
      BY <2>6 DEF DeleteSong, db
    <3> QED
      BY <3>1, <2>1, <2>2
  <2>7. ASSUME NEW o \in Requests, ClaimKey(o) \/ RecognitionFails(o) PROVE Kept
    BY <2>1, <2>7 DEF ClaimKey, RecognitionFails
  <2>8. ASSUME CrashAndBoot PROVE Kept
    BY <2>1, <2>8 DEF CrashAndBoot
  <2>9. ASSUME NEW o \in Requests, Quiet(o) PROVE Kept
    BY <2>1, <2>9 DEF Quiet
  <2> QED
    BY <2>3, <2>4, <2>5, <2>6, <2>7, <2>8, <2>9, QuietSteps DEF Next, Step
<1>2. Spec => []Inv /\ [][Next]_vars
  BY Safety, PTL DEF Spec
<1> QED
  BY <1>1, <1>2, PTL DEF SeenReviewIsKept

-----------------------------------------------------------------------------
(* The service implements the abstract key.                                *)

LEMMA KeyOutcomeOf ==
  ASSUME Inv, NEW k \in Keys
  PROVE  /\ KeyOutcome[k] = IF keys[k] = NoRow THEN "free"
                            ELSE IF keys[k].status = "started" THEN "pending"
                            ELSE keys[k].run
         /\ keys[k] # NoRow => keys[k].run \in Requests \cup {NoRow}
BY DEF KeyOutcome, Inv, TypeInv, TypeOK, KeyRow

\* Completing the key r holds settles it, with a run no other key has.
LEMMA CompleteKeySettles ==
  ASSUME Inv, Inv', NEW r \in Requests, pc[r] = "calling", req[r].scan \in scans,
         CompleteKey(r)
  PROVE  [Abstract!KNext]_KeyOutcome
<1> USE DEF Inv, SafetyInv
<1>1. CASE req[r].key \notin Keys
  <2>1. keys' = keys
    BY <1>1 DEF CompleteKey, TypeInv, TypeOK
  <2> QED
    BY <2>1 DEF KeyOutcome
<1>2. CASE req[r].key \in Keys
  <2> DEFINE k == req[r].key
  <2>1. keys[k] = Started(req[r].scan) /\ Started(req[r].scan) # NoRow
    BY <1>2, Served, StartedRow, NoKeyAssumption DEF HolderOwnsKey, Holds
  <2>2. KeyOutcome[k] = "pending"
    BY <1>2, <2>1, KeyOutcomeOf DEF Started
  <2>3. keys'[k] # NoRow /\ keys'[k].status = "completed" /\ keys'[k].run = r
    <3>1. keys'[k] = [Started(req[r].scan) EXCEPT !.status = "completed", !.run = r]
      BY <1>2, <2>1 DEF CompleteKey
    <3>2. keys'[k] = [scan |-> req[r].scan, status |-> "completed", run |-> r]
      BY <3>1 DEF Started
    <3>3. [scan |-> req[r].scan, status |-> "completed", run |-> r] \in KeyRow
      BY Served DEF KeyRow
    <3> QED
      BY <3>2, <3>3, RowAssumption
  <2>4. \A other \in Keys : KeyOutcome[other] # r
    <3>1. runs[r] = NoRow
      BY DEF Fresh
    <3>2. ASSUME NEW other \in Keys, keys[other] # NoRow PROVE keys[other].run # r
      BY <3>1, <3>2, NoRowAssumption DEF CompletedKeyHasRun
    <3> QED
      BY <3>2, KeyOutcomeOf, OutcomeAssumption
  <2>5. KeyOutcome' = [KeyOutcome EXCEPT ![k] = r]
    <3>1. KeyOutcome'[k] = r
      BY <1>2, <2>3 DEF KeyOutcome
    <3>2. \A other \in Keys \ {k} : keys'[other] = keys[other]
      BY DEF CompleteKey
    <3>3. \A other \in Keys \ {k} : KeyOutcome'[other] = KeyOutcome[other]
      BY <3>2 DEF KeyOutcome
    <3> QED
      BY <1>2, <3>1, <3>3 DEF KeyOutcome
  <2> QED
    BY <1>2, <2>2, <2>4, <2>5 DEF Abstract!KNext, Abstract!Settle
<1> QED
  BY <1>1, <1>2

\* Dropping rows forgets their keys.
LEMMA DroppingForgets ==
  ASSUME NEW K \in SUBSET Keys,
         keys' = [k \in Keys |-> IF k \in K THEN NoRow ELSE keys[k]]
  PROVE  [Abstract!KNext]_KeyOutcome
<1>1. KeyOutcome' = [k \in Keys |-> IF k \in K THEN "free" ELSE KeyOutcome[k]]
  BY DEF KeyOutcome
<1> QED
  BY <1>1 DEF Abstract!KNext, Abstract!Forget

LEMMA CascadeForgets ==
  ASSUME Inv, NEW gone \in SUBSET Scans, Cascade(gone)
  PROVE  [Abstract!KNext]_KeyOutcome
<1> DEFINE K == {k \in Keys : keys[k] # NoRow /\ keys[k].scan \in gone}
<1>1. keys' = [k \in Keys |-> IF k \in K THEN NoRow ELSE keys[k]]
  BY DEF Cascade
<1> QED
  BY <1>1, DroppingForgets

\* recognize, the deletes and the boot prune keep the promise of an
\* Idempotency-Key for every number of keys and requests.
THEOREM KeyRefinement == Spec => ImplementsIdempotentKey
<1>1. Init => Abstract!KInit
  <2> SUFFICES ASSUME Init PROVE KeyOutcome \in [Keys -> {"free", NoRow}]
    BY DEF Abstract!KInit
  <2>1. \A s \in Scans : LegacyKey(s).status = "completed" /\ LegacyKey(s).run = NoRow
    BY DEF LegacyKey
  <2>2. \A k \in Keys : keys[k] # NoRow => keys[k].status = "completed" /\ keys[k].run = NoRow
    BY <2>1 DEF Init
  <2> QED
    BY <2>2 DEF KeyOutcome
<1>2. Inv /\ Inv' /\ [Next]_vars => [Abstract!KNext]_KeyOutcome
  <2> SUFFICES ASSUME Inv, Inv', [Next]_vars PROVE [Abstract!KNext]_KeyOutcome
    OBVIOUS
  <2>1. ASSUME keys' = keys PROVE [Abstract!KNext]_KeyOutcome
    BY <2>1 DEF KeyOutcome
  <2>2. ASSUME NEW r \in Requests, ClaimKey(r) PROVE [Abstract!KNext]_KeyOutcome
    <3> DEFINE k == req[r].key
    <3>1. k \in Keys /\ req[r].scan \in Scans
      BY <2>2, Served DEF ClaimKey, Inv, TypeInv, Route, Fits
    <3>2. CASE keys[k] = NoRow /\ keys' = [keys EXCEPT ![k] = Started(req[r].scan)]
      <4>1. KeyOutcome[k] = "free"
        BY <3>1, <3>2 DEF KeyOutcome
      <4>2. keys'[k] = Started(req[r].scan)
        BY <3>1, <3>2 DEF Inv, TypeInv, TypeOK
      <4>3. KeyOutcome'[k] = "pending"
        BY <3>1, <4>2, StartedRow DEF KeyOutcome, Started
      <4>4. \A other \in Keys \ {k} : keys'[other] = keys[other]
        BY <3>2 DEF Inv, TypeInv, TypeOK
      <4>5. KeyOutcome' = [KeyOutcome EXCEPT ![k] = "pending"]
        BY <3>1, <4>3, <4>4 DEF KeyOutcome
      <4> QED
        BY <3>1, <4>1, <4>5 DEF Abstract!KNext, Abstract!Claim
    <3> QED
      BY <2>1, <2>2, <3>2 DEF ClaimKey, Started
  <2>3. ASSUME NEW r \in Requests, RecognitionSucceeds(r) \/ RecognitionFails(r)
        PROVE  [Abstract!KNext]_KeyOutcome
    BY <2>3, CompleteKeySettles DEF RecognitionSucceeds, RecognitionFails
  <2>4. ASSUME NEW r \in Requests, DeleteScan(r) PROVE [Abstract!KNext]_KeyOutcome
    <3>1. {req[r].scan} \in SUBSET Scans /\ Cascade({req[r].scan})
      BY <2>4, Served DEF DeleteScan, At, Inv
    <3> QED
      BY <3>1, CascadeForgets
  <2>5. ASSUME NEW r \in Requests, DeleteSong(r) PROVE [Abstract!KNext]_KeyOutcome
    <3>1. \/ keys' = keys
          \/ \E gone \in SUBSET Scans : Cascade(gone)
      BY <2>5 DEF DeleteSong, db
    <3> QED
      BY <3>1, <2>1, CascadeForgets
  <2>6. ASSUME CrashAndBoot PROVE [Abstract!KNext]_KeyOutcome
    BY <2>6, DroppingForgets DEF CrashAndBoot
  <2>7. ASSUME NEW r \in Requests, Quiet(r) \/ SaveSucceeds(r)
        PROVE  [Abstract!KNext]_KeyOutcome
    BY <2>1, <2>7 DEF Quiet, SaveSucceeds
  <2>8. CASE UNCHANGED vars
    BY <2>1, <2>8 DEF vars
  <2> QED
    BY <2>2, <2>3, <2>4, <2>5, <2>6, <2>7, <2>8, QuietSteps DEF Next, Step, Inv
<1> QED
  BY <1>1, <1>2, Safety, PTL DEF Spec, ImplementsIdempotentKey, Abstract!KSpec

-----------------------------------------------------------------------------
(* Answers and claimed keys: two facts inductive on top of the invariant.  *)

\* A request keeps what it asks for and, once done, its answer.
LEMMA RequestsLast ==
  ASSUME Inv, [Next]_vars, NEW x \in Requests
  PROVE  /\ pc[x] # "idle" => pc'[x] # "idle" /\ req'[x] = req[x]
         /\ pc[x] = "done" => pc'[x] = "done" /\ answer'[x] = answer[x]
<1> USE DEF Inv, TypeInv, TypeOK
<1>1. ASSUME NEW r \in Requests, Quiet(r)
      PROVE  /\ pc[x] # "idle" => pc'[x] # "idle" /\ req'[x] = req[x]
             /\ pc[x] = "done" => pc'[x] = "done" /\ answer'[x] = answer[x]
  BY <1>1 DEF Quiet, Others
<1>2. ASSUME NEW r \in Requests,
             \/ ClaimKey(r) \/ RecognitionSucceeds(r) \/ RecognitionFails(r)
             \/ SaveSucceeds(r) \/ DeleteScan(r) \/ DeleteSong(r)
      PROVE  /\ pc[x] # "idle" => pc'[x] # "idle" /\ req'[x] = req[x]
             /\ pc[x] = "done" => pc'[x] = "done" /\ answer'[x] = answer[x]
  <2>1. pc[r] \notin {"idle", "done"} /\ pc'[r] # "idle" /\ req' = req
    BY <1>2 DEF ClaimKey, RecognitionSucceeds, RecognitionFails, SaveSucceeds, DeleteScan,
                DeleteSong, At, Refuse, Reply, Goto
  <2>2. x # r => pc'[x] = pc[x] /\ answer'[x] = answer[x]
    BY <1>2 DEF ClaimKey, RecognitionSucceeds, RecognitionFails, SaveSucceeds, DeleteScan,
                DeleteSong, Refuse, Reply, Goto
  <2> QED
    BY <2>1, <2>2
<1>3. CASE CrashAndBoot
  BY <1>3 DEF CrashAndBoot, InFlight
<1>4. CASE UNCHANGED vars
  BY <1>4 DEF vars
<1> QED
  BY <1>1, <1>2, <1>3, <1>4, QuietSteps DEF Next, Step

\* Runs, revisions and answers are of their request's page.
OwnPage ==
  /\ \A x \in Requests : runs[x] # NoRow => runs[x].scan = req[x].scan
  /\ \A x \in Requests :
       revisions[x] # NoRow => revisions[x].stf = x /\ revisions[x].scan = req[x].scan
  /\ \A r \in Requests :
       pc[r] = "done" /\ answer[r].stf # NoRow =>
         /\ answer[r].stf \in Requests /\ pc[answer[r].stf] # "idle"
         /\ req[answer[r].stf].scan = req[r].scan

\* What a request is told when it is done: nothing, or a document of its page.
TellsOwn(r) ==
  pc'[r] = "done" =>
    \/ answer'[r].stf = NoRow
    \/ /\ answer'[r].stf \in Requests /\ pc[answer'[r].stf] # "idle"
       /\ req[answer'[r].stf].scan = req[r].scan

LEMMA RefusalTellsOwn ==
  ASSUME Inv, NEW r \in Requests, NEW code, Refuse(r, code)
  PROVE  TellsOwn(r)
BY DEF Inv, TypeInv, TypeOK, Refuse, Reply, TellsOwn

LEMMA StepTellsOwn ==
  ASSUME Inv, OwnPage, NEW r \in Requests, Arrive(r) \/ Step(r)
  PROVE  TellsOwn(r)
<1> USE DEF Inv, TypeInv, TypeOK
<1>0. ASSUME NEW place, Goto(r, place), place # "done" PROVE TellsOwn(r)
  BY <1>0 DEF Goto, TellsOwn
<1>1. CASE Answer(r)
  <2> DEFINE row == trs[req[r].scan]
  <2>1. CASE row = NoRow
    BY <1>1, <2>1, RefusalTellsOwn DEF Answer
  <2>2. CASE row # NoRow
    <3>1. req[r].scan \in Scans
      BY <1>1, Served DEF Answer
    <3>2. /\ row.rev \in Requests /\ revisions[row.rev] # NoRow
          /\ revisions[row.rev].scan = req[r].scan
      BY <2>2, <3>1, HistoryOf
    <3>3. revisions[row.rev].stf = row.stf
      BY <2>2, <3>1 DEF SafetyInv, TranscriptionMatchesHistory
    <3>4. row.stf = row.rev /\ req[row.stf].scan = req[r].scan
      BY <3>2, <3>3 DEF OwnPage
    <3>5. pc[row.stf] # "idle"
      BY <3>2, <3>4 DEF SafetyInv, Fresh
    <3>6. answer'[r].stf = row.stf
      BY <1>1, <2>2 DEF Answer, Reply
    <3> QED
      BY <3>2, <3>4, <3>5, <3>6 DEF TellsOwn
  <2> QED
    BY <2>1, <2>2
<1>2. CASE Lookup(r)
  <2> DEFINE prior == keys[req[r].key]
  <2>1. CASE Goto(r, "read")
    BY <2>1, <1>0
  <2>2. CASE Refuse(r, 409) \/ Refuse(r, 503)
    BY <2>2, RefusalTellsOwn
  <2>3. CASE /\ prior # NoRow /\ prior.scan = req[r].scan
             /\ prior.run # NoRow /\ Reply(r, 201, prior.run, "draft")
    <3>1. req[r].key \in Keys
      BY <1>2 DEF Lookup, Route, Fits
    <3>2. prior.run \in Requests
      BY <2>3, <3>1 DEF KeyRow
    <3>3. runs[prior.run] # NoRow /\ runs[prior.run].scan = req[r].scan
      BY <2>3, <3>1 DEF SafetyInv, CompletedKeyHasRun
    <3>4. req[prior.run].scan = req[r].scan
      BY <3>2, <3>3 DEF OwnPage
    <3>5. pc[prior.run] # "idle"
      BY <3>2, <3>3 DEF SafetyInv, Fresh
    <3>6. answer'[r].stf = prior.run
      BY <2>3 DEF Reply
    <3> QED
      BY <3>2, <3>4, <3>5, <3>6 DEF TellsOwn
  <2> QED
    BY <1>2, <2>1, <2>2, <2>3 DEF Lookup
<1>3. CASE Arrive(r)
  BY <1>3 DEF Arrive, Goto, Entry, TellsOwn
<1>4. CASE Gate(r)
  <2>1. PastGate(req[r]) # "done"
    BY DEF PastGate, Keyed, Unkeyed
  <2> QED
    BY <1>0, <1>4, <2>1, RefusalTellsOwn DEF Gate
<1>5. CASE Charge(r)
  <2>1. PastCharge(req[r]) # "done"
    BY <1>5, Served DEF Charge, PastCharge, Keyed, Unkeyed, Kinds
  <2> QED
    BY <1>0, <1>5, <2>1, RefusalTellsOwn DEF Charge
<1>6. CASE LockTimeout(r) \/ RecognitionFails(r) \/ RecognitionConflicts(r)
             \/ SaveConflicts(r) \/ Unlink(r)
  BY <1>6, RefusalTellsOwn DEF LockTimeout, RecognitionFails, RecognitionConflicts,
                               SaveConflicts, Unlink
<1>7. CASE CheckExisting(r) \/ ClaimKey(r)
  BY <1>0, <1>7, RefusalTellsOwn DEF CheckExisting, ClaimKey
<1>8. CASE RecognitionSucceeds(r) \/ ReadForSave(r) \/ SaveSucceeds(r) \/ DeleteScan(r)
  BY <1>0, <1>8 DEF RecognitionSucceeds, ReadForSave, SaveSucceeds, DeleteScan
<1>9. CASE DeleteSong(r) \/ Rename(r)
  BY <1>0, <1>9, RefusalTellsOwn DEF DeleteSong, Rename
<1> QED
  BY <1>1, <1>2, <1>3, <1>4, <1>5, <1>6, <1>7, <1>8, <1>9 DEF Step

\* A row of the two histories is there already, or is its request's own.
LEMMA RowsAreOwn ==
  ASSUME Inv, OwnPage, [Next]_vars, NEW x \in Requests
  PROVE  /\ runs'[x] # NoRow => runs'[x].scan = req'[x].scan
         /\ revisions'[x] # NoRow => revisions'[x].stf = x /\ revisions'[x].scan = req'[x].scan
<1> USE DEF Inv, TypeInv, TypeOK
<1>1. ASSUME runs'[x] \in {runs[x], NoRow}, revisions'[x] \in {revisions[x], NoRow}
      PROVE  /\ runs'[x] # NoRow => runs'[x].scan = req'[x].scan
             /\ revisions'[x] # NoRow => revisions'[x].stf = x /\ revisions'[x].scan = req'[x].scan
  <2>1. runs[x] # NoRow \/ revisions[x] # NoRow => req'[x] = req[x]
    BY RequestsLast DEF SafetyInv, Fresh
  <2> QED
    BY <1>1, <2>1 DEF OwnPage
<1>2. ASSUME NEW r \in Requests, r # x, RecognitionSucceeds(r) \/ SaveSucceeds(r) \/ RecognitionFails(r)
      PROVE  runs'[x] = runs[x] /\ revisions'[x] = revisions[x]
  BY <1>2 DEF RecognitionSucceeds, RecognitionFails, SaveSucceeds
<1>3. ASSUME RecognitionSucceeds(x) \/ RecognitionFails(x)
      PROVE  /\ runs'[x].scan = req'[x].scan
             /\ revisions'[x] # NoRow => revisions'[x].stf = x /\ revisions'[x].scan = req'[x].scan
  <2>1. revisions[x] = NoRow /\ req' = req
    BY <1>3 DEF RecognitionSucceeds, RecognitionFails, SafetyInv, Fresh
  <2>2. CASE RecognitionSucceeds(x)
    BY <2>1, <2>2 DEF RecognitionSucceeds
  <2>3. CASE RecognitionFails(x)
    BY <2>1, <2>3 DEF RecognitionFails
  <2> QED
    BY <1>3, <2>2, <2>3
<1>4. ASSUME SaveSucceeds(x)
      PROVE  /\ runs'[x] = NoRow
             /\ revisions'[x].stf = x /\ revisions'[x].scan = req'[x].scan
  BY <1>4 DEF SaveSucceeds, At, SafetyInv, Fresh
<1>5. ASSUME NEW r \in Requests, DeleteScan(r) \/ DeleteSong(r)
      PROVE  runs'[x] \in {runs[x], NoRow} /\ revisions'[x] \in {revisions[x], NoRow}
  <2>1. (runs' = runs /\ revisions' = revisions) \/ \E gone : Cascade(gone)
    BY <1>5 DEF DeleteScan, DeleteSong, db
  <2> QED
    BY <2>1 DEF Cascade
<1>6. ASSUME NEW r \in Requests, Quiet(r) \/ ClaimKey(r)
      PROVE  runs'[x] = runs[x] /\ revisions'[x] = revisions[x]
  BY <1>6 DEF Quiet, ClaimKey
<1>7. CASE CrashAndBoot \/ UNCHANGED vars
  BY <1>1, <1>7 DEF CrashAndBoot, vars
<1> QED
  BY <1>1, <1>2, <1>3, <1>4, <1>5, <1>6, <1>7, QuietSteps DEF Next, Step

\* A step moves one request.
LEMMA OneMoves ==
  ASSUME Inv, NEW r \in Requests, Arrive(r) \/ Step(r), NEW x \in Requests, x # r
  PROVE  pc'[x] = pc[x]
<1> USE DEF Inv, TypeInv, TypeOK
<1>1. CASE Quiet(r)
  BY <1>1 DEF Quiet, Others
<1>2. CASE \/ ClaimKey(r) \/ RecognitionSucceeds(r) \/ RecognitionFails(r)
           \/ SaveSucceeds(r) \/ DeleteScan(r) \/ DeleteSong(r)
  <2>1. \E place : Goto(r, place)
    BY <1>2 DEF ClaimKey, RecognitionSucceeds, RecognitionFails, SaveSucceeds, DeleteScan,
                DeleteSong, Refuse, Reply
  <2> QED
    BY <2>1 DEF Goto
<1> QED
  BY <1>1, <1>2, QuietSteps DEF Step

\* No request is done when it arrives.
LEMMA ArrivalGoesOn ==
  ASSUME Inv, NEW r \in Requests, Arrive(r) \/ Step(r), pc'[r] = "done"
  PROVE  pc[r] # "idle"
<1>1. CASE Arrive(r)
  BY <1>1 DEF Arrive, Goto, Entry, Inv, TypeInv, TypeOK
<1>2. CASE Step(r)
  BY <1>2 DEF Step, Gate, Charge, LockTimeout, Answer, Lookup, CheckExisting, ClaimKey,
     RecognitionSucceeds, RecognitionFails, RecognitionConflicts, ReadForSave, SaveSucceeds,
     SaveConflicts, Rename, DeleteScan, DeleteSong, Unlink, At
<1> QED
  BY <1>1, <1>2

LEMMA OwnPageNext == Inv /\ OwnPage /\ [Next]_vars => OwnPage'
<1> SUFFICES ASSUME Inv, OwnPage, [Next]_vars PROVE OwnPage'
  OBVIOUS
<1>1. ASSUME NEW r \in Requests, pc'[r] = "done", answer'[r].stf # NoRow
      PROVE  /\ answer'[r].stf \in Requests /\ pc'[answer'[r].stf] # "idle"
             /\ req'[answer'[r].stf].scan = req'[r].scan
  <2>1. pc[r] # "idle" => req'[r] = req[r]
    BY RequestsLast
  <2>2. CASE pc[r] = "done"
    <3>1. /\ answer[r].stf \in Requests /\ pc[answer[r].stf] # "idle"
          /\ req[answer[r].stf].scan = req[r].scan /\ answer'[r] = answer[r]
      BY <1>1, <2>2, RequestsLast DEF OwnPage
    <3> QED
      BY <2>1, <2>2, <3>1, RequestsLast
  <2>3. CASE pc[r] # "done"
    <3>1. TellsOwn(r) /\ pc[r] # "idle"
      <4>1. PICK o \in Requests : Arrive(o) \/ Step(o)
        BY <1>1, <2>3 DEF Next, vars, CrashAndBoot, Inv, TypeInv, TypeOK
      <4>2. o = r
        <5>1. o # r => pc'[r] = pc[r]
          BY <4>1, OneMoves
        <5> QED
          BY <1>1, <2>3, <5>1
      <4>3. TellsOwn(r)
        BY <4>1, <4>2, StepTellsOwn
      <4>4. pc[r] # "idle"
        BY <1>1, <4>1, <4>2, ArrivalGoesOn
      <4> QED
        BY <4>3, <4>4
    <3>2. /\ answer'[r].stf \in Requests /\ pc[answer'[r].stf] # "idle"
          /\ req[answer'[r].stf].scan = req[r].scan
      BY <1>1, <3>1 DEF TellsOwn
    <3> QED
      BY <2>1, <3>1, <3>2, RequestsLast
  <2> QED
    BY <2>2, <2>3
<1> QED
  BY <1>1, RowsAreOwn DEF OwnPage

\* No answer shows a document of another page, for every set of pages, keys and
\* requests.
THEOREM AnswersAreOwn == Spec => []AnswerIsOfOwnPage
<1>1. Init => OwnPage
  BY DEF Init, OwnPage
<1>2. Inv /\ OwnPage /\ [Next]_vars => OwnPage'
  BY OwnPageNext
<1>3. OwnPage => AnswerIsOfOwnPage
  BY DEF OwnPage, AnswerIsOfOwnPage
<1> QED
  BY <1>1, <1>2, <1>3, Safety, PTL DEF Spec

\* Who left a key 'started'.
Cause(k, r) ==
  /\ req[r] # NoRow /\ req[r].key = k /\ req[r].scan = keys[k].scan
  /\ \/ pc[r] \in {"calling", "died"}
     \/ pc[r] = "done" /\ answer[r].code = 500

\* A key whose row stays is still explained by the same request.
LEMMA CauseKept ==
  ASSUME Inv, [Next]_vars, NEW k \in Keys, NEW x \in Requests, Cause(k, x),
         keys[k] # NoRow, keys[k].status = "started", keys'[k] = keys[k]
  PROVE  Cause(k, x)'
<1> USE DEF Inv, TypeInv, TypeOK
<1>1. pc[x] # "idle"
  BY DEF Cause
<1>2. req'[x] = req[x] /\ (pc[x] = "done" => pc'[x] = "done" /\ answer'[x] = answer[x])
  BY <1>1, RequestsLast
<1>3. ASSUME pc'[x] = pc[x] PROVE Cause(k, x)'
  BY <1>2, <1>3 DEF Cause
<1>4. ASSUME NEW r \in Requests, r # x, Arrive(r) \/ Step(r) PROVE Cause(k, x)'
  BY <1>3, <1>4, OneMoves
<1>5. ASSUME Arrive(x) \/ Step(x), pc[x] # "done" PROVE Cause(k, x)'
  <2>1. pc[x] \in {"calling", "died"}
    BY <1>5 DEF Cause
  <2>2. LockTimeout(x) \/ RecognitionConflicts(x) \/ RecognitionSucceeds(x) \/ RecognitionFails(x)
    BY <1>5, <2>1 DEF Step, Arrive, Gate, Charge, Answer, Lookup, CheckExisting, ClaimKey,
       ReadForSave, SaveSucceeds, SaveConflicts, Rename, DeleteScan, DeleteSong, Unlink, At
  <2>3. CASE LockTimeout(x) \/ RecognitionConflicts(x)
    <3>1. Refuse(x, 500)
      BY <2>3 DEF LockTimeout, RecognitionConflicts
    <3>2. pc'[x] = "done" /\ answer'[x].code = 500
      BY <3>1 DEF Refuse, Reply, Goto
    <3> QED
      BY <1>2, <3>2 DEF Cause
  <2>4. CASE RecognitionSucceeds(x) \/ RecognitionFails(x)
    <3>1. CompleteKey(x) /\ req[x].key = k
      BY <2>4 DEF RecognitionSucceeds, RecognitionFails, Cause
    <3>2. keys'[k].status = "completed"
      BY <3>1 DEF CompleteKey, KeyRow
    <3> QED
      BY <3>2
  <2> QED
    BY <2>2, <2>3, <2>4
<1>6. CASE CrashAndBoot
  BY <1>2, <1>6 DEF CrashAndBoot, InFlight, Cause
<1>7. CASE UNCHANGED vars
  BY <1>3, <1>7 DEF vars
<1>8. CASE pc[x] = "done"
  BY <1>2, <1>3, <1>8
<1> QED
  BY <1>4, <1>5, <1>6, <1>7, <1>8 DEF Next

\* A key becomes 'started' by a claim only.
LEMMA StartedByClaim ==
  ASSUME Inv, [Next]_vars, NEW k \in Keys, keys'[k] # NoRow, keys'[k].status = "started"
  PROVE  keys'[k] = keys[k] \/ \E r \in Requests : ClaimKey(r) /\ req[r].key = k
<1> USE DEF Inv, TypeInv, TypeOK
<1>1. ASSUME NEW r \in Requests, CompleteKey(r) PROVE keys'[k] = keys[k]
  <2>1. keys[k] # NoRow => [keys[k] EXCEPT !.status = "completed", !.run = r].status = "completed"
    BY DEF KeyRow
  <2> QED
    BY <1>1, <2>1 DEF CompleteKey
<1>2. ASSUME NEW gone, Cascade(gone) PROVE keys'[k] = keys[k]
  BY <1>2 DEF Cascade
<1>3. ASSUME NEW r \in Requests, Quiet(r) \/ SaveSucceeds(r) PROVE keys'[k] = keys[k]
  BY <1>3 DEF Quiet, SaveSucceeds
<1>4. ASSUME NEW r \in Requests, DeleteScan(r) \/ DeleteSong(r) PROVE keys'[k] = keys[k]
  BY <1>2, <1>4 DEF DeleteScan, DeleteSong, db
<1>5. ASSUME NEW r \in Requests, RecognitionSucceeds(r) \/ RecognitionFails(r)
      PROVE  keys'[k] = keys[k]
  BY <1>1, <1>5 DEF RecognitionSucceeds, RecognitionFails
<1>6. ASSUME NEW r \in Requests, ClaimKey(r), req[r].key # k PROVE keys'[k] = keys[k]
  BY <1>6 DEF ClaimKey
<1>7. CASE CrashAndBoot \/ UNCHANGED vars
  BY <1>7 DEF CrashAndBoot, vars
<1> QED
  BY <1>3, <1>4, <1>5, <1>6, <1>7, QuietSteps DEF Next, Step

\* A key stays 'started' only while its request is with the model, or because
\* that request died or ended in a bare 500, for every set of keys and requests.
THEOREM StartedKeysAreCaused == Spec => []StartedKeyHasCause
<1>1. Init => StartedKeyHasCause
  <2> SUFFICES ASSUME Init PROVE StartedKeyHasCause
    OBVIOUS
  <2>1. \A s \in Scans : LegacyKey(s).status = "completed"
    BY DEF LegacyKey
  <2>2. \A k \in Keys : keys[k] # NoRow => keys[k].status = "completed"
    BY <2>1 DEF Init
  <2> QED
    BY <2>2 DEF StartedKeyHasCause
<1>2. Inv /\ StartedKeyHasCause /\ [Next]_vars => StartedKeyHasCause'
  <2> SUFFICES ASSUME Inv, StartedKeyHasCause, [Next]_vars, NEW k \in Keys,
                      keys'[k] # NoRow, keys'[k].status = "started"
               PROVE  \E r \in Requests : Cause(k, r)'
    BY DEF StartedKeyHasCause, Cause
  <2>1. CASE keys'[k] = keys[k]
    <3>1. PICK x \in Requests : Cause(k, x)
      BY <2>1 DEF StartedKeyHasCause, Cause
    <3> QED
      BY <2>1, <3>1, CauseKept
  <2>2. ASSUME NEW r \in Requests, ClaimKey(r), req[r].key = k, keys'[k] # keys[k]
        PROVE  Cause(k, r)'
    <3>1. /\ keys' = [keys EXCEPT ![k] = Started(req[r].scan)] /\ Goto(r, "calling")
          /\ req' = req /\ pc[r] # "idle"
      BY <2>2 DEF ClaimKey, Started
    <3>2. keys'[k].scan = req[r].scan /\ pc'[r] = "calling"
      BY <3>1 DEF Started, Goto, Inv, TypeInv, TypeOK
    <3> QED
      BY <2>2, <3>1, <3>2 DEF Cause, Inv, TypeInv, Route, Fits
  <2> QED
    BY <2>1, <2>2, StartedByClaim
<1> QED
  BY <1>1, <1>2, Safety, PTL DEF Spec
=============================================================================
