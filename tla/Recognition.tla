----------------------------- MODULE Recognition -----------------------------
(***************************************************************************)
(* The recognition and transcription service of one owner's library:       *)
(* backend/app/routers/transcriptions.py with the deletes and the rename   *)
(* that race it.                                                           *)
(*                                                                         *)
(* Every handler here is a `def` endpoint, so it runs on a thread of the   *)
(* server's pool and interleaves with all the others.  Each request has    *)
(* its own SQLite connection: a SELECT outside a transaction is a read of  *)
(* its own, and the first INSERT, UPDATE or DELETE takes the write lock    *)
(* until the commit, so the statements from there to the commit are one    *)
(* atomic step.  A request that fails between the two is rolled back by    *)
(* conn.close().                                                           *)
(*                                                                         *)
(* A request is its own name for everything it writes: the uuid of the     *)
(* run and of the revision it inserts, and the STF document it stores, are *)
(* all the request itself.                                                 *)
(***************************************************************************)
EXTENDS Naturals, FiniteSets

CONSTANTS
  Songs,      \* songs of the owner
  Scans,      \* pages, uploaded before the run starts
  SongOf,     \* [Scans -> Songs], the column scans.song_id
  Keys,       \* the Idempotency-Key values a client may send
  Requests,   \* HTTP requests, each served once
  NoKey,      \* no Idempotency-Key header
  NoRow       \* an absent row, and SQL's NULL

ASSUME SongOfAssumption == SongOf \in [Scans -> Songs]
ASSUME NoKeyAssumption == NoKey \notin Keys
ASSUME NoRowAssumption == NoRow \notin Requests

\* The abstract key's two states without a run are not runs.
ASSUME OutcomeAssumption ==
  {"free", "pending"} \cap (Requests \cup {NoRow}) = {}

VARIABLES
  title,      \* songs: the title, or NoRow when the song is deleted
  scans,      \* the rows of the table scans
  images,     \* the scans whose original is in the data dir
  trs,        \* transcriptions, by scan
  runs,       \* recognition_runs, by the request that inserted them
  revisions,  \* transcription_revisions, by the request that inserted them
  keys,       \* recognition_idempotency, by key
  pc,         \* where each request's handler is
  req,        \* what each request asks for
  seen,       \* the handler's local `existing`, read long before it is used
  answer      \* the response each request was given

db == <<title, scans, trs, runs, revisions, keys>>
vars == <<title, scans, images, trs, runs, revisions, keys,
          pc, req, seen, answer>>

Statuses == {"draft", "reviewed"}
Titles == {"", "human", "suggested"}

TrRow == [stf : Requests, status : Statuses,
          run : Requests \cup {NoRow}, rev : Requests]
RunRow == [scan : Scans, outcome : {"succeeded", "failed"}]
RevRow == [scan : Scans, run : Requests \cup {NoRow}, stf : Requests,
           status : Statuses, source : {"recognition", "manual"}]
KeyRow == [scan : Scans, status : {"started", "completed"},
           run : Requests \cup {NoRow}]

Recognize(s, k) == [kind |-> "recognize", scan |-> s, key |-> k,
                    status |-> "draft"]
Save(s, st) == [kind |-> "save", scan |-> s, key |-> NoKey, status |-> st]
Other(kind, s) == [kind |-> kind, scan |-> s, key |-> NoKey,
                   status |-> "draft"]

\* What the routes accept: recognize with or without a key, a save of either
\* status, the deletes of a page or of its whole song, and a rename.
Queries == {Recognize(s, k) : s \in Scans, k \in Keys \cup {NoKey}}
             \cup {Save(s, st) : s \in Scans, st \in Statuses}
             \cup {Other(kind, s) : kind \in {"deleteScan", "deleteSong", "rename"},
                                    s \in Scans}

Answers == [code : {200, 201, 204, 404, 409, 429, 500, 503},
            stf : Requests \cup {NoRow}, status : Statuses \cup {NoRow}]

\* NULL is none of the rows.
ASSUME RowAssumption ==
  NoRow \notin TrRow \cup RunRow \cup RevRow \cup KeyRow \cup Queries \cup Answers

Places == {"idle", "gate", "lookup", "read", "charge", "claim", "calling",
           "write", "delete", "unlink", "answer", "done", "died"}

TypeOK ==
  /\ title \in [Songs -> Titles \cup {NoRow}]
  /\ scans \in SUBSET Scans
  /\ images \in SUBSET Scans
  /\ trs \in [Scans -> TrRow \cup {NoRow}]
  /\ runs \in [Requests -> RunRow \cup {NoRow}]
  /\ revisions \in [Requests -> RevRow \cup {NoRow}]
  /\ keys \in [Keys -> KeyRow \cup {NoRow}]
  /\ pc \in [Requests -> Places]
  /\ req \in [Requests -> Queries \cup {NoRow}]
  /\ seen \in [Requests -> TrRow \cup {NoRow}]
  /\ answer \in [Requests -> Answers \cup {NoRow}]

-----------------------------------------------------------------------------
(* Helpers.                                                                *)

\* A key that migration 005 found completed has no run to replay.
LegacyKey(s) == [scan |-> s, status |-> "completed", run |-> NoRow]

\* Pages are there, untitled or titled by hand, and not yet transcribed.
Init ==
  /\ title \in [Songs -> {"", "human"}]
  /\ scans = Scans
  /\ images = Scans
  /\ trs = [s \in Scans |-> NoRow]
  /\ runs = [r \in Requests |-> NoRow]
  /\ revisions = [r \in Requests |-> NoRow]
  /\ keys \in [Keys -> {NoRow} \cup {LegacyKey(s) : s \in Scans}]
  /\ pc = [r \in Requests |-> "idle"]
  /\ req = [r \in Requests |-> NoRow]
  /\ seen = [r \in Requests |-> NoRow]
  /\ answer = [r \in Requests |-> NoRow]

\* r's handler is at `place`, serving a request of that kind.
At(r, place, kind) == pc[r] = place /\ req[r].kind = kind

Goto(r, place) == pc' = [pc EXCEPT ![r] = place]

\* The handler returns or raises: the response leaves the server.
Reply(r, code, stf, status) ==
  /\ Goto(r, "done")
  /\ answer' = [answer EXCEPT ![r] = [code |-> code, stf |-> stf,
                                      status |-> status]]

Refuse(r, code) == Reply(r, code, NoRow, NoRow)

\* Seeded bug: the keys' foreign key does not cascade.
CascadeSparesKeys(gone) ==
  /\ scans' = scans \ gone
  /\ trs' = [s \in Scans |-> IF s \in gone THEN NoRow ELSE trs[s]]
  /\ runs' = [r \in Requests |->
                IF runs[r] # NoRow /\ runs[r].scan \in gone THEN NoRow ELSE runs[r]]
  /\ revisions' = [r \in Requests |->
                     IF revisions[r] # NoRow /\ revisions[r].scan \in gone
                       THEN NoRow ELSE revisions[r]]
  /\ UNCHANGED keys

\* ON DELETE CASCADE from scans: its transcription with that one's revisions,
\* its runs and its keys.
Cascade(gone) ==
  /\ scans' = scans \ gone
  /\ trs' = [s \in Scans |-> IF s \in gone THEN NoRow ELSE trs[s]]
  /\ runs' = [r \in Requests |->
                IF runs[r] # NoRow /\ runs[r].scan \in gone
                  THEN NoRow ELSE runs[r]]
  /\ revisions' = [r \in Requests |->
                     IF revisions[r] # NoRow /\ revisions[r].scan \in gone
                       THEN NoRow ELSE revisions[r]]
  /\ keys' = [k \in Keys |->
                IF keys[k] # NoRow /\ keys[k].scan \in gone
                  THEN NoRow ELSE keys[k]]

\* Seeded bug: the key's status takes the run's outcome.
CompleteKeyWithOutcome(r) ==
  keys' = [k \in Keys |->
             IF k = req[r].key /\ keys[k] # NoRow
               THEN [keys[k] EXCEPT !.status = "succeeded", !.run = r]
               ELSE keys[k]]

\* UPDATE recognition_idempotency SET status = 'completed': by key alone.
CompleteKey(r) ==
  keys' = [k \in Keys |->
             IF k = req[r].key /\ keys[k] # NoRow
               THEN [keys[k] EXCEPT !.status = "completed", !.run = r]
               ELSE keys[k]]

-----------------------------------------------------------------------------
(* The steps every handler shares, and the order each handler takes them   *)
(* in: recognize goes gate, lookup (with a key), read, charge, claim (with *)
(* a key), calling, answer; save goes gate, charge, read, write, answer;   *)
(* the deletes go (gate,) charge, delete, unlink; a rename only writes.    *)

Keyed(q) == q.kind = "recognize" /\ q.key # NoKey
Unkeyed(q) == q.kind = "recognize" /\ q.key = NoKey

Entry(q) == CASE q.kind = "deleteSong" -> "charge"
              [] q.kind = "rename" -> "write"
              [] q.kind \notin {"deleteSong", "rename"} -> "gate"

PastGate(q) == CASE Keyed(q) -> "lookup"
                 [] Unkeyed(q) -> "read"
                 [] q.kind # "recognize" -> "charge"

PastCharge(q) == CASE Keyed(q) -> "claim"
                   [] Unkeyed(q) -> "calling"
                   [] q.kind = "save" -> "read"
                   [] q.kind \notin {"recognize", "save"} -> "delete"

Arrive(r) ==
  /\ pc[r] = "idle"
  /\ \E q \in Queries :
       /\ req' = [req EXCEPT ![r] = q]
       /\ Goto(r, Entry(q))
  /\ UNCHANGED <<db, images, seen, answer>>

\* scan_row: 404 unless the scan exists and is the caller's.
Gate(r) ==
  /\ pc[r] = "gate"
  /\ IF req[r].scan \in scans
       THEN /\ Goto(r, PastGate(req[r]))
            /\ UNCHANGED answer
       ELSE Refuse(r, 404)
  /\ UNCHANGED <<db, images, req, seen>>

\* enforce_limit, twice for most routes: the window itself is RateLimit's
\* subject, here it lets the request through or answers 429.
Charge(r) ==
  /\ pc[r] = "charge"
  /\ \/ /\ Goto(r, PastCharge(req[r]))
        /\ UNCHANGED answer
     \/ Refuse(r, 429)
  /\ UNCHANGED <<db, images, req, seen>>

\* A statement that writes waits at most five seconds for the write lock
\* (sqlite3's default timeout), then raises "database is locked".
LockTimeout(r) ==
  /\ pc[r] \in {"charge", "claim", "calling", "write", "delete"}
  /\ Refuse(r, 500)
  /\ UNCHANGED <<db, images, req, seen>>

\* The SELECT after the commit, whose row is the response body.
Answer(r) ==
  /\ pc[r] = "answer"
  /\ LET row == trs[req[r].scan] IN
       IF row = NoRow
         THEN Refuse(r, 500)
         ELSE Reply(r, IF req[r].kind = "save" THEN 200 ELSE 201,
                    row.stf, row.status)
  /\ UNCHANGED <<db, images, req, seen>>

-----------------------------------------------------------------------------
(* POST /scans/{scan_id}/recognize.                                        *)

\* Seeded bug: the key's page is not compared.
LookupAnyPage(r) ==
  /\ pc[r] = "lookup"
  /\ LET prior == keys[req[r].key] IN
       \/ /\ prior = NoRow
          /\ Goto(r, "read")
          /\ UNCHANGED answer
       \/ /\ prior # NoRow
          /\ IF prior.run = NoRow \/ runs[prior.run] = NoRow
               THEN Refuse(r, 409)
               ELSE Reply(r, 201, prior.run, "draft")
  /\ UNCHANGED <<db, images, req, seen>>

\* The key's row decides first: a key of another page or of a call under way
\* is refused, a completed one replays the run it names.
Lookup(r) ==
  /\ pc[r] = "lookup"
  /\ LET prior == keys[req[r].key]
         s == req[r].scan
     IN  \/ /\ prior = NoRow
            /\ Goto(r, "read")
            /\ UNCHANGED answer
         \/ /\ prior # NoRow
            /\ prior.scan # s \/ prior.status = "started"
            /\ Refuse(r, 409)
         \/ /\ prior # NoRow
            /\ prior.scan = s
            /\ prior.status = "completed"
            /\ IF prior.run = NoRow \/ runs[prior.run] = NoRow
                 THEN Refuse(r, 409)
                 ELSE IF runs[prior.run].outcome = "failed"
                        THEN Refuse(r, 503)
                        ELSE Reply(r, 201, prior.run, "draft")
  /\ UNCHANGED <<db, images, req, seen>>

\* Seeded bug: a reviewed page is not refused.
CheckExistingAnyStatus(r) ==
  /\ At(r, "read", "recognize")
  /\ req[r].scan \in images
  /\ seen' = [seen EXCEPT ![r] = trs[req[r].scan]]
  /\ Goto(r, "charge")
  /\ UNCHANGED <<db, images, req, answer>>

\* `existing` is read here and used after the model has answered: a reviewed
\* page is refused, then the original is read from disk.
CheckExisting(r) ==
  /\ At(r, "read", "recognize")
  /\ LET s == req[r].scan IN
       \/ /\ trs[s] # NoRow
          /\ trs[s].status = "reviewed"
          /\ Refuse(r, 409)
          /\ UNCHANGED seen
       \/ /\ trs[s] # NoRow => trs[s].status # "reviewed"
          /\ s \notin images
          /\ Refuse(r, 404)
          /\ UNCHANGED seen
       \/ /\ trs[s] # NoRow => trs[s].status # "reviewed"
          /\ s \in images
          /\ seen' = [seen EXCEPT ![r] = trs[s]]
          /\ Goto(r, "charge")
          /\ UNCHANGED answer
  /\ UNCHANGED <<db, images, req>>

\* Seeded bug: the key is upserted.
ClaimKeyUpsert(r) ==
  /\ pc[r] = "claim"
  /\ req[r].scan \in scans
  /\ keys' = [keys EXCEPT ![req[r].key] = [scan |-> req[r].scan,
                                          status |-> "started", run |-> NoRow]]
  /\ Goto(r, "calling")
  /\ UNCHANGED <<title, scans, images, trs, runs, revisions, req, seen, answer>>

\* INSERT ... 'started', committed before the model is called; the primary key
\* or the scan's foreign key may refuse it.
ClaimKey(r) ==
  /\ pc[r] = "claim"
  /\ LET k == req[r].key
         s == req[r].scan
     IN  IF keys[k] = NoRow /\ s \in scans
           THEN /\ keys' = [keys EXCEPT ![k] = [scan |-> s, status |-> "started",
                                                run |-> NoRow]]
                /\ Goto(r, "calling")
                /\ UNCHANGED answer
           ELSE Refuse(r, 409) /\ UNCHANGED keys
  /\ UNCHANGED <<title, scans, images, trs, runs, revisions, req, seen>>

\* Seeded bug: a new recognition drops the page's older revisions.
RecognitionDropsHistory(r) ==
  /\ pc[r] = "calling"
  /\ LET s == req[r].scan IN
       /\ s \in scans
       /\ seen[r] = NoRow => trs[s] = NoRow
       /\ runs' = [runs EXCEPT ![r] = [scan |-> s, outcome |-> "succeeded"]]
       /\ trs' = [trs EXCEPT ![s] = [stf |-> r, status |-> "draft",
                                     run |-> r, rev |-> r]]
       /\ revisions' = [o \in Requests |->
            CASE o = r -> [scan |-> s, run |-> r, stf |-> r, status |-> "draft",
                           source |-> "recognition"]
              [] o # r /\ revisions[o] # NoRow /\ revisions[o].scan = s -> NoRow
              [] OTHER -> revisions[o]]
       /\ CompleteKey(r)
       /\ Goto(r, "answer")
  /\ UNCHANGED <<title, scans, images, req, seen, answer>>

\* The model answers and its document is stored in one transaction, over
\* whatever the transcription has become.
RecognitionSucceeds(r) ==
  /\ pc[r] = "calling"
  /\ LET s == req[r].scan IN
       /\ s \in scans
       /\ seen[r] = NoRow => trs[s] = NoRow
       /\ runs' = [runs EXCEPT ![r] = [scan |-> s, outcome |-> "succeeded"]]
       /\ \/ UNCHANGED title
          \/ /\ title[SongOf[s]] = ""
             /\ title' = [title EXCEPT ![SongOf[s]] = "suggested"]
       /\ trs' = [trs EXCEPT ![s] = [stf |-> r, status |-> "draft",
                                     run |-> r, rev |-> r]]
       /\ revisions' = [revisions EXCEPT ![r] =
                          [scan |-> s, run |-> r, stf |-> r, status |-> "draft",
                           source |-> "recognition"]]
       /\ CompleteKey(r)
       /\ Goto(r, "answer")
  /\ UNCHANGED <<scans, images, req, seen, answer>>

\* Seeded bug: the failure path forgets the key.
RecognitionFailsSilently(r) ==
  /\ pc[r] = "calling"
  /\ req[r].scan \in scans
  /\ runs' = [runs EXCEPT ![r] = [scan |-> req[r].scan, outcome |-> "failed"]]
  /\ Refuse(r, 503)
  /\ UNCHANGED <<title, scans, images, trs, revisions, keys, req, seen>>

\* RecognitionUnavailable, or any other exception of the model call: only the
\* failed run and the key are written.
RecognitionFails(r) ==
  /\ pc[r] = "calling"
  /\ req[r].scan \in scans
  /\ runs' = [runs EXCEPT ![r] = [scan |-> req[r].scan, outcome |-> "failed"]]
  /\ CompleteKey(r)
  /\ Refuse(r, 503)
  /\ UNCHANGED <<title, scans, images, trs, revisions, req, seen>>

\* The page was deleted during the call (foreign key), or got its first
\* transcription during it (unique index): the transaction is rolled back.
RecognitionConflicts(r) ==
  /\ pc[r] = "calling"
  /\ \/ req[r].scan \notin scans
     \/ seen[r] = NoRow /\ trs[req[r].scan] # NoRow
  /\ Refuse(r, 500)
  /\ UNCHANGED <<db, images, req, seen>>

-----------------------------------------------------------------------------
(* PUT /scans/{scan_id}/transcription.                                     *)

ReadForSave(r) ==
  /\ At(r, "read", "save")
  /\ seen' = [seen EXCEPT ![r] = trs[req[r].scan]]
  /\ Goto(r, "write")
  /\ UNCHANGED <<db, images, req, answer>>

\* Seeded bug: current_revision_id is not moved.
SaveLeavesRevision(r) ==
  /\ At(r, "write", "save")
  /\ LET s == req[r].scan IN
       /\ s \in scans
       /\ trs[s] # NoRow
       /\ trs' = [trs EXCEPT ![s].stf = r, ![s].status = req[r].status]
       /\ revisions' = [revisions EXCEPT ![r] =
                          [scan |-> s, stf |-> r, status |-> req[r].status,
                           source |-> "manual",
                           run |-> IF seen[r] = NoRow THEN NoRow ELSE seen[r].run]]
       /\ Goto(r, "answer")
  /\ UNCHANGED <<title, scans, images, runs, keys, req, seen, answer>>

\* The page's row gets the document, and the history a manual revision that
\* names the run read a moment before.
SaveSucceeds(r) ==
  /\ At(r, "write", "save")
  /\ LET s == req[r].scan
         st == req[r].status
     IN  /\ s \in scans
         /\ seen[r] = NoRow => trs[s] = NoRow
         /\ trs' = [trs EXCEPT ![s] =
                      [stf |-> r, status |-> st, rev |-> r,
                       run |-> IF trs[s] = NoRow THEN NoRow ELSE trs[s].run]]
         /\ revisions' = [revisions EXCEPT ![r] =
                            [scan |-> s, stf |-> r, status |-> st, source |-> "manual",
                             run |-> IF seen[r] = NoRow THEN NoRow ELSE seen[r].run]]
         /\ Goto(r, "answer")
  /\ UNCHANGED <<title, scans, images, runs, keys, req, seen, answer>>

\* The page is gone (foreign key) or a recognition inserted the first
\* transcription since the read (unique index).
SaveConflicts(r) ==
  /\ At(r, "write", "save")
  /\ \/ req[r].scan \notin scans
     \/ seen[r] = NoRow /\ trs[req[r].scan] # NoRow
  /\ Refuse(r, 500)
  /\ UNCHANGED <<db, images, req, seen>>

-----------------------------------------------------------------------------
(* The deletes and the rename that race them.                              *)

\* PATCH /songs/{song_id}: a blank title is refused by the schema.
Rename(r) ==
  /\ At(r, "write", "rename")
  /\ LET song == SongOf[req[r].scan] IN
       IF title[song] # NoRow
         THEN title' = [title EXCEPT ![song] = "human"] /\ Refuse(r, 200)
         ELSE UNCHANGED title /\ Refuse(r, 404)
  /\ UNCHANGED <<scans, images, trs, runs, revisions, keys, req, seen>>

\* DELETE /scans/{scan_id}: the rows go in one transaction, deleting none is
\* no error.
DeleteScan(r) ==
  /\ At(r, "delete", "deleteScan")
  /\ Cascade({req[r].scan})
  /\ Goto(r, "unlink")
  /\ UNCHANGED <<title, images, req, seen, answer>>

\* DELETE /songs/{song_id}.
DeleteSong(r) ==
  /\ At(r, "delete", "deleteSong")
  /\ LET song == SongOf[req[r].scan] IN
       IF title[song] # NoRow
         THEN /\ title' = [title EXCEPT ![song] = NoRow]
              /\ Cascade({s \in Scans : SongOf[s] = song})
              /\ Goto(r, "unlink")
              /\ UNCHANGED answer
         ELSE Refuse(r, 404) /\ UNCHANGED db
  /\ UNCHANGED <<images, req, seen>>

\* delete_scan_files, after the commit.
Unlink(r) ==
  /\ pc[r] = "unlink"
  /\ images' = images \ (IF req[r].kind = "deleteScan"
                           THEN {req[r].scan}
                           ELSE {s \in Scans : SongOf[s] = SongOf[req[r].scan]})
  /\ Refuse(r, 204)
  /\ UNCHANGED <<db, req, seen>>

-----------------------------------------------------------------------------
(* The process dies and boots again: the requests in flight are lost, and  *)
(* prune_expired drops the keys past their retention.                      *)

InFlight(r) == pc[r] \notin {"idle", "done", "died"}

CrashAndBoot ==
  /\ \E old \in SUBSET Keys :
       keys' = [k \in Keys |-> IF k \in old THEN NoRow ELSE keys[k]]
  /\ pc' = [r \in Requests |-> IF InFlight(r) THEN "died" ELSE pc[r]]
  /\ UNCHANGED <<title, scans, images, trs, runs, revisions, req, seen, answer>>

-----------------------------------------------------------------------------
Step(r) ==
  \/ Gate(r) \/ Charge(r) \/ LockTimeout(r) \/ Answer(r)
  \/ Lookup(r) \/ CheckExisting(r) \/ ClaimKey(r)
  \/ RecognitionSucceeds(r) \/ RecognitionFails(r) \/ RecognitionConflicts(r)
  \/ ReadForSave(r) \/ SaveSucceeds(r) \/ SaveConflicts(r)
  \/ Rename(r) \/ DeleteScan(r) \/ DeleteSong(r) \/ Unlink(r)

Next ==
  \/ \E r \in Requests : Arrive(r) \/ Step(r)
  \/ CrashAndBoot

Spec == Init /\ [][Next]_vars

\* A thread of the pool is always scheduled again, and the SDK's own timeouts
\* end every model call.
FairSpec == Spec /\ \A r \in Requests : WF_vars(Step(r))

-----------------------------------------------------------------------------
(* Properties.                                                             *)

\* r has claimed its key and waits for the model.
Holds(r) == pc[r] = "calling" /\ req[r].key # NoKey

\* A key never pays for two model calls at once: of the requests waiting for
\* the model on pages that still exist, no two carry the same key
\* (_recognize's insert of 'started' before the call).
SingleFlight ==
  \A r1, r2 \in Requests :
    /\ Holds(r1) /\ Holds(r2) /\ req[r1].key = req[r2].key
    /\ req[r1].scan \in scans /\ req[r2].scan \in scans
    => r1 = r2

\* A key stays 'started' only while its request is with the model, or because
\* that request died with the process or ended in a bare 500: no ordinary
\* answer (201, 503, 409, 429) leaves a key that refuses every retry.
StartedKeyHasCause ==
  \A k \in Keys :
    keys[k] # NoRow /\ keys[k].status = "started" =>
      \E r \in Requests :
        /\ req[r] # NoRow /\ req[r].key = k /\ req[r].scan = keys[k].scan
        /\ \/ pc[r] \in {"calling", "died"}
           \/ /\ pc[r] = "done"
              /\ answer[r].code = 500

\* The run a completed key names is there, is of the key's page and was made
\* by a request carrying that key, so a retry has something true to replay.
CompletedKeyHasRun ==
  \A k \in Keys :
    keys[k] # NoRow /\ keys[k].run # NoRow =>
      LET run == keys[k].run IN
        /\ keys[k].status = "completed"
        /\ runs[run] # NoRow
        /\ runs[run].scan = keys[k].scan
        /\ req[run] # NoRow /\ req[run].key = k

\* The transcription always shows its current revision: same document, same
\* status, and the run it credits is a successful one of the same page.
TranscriptionMatchesHistory ==
  \A s \in Scans :
    trs[s] # NoRow =>
      LET rev == revisions[trs[s].rev] IN
        /\ s \in scans
        /\ rev # NoRow
        /\ rev.scan = s /\ rev.stf = trs[s].stf /\ rev.status = trs[s].status
        /\ trs[s].run # NoRow =>
             runs[trs[s].run] = [scan |-> s, outcome |-> "succeeded"]

\* A document is only ever answered for the page it was made for: a retry whose
\* key was spent on another page never receives that page's draft.
AnswerIsOfOwnPage ==
  \A r \in Requests :
    pc[r] = "done" /\ answer[r].stf # NoRow =>
      req[answer[r].stf].scan = req[r].scan

\* A save that was acknowledged stays in the page's history as long as the page
\* exists, whatever recognition writes over it and however often the server
\* restarts.
AcknowledgedSaveIsKept ==
  \A r \in Requests :
    /\ pc[r] = "done" /\ req[r].kind = "save" /\ answer[r].code = 200
    /\ req[r].scan \in scans
    => /\ revisions[r] # NoRow
       /\ revisions[r].stf = r /\ revisions[r].scan = req[r].scan

\* A review the handler saw is safe: recognition replaces a reviewed
\* transcription only if that review was stored after its check.
SeenReviewIsKept ==
  [][\A s \in Scans, r \in Requests :
       /\ trs[s] # NoRow /\ trs[s].status = "reviewed"
       /\ trs'[s] # NoRow /\ trs'[s].rev = r /\ trs'[s] # trs[s]
       /\ req[r].kind = "recognize"
       => seen[r] # trs[s]]_vars

\* A key that is claimed gets an outcome, or is forgotten, or its request ends
\* in the two ways StartedKeyHasCause names.
KeySettles ==
  \A k \in Keys, r \in Requests :
    Holds(r) /\ req[r].key = k ~>
      \/ keys[k] = NoRow
      \/ keys[k].status = "completed"
      \/ pc[r] = "died"
      \/ /\ pc[r] = "done"
         /\ answer[r].code = 500

\* The abstract key: free without a row, pending while 'started', else the run
\* it was completed with.
KeyOutcome ==
  [k \in Keys |-> CASE keys[k] = NoRow -> "free"
                   [] keys[k] # NoRow /\ keys[k].status = "started" -> "pending"
                   [] OTHER -> keys[k].run]

Abstract == INSTANCE IdempotentKey
              WITH Outcomes <- Requests, Free <- "free", Pending <- "pending",
                   Lost <- NoRow, outcome <- KeyOutcome

\* recognize, the deletes and the boot prune implement the abstract key: it is
\* claimed once, settled at most once, by a run of its own, and never changed
\* except by being forgotten.
ImplementsIdempotentKey == Abstract!KSpec

\* What the route's docstring promises: "Refuses to clobber a human-reviewed
\* transcription (409)".
NeverClobberReviewed ==
  [][\A s \in Scans, r \in Requests :
       /\ trs[s] # NoRow /\ trs[s].status = "reviewed"
       /\ trs'[s] # NoRow /\ trs'[s] # trs[s]
       => req[trs'[s].rev].kind # "recognize"]_vars
===============================================================================
