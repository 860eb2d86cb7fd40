------------------------------ MODULE PageStore ------------------------------
(***************************************************************************)
(* Songs, their numbered pages and the originals on disk:                  *)
(* routers/songs.py, routers/scans.py and the writing half of storage.py.  *)
(*                                                                         *)
(* The uploads are `async def`: they run on the event loop, await only the *)
(* body of the request, and hold the loop from there to their answer, so   *)
(* that two uploads never interleave after the await.  The deletes are     *)
(* `def` and run on the thread pool, in between any two steps of anybody.  *)
(***************************************************************************)
EXTENDS Naturals, Sequences, FiniteSets, SequencesExt

CONSTANTS
  Songs,     \* song ids, the ones imports will draw included
  OldPages,  \* [Songs -> Seq(scan ids)]: songs uploaded before, in page order
  Requests,  \* HTTP requests; an upload's scan id is the request itself
  Nobody,    \* the event loop is free
  NoRow      \* no such row, or no song yet

Scans == Requests \cup UNION {ToSet(OldPages[g]) : g \in Songs}

ASSUME RequestsAssumption ==
  \A g \in Songs : /\ OldPages[g] \in Seq(ToSet(OldPages[g]))
                   /\ ToSet(OldPages[g]) \cap Requests = {}
ASSUME NobodyAssumption == Nobody \notin Requests /\ NoRow \notin Songs
ASSUME ScansAssumption == IsFiniteSet(Scans)

VARIABLES
  live,      \* the rows of songs
  row,       \* the rows of scans: song and page_no, or NoRow
  files,     \* the scans whose original is on disk
  dirs,      \* the songs whose image directory exists
  loop,      \* the async handler that holds the event loop, past its await
  pc,        \* where each request's handler is
  req,       \* what each request asks for: kind, song, scan
  number,    \* upload_scan's local next_page
  doomed,    \* the scans a delete has still to unlink
  answer     \* what each request was answered (failed, diskFull: a bare 500)

db == <<live, row>>
disk == <<files, dirs>>
vars == <<live, row, files, dirs, loop, pc, req, number, doomed, answer>>

Kinds == {"create", "import", "upload", "deleteScan", "deleteSong"}
Uploads == {"import", "upload"}

Asked == [kind : Kinds, song : Songs, scan : Scans]
Page == [song : Songs, no : Nat \ {0}]

ASSUME NoRowAssumption == NoRow \notin Asked \cup Page

TypeOK ==
  /\ live \in SUBSET Songs
  /\ row \in [Scans -> Page \cup {NoRow}]
  /\ files \in SUBSET Scans
  /\ dirs \in SUBSET Songs
  /\ loop \in Requests \cup {Nobody}
  /\ pc \in [Requests -> {"idle", "gate", "charge", "body", "number", "mkdir", "store",
                          "insert", "cleanup", "list", "delete", "unlink",
                          "rmdir", "answer", "done", "died"}]
  /\ req \in [Requests -> Asked \cup {NoRow}]
  /\ number \in [Requests -> Nat]
  /\ doomed \in [Requests -> SUBSET Scans]
  /\ answer \in [Requests -> {"", "created", "deleted", "notFound", "invalid",
                           "limited", "failed", "diskFull"}]

-----------------------------------------------------------------------------
(* Helpers.                                                                *)

PagesOf(g) == {s \in Scans : row[s] # NoRow /\ row[s].song = g}
Numbers(g) == {row[s].no : s \in PagesOf(g)}

Init ==
  /\ live = {g \in Songs : OldPages[g] # <<>>}
  /\ row = [s \in Scans |->
       IF s \in Requests THEN NoRow
       ELSE LET g == CHOOSE g \in Songs : Contains(OldPages[g], s)
            IN  [song |-> g, no |-> CHOOSE i \in 1..Len(OldPages[g]) :
                                      OldPages[g][i] = s]]
  /\ files = Scans \ Requests
  /\ dirs = live
  /\ loop = Nobody
  /\ pc = [r \in Requests |-> "idle"]
  /\ req = [r \in Requests |-> NoRow]
  /\ number = [r \in Requests |-> 0]
  /\ doomed = [r \in Requests |-> {}]
  /\ answer = [r \in Requests |-> ""]

At(r, place, kinds) == pc[r] = place /\ req[r].kind \in kinds

Goto(r, place) == pc' = [pc EXCEPT ![r] = place]

\* The handler returns or raises; an async one gives the loop back.
Reply(r, outcome) ==
  /\ Goto(r, "done")
  /\ answer' = [answer EXCEPT ![r] = outcome]
  /\ loop' = IF loop = r THEN Nobody ELSE loop

\* A step on the loop needs the loop to itself.
OnLoop(r) == req[r].kind \in Uploads => loop = Nobody

-----------------------------------------------------------------------------
(* What the routes do before anything is written.                          *)

\* An import or a create draws a fresh song id, the others name ids they know.
Arrive(r) ==
  /\ pc[r] = "idle"
  /\ \E kind \in Kinds, g \in Songs, s \in Scans :
       /\ kind \in {"create", "import"} =>
            /\ g \notin live /\ OldPages[g] = <<>>
            /\ \A o \in Requests : req[o] # NoRow => req[o].song # g
       /\ kind = "deleteScan" => row[s] # NoRow /\ row[s].song = g
       /\ kind # "deleteScan" => s = r
       /\ req' = [req EXCEPT ![r] = [kind |-> kind, song |-> g, scan |-> s]]
       /\ Goto(r, CASE kind = "create" -> "insert"
                    [] kind \in {"import", "deleteSong"} -> "charge"
                    [] kind \in {"upload", "deleteScan"} -> "gate")
  /\ UNCHANGED <<db, disk, loop, number, doomed, answer>>

\* _song_row and scan_row; delete_song charges first and checks afterwards.
Gate(r) ==
  /\ pc[r] = "gate"
  /\ OnLoop(r)
  /\ LET found == IF req[r].kind = "deleteScan" THEN row[req[r].scan] # NoRow
                                                ELSE req[r].song \in live
     IN  IF found
           THEN /\ Goto(r, IF req[r].kind = "deleteSong" THEN "list" ELSE "charge")
                /\ UNCHANGED <<answer, loop>>
           ELSE Reply(r, "notFound")
  /\ UNCHANGED <<db, disk, req, number, doomed>>

\* enforce_limit: RateLimit's subject.
Charge(r) ==
  /\ pc[r] = "charge"
  /\ OnLoop(r)
  /\ \/ /\ Goto(r, CASE req[r].kind \in Uploads -> "body"
                     [] req[r].kind = "deleteSong" -> "gate"
                     [] req[r].kind = "deleteScan" -> "delete")
        /\ UNCHANGED <<answer, loop>>
     \/ Reply(r, "limited")
  /\ UNCHANGED <<db, disk, req, number, doomed>>

\* await file.read(): the loop serves others; then the image is validated and
\* the handler keeps the loop.
Body(r) ==
  /\ pc[r] = "body"
  /\ loop = Nobody
  /\ \/ /\ loop' = r
        /\ Goto(r, IF req[r].kind = "upload" THEN "number" ELSE "mkdir")
        /\ UNCHANGED answer
     \/ Reply(r, "invalid")
  /\ UNCHANGED <<db, disk, req, number, doomed>>

-----------------------------------------------------------------------------
(* POST /songs, POST /songs/import and POST /songs/{song_id}/scans.        *)

Create(r) ==
  /\ At(r, "insert", {"create"})
  /\ live' = live \cup {req[r].song}
  /\ Reply(r, "created")
  /\ UNCHANGED <<row, disk, req, number, doomed>>

\* Seeded bug: the next number is one past the number of pages.
NumberByCount(r) ==
  /\ pc[r] = "number"
  /\ number' = [number EXCEPT ![r] = Cardinality(PagesOf(req[r].song)) + 1]
  /\ Goto(r, "mkdir")
  /\ UNCHANGED <<db, disk, loop, req, doomed, answer>>

\* Seeded bug: the number of the last page, not the one after it.
NumberOfLast(r) ==
  /\ pc[r] = "number"
  /\ number' = [number EXCEPT ![r] = Max(Numbers(req[r].song) \cup {0})]
  /\ Goto(r, "mkdir")
  /\ UNCHANGED <<db, disk, loop, req, doomed, answer>>

\* SELECT COALESCE(MAX(page_no), 0) + 1, in no transaction.
Number(r) ==
  /\ pc[r] = "number"
  /\ number' = [number EXCEPT ![r] = Max(Numbers(req[r].song) \cup {0}) + 1]
  /\ Goto(r, "mkdir")
  /\ UNCHANGED <<db, disk, loop, req, doomed, answer>>

MakeDir(r) ==
  /\ pc[r] = "mkdir"
  /\ dirs' = dirs \cup {req[r].song}
  /\ Goto(r, "store")
  /\ UNCHANGED <<db, files, loop, req, number, doomed, answer>>

\* write_bytes; the directory may have been pruned since, and a full disk
\* leaves what was written.
Store(r) ==
  /\ pc[r] = "store"
  /\ \/ /\ req[r].song \in dirs
        /\ files' = files \cup {r}
        /\ \/ Goto(r, "insert") /\ UNCHANGED <<answer, loop>>
           \/ Reply(r, "diskFull")
     \/ /\ req[r].song \notin dirs
        /\ Reply(r, "failed")
        /\ UNCHANGED files
  /\ UNCHANGED <<db, dirs, req, number, doomed>>

\* The row, and an import's song with it, in one transaction.
Insert(r) ==
  /\ At(r, "insert", Uploads)
  /\ req[r].kind = "upload" => req[r].song \in live
  /\ live' = live \cup {req[r].song}
  /\ row' = [row EXCEPT ![r] = [song |-> req[r].song,
               no |-> IF req[r].kind = "import" THEN 1 ELSE number[r]]]
  /\ Goto(r, "answer")
  /\ UNCHANGED <<disk, loop, req, number, doomed, answer>>

\* sqlite3.Error: the song is gone (foreign key) or the lock did not come.
InsertFails(r) ==
  /\ At(r, "insert", Uploads)
  /\ Goto(r, "cleanup")
  /\ UNCHANGED <<db, disk, loop, req, number, doomed, answer>>

\* Seeded bug: only the row is rolled back.
CleanupKeepsFile(r) ==
  /\ pc[r] = "cleanup"
  /\ Reply(r, "failed")
  /\ UNCHANGED <<db, disk, req, number, doomed>>

\* The directory goes with its last file.
Prune(g, left) ==
  dirs' = IF \E s \in left : s \in Requests /\ req[s].song = g THEN dirs
          ELSE IF \E s \in left : Contains(OldPages[g], s) THEN dirs
          ELSE dirs \ {g}

\* rollback, then delete_scan_files.
Cleanup(r) ==
  /\ pc[r] = "cleanup"
  /\ files' = files \ {r}
  /\ Prune(req[r].song, files \ {r})
  /\ Reply(r, "failed")
  /\ UNCHANGED <<db, req, number, doomed>>

\* The SELECT of the new row, which a delete may have taken already.
Answer(r) ==
  /\ pc[r] = "answer"
  /\ Reply(r, IF row[r] # NoRow THEN "created" ELSE "failed")
  /\ UNCHANGED <<db, disk, req, number, doomed>>

-----------------------------------------------------------------------------
(* DELETE /scans/{scan_id} and DELETE /songs/{song_id}.                    *)

\* Seeded bug: ORDER BY page_no DESC.
RenumberedBackwards(g, gone) ==
  LET keep == PagesOf(g) \ {gone} IN
    [s \in Scans |->
       IF s = gone THEN NoRow
       ELSE IF s \in keep
       THEN [song |-> g, no |-> Cardinality({t \in keep : row[t].no >= row[s].no})]
       ELSE row[s]]

\* The pages of g without `gone`, renumbered 1..n in their order.
Renumbered(g, gone) ==
  LET keep == PagesOf(g) \ {gone} IN
    [s \in Scans |->
       IF s = gone THEN NoRow
       ELSE IF s \in keep
       THEN [song |-> g, no |-> Cardinality({t \in keep : row[t].no <= row[s].no})]
       ELSE row[s]]

\* Deletion and renumbering in one transaction; the page may be gone already.
DeleteScan(r) ==
  /\ At(r, "delete", {"deleteScan"})
  /\ row' = Renumbered(req[r].song, req[r].scan)
  /\ doomed' = [doomed EXCEPT ![r] = {req[r].scan}]
  /\ Goto(r, "unlink")
  /\ UNCHANGED <<live, disk, loop, req, number, answer>>

\* The files to unlink are listed before the DELETE takes the lock.
ListScans(r) ==
  /\ pc[r] = "list"
  /\ doomed' = [doomed EXCEPT ![r] = PagesOf(req[r].song)]
  /\ Goto(r, "delete")
  /\ UNCHANGED <<db, disk, loop, req, number, answer>>

\* Seeded bug: the rows that go are the ones that were listed.
DeleteSongListed(r) ==
  /\ At(r, "delete", {"deleteSong"})
  /\ live' = live \ {req[r].song}
  /\ row' = [s \in Scans |-> IF s \in doomed[r] THEN NoRow ELSE row[s]]
  /\ Goto(r, "unlink")
  /\ UNCHANGED <<disk, loop, req, number, doomed, answer>>

\* ON DELETE CASCADE takes every page there is now.
DeleteSong(r) ==
  /\ At(r, "delete", {"deleteSong"})
  /\ live' = live \ {req[r].song}
  /\ row' = [s \in Scans |-> IF s \in PagesOf(req[r].song) THEN NoRow ELSE row[s]]
  /\ Goto(r, "unlink")
  /\ UNCHANGED <<disk, loop, req, number, doomed, answer>>

\* "database is locked".
LockTimeout(r) ==
  /\ pc[r] = "charge" \/ At(r, "delete", {"deleteScan", "deleteSong"})
                     \/ At(r, "insert", {"create"})
  /\ OnLoop(r)
  /\ Reply(r, "failed")
  /\ UNCHANGED <<db, disk, req, number, doomed>>

\* delete_scan_files, one scan after the other.
Unlink(r) ==
  /\ pc[r] = "unlink"
  /\ \E s \in doomed[r] :
       /\ files' = files \ {s}
       /\ Prune(req[r].song, files \ {s})
       /\ doomed' = [doomed EXCEPT ![r] = @ \ {s}]
  /\ UNCHANGED <<db, loop, pc, req, number, answer>>

Deleted(r) ==
  /\ pc[r] = "unlink"
  /\ doomed[r] = {}
  /\ Reply(r, "deleted")
  /\ UNCHANGED <<db, disk, req, number, doomed>>

InFlight(r) == pc[r] \notin {"idle", "done", "died"}

\* The process dies and boots again; rows and files stay.
Crash ==
  /\ pc' = [r \in Requests |-> IF InFlight(r) THEN "died" ELSE pc[r]]
  /\ loop' = Nobody
  /\ UNCHANGED <<db, disk, req, number, doomed, answer>>

Step(r) ==
  \/ Gate(r) \/ Charge(r) \/ Body(r) \/ Create(r) \/ Number(r) \/ MakeDir(r)
  \/ Store(r) \/ Insert(r) \/ InsertFails(r) \/ Cleanup(r) \/ Answer(r)
  \/ DeleteScan(r) \/ ListScans(r) \/ DeleteSong(r) \/ LockTimeout(r)
  \/ Unlink(r) \/ Deleted(r)

Next == (\E r \in Requests : Arrive(r) \/ Step(r)) \/ Crash

Spec == Init /\ [][Next]_vars

-----------------------------------------------------------------------------
(* Properties.                                                             *)

\* No two pages of a song ever share a number, although upload_scan reads the
\* highest number long before it inserts and nothing in the schema forbids it.
PagesDistinct ==
  \A s, t \in Scans :
    row[s] # NoRow /\ row[t] # NoRow /\ row[s] = row[t] => s = t

\* A listed page always has its original, through cleanups, deletes of any
\* kind, crashes and prunes of directories.
RowHasOriginal ==
  \A s \in Scans : row[s] # NoRow => s \in files /\ row[s].song \in live

\* A file without a row is on its way in or out, or was left by a request that
\* died, found the disk full, or raced the delete of its whole song.
OrphanHasCause ==
  \A s \in files :
    row[s] = NoRow =>
      \/ \E r \in Requests : s \in doomed[r]
      \/ /\ s \in Requests
         /\ \/ pc[s] \in {"insert", "cleanup", "died"}
            \/ answer[s] = "diskFull"
            \/ req[s].song \notin live

\* Pages in the order of their numbers: the i-th is the one with i pages up to it.
InOrder(P) ==
  [i \in 1..Cardinality(P) |->
     CHOOSE s \in P : Cardinality({t \in P : row[t].no <= row[s].no}) = i]

\* The reading order of every song.
Book == [g \in Songs |-> InOrder(PagesOf(g))]

Abstract == INSTANCE SongPages WITH book <- Book

\* Uploads, deletes and renumbering keep the reading order: a new page is the
\* last, no two pages ever swap.
ImplementsSongPages == Abstract!BSpec
===============================================================================
