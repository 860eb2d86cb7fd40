-------------------------------- MODULE Reader --------------------------------
(***************************************************************************)
(* One tab of the reader's app and its service worker: pages/EditorPage.tsx *)
(* with the calls of api/client.ts, the eviction of offline.ts and the      *)
(* NetworkFirst cache of vite.config.ts.  The editor of a song's pages       *)
(* loads, edits, saves and recognizes a page; every answer arrives after    *)
(* the reader may have typed, moved to another page, left or signed out.    *)
(* The server here is what this tab sees of it; Recognition has the rest.   *)
(***************************************************************************)
EXTENDS Integers, FiniteSets

CONSTANTS
  Pages,       \* the pages of one song; a page is also its scan
  Stored,      \* those with a transcription at the start
  None,
  MaxVersion,  \* bound: documents ever stored
  MaxCalls,    \* bound: calls in flight, answers not cached yet included
  Budget       \* waits of the recovery poll in RECOGNITION_RECOVERY_TIMEOUT_MS

ASSUME ReaderAssumption ==
  /\ None \notin Pages /\ Stored \subseteq Pages
  /\ {MaxVersion, MaxCalls, Budget} \subseteq Nat \ {0}

VARIABLES
  server,    \* the stored transcription of each page
  written,   \* the versions written so far
  cache,     \* the service worker's answer for each page's transcription
  puts,      \* answers the worker has handed on and not stored yet
  user,      \* "in" or "out"
  at,        \* the page of the editor's route, None elsewhere
  scan,      \* scanId
  screen,    \* stf: the page it was written for, and its unsaved edits
  has,       \* hasTranscription
  busy,      \* which control is busy
  leaving,   \* where the blocked exit goes: a page or "away"
  loads,     \* load effects in flight
  saves,     \* handleSave calls in flight
  poll,      \* the recognizeScan call
  job,       \* what the server knows of the call's key
  orphans,   \* pages whose recognition outlived its call
  told,      \* history: newest version a call of this tab was answered with
  moved      \* history: an editor has changed its page and stayed mounted

store == <<server, written, job, orphans>>
worker == <<cache, puts>>
editor == <<at, scan, screen, has, busy, leaving>>
calls == <<loads, saves, poll>>
history == <<told, moved>>
vars == <<store, worker, user, editor, calls, history>>

Doc == [of : Pages, v : 1 .. MaxVersion]
Answer == [page : Pages, doc : Doc, overtaken : BOOLEAN]
Screen == [of : Pages \cup {None}, dirty : BOOLEAN, exposed : BOOLEAN]
Load == [page : Pages, stage : {"song", "get"}, cancelled : BOOLEAN, live : BOOLEAN]
Saving == [page : Pages, of : Pages, v : 0 .. MaxVersion, exit : BOOLEAN, live : BOOLEAN]
Poll == [page : Pages, phase : {"calling", "awaiting", "waiting"}, recovering : BOOLEAN,
         since : 0 .. Budget, asked : BOOLEAN, live : BOOLEAN]
Job == [state : {"none", "running", "failed", "done"}, v : 0 .. MaxVersion]

\* None is none of the records.
ASSUME NoneAssumption == None \notin Doc \cup Answer \cup Poll

Blank == [of |-> None, dirty |-> FALSE, exposed |-> FALSE]
Showing(of) == [of |-> of, dirty |-> FALSE, exposed |-> FALSE]
NoJob == [state |-> "none", v |-> 0]

TypeOK ==
  /\ server \in [Pages -> Doc \cup {None}]
  /\ written \in 1 .. MaxVersion
  /\ cache \in [Pages -> Answer \cup {None}]
  /\ puts \subseteq Answer
  /\ user \in {"in", "out"}
  /\ at \in Pages \cup {None} /\ scan \in Pages \cup {None}
  /\ screen \in Screen
  /\ has \in BOOLEAN
  /\ busy \in {"none", "load", "recognize", "save"}
  /\ leaving \in Pages \cup {"away", None}
  /\ loads \subseteq Load /\ saves \subseteq Saving /\ poll \in Poll \cup {None}
  /\ job \in Job /\ orphans \subseteq Pages
  /\ told \in [Pages -> [save : 0 .. MaxVersion, any : 0 .. MaxVersion]]
  /\ moved \in BOOLEAN

Init ==
  /\ server = [p \in Pages |-> IF p \in Stored THEN [of |-> p, v |-> 1] ELSE None]
  /\ written = 1
  /\ cache = [p \in Pages |-> None] /\ puts = {} /\ user = "in"
  /\ at = None /\ scan = None /\ screen = Blank /\ has = FALSE
  /\ busy = "none" /\ leaving = None
  /\ loads = {} /\ saves = {} /\ poll = None /\ job = NoJob /\ orphans = {}
  /\ told = [p \in Pages |-> [save |-> 0, any |-> 0]] /\ moved = FALSE

\* ------------------------------------------------------------------- helpers
Write(p, of) ==
  /\ written < MaxVersion
  /\ written' = written + 1
  /\ server' = [server EXCEPT ![p] = [of |-> of, v |-> written + 1]]

CanCall ==
  Cardinality(loads) + Cardinality(saves) + Cardinality(puts) + Cardinality(orphans)
    + (IF poll = None THEN 0 ELSE 1) < MaxCalls

\* Seeded bug: a save evicts nothing.
EvictNothing(gone) == UNCHANGED worker

\* The entries go; an answer on its way to the cache is overtaken by that.
Evict(gone) ==
  /\ cache' = [p \in Pages |-> IF p \in gone THEN None ELSE cache[p]]
  /\ puts' = {[a EXCEPT !.overtaken = a.overtaken \/ a.page \in gone] : a \in puts}

\* What the answers of a call apply to once its editor has left the screen: nothing.
Abandon(S) == {[c EXCEPT !.live = FALSE] : c \in S}

StartLoad(p, others) ==
  loads' = others \cup {[page |-> p, stage |-> "song", cancelled |-> FALSE, live |-> TRUE]}

\* ------------------------------------------------------------------- routing
\* Seeded bug: what the last editor showed is still there.
FreshKept == scan' = None /\ UNCHANGED <<screen, has>>

\* A mounted EditorPage starts empty.
Fresh == scan' = None /\ screen' = Blank /\ has' = FALSE

Open(p) ==
  /\ user = "in" /\ at = None /\ CanCall
  /\ at' = p /\ Fresh /\ busy' = "load" /\ leaving' = None
  /\ StartLoad(p, loads)
  /\ UNCHANGED <<store, worker, user, saves, poll, history>>

\* The editor leaves the screen, with the saves S still in flight.
Unmount(S) ==
  /\ at' = None /\ Fresh /\ busy' = "none" /\ leaving' = None
  /\ loads' = Abandon({[l EXCEPT !.cancelled = TRUE] : l \in {k \in loads : k.stage = "get"}})
  /\ saves' = Abandon(S)
  /\ poll' = IF poll = None THEN None ELSE [poll EXCEPT !.live = FALSE]
  /\ UNCHANGED moved

\* Another page of the same route: the component stays and its effect runs again.
\* Bound: once.
Move(p, S) ==
  /\ ~moved /\ p \in Pages /\ p # at /\ CanCall
  /\ at' = p /\ busy' = "load" /\ leaving' = None /\ moved' = TRUE
  /\ StartLoad(p, {[l EXCEPT !.cancelled = TRUE] : l \in loads})
  /\ saves' = S
  /\ UNCHANGED <<scan, poll>>

Proceed(to, S, kept, hasIt) ==
  \/ to = "away" /\ Unmount(S)
  \/ Move(to, S) /\ screen' = kept /\ has' = hasIt

\* Seeded bug: no blocker.
RequestExitUnasked(to) ==
  /\ at # None /\ leaving = None
  /\ Proceed(to, saves, screen, has)
  /\ UNCHANGED <<store, worker, user, told>>

\* The close button, Back, or a jump in the history.
RequestExit(to) ==
  /\ at # None /\ leaving = None /\ to # at
  /\ IF screen.dirty
     THEN leaving' = to /\ UNCHANGED <<at, scan, screen, has, busy, calls, moved>>
     ELSE Proceed(to, saves, screen, has)
  /\ UNCHANGED <<store, worker, user, told>>

Discard ==
  /\ leaving # None /\ busy = "none"
  /\ Proceed(leaving, saves, [screen EXCEPT !.exposed = TRUE], has)
  /\ UNCHANGED <<store, worker, user, told>>

KeepEditing ==
  /\ leaving # None /\ busy = "none"
  /\ leaving' = None
  /\ UNCHANGED <<store, worker, user, at, scan, screen, has, busy, calls, history>>

\* The tab is closed or reloaded, past the browser's own question.  The server
\* finishes what it received; nobody is there to evict.
Reload ==
  /\ at # None
  /\ at' = None /\ Fresh /\ busy' = "none" /\ leaving' = None
  /\ loads' = {} /\ poll' = None
  /\ saves' = Abandon({s \in saves : s.v = 0})
  /\ job' = NoJob
  /\ orphans' = IF job.state = "running" THEN orphans \cup {poll.page} ELSE orphans
  /\ UNCHANGED <<server, written, worker, user, history>>

\* Seeded bug: the caches stay when the call to the server fails.
SignOutOnAnswer ==
  /\ user = "in" /\ at = None
  /\ user' = "out" /\ (Evict(Pages) \/ UNCHANGED worker)
  /\ UNCHANGED <<store, editor, calls, history>>

\* signOut of the app shell; the caches go even when the call to the server fails.
SignOut ==
  /\ user = "in" /\ at = None
  /\ user' = "out" /\ Evict(Pages)
  /\ UNCHANGED <<store, editor, calls, history>>

SignIn ==
  /\ user = "out"
  /\ user' = "in"
  /\ UNCHANGED <<store, worker, editor, calls, history>>

\* ---------------------------------------------------------------------- load
\* getSong answers: the only point where the effect looks at cancelled.
SongAnswers(l) ==
  /\ l \in loads /\ l.stage = "song"
  /\ IF l.cancelled THEN loads' = loads \ {l} /\ scan' = scan
     ELSE loads' = (loads \ {l}) \cup {[l EXCEPT !.stage = "get"]} /\ scan' = l.page
  /\ UNCHANGED <<store, worker, user, at, screen, has, busy, leaving, saves, poll, history>>

\* Either call fails, the second with nothing in the cache.
LoadFails(l) ==
  /\ l \in loads /\ (l.stage = "get" => cache[l.page] = None)
  /\ loads' = loads \ {l}
  /\ busy' = IF l.cancelled THEN busy ELSE "none"
  /\ UNCHANGED <<store, worker, user, at, scan, screen, has, leaving, saves, poll, history>>

\* apply(t), or hasTranscription off for a 404, whatever page is on screen now.
Loaded(l, doc) ==
  /\ loads' = loads \ {l}
  /\ IF ~l.live THEN UNCHANGED <<screen, has>>
     ELSE IF doc = None THEN has' = FALSE /\ screen' = screen
     ELSE has' = TRUE /\ screen' = Showing(doc.of)
  /\ busy' = IF l.cancelled THEN busy ELSE "none"

\* The network answers the GET; a 200 is stored, in its own time.
GetAnswers(l) ==
  /\ l \in loads /\ l.stage = "get"
  /\ LET doc == server[l.page]
     IN /\ Loaded(l, doc)
        /\ puts' = IF doc = None THEN puts
                   ELSE puts \cup {[page |-> l.page, doc |-> doc, overtaken |-> user = "out"]}
  /\ UNCHANGED <<store, cache, user, at, scan, leaving, saves, poll, history>>

\* The network fails the GET and the worker answers from the cache.
GetFallsBack(l) ==
  /\ l \in loads /\ l.stage = "get" /\ cache[l.page] # None
  /\ Loaded(l, cache[l.page].doc)
  /\ UNCHANGED <<store, worker, user, at, scan, leaving, saves, poll, history>>

StoreAnswer(a) ==
  /\ a \in puts
  /\ puts' = puts \ {a}
  /\ cache' = [cache EXCEPT ![a.page] = a]
  /\ UNCHANGED <<store, user, editor, calls, history>>

\* ------------------------------------------------------------- edit and save
AnswerDue == (\E c \in loads \cup saves : c.live) \/ (poll # None /\ poll.live)

\* Any edit of the form; no field is disabled while a call is in flight.
Type ==
  /\ at # None /\ leaving = None
  /\ screen' = [of |-> IF screen.of = None THEN at ELSE screen.of, dirty |-> TRUE,
                exposed |-> screen.exposed \/ AnswerDue]
  /\ UNCHANGED <<store, worker, user, at, scan, has, busy, leaving, calls, history>>

\* handleSave, from its buttons or from saveAndExit.
Save ==
  /\ at # None /\ scan # None /\ busy = "none" /\ CanCall
  /\ busy' = "save"
  /\ screen' = [screen EXCEPT !.exposed = AnswerDue]
  /\ saves' = saves \cup {[page |-> scan, of |-> IF screen.of = None THEN scan ELSE screen.of,
                           v |-> 0, exit |-> leaving # None, live |-> TRUE]}
  /\ UNCHANGED <<store, worker, user, at, scan, has, leaving, loads, poll, history>>

SaveHandled(s) ==
  /\ s \in saves /\ s.v = 0
  /\ Write(s.page, s.of)
  /\ saves' = (saves \ {s}) \cup {[s EXCEPT !.v = written + 1]}
  /\ UNCHANGED <<job, orphans, worker, user, editor, loads, poll, history>>

SaveAnswered(s) ==
  /\ s \in saves /\ s.v # 0
  /\ Evict({s.page})
  /\ told' = [told EXCEPT ![s.page] = [save |-> s.v, any |-> s.v]]
  /\ IF ~s.live THEN saves' = saves \ {s} /\ UNCHANGED <<editor, loads, poll, moved>>
     ELSE IF s.exit /\ leaving # None THEN Proceed(leaving, saves \ {s}, Showing(s.of), TRUE)
     ELSE /\ screen' = Showing(s.of) /\ has' = TRUE /\ busy' = "none"
          /\ saves' = saves \ {s}
          /\ UNCHANGED <<at, scan, leaving, loads, poll, moved>>
  /\ UNCHANGED <<store, user>>

\* The PUT or its answer is lost, or refused: the edits stay on screen.
SaveFails(s) ==
  /\ s \in saves
  /\ saves' = saves \ {s}
  /\ IF s.live THEN busy' = "none" /\ leaving' = IF s.exit THEN None ELSE leaving
     ELSE UNCHANGED <<busy, leaving>>
  /\ UNCHANGED <<store, worker, user, at, scan, screen, has, loads, poll, history>>

\* ------------------------------------------------------------ recognizeScan
\* handleRecognize asks only when the page has a transcription.
Recognize ==
  /\ at # None /\ leaving = None /\ scan # None /\ busy = "none" /\ poll = None /\ CanCall
  /\ written < MaxVersion
  /\ busy' = "recognize"
  /\ screen' = [screen EXCEPT !.exposed = screen.exposed \/ (has /\ screen.dirty)]
  /\ poll' = [page |-> scan, phase |-> "calling", recovering |-> FALSE, since |-> 0,
              asked |-> has, live |-> TRUE]
  /\ job' = NoJob
  /\ UNCHANGED <<server, written, orphans, worker, user, at, scan, has, leaving, loads, saves, history>>

\* The call returns: its key is never used again.
End ==
  /\ poll' = None /\ job' = NoJob
  /\ orphans' = IF job.state = "running" THEN orphans \cup {poll.page} ELSE orphans
  /\ busy' = IF poll.live THEN "none" ELSE busy

\* Seeded bug: every interruption starts the budget anew.
InterruptedAnew(immediate) ==
  IF immediate \/ ~poll.recovering
  THEN /\ poll' = [poll EXCEPT !.recovering = TRUE, !.since = 0,
                               !.phase = IF immediate THEN "calling" ELSE "waiting"]
       /\ UNCHANGED <<job, orphans, busy>>
  ELSE poll' = [poll EXCEPT !.phase = "waiting", !.since = 0] /\ UNCHANGED <<job, orphans, busy>>

\* Seeded bug: off by one, the call gives up a wait too late.
InterruptedLate(immediate) ==
  IF poll.recovering /\ poll.since > Budget THEN End
  ELSE /\ poll' = [poll EXCEPT !.recovering = TRUE,
                               !.phase = IF immediate THEN "calling" ELSE "waiting"]
       /\ UNCHANGED <<job, orphans, busy>>

\* The catch: remember when it began, give up past the budget, wait or go on.
Interrupted(immediate) ==
  IF poll.recovering /\ poll.since = Budget THEN End
  ELSE /\ poll' = [poll EXCEPT !.recovering = TRUE,
                               !.phase = IF immediate THEN "calling" ELSE "waiting"]
       /\ UNCHANGED <<job, orphans, busy>>

InFlight == poll # None /\ poll.phase \in {"calling", "awaiting"}
Around == UNCHANGED <<server, written, at, scan, leaving, loads, saves, moved>>

\* The server claims the key and calls the model while the request waits.
JobStarts ==
  /\ InFlight /\ poll.phase = "calling" /\ job.state = "none"
  /\ job' = [job EXCEPT !.state = "running"]
  /\ poll' = [poll EXCEPT !.phase = "awaiting"]
  /\ UNCHANGED <<server, written, orphans, worker, user, editor, loads, saves, history>>

JobEnds ==
  /\ job.state = "running"
  /\ \/ Write(poll.page, poll.page) /\ job' = [state |-> "done", v |-> written + 1]
     \/ job' = [job EXCEPT !.state = "failed"] /\ UNCHANGED <<server, written>>
  /\ UNCHANGED <<orphans, worker, user, editor, calls, history>>

\* A recognition nobody waits for ends, with a draft or without.
OrphanEnds(p) ==
  /\ p \in orphans
  /\ orphans' = orphans \ {p}
  /\ Write(p, p) \/ UNCHANGED <<server, written>>
  /\ UNCHANGED <<job, worker, user, editor, calls, history>>

\* The request that ran it answers with what it finds stored after its commit, a
\* replay of the key with that run's own document.  Nothing is evicted.
RecognizeAnswered ==
  /\ InFlight /\ job.state = "done"
  /\ LET doc == IF poll.phase = "awaiting" THEN server[poll.page]
                ELSE [of |-> poll.page, v |-> job.v]
     IN /\ IF poll.live THEN screen' = Showing(doc.of) /\ has' = TRUE
           ELSE UNCHANGED <<screen, has>>
        /\ told' = [told EXCEPT ![poll.page].any = doc.v]
  /\ End
  /\ Around /\ UNCHANGED <<worker, user>>

\* Another status, or a failed job: the error is shown as it is.
RecognizeRefused ==
  /\ InFlight /\ job.state \in {"none", "failed"}
  /\ End
  /\ Around /\ UNCHANGED <<worker, user, screen, has, told>>

\* 409: the key's first request is still being worked on.
RecognizeInProgress ==
  /\ InFlight /\ poll.phase = "calling" /\ job.state = "running"
  /\ Interrupted(FALSE)
  /\ Around /\ UNCHANGED <<worker, user, screen, has, told>>

\* fetch throws: the first time the key is sent again at once.
RecognizeCut ==
  /\ InFlight
  /\ Interrupted(~poll.recovering)
  /\ Around /\ UNCHANGED <<worker, user, screen, has, told>>

\* delay(RECOGNITION_RECOVERY_POLL_MS).
Delay ==
  /\ poll # None /\ poll.phase = "waiting"
  /\ poll' = [poll EXCEPT !.phase = "calling", !.since = poll.since + 1]
  /\ UNCHANGED <<store, worker, user, editor, loads, saves, history>>

PollStep ==
  JobStarts \/ RecognizeAnswered \/ RecognizeRefused \/ RecognizeInProgress \/ RecognizeCut \/ Delay

Next ==
  \/ \E p \in Pages : Open(p) \/ OrphanEnds(p)
  \/ \E to \in Pages \cup {"away"} : RequestExit(to)
  \/ Discard \/ KeepEditing \/ Reload \/ SignOut \/ SignIn
  \/ \E l \in loads : SongAnswers(l) \/ LoadFails(l) \/ GetAnswers(l) \/ GetFallsBack(l)
  \/ \E a \in puts : StoreAnswer(a)
  \/ Type \/ Save \/ Recognize \/ JobEnds
  \/ \E s \in saves : SaveHandled(s) \/ SaveAnswered(s) \/ SaveFails(s)
  \/ PollStep

\* A request is answered or cut by the infrastructure's timeout, and timers fire;
\* nothing is assumed of the reader, the server's work or the other calls.
Spec == Init /\ [][Next]_vars /\ WF_vars(PollStep)

-------------------------------------------------------------------------------
(* Properties. *)

\* An entry older than a save this tab was told of reached the cache after the
\* save's eviction: the worker stores an answer in its own time.
SupersededHasCause ==
  \A p \in Pages : cache[p] # None /\ cache[p].doc.v < told[p].save => cache[p].overtaken

\* A signed-out device holds no transcription, but for such late ones.
LeftBehindHasCause ==
  user = "out" => \A p \in Pages : cache[p] # None => cache[p].overtaken

\* The device keeps a document that was superseded, or any after a sign-out, only
\* when the worker stored it late.
OnlyLateEntries == SupersededHasCause /\ LeftBehindHasCause

\* The editor shows and the server stores under a page what was written for it,
\* unless the route has moved to another page under a mounted editor: then an
\* answer, or what a page without a transcription leaves on screen, is taken for
\* the new page's.
StoredHasOwnPage ==
  \/ moved
  \/ /\ \A p \in Pages : server[p] # None => server[p].of = p
     /\ scan # None => screen.of \in {scan, None}

\* Edits leave the screen only in ways the reader chose or a call that carried
\* them: the dialog, the browser's question, the answer to their own save, or
\* after the confirmation - but for those typed while an answer was due, and
\* those typed on a page without a transcription, which Recognize replaces
\* without asking.
EditsHaveCause ==
  [][screen.dirty /\ ~screen'.dirty =>
       \/ screen.exposed \/ leaving # None \/ Reload
       \/ \E s \in saves : SaveAnswered(s)
       \/ RecognizeAnswered /\ ~poll.asked]_vars

\* recognizeScan returns or throws, also when the server never finishes.
PollEnds == (poll # None) ~> (poll = None)

\* "the offline fallback can never resurrect a superseded document" (offline.ts
\* 56): a page the editor is shown from the cache is no older than the last write of this tab
\* that was answered - leaving aside the late answers of SupersededHasCause.
NeverResurrects ==
  [][\A l \in loads : l.live /\ GetFallsBack(l) =>
       LET entry == cache[l.page]
       IN entry.overtaken \/ entry.doc.v >= told[l.page].any]_vars
===============================================================================
