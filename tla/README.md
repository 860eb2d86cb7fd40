# saregamaPIC: models, checks and proofs

saregamaPIC turns photographed sargam sheets into a library of transcribed
songs. This directory holds TLA+ models of its server, of the reader's app and of
the pure algorithms between them, the TLC runs that check them on small
instances, and TLAPS proofs of what holds for every instance. Line numbers refer
to the files under `src/`; `PROJECT.json` names, for every definition, the lines
it stands for.

## 1. The system

### Processes and shared state

One uvicorn worker serves everything. `async def` handlers (the two uploads,
login and its callback, the session middleware) run on the event loop and give
it up only at an `await`; `def` handlers run on a thread pool and interleave
freely with each other and with the loop. Each request opens its own SQLite
connection (`db.connect`, `main.db_and_auth`), so requests share:

- the database (WAL, foreign keys on): a SELECT outside a transaction reads
  alone, the first write of a handler takes the only write lock until its
  commit, waits for it at most 5 s, and a handler that raises is rolled back by
  `conn.close()`;
- the data directory: originals under `images/<song>/`, derived copies under
  `derived/`;
- nothing in memory: limits, keys and sessions are rows.

The browser is the other half: a React application whose calls answer after the
reader has typed on, moved or left, and a service worker that answers reads from
a cache when the network fails.

### Components

| component | state it keeps | operations | what makes it correct | module |
|---|---|---|---|---|
| Transcription service (`routers/transcriptions.py`) | transcriptions, runs, revisions, idempotency keys | recognize, save | a key pays for one model call; a replay tells the truth; the transcription is the view of its history; no review is lost unseen | `Recognition`, `IdempotentKey` |
| Songs and scans (`routers/songs.py`, `scans.py`) | songs, `scans.page_no` | create, import, upload, rename, delete | page numbers distinct and in upload order; a row has its original | `PageStore`, `SongPages` |
| Files (`storage.py`) | originals, thumbnails, previews | save, ensure derived, delete | nothing left behind without a cause; derived copies whole | `PageStore`, `DerivedCache` |
| Limits (`security.py`) | `security_limit_events` | `_limited`, sweep | no window holds more than its limit | `RateLimit` |
| Sessions (`auth.py`, `main.py`) | users, sessions | sign in, renew, sign out, invite | a revoked or disabled session never serves again; a device in use stays signed in | `Sessions` |
| Retention (`retention.py`) | the same rows, at boot | prune | only what is past its window goes | `Recognition`, `RateLimit`, `Sessions` |
| Start and migrations (`main.py`, `config.py`, `db.py`, `migrations/`) | schema, recorded versions, the owner's row | validate, migrate, prepare the owner, prune, serve | the songs survive; a serving process is whole; a refused start has a cause | `Boot` |
| Editor, client, offline cache (`EditorPage.tsx`, `api/client.ts`, `offline.ts`, `vite.config.ts`, `App.tsx`) | the document on screen, calls in flight, the cache | load, edit, save, recognize, leave, reload, sign out | edits are never lost silently; a page shows and stores its own document; no superseded document is cached; the poll ends | `Reader` |
| Line detection (`line_detection.py`) | none | rows of a photo | every written row is a band of its own; the surround is none | `LineDetection`, `InkMask` |
| Recognizer (`recognition.py`) | none | box, bands, one call per band, stitch | a page comes whole or not at all | `Recognizer` |
| Grammar and transposition (`stf.py`, `stfTranspose.ts`, `lineBands.ts`) | none | advice, transposed view, row of a line | server and reader agree on what a note is; transposing reverses | `Stf`, `Transpose` |
| Learning and evaluation (`learning.py`, `routers/learning.py`, `scripts/evaluate_recognition.py`) | none: read the history | metrics, baseline, comparison | a correction is charged to the classes it changed; a comparison is fair | `Learning` |

What is hard here is listed, at its lines, under "hazards" in `PROJECT.json`:
values read before a call of minutes and used after it; retries racing the call
they retry; deletes racing everything; files written on one side of a commit and
removed on the other; event stamps taken before a lock is waited for; scripts
whose statements commit one by one; answers applied to a page the reader has
left or typed on; and, in the algorithms, the boundaries where rows are equal,
bands overlap, ratios round and pitches cross the octave.

## 2. Modules and the code they model

In the modules of the server a request has a program counter (`pc`), one action
stands for the code between two points where another actor can get in, and a
request's id doubles as every fresh id it draws (run, revision, scan, token).

### `Recognition`, `IdempotentKey`

One owner's view of `routers/transcriptions.py` with the requests that race it.
`title`, `scans`, `trs`, `runs`, `revisions`, `keys` are the tables; `seen` is
the local `existing` of both handlers, read before and used after the model call.
The handlers step through

- recognize: `Gate` (scan_row), `Lookup` (a key's row, its run),
  `CheckExisting`, `Charge`, `ClaimKey` (the committed `'started'`), the model
  call, `RecognitionSucceeds` / `RecognitionFails` / `RecognitionConflicts`,
  `Answer` (the SELECT after the commit);
- save: `Gate`, `Charge`, `ReadForSave`, `SaveSucceeds` / `SaveConflicts`,
  `Answer`;
- delete a page or a song with its cascades, and the rename.

`LockTimeout` is SQLite's "database is locked" wherever a statement writes;
`CrashAndBoot` loses the requests in flight and forgets any keys the boot prune
may find old. `Init` admits keys that migration 005 left completed without a run.
`IdempotentKey` is the abstract promise of the `Idempotency-Key` header: claimed
once, settled at most once by an outcome of its own, never changed except by
being forgotten. `KeyOutcome` is the refinement mapping.

### `RateLimit`

`security._limited` and `enforce_limit`: `Stamp` reads the clock, `Admit`/`Deny`
are the transaction from the sweeping DELETE to the commit, up to `Patience`
later. A route charges a sequence of buckets, each with its own commit, so that a
denied quota leaves the rate charged. `rows` is the table, `admitted` remembers
every event. `Reboot` is the sweep of `prune_expired`.

### `PageStore`, `SongPages`

`routers/songs.py`, `routers/scans.py` and the writing half of `storage.py`. The
uploads are `async`: from the end of `await file.read()` to their answer they
hold the event loop (`loop`), so two uploads never interleave there, while the
threaded deletes come between any two of their steps: `Number` (MAX + 1),
`MakeDir`, `Store`, `Insert`, `Cleanup`, `Answer`. `DeleteScan` deletes and
renumbers in one transaction, `ListScans`/`DeleteSong` list and delete in two
steps, `Unlink` removes one file at a time and prunes the directory. `SongPages`
is the abstract book: a sequence per song, append, remove one, clear. `Book` is
the refinement mapping: the i-th page of a song is the one with i pages up to its
number.

### `DerivedCache`

One scan and one derived copy: `storage._ensure_derived` with the check
(`Ensure`), decode (`Decode`), `Image.save`'s open (`Create`, which truncates) and
write (`Encode`, `EncodeFails`), the routes that send the copy or run the detector
on it (`Respond`), and the delete. A file is an inode: `content` survives an
unlink under its writer. Pillow's behaviour - open with `w+b`, remove on failure
only what it created - is modelled as the library does it. Its specification is
`CopySpec`: no name of the module is one of `Reader`'s, so that one module of proofs
extends both.

### `Sessions`

The middleware `main.db_and_auth` around the handlers of `auth.py`, and one
device with one cookie. `Gate` is `authenticate_session` on the way in, `Renew`
is `renew_session` on the way out, between them `Login` (the callback), `Logout`
or `Call` (any other handler, however long). `sets` is the last `Set-Cookie` of a
response; `Deliver` applies responses in any order, `Lose` drops them. `Disable`
is the operator's UPDATE (no route disables an account). `Boot` prunes.

### `Boot`

A start of the server on the database of any earlier version: `CreateApp` and
`ValidateAuth` refuse settings, `NextScript`, `Statement` and `Record` are
`db.migrate` - every statement of the five scripts is a commit of its own, with
what SQLite requires of it (`CanRun`) and what it does (`Effect`), and the
version's row follows the last one - then `PrepareInitialOwner`, `PruneExpired`,
and a serving process that imports, invites and signs in. `Stop` kills it
anywhere; `Deploy` changes the environment between two starts. `Settings.parses`
stands for every value that `config.py` converts when it is loaded.

### `Reader`

One tab of the app and its service worker. `screen` is the document in the
editor: the page it was written for, whether it has unsaved edits, and whether
they are `exposed`, that is, typed while an answer that will replace them was due.
A load is getSong and then getTranscription (`SongAnswers`, `GetAnswers`,
`GetFallsBack`, `LoadFails`); only the first looks at the effect's `cancelled`
flag. A save is the PUT at the server (`SaveHandled`) and its answer
(`SaveAnswered`), which evicts the page's entry; a recognition is a key's work at
the server (`JobStarts`, `JobEnds`) and the client's call with its recovery poll
(`RecognizeAnswered`, `RecognizeInProgress`, `RecognizeCut`, `Delay`,
`Interrupted`). `puts` are answers the worker has handed on and not stored yet.
`RequestExit`, `Discard`, `KeepEditing` are the blocker and its dialog; `Move` is
the route changing to another page under a mounted editor. The answers of a call
whose editor has left apply to nothing (`live`), but its eviction still happens.
The server is what this tab sees of `Recognition`.

### The algorithms: `Rounding`, `LineDetection`, `InkMask`, `Recognizer`, `Stf`, `Transpose`, `Learning`

Pure operators. `Algorithms` gives each an action that calls it once on one of its
`Inputs` and an action that returns its result (`call`), and states what is
required of the result, by a definition that does not follow the code's own
computation. `MCAlgorithms` lists the inputs of the run; what the theorems assume
of them instead is named beside the constant (`NoteAssumption` and the others):
notes and texts as the parser makes them, intervals that `transposeSemitones`
chooses, a sheet of at least one line, a photo of rows that are a share of ink (a full
row counts as written, the paper is wide enough to count, the valley's and the core's
shares are at most the whole), a histogram that counts pixels, rows of
pixels of the width the run gives them, images and pages that have a size, a page
read as one band or as two halves that cover it, a reply that is an object, another
JSON value or none,
documents of a header and lines of text, a draft for every run that succeeded, arms
that hold a run, and rates.

- `LineDetection`: the row profile inside the paper, runs of written rows, the
  split at valleys, the trim, the bands. The peaks that the code keeps, from the
  highest down, are the one set in which a peak is kept exactly when a valley
  separates it from every higher one that is (`KeptPeaks`). `InkMask`: Otsu's threshold with running
  sums, the stroke mask by doubling filters, the two-stage skew search.
- `Recognizer`: the image box, the bands sent to the model, what is taken from
  one answer, the stitching of overlapping bands, a page of bands of which some
  fail. A reply that is JSON but no object passes `ExtractJson`, as it passes
  `json.loads`, and fails the page as an internal error; a list with a brace in it
  is left out, and the structured output asked of the model rules both out.
- `Stf`: tokens of a line and the advisory warnings. `Transpose`: the rotation of
  a line, pitch names, `bandForLine`. `Learning`: what an edit is charged to, the
  joins and the selection of `_PAIRS` over tables of pages, runs and songs, the
  baseline of a report, the verdict on two arms whichever way is better. The tables
  are those `Recognition` can leave: a transcription points at no run, or at one
  of its own page that succeeded (`TranscriptionMatchesHistory`), and its page may
  have others, failed or superseded. A comparison takes its arms as given: that
  both were replayed over one `fetch_rows` is read from the script, not modelled.

### Proof modules

`RecognitionProofs`, `RateLimitProofs`, `PageStoreProofs`, `SessionsProofs`,
`BootProofs` and `AlgorithmProofs` each extend the module they are about;
`ReaderProofs` extends `Reader` and `DerivedCache`, and `RowProofs` extends
`AlgorithmProofs`. Section 4 says what they prove.

## 3. What the runs check and show

Passing runs:

| run | instance | properties | what it shows |
|---|---|---|---|
| `recognition_core` | 2 pages of a song, 1 key, 3 requests of any kind | `TypeOK`, `SingleFlight`, `StartedKeyHasCause`, `CompletedKeyHasRun`, `TranscriptionMatchesHistory`, `AnswerIsOfOwnPage`, `AcknowledgedSaveIsKept`, `SeenReviewIsKept` | a key pays once and replays its own page's run; history and view agree; what may be lost and why |
| `recognition_live` | 2 pages, 2 keys, 2 requests, `FairSpec` | `KeySettles`, `ImplementsIdempotentKey` | the table of keys behaves as the abstract key; a claimed key gets an outcome unless its request died or ended in a bare 500 |
| `ratelimit_window` | rate 1 per 2 s, quota 2 per 3 s, one bucket off; 3 requests, 8 s, stamps up to 1 s old | `WindowBound`, `NothingSweptEarly`, `DenialIsEarned` | late stamps, sweeps and restarts never widen a window |
| `pages_core` | a song of 2 pages and a new one, 3 requests | `TypeOK`, `PagesDistinct`, `RowHasOriginal`, `OrphanHasCause`, `ImplementsSongPages` | numbers stay distinct and in order although nothing in the schema says so; no page without its original; every file left behind has a named cause |
| `derived_core` | 4 requests | `PartHasCause`, `PartNeedsAnother` | a truncated copy has a living, dead or failed writer; a lone first view is whole |
| `sessions` | 1 user, 3 requests, lifetime 2 days, 4 days | `SteadyDeviceStays`, `RevokedIsFinal`, `NoServiceAfterLogout`, `PruneDropsOnlyDead` | no late renewal undoes a logout; a device in use stays signed in at the boundary |
| `boot` | 2 e-mails, a database of any of the six schema versions | `TypeOK`, `RecordedIsReady`, `SongsSurvive`, `FailureHasCause`, `CutIsLeftAlone` | no start loses a song or serves half a schema; a refused start has a cause |
| `reader` | 2 pages, one of them transcribed | `TypeOK`, `OnlyLateEntries`, `StoredHasOwnPage`, `EditsHaveCause`, `PollEnds` | a stale cache entry, a foreign document and a lost edit each have one of the causes named; the poll ends |
| `algorithms` | every input of small sets | `RowsAreFound`, `InkIsFound`, `PageIsRead`, `NotesKeepTheirMeaning`, `CorrectionsAreCharged`, `ReportsAreFair` | below |

The properties of `algorithms` are conjunctions of named parts:

- `RowsAreFound`: rows equally written become one band each, but for the one that
  merging hides behind a plateau (`EqualRowsAreBands`), a band spans no valley (`BandSpansNoValley`), the surround is never a row
  (`SurroundNeverCounts`), bands stay inside the paper (`BandsInsidePaper`).
- `InkIsFound`: the running sums find the tightest threshold (`OtsuIsTightest`),
  the doubling filter sees exactly its window (`StrokesAreLocal`), the two-stage
  search finds the sharpest angle of its range (`SkewIsSharpest`).
- `PageIsRead`: the image fits both bounds (`BoxFits`), the bands cover the page
  (`BandsCoverPage`), what is cut from a reply is one object
  (`ReplyHoldsOneObject`), stitched bands are the page (`StitchRestoresPage`), and
  a page is whole or failed (`PageIsWholeOrFailed`).
- `NotesKeepTheirMeaning`: the server warns of a note exactly when the reader's
  transposition leaves it as it is (`WarnedIsNotRotated`), a legal note moves by
  the interval across any octave and back (`TranspositionReverses`), transposing
  neither adds nor removes advice (`TranspositionKeepsAdvice`), advice is given for
  what is wrong and only then (`AdviceIsWarranted`), and lines follow rows
  (`RowsFollowLines`).
- `CorrectionsAreCharged`: a class with no correction shows the same in both
  documents, place by place among its tokens (`UnchargedClassUntouched`; a letter
  or an octave may move to another note, and is left out); charges are at most
  three an edit and no fewer than the edits, unless an edit only reorders a note's
  marks (`EveryEditIsCharged`); both accuracies are perfect exactly when nothing
  was corrected (`PerfectIsUncorrected`).
- `ReportsAreFair`: a reviewed sheet counts once and for its owner, however often it
  was recognized, exact are the sheets left as the run they point at read them, and a class affects the sheets it was changed in,
  no exact one and no more than it has corrections (`BaselineIsOwn`); swapping the
  arms swaps the verdict and one more run never makes one out of noise
  (`VerdictIsFair`); and the ladder's gate agrees with the verdict (`LadderAgrees`).

The type invariants of `RateLimit`, `Sessions` and `DerivedCache` are proved and
no longer run. Each property has, under "mutants", a plausible bug that breaks it
under the same run.

Violation runs, each a finding in `PROJECT.json`:

| run | property | what happens |
|---|---|---|
| `recognition_clobber` | `NeverClobberReviewed` | a review saved during the model call is overwritten by the draft; the 409 test is older than the call |
| `sessions_login` | `LoginTakesEffect` | on a sign-in over a live old session in its renewal window, the renewed old cookie follows the new one and wins |
| `reader_resurrect` | `NeverResurrects` | a page read, recognized anew and reopened offline shows the transcription from before: a recognition evicts no cache entry |

### Bounds, and why they are enough

- Three requests: every race of the server is between two requests on one row,
  with a third that observes (a retry, a viewer, a late call). `derived_core`
  takes four, since its question is about several writers of one file and a reader.
- Two pages and one key make a key spent on another page possible; two keys make
  one run settling two keys possible. Two old pages are the fewest a delete can
  renumber.
- `RateLimit` runs 8 s over windows of 2 and 3 s: an event ages out, is swept
  (retention 4 s) and its window refills within the run. `Horizon` is the only
  bound; the theorems have none.
- `Sessions` runs two lifetimes of two days: the smallest whose renewal window is
  neither empty nor everything. `Horizon` is the only bound.
- `Reader`: `MaxVersion` 2 (one write after the stored version), `MaxCalls` 2
  (loads, saves, pending stores, abandoned calls and a poll together), `Budget` 1
  (one repeat of the poll), and one `Move` under a mounted editor. Two calls are
  what every race here needs: the one whose answer is late and the one it is late
  for. The theorems hold for every value of the three constants; `Move` happens at
  most once in them too, since after it nothing is claimed of pages.
- `Boot`: two e-mails, since the question is whether the owner's is taken; the
  versions, settings, statements and kills are all there are.
- `algorithms`: 8 rows at 3 densities, captures of 6 rows of 4 kinds, histograms of
  6 levels, rows of 8 pixels, notes with up to 3 marks and every interval, row
  and line numbers from -1 to 6, documents of a few notes. Each boundary of the code (equal
  neighbours, a plateau, an edge, the octave, an empty side) lies inside.
- Requests are served once, so all counters are finite. `CHECK_DEADLOCK FALSE` is
  set in every configuration but `Boot.cfg`, because a run ends when its requests
  or its calls are spent; a server can always be stopped and started, so `boot`
  checks deadlock.
- Symmetry is over request ids, users and e-mails, which nothing orders; the
  liveness runs use none.

### Fairness

`KeySettles` and `PollEnds` need it.

- `Recognition!FairSpec` gives each request weak fairness of its own handler. A
  thread of the pool is always scheduled again, the model SDK bounds every call
  by its timeout, and SQLite's busy timeout ends every wait for the lock.
- `Reader!Spec` has weak fairness of the poll's steps only: a request is answered
  or cut off by the timeouts of browser and server, and a timer fires.

Nothing is assumed of users, of arrivals, of other calls or of crashes.
### What else the models show

Facts of the code that the models reach and that no property forbids:

- `delete_song` lists the pages and then deletes: the file of a page inserted
  between the two stays (`songs.py:217`, a cause of `OrphanHasCause`).
- A page uploaded while another is deleted leaves a gap in the numbers
  (`songs.py:256`); order and distinctness are kept.
- The first answer of a recognition reads the row again after its commit
  (`transcriptions.py:354-358`), and may show a later document; a replay shows
  the run.
- A second viewer of a page being rendered is served the truncated copy
  (`storage.py:164`), and a render that passed its checks before a delete writes
  its copy after the unlink.
- `renew_session` extends a session that expired while its request ran: its
  UPDATE tests only `revoked_at`.
- A migration cut between two statements makes every later start fail at that
  script's first statement: the statements are committed and the version is not
  (`db.py:31`). A start also fails while the configured owner's e-mail belongs to
  an invited user.
- The cache may store a superseded document when an answer is stored after an
  eviction or a sign-out, or when a recognition replaced it: the causes of
  `OnlyLateEntries`.
- Edits typed while an answer is due are replaced by it, and `Recognize` replaces
  text typed on a page without a transcription without asking
  (`EditorPage.tsx:414`): the causes of `EditsHaveCause`.
- When the route changes under a mounted editor, a late answer applies another
  page's document, and a 404 leaves the previous page's text on screen.
- `_split_at_valleys` finds no peak on a plateau at the start of a run, against
  its docstring (`line_detection.py:432`); `EqualRowsAreBands` excludes it by name.
- Stitching drops a line that is repeated across a band's edge: the widest
  overlap wins. `extract_json` removes a fence only at the start of a reply.
- An edit of the order of marks alone, and a letter or a dot that vanishes
  together with an accidental, are charged to no class.
- `bandForLine` would index past its rows for a text of no lines; no caller asks.

## 4. What is proved

Each theorem holds for every value of the constants that satisfies the named
assumptions. Each safety theorem rests on an inductive invariant, stronger than
the properties because they are not inductive.

- **Recognition** (`RecognitionProofs`). `Safety` is the invariant `Inv`.
  `SingleFlight` needs that whoever waits for the model owns its key's row while
  its page exists; `CompletedKeyHasRun` and the refinement need that a request
  that has not finished its call has written no run or revision, so that fresh
  ids are fresh; `TypeOK` needs that a request is only at places of the handler
  that serves it (`Route`). Beside `Inv`, `AnswersAreOwn` needs that runs,
  revisions and answers are of their request's page (`OwnPage`), and
  `StartedKeysAreCaused` that the request that explains a started key explains it
  for as long as the row stays (`Cause`). The others are `TypeCorrect`,
  `KeyPaysOnce`, `ReplayHasRun`, `ViewOfHistory`, `NoSaveIsLost`, the action
  property `SeenReviewsAreSafe`, and `KeyRefinement`: initial states and steps are
  those of the abstract key.
  Assumptions: `SongOf` is a function into songs; the sentinels are not ids.
- **RateLimit** (`RateLimitProofs`). `TypeCorrect`, `WindowHolds`,
  `SweepsAreSafe`, `DenialsAreEarned`. An event that a sweep drops is older than
  the retention, and by `RetentionAssumption` (window + lock wait <= retention,
  86 400 + 5 <= 172 800 in the code) no window of a living stamp can see it; so
  each insertion counts every event that its window, or a later stamp's, holds.
- **PageStore** (`PageStoreProofs`). `TypeCorrect`, `NumbersAreDistinct`,
  `RowsHaveOriginals`, `OrphansAreCaused`. The invariant says that an upload past
  its await has the loop (`Alone`), so that no other one inserts before it does;
  that its number is above every page's (`Above`), which deletes keep because they
  only lower numbers; that its file is there when it inserts (`Stored`) and none
  before its write (`Filed`), and its row not before its insert (`Inserted`); that
  what a delete unlinks has no row any more (`Rowless`) and what its list misses
  came later (`Covered`); that the song of an import is nobody else's before its
  insert (`FreshSongs`); and that requests stay on their routes (`Routed`). MAX + 1 needs the maximum of a
  finite set, proved from well-founded induction on the naturals.
  `ReadingOrderIsKept` is the refinement of `SongPages`: an insert appends, a
  delete with its renumbering removes one page, a delete of a song clears it, and
  every other step leaves `Book` alone. It rests on two facts about the mapping
  (`BookListed`: while numbers are distinct, `Book[g]` lists the song's pages in
  ascending order; `OnlyListing`: nothing else does), so that each step only has to
  exhibit an ascending list of what is there after it (`AppendAscends`,
  `RemoveAscends`, `Reordered`), and on one more invariant, that a page about to be
  deleted is of the song it was looked up with (`Aimed`). Assumptions: scans are
  finitely many, `NoRow` is no record, old pages are sequences disjoint from the
  requests' ids.
- **DerivedCache** (`ReaderProofs`). `CopyTypeCorrect`, `PartIsCaused`,
  `LoneViewIsWhole`: a partial copy has a writer that lives, died or failed.
- **Sessions** (`SessionsProofs`). `TypeCorrect`, `DeviceStays`, `RevokedStays`,
  `LogoutHolds`, `PruneIsSafe`. The invariant says who can hold a token
  (`Issued`), that an unanswered request's token is nobody's (`Unanswered`), that
  what the gate decided still holds when the handler returns (`Admitted`), that an
  answered logout's session is closed (`LoggedOut`), and that a session expires
  more than half a lifetime after its last call (`Ahead`), which makes the boundary
  of the renewal window inductive. Assumption: lifetime and retention are at
  least a day.
- **Boot** (`BootProofs`). `TypeCorrect`, `FailuresAreCaused`, `SongsAreKept`,
  `RecordedAreReady`, `CutsAreLeftAlone`, for every set of addresses. What a start
  may meet is one of three databases, and the invariant is their disjunction: a
  whole one of some version (`Whole`), one in the middle of a script that runs now
  (`Running`), or one that a kill left in the middle (`Left`), at which every start
  fails. `Database(v, n)` is what holds before statement n of script v: schema,
  recorded versions, the tables the songs are in, the owner's row. `StatementRuns`
  shows for all 36 statements that on it the statement can run and leaves
  `Database(v, n + 1)`, and `CutFails` that the first statement of a script
  fails on any database of its own middle. `Checked` adds what the start has
  verified so far. The properties are not inductive without it: that no table of
  songs is missing says nothing of whether the rename of 003 finds its source.
  Assumption: `Unset` is no address.
- **Reader** (`ReaderProofs`). `TypeCorrect`, `LateEntriesOnly`, `PagesAreOwn`,
  `EditsAreCaused`. The invariant relates the poll to the editor that waits for it
  (`Polling`), orders versions (`Ordered`: no answer is newer than the server),
  says that whatever is older than the server has been overtaken with a record of
  how (`Overtaken`), that a load past its first answer was live when it got it
  (`SongLoadsLive`), that screen and store hold their own page's document unless a
  move under the editor is recorded (`OwnScreen`, `OwnStore`), and that unsaved
  edits under a due answer are marked (`Exposed`). Assumption: `None` is no record.
- **Algorithms** (`AlgorithmProofs`, and `RowProofs` for the rows of a sheet). The six
  properties of the run are theorems of `Spec` for any inputs that satisfy the
  assumptions: `NotesAreKept` (`NotesKeepTheirMeaning`), `RowsAreAlwaysFound`
  (`RowsAreFound`), `PagesAreRead` (`PageIsRead`), `InkIsAlwaysFound` (`InkIsFound`),
  `CorrectionsAreAlwaysCharged` (`CorrectionsAreCharged`) and `ReportsAreAlwaysFair`
  (`ReportsAreFair`). Their invariant `CallsRan` says that a call was given one of its
  function's inputs and has no result yet or its function's. The rest are theorems
  about the functions, one for each part of a property:
  - of the notation, `WarnedExactlyWhenKept` and `TransposingReverses` for a note
    with any marks in any order (over the twelve spellings, an octave of any sign
    and the dots that show it), `AdviceIsKept` for a text of any length (a note is
    illegal before exactly when it is after, and every bracket, slot and alien
    letter stays in place), `HeaderAdviceIsWarranted` and `CurveAdvice` for a sheet,
    and `LineHasRow`, `ReadingGoesDown`, `RowsMatchLines`, `LastLineHasLastRow` for
    any number of rows and lines. `ShiftIsNearest` says which interval is chosen;
  - of a page, `ImagesFit` for every size and both caps, `BandsHoldEveryRow` for
    every height and number of bands, every overlap and both ways a cut rounds (the
    band is the first whose lower end reaches the row's); `OneObjectIsFound` and
    `TwoObjectsAreNone` for a reply of any length; `StitchingRestores` for a page of
    any length cut anywhere; `PageIsWhole` for any number of answers, except for
    what stitching makes of their lines;
  - of the ink, `ThresholdIsTightest` for any histogram: the running sums are the
    sums of the darker levels, and what is maximised is what the two means explain;
    `StrokesAreDarkerThanNear`: filters doubled and then overlapped see
    exactly the window; `SearchFindsSharpest`: where sharpness falls off on either
    side of a peak, the coarse winner is a coarse angle beside the peak, which the
    fine pass then reaches. It assumes what the code's steps satisfy: the coarse step
    divides the range and the fine pass reaches the last angle before the next
    coarse one;
  - of the rows, `SurroundIsIgnored` (for any photo, window and least height) and
    `InkNeedsPaper`, for which a dark row's run has to exist before anything can be
    said of its ends (`RunAround`). `BandsAreApart` says of any sheet that bands do
    not overlap or span a valley. The set of kept peaks exists, built from the
    highest peak down (`KeptPeaksAre`, by the least number of peaks without one), and
    each peak left out has a kept one that no valley separates it from. Suppose a
    piece between two cuts had two rows with a valley between them: each side of
    the valley would have a highest row, each is a peak unless the run starts with a
    plateau, and the kept peaks that the two lean on (`KeptOnLeft`, `KeptOnRight`)
    would be different, with a cut between them and so inside the piece
    (`PieceSpansNoValley`). Trimming only shortens a piece. On a sheet of equally
    dark rows (`EqualBandsAre`) every run of ink starts with a peak that is kept
    (`StartsAreKept`), unless it is a plateau at the start of a merged run, so every
    core is a run of ink (`CoreIsInkRun`), and a run of ink is a core exactly when it
    is not hidden (`CoreIsSeen`, `SeenIsCore`). A band's rows hold ink
    (`BandHoldsInk`), so the paper around them is that of `InkNeedsPaper`
    (`BandsLieInPaper`);
  - of the corrections, `EditsAreCharged`, `UnchargedIsUntouched` and
    `PerfectMeansUncorrected` for any two documents. The matched pairs are defined by
    recursion over the parts left beside a longest block. Each is shorter, so the
    recursion has a solution (`AlignsExist`), and the pairs are in the same order in
    both texts, each of equal tokens, with no two equal tokens left in one gap
    (`AlignmentIs`). Edits are then the places of the gaps (`EditsAre`), and what
    they are charged to adds up to the same by class as by edit (`CountedTwice`). An
    unchanged class has every one of its tokens facing the like place of the other
    text (`FacesInOrder`), so that both have the same rank in their class. Texts that
    differ only in a header are aligned place by place after it (`TailIsAligned`);
    `TokensTellDocuments` says that comparing tokens misses no correction;
  - of the reports, `BaselineCountsOwn` for any rows of the join, `VerdictsAreFair` for any two
    finite arms and `LadderFollowsVerdict` for any control runs: their rounded mean
    is at most the worst of them, so that a run worse than all of them never passes.

  A sum, a fold or a doubling is a recursive function, and tlapm unfolds one only
  where it is known to exist. The proofs build it from below: were there a size at
  which no such function exists, there would be a least one (`LeastNatural`, from
  the well-foundedness of the naturals), and one more step from the size before it
  is such a function. No induction rule with an operator for its parameter is used.

Only model-checked: `KeySettles` and `PollEnds`, since liveness under fairness is
beyond the prover.

## 5. Abstractions

- Requests are one owner's; other owners only ever meet `404` at the gate.
- Documents are their writer's id or a version: two are compared, never read.
  Validation of an image or a document is its outcome.
- `Charge` in `Recognition` and `PageStore` lets through or answers 429;
  `RateLimit` says when. The SELECTs of a replay are one step, since a key's run
  changes only when its page goes.
- The boot prune of keys takes any subset: key ages are not modelled.
- The clock never goes backwards, and SQLite commits are durable: power loss
  between write and sync is not modelled.
- One derived copy and one scan in `DerivedCache`: the two copies share no state.
- One device in `Sessions`: devices share no token. The browser's own expiry of
  the cookie only removes behaviours. The Google exchange, the identity link and
  the one-time login state are inside a login's outcome.
- `Boot` keeps of a schema what its statements require (`CanRun`) and change
  (`Effect`): tables and columns, not their constraints. `Settings.parses` says
  that every integer setting parses and the effort is a known one.
- `Reader` is one tab. The server is what that tab sees: versions of each page's
  transcription, with other devices' writes left out. Song details and lists,
  titles, deletions, undo, and the caches of images and of the signed-in user are
  left out.
- The algorithms run on small integers: a ratio is a pair, a row of pixels a
  function, a note a letter with its marks. Numbers that the code computes in
  floating point are scaled to integers and rounded as the code rounds
  (`Rounding`).

## 6. Not modelled

- Page viewer and photo zoom: floating-point layout; page turns are the route
  changes of `Reader`.
- Song list, song and admin pages: forms over the client's calls, whose requests
  are those of the services.
- The recognizer's prompts and SDK: an external model; its answers are inputs.
- Rotation, the paper's brightness and the overlay of line detection: numeric image
  operations, whose results are inputs of `LineDetection` and `InkMask`.
- Field lengths of `schemas.py`, logging, instrument profiles and their picker,
  file reading and printing of the scripts: data and formatting.
- The identity link and the one-time login state of a sign-in: inside its outcome.

## 7. What is left

1. In `Reader`: the title's own save, the song detail's and list's cache entries
   and their evictions, the undo of a deleted line, a second device's writes.
2. In `Sessions`: the one-time login state and the identity link as tables.
3. Proofs: every safety property of a run is a theorem; those of what items 1 and 2
   add.
