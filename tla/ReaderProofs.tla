----------------------------- MODULE ReaderProofs -----------------------------
(***************************************************************************)
(* What holds of Reader for every number of pages, versions, calls in      *)
(* flight and waits of the poll; and of DerivedCache, the server's copies  *)
(* of the images it shows, for every number of requests.  The two systems  *)
(* share no variable.                                                      *)
(***************************************************************************)
EXTENDS Reader, DerivedCache, TLAPS

\* The recovery poll waits only inside its budget, and the server works on the
\* key of a call only while there is one.
Polling ==
  /\ poll = None => job = NoJob
  /\ poll # None =>
       /\ ~poll.recovering => poll.since = 0
       /\ poll.phase = "waiting" => poll.recovering /\ poll.since < Budget
       /\ job.state = "done" => server[poll.page] # None

\* Every write is newer than what it replaces and than what was answered before.
Ordered ==
  /\ \A p \in Pages :
       IF server[p] = None THEN told[p].save = 0
       ELSE told[p].save <= server[p].v /\ server[p].v <= written
  /\ \A s \in saves : s.v # 0 => server[s.page] # None /\ s.v <= server[s.page].v

\* An answer on its way to the cache knows what it was overtaken by.
Overtaken ==
  \A a \in puts :
    /\ a.doc.v < told[a.page].save => a.overtaken
    /\ user = "out" => a.overtaken

\* A load that may still set the editor's page is the editor's.
SongLoadsLive == \A l \in loads : l.stage = "song" => l.live

\* Until the route moves under a mounted editor, what is on screen, on its way
\* to the screen, stored or cached is of its own page.
OwnScreen ==
  ~moved =>
    /\ scan \in {None, at} /\ screen.of \in {None, at}
    /\ \A l \in loads : l.live => l.page = at
    /\ \A s \in saves : s.of = s.page /\ (s.live => s.page = at)
    /\ poll # None /\ poll.live => poll.page = at

OwnStore ==
  ~moved =>
    /\ \A p \in Pages : server[p] # None => server[p].of = p
    /\ \A p \in Pages : cache[p] # None => cache[p].doc.of = p
    /\ \A a \in puts : a.doc.of = a.page

\* Only a mounted editor has edits, and those that an answer may replace are
\* known to be exposed.
Exposed ==
  screen.dirty =>
    /\ at # None
    /\ (\E l \in loads : l.live) => screen.exposed
    /\ poll # None /\ poll.live /\ poll.asked => screen.exposed

Inv ==
  /\ TypeOK /\ Polling
  /\ Ordered /\ Overtaken /\ OnlyLateEntries
  /\ SongLoadsLive /\ OwnScreen /\ OwnStore /\ Exposed

-----------------------------------------------------------------------------
(* Helpers.                                                                *)

\* Eviction empties entries and marks the answers on their way to them.
LEMMA EvictKeeps ==
  ASSUME TypeOK, NEW gone, Evict(gone)
  PROVE  /\ cache' \in [Pages -> Answer \cup {None}]
         /\ puts' \subseteq Answer
         /\ \A p \in Pages : cache'[p] = None \/ (cache'[p] = cache[p] /\ p \notin gone)
         /\ \A a \in puts' : \E b \in puts :
              /\ a.page = b.page /\ a.doc = b.doc
              /\ a.overtaken <=> b.overtaken \/ b.page \in gone
<1>1. ASSUME NEW b \in puts
      PROVE  LET a == [b EXCEPT !.overtaken = b.overtaken \/ b.page \in gone]
             IN /\ a \in Answer /\ a.page = b.page /\ a.doc = b.doc
                /\ a.overtaken <=> b.overtaken \/ b.page \in gone
  BY DEF TypeOK, Answer
<1>2. puts' = {[b EXCEPT !.overtaken = b.overtaken \/ b.page \in gone] : b \in puts}
  BY DEF Evict
<1>3. /\ cache' \in [Pages -> Answer \cup {None}]
      /\ \A p \in Pages : cache'[p] = None \/ (cache'[p] = cache[p] /\ p \notin gone)
  BY DEF Evict, TypeOK
<1>4. \A a \in puts' : a \in Answer /\ \E b \in puts :
        /\ a.page = b.page /\ a.doc = b.doc
        /\ a.overtaken <=> b.overtaken \/ b.page \in gone
  BY <1>1, <1>2
<1> QED
  BY <1>3, <1>4

LEMMA AbandonLoads ==
  ASSUME NEW S \in SUBSET Load
  PROVE  /\ Abandon(S) \subseteq Load
         /\ \A m \in Abandon(S) : ~m.live /\ \E l \in S : m.stage = l.stage
<1>1. \A l \in S : LET m == [l EXCEPT !.live = FALSE]
                   IN m \in Load /\ ~m.live /\ m.stage = l.stage
  BY DEF Load
<1> QED
  BY <1>1 DEF Abandon

LEMMA CancelLoads ==
  ASSUME NEW S \in SUBSET Load
  PROVE  LET cancelled == {[l EXCEPT !.cancelled = TRUE] : l \in S}
         IN /\ cancelled \subseteq Load
            /\ \A m \in cancelled : \E l \in S : m.stage = l.stage /\ m.live = l.live /\ m.page = l.page
<1>1. \A l \in S : LET m == [l EXCEPT !.cancelled = TRUE]
                   IN m \in Load /\ m.stage = l.stage /\ m.live = l.live /\ m.page = l.page
  BY DEF Load
<1> QED
  BY <1>1

LEMMA AbandonSaves ==
  ASSUME NEW S \in SUBSET Saving
  PROVE  /\ Abandon(S) \subseteq Saving
         /\ \A m \in Abandon(S) : ~m.live /\ \E s \in S : m.page = s.page /\ m.of = s.of /\ m.v = s.v
<1>1. \A s \in S : LET m == [s EXCEPT !.live = FALSE]
                   IN m \in Saving /\ ~m.live /\ m.page = s.page /\ m.of = s.of /\ m.v = s.v
  BY DEF Saving
<1> QED
  BY <1>1 DEF Abandon

LEMMA ShowingType ==
  ASSUME NEW of \in Pages \cup {None}
  PROVE  Showing(of) \in Screen /\ Blank \in Screen /\ ~Showing(of).dirty /\ ~Blank.dirty
         /\ Showing(of).of = of /\ Blank.of = None
BY DEF Showing, Blank, Screen

\* An exit is taken: nothing of the editor that is left applies any more, or
\* its component stays for another page.
LEMMA ProceedKeeps ==
  ASSUME Inv, NEW to \in Pages \cup {"away", None}, NEW S \in SUBSET Saving,
         NEW kept \in Screen, NEW hasIt \in BOOLEAN, Proceed(to, S, kept, hasIt),
         kept.dirty => kept.exposed
  PROVE  /\ at' \in Pages \cup {None} /\ scan' \in Pages \cup {None} /\ screen' \in Screen
         /\ has' \in BOOLEAN /\ busy' \in {"none", "load"} /\ leaving' = None
         /\ loads' \subseteq Load /\ saves' \subseteq Saving /\ poll' \in Poll \cup {None}
         /\ moved' \in BOOLEAN
         /\ SongLoadsLive' /\ Exposed'
         /\ poll' = None <=> poll = None
         /\ poll # None => /\ poll'.page = poll.page /\ poll'.phase = poll.phase
                           /\ poll'.recovering = poll.recovering /\ poll'.since = poll.since
         /\ \A m \in saves' : \E s \in S : m.page = s.page /\ m.of = s.of /\ m.v = s.v
         /\ moved => moved'
         /\ ~moved' =>
              /\ scan' = None /\ screen'.of = None
              /\ \A l \in loads' : ~l.live
              /\ \A s \in saves' : ~s.live
              /\ poll' # None => ~poll'.live
<1> USE DEF Inv, TypeOK
<1>1. CASE Unmount(S)
  <2> DEFINE gets == {k \in loads : k.stage = "get"}
             cancelled == {[l EXCEPT !.cancelled = TRUE] : l \in gets}
  <2>1. /\ cancelled \subseteq Load
        /\ \A m \in cancelled : \E l \in gets : m.stage = l.stage
    BY CancelLoads
  <2>2. /\ loads' = Abandon(cancelled) /\ saves' = Abandon(S)
        /\ poll' = IF poll = None THEN None ELSE [poll EXCEPT !.live = FALSE]
        /\ at' = None /\ scan' = None /\ screen' = Blank /\ has' = FALSE /\ busy' = "none"
        /\ leaving' = None /\ moved' = moved
    BY <1>1 DEF Unmount, Fresh
  <2>3. /\ loads' \subseteq Load
        /\ \A m \in loads' : ~m.live /\ m.stage = "get"
    BY <2>1, <2>2, AbandonLoads
  <2>4. /\ saves' \subseteq Saving
        /\ \A m \in saves' : ~m.live /\ \E s \in S : m.page = s.page /\ m.of = s.of /\ m.v = s.v
    BY <2>2, AbandonSaves
  <2>5. /\ poll' \in Poll \cup {None} /\ (poll' = None <=> poll = None)
        /\ poll' # None => ~poll'.live
        /\ poll # None => /\ poll'.page = poll.page /\ poll'.phase = poll.phase
                          /\ poll'.recovering = poll.recovering /\ poll'.since = poll.since
    <3>1. CASE poll = None
      BY <2>2, <3>1
    <3>2. CASE poll # None
      <4>1. poll \in Poll /\ poll' = [poll EXCEPT !.live = FALSE]
        BY <2>2, <3>2
      <4>2. /\ poll' \in Poll /\ ~poll'.live
            /\ poll'.page = poll.page /\ poll'.phase = poll.phase
            /\ poll'.recovering = poll.recovering /\ poll'.since = poll.since
        BY <4>1 DEF Poll
      <4> QED
        BY <3>2, <4>2, NoneAssumption
    <3> QED
      BY <3>1, <3>2
  <2>6. SongLoadsLive' /\ Exposed'
    BY <2>2, <2>3, ShowingType DEF SongLoadsLive, Exposed
  <2>7. screen' \in Screen /\ screen'.of = None
    BY <2>2, ShowingType
  <2> QED
    BY <2>2, <2>3, <2>4, <2>5, <2>6, <2>7
<1>2. CASE Move(to, S) /\ screen' = kept /\ has' = hasIt
  <2> DEFINE new == [page |-> to, stage |-> "song", cancelled |-> FALSE, live |-> TRUE]
             cancelled == {[l EXCEPT !.cancelled = TRUE] : l \in loads}
  <2>1. /\ cancelled \subseteq Load
        /\ \A m \in cancelled : \E l \in loads : m.stage = l.stage /\ m.live = l.live /\ m.page = l.page
    BY CancelLoads
  <2>2. /\ to \in Pages /\ at' = to /\ busy' = "load" /\ leaving' = None /\ moved' = TRUE
        /\ loads' = cancelled \cup {new} /\ saves' = S /\ scan' = scan /\ poll' = poll
    BY <1>2 DEF Move, StartLoad
  <2>3. new \in Load /\ new.live
    BY <2>2 DEF Load
  <2>4. loads' \subseteq Load
    BY <2>1, <2>2, <2>3
  <2>5. SongLoadsLive'
    <3>1. \A m \in cancelled : m.stage = "song" => m.live
      BY <2>1 DEF SongLoadsLive
    <3> QED
      BY <2>2, <2>3, <3>1 DEF SongLoadsLive
  <2>6. Exposed'
    BY <1>2, <2>2, ReaderAssumption DEF Exposed
  <2> QED
    BY <1>2, <2>2, <2>4, <2>5, <2>6
<1> QED
  BY <1>1, <1>2 DEF Proceed

LEMMA WriteKeeps ==
  ASSUME Inv, NEW p \in Pages, NEW of \in Pages, Write(p, of)
  PROVE  /\ written' \in 1 .. MaxVersion /\ written' = written + 1
         /\ server' \in [Pages -> Doc \cup {None}]
         /\ server'[p] # None /\ server'[p].of = of /\ server'[p].v = written + 1
         /\ \A q \in Pages : q # p => server'[q] = server[q]
         /\ \A q \in Pages : server[q] # None =>
              server'[q] # None /\ server[q].v <= server'[q].v
         /\ \A q \in Pages :
              IF server'[q] = None THEN told[q].save = 0
              ELSE told[q].save <= server'[q].v /\ server'[q].v <= written'
<1> USE DEF Inv, TypeOK
<1> DEFINE new == [of |-> of, v |-> written + 1]
<1>1. written \in 1 .. MaxVersion /\ MaxVersion \in Nat /\ written < MaxVersion
      /\ written' = written + 1 /\ written' \in 1 .. MaxVersion
  BY ReaderAssumption DEF Write
<1>2. new \in Doc /\ new # None /\ new.of = of /\ new.v = written + 1
  BY <1>1, NoneAssumption DEF Doc
<1>3. /\ server' \in [Pages -> Doc \cup {None}] /\ server'[p] = new
      /\ \A q \in Pages : q # p => server'[q] = server[q]
  BY <1>2 DEF Write
<1>4. \A q \in Pages : server[q] # None => server[q].v \in Nat /\ server[q].v <= written
  BY <1>1 DEF Ordered, Doc
<1>5. \A q \in Pages : told[q].save \in Nat /\ told[q].save <= written
  BY <1>1, <1>4 DEF Ordered
<1>6. \A q \in Pages : server[q] # None => server'[q] # None /\ server[q].v <= server'[q].v
  <2> TAKE q \in Pages
  <2>1. CASE q = p
    BY <1>1, <1>2, <1>3, <1>4, <2>1
  <2>2. CASE q # p
    BY <1>3, <1>4, <2>2
  <2> QED
    BY <2>1, <2>2
<1>7. \A q \in Pages :
         IF server'[q] = None THEN told[q].save = 0
         ELSE told[q].save <= server'[q].v /\ server'[q].v <= written'
  <2> TAKE q \in Pages
  <2>1. CASE q = p
    BY <1>1, <1>2, <1>3, <1>5, <2>1
  <2>2. CASE q # p
    BY <1>1, <1>3, <1>4, <2>2 DEF Ordered
  <2> QED
    BY <2>1, <2>2
<1> QED
  BY <1>1, <1>2, <1>3, <1>6, <1>7

\* An answer of the load replaces the screen only when its editor is still there.
LEMMA LoadedKeeps ==
  ASSUME Inv, NEW l \in loads, l.stage = "get", NEW doc \in Doc \cup {None}, Loaded(l, doc),
         UNCHANGED <<at, scan, saves, poll, moved>>,
         ~moved /\ doc # None => doc.of = l.page
  PROVE  /\ loads' \subseteq Load /\ screen' \in Screen /\ has' \in BOOLEAN
         /\ busy' \in {"none", "load", "recognize", "save"}
         /\ SongLoadsLive' /\ OwnScreen' /\ Exposed'
<1> USE DEF Inv, TypeOK
<1>1. loads' \subseteq loads /\ busy' \in {busy, "none"}
  BY DEF Loaded
<1>2. \/ screen' = screen /\ (has' = has \/ has' = FALSE)
      \/ doc # None /\ l.live /\ screen' = Showing(doc.of) /\ has' = TRUE
  BY DEF Loaded
<1>3. doc # None => doc.of \in Pages
  BY DEF Doc
<1>4. screen' \in Screen /\ has' \in BOOLEAN
  BY <1>2, <1>3, ShowingType
<1>5. ~moved => screen'.of \in {None, at}
  BY <1>2, <1>3, ShowingType DEF OwnScreen
<1>6. OwnScreen'
  BY <1>1, <1>5 DEF OwnScreen
<1>7. screen'.dirty => screen' = screen
  BY <1>2, <1>3, ShowingType
<1>8. Exposed'
  BY <1>1, <1>7 DEF Exposed
<1> QED
  BY <1>1, <1>4, <1>6, <1>8 DEF SongLoadsLive

LEMMA EndKeeps ==
  ASSUME Inv, poll # None, End
  PROVE  /\ poll' = None /\ job' = NoJob /\ NoJob \in Job /\ orphans' \subseteq Pages
         /\ busy' \in {"none", "load", "recognize", "save"}
<1> USE DEF Inv, TypeOK
<1>1. poll.page \in Pages
  BY DEF Poll
<1>2. NoJob \in Job
  BY ReaderAssumption DEF NoJob, Job
<1> QED
  BY <1>1, <1>2 DEF End

\* An interrupted call ends, or goes on as the same call within its budget.
LEMMA InterruptedKeeps ==
  ASSUME Inv, InFlight, NEW immediate \in BOOLEAN, Interrupted(immediate),
         immediate = ~poll.recovering \/ immediate = FALSE
  PROVE  /\ poll' \in Poll \cup {None} /\ job' \in Job /\ orphans' \subseteq Pages
         /\ busy' \in {"none", "load", "recognize", "save"}
         /\ poll' = None => job' = NoJob
         /\ poll' # None =>
              /\ job' = job /\ poll'.page = poll.page
              /\ poll'.live = poll.live /\ poll'.asked = poll.asked
              /\ poll'.recovering
              /\ poll'.phase = "waiting" => poll'.since < Budget
<1> USE DEF Inv, TypeOK
<1>1. poll \in Poll /\ poll # None
  BY DEF InFlight
<1>2. CASE poll.recovering /\ poll.since = Budget
  BY <1>1, <1>2, EndKeeps DEF Interrupted
<1>3. CASE ~(poll.recovering /\ poll.since = Budget)
  <2> DEFINE phase == IF immediate THEN "calling" ELSE "waiting"
  <2>1. /\ poll' = [poll EXCEPT !.recovering = TRUE, !.phase = phase]
        /\ UNCHANGED <<job, orphans, busy>>
    BY <1>3 DEF Interrupted
  <2>2. /\ poll' \in Poll /\ poll'.page = poll.page /\ poll'.since = poll.since
        /\ poll'.live = poll.live /\ poll'.asked = poll.asked /\ poll'.recovering
    BY <1>1, <2>1 DEF Poll
  <2>3. poll.since \in 0 .. Budget /\ Budget \in Nat \ {0}
    BY <1>1, ReaderAssumption DEF Poll
  <2>4. ~poll.recovering => poll.since = 0
    BY <1>1 DEF Polling
  <2>5. poll.since # Budget
    BY <1>3, <2>3, <2>4
  <2>6. poll.since < Budget
    BY <2>3, <2>5
  <2> QED
    BY <2>1, <2>2, <2>6, <1>1, NoneAssumption
<1> QED
  BY <1>2, <1>3

LEMMA ExitKeeps ==
  ASSUME Inv, NEW to \in Pages \cup {"away", None}, NEW kept \in Screen, NEW hasIt \in BOOLEAN,
         Proceed(to, saves, kept, hasIt), kept.dirty => kept.exposed,
         UNCHANGED <<store, worker, user, told>>
  PROVE  Inv'
<1> USE DEF Inv
<1>1. saves \in SUBSET Saving
  BY DEF TypeOK
<1>2. /\ UNCHANGED <<server, written, job, orphans, cache, puts, user, told>>
  BY DEF store, worker
<1>3. /\ at' \in Pages \cup {None} /\ scan' \in Pages \cup {None} /\ screen' \in Screen
      /\ has' \in BOOLEAN /\ busy' \in {"none", "load"} /\ leaving' = None
      /\ loads' \subseteq Load /\ saves' \subseteq Saving /\ poll' \in Poll \cup {None}
      /\ moved' \in BOOLEAN /\ SongLoadsLive' /\ Exposed'
  BY <1>1, ProceedKeeps
<1>4. /\ poll' = None <=> poll = None
      /\ poll # None => /\ poll'.page = poll.page /\ poll'.phase = poll.phase
                        /\ poll'.recovering = poll.recovering /\ poll'.since = poll.since
      /\ \A m \in saves' : \E s \in saves : m.page = s.page /\ m.of = s.of /\ m.v = s.v
  BY <1>1, ProceedKeeps
<1>5. /\ moved => moved'
      /\ ~moved' =>
            /\ scan' = None /\ screen'.of = None
            /\ \A l \in loads' : ~l.live
            /\ \A s \in saves' : ~s.live
            /\ poll' # None => ~poll'.live
  BY <1>1, ProceedKeeps
<1>6. TypeOK'
  <2>1. /\ server' \in [Pages -> Doc \cup {None}] /\ written' \in 1 .. MaxVersion
        /\ cache' \in [Pages -> Answer \cup {None}] /\ puts' \subseteq Answer
        /\ user' \in {"in", "out"} /\ job' \in Job /\ orphans' \subseteq Pages
        /\ told' \in [Pages -> [save : 0 .. MaxVersion, any : 0 .. MaxVersion]]
    BY <1>2 DEF TypeOK
  <2> QED
    BY <1>3, <2>1 DEF TypeOK
<1>7. Polling'
  BY <1>2, <1>4 DEF Polling
<1>8. Ordered'
  <2>1. \A s \in saves' : s.v # 0 => server'[s.page] # None /\ s.v <= server'[s.page].v
    BY <1>2, <1>4 DEF Ordered
  <2> QED
    BY <1>2, <2>1 DEF Ordered
<1>9. OwnScreen'
  <2>1. ~moved' => \A s \in saves' : s.of = s.page
    BY <1>4, <1>5 DEF OwnScreen
  <2> QED
    BY <1>5, <2>1 DEF OwnScreen
<1>10. OwnStore'
  BY <1>2, <1>5 DEF OwnStore
<1>11. Overtaken' /\ OnlyLateEntries'
  BY <1>2 DEF Overtaken, OnlyLateEntries, SupersededHasCause, LeftBehindHasCause
<1> QED
  BY <1>3, <1>6, <1>7, <1>8, <1>9, <1>10, <1>11

-----------------------------------------------------------------------------
(* Every action keeps the invariant.                                       *)

\* A page is opened: its load is the only one that may show anything.
LEMMA OpenKeeps ==
  ASSUME Inv, NEW p \in Pages, Open(p)
  PROVE  Inv'
<1> USE DEF Inv, store, worker, editor, calls, history
<1> DEFINE new == [page |-> p, stage |-> "song", cancelled |-> FALSE, live |-> TRUE]
<1>a. /\ at = None /\ at' = p /\ scan' = None /\ screen' = Blank /\ has' = FALSE
      /\ busy' = "load" /\ leaving' = None /\ loads' = loads \cup {new}
  BY DEF Open, Fresh, StartLoad
<1>b. new \in Load /\ new.page = p /\ new.live
  BY DEF Load
<1>c. screen' \in Screen /\ screen'.of = None /\ ~screen'.dirty
  BY <1>a, ShowingType
<1>d. UNCHANGED <<store, worker, user, saves, poll, history>>
  BY DEF Open
<1>1. TypeOK'
  BY <1>a, <1>b, <1>c, <1>d DEF TypeOK
<1>2. SongLoadsLive'
  BY <1>a, <1>b DEF SongLoadsLive
<1>3. OwnScreen'
  <2>1. \A l \in loads : l.page # None
    BY ReaderAssumption DEF TypeOK, Load
  <2>2. \A s \in saves : s.page # None
    BY ReaderAssumption DEF TypeOK, Saving
  <2>3. poll # None => poll.page # None
    BY ReaderAssumption DEF TypeOK, Poll
  <2> QED
    BY <1>a, <1>b, <1>c, <1>d, <2>1, <2>2, <2>3 DEF OwnScreen
<1>4. Exposed'
  BY <1>c DEF Exposed
<1>5. Polling' /\ Ordered' /\ Overtaken' /\ OnlyLateEntries' /\ OwnStore'
  BY DEF Open, Fresh, StartLoad, Polling, Ordered, Overtaken, OnlyLateEntries,
     SupersededHasCause, LeftBehindHasCause, OwnStore
<1> QED
  BY <1>1, <1>2, <1>3, <1>4, <1>5

\* An exit without edits is taken at once.
LEMMA RequestExitKeeps ==
  ASSUME Inv, NEW to \in Pages \cup {"away"}, RequestExit(to)
  PROVE  Inv'
<1> USE DEF Inv, store, worker, editor, calls, history
<1>a. at # None /\ UNCHANGED <<store, worker, user, told>>
  BY DEF RequestExit
<1>b. ASSUME screen.dirty PROVE Inv'
  <2>1. leaving' \in Pages \cup {"away", None}
        /\ UNCHANGED <<store, worker, user, at, scan, screen, has, busy, calls, history>>
    BY <1>a, <1>b DEF RequestExit
  <2>2. TypeOK'
    BY <2>1 DEF TypeOK
  <2> QED
    BY <2>1, <2>2 DEF Polling, Ordered, Overtaken, OnlyLateEntries, SupersededHasCause,
       LeftBehindHasCause, SongLoadsLive, OwnScreen, OwnStore, Exposed
<1>c. ASSUME ~screen.dirty PROVE Inv'
  <2>1. Proceed(to, saves, screen, has)
    BY <1>c DEF RequestExit
  <2>2. screen \in Screen /\ has \in BOOLEAN /\ saves \in SUBSET Saving
    BY DEF TypeOK
  <2> QED
    BY <1>a, <1>c, <2>1, <2>2, ExitKeeps
<1> QED
  BY <1>b, <1>c DEF TypeOK, Screen

\* The reader discards the edits.
LEMMA DiscardKeeps ==
  ASSUME Inv, Discard
  PROVE  Inv'
<1> USE DEF Inv, store, worker, editor, calls, history
<1> DEFINE kept == [screen EXCEPT !.exposed = TRUE]
<1>1. kept \in Screen /\ kept.exposed
  BY DEF TypeOK, Screen
<1>2. leaving \in Pages \cup {"away", None} /\ has \in BOOLEAN /\ saves \in SUBSET Saving
  BY DEF TypeOK
<1>3. Proceed(leaving, saves, kept, has) /\ UNCHANGED <<store, worker, user, told>>
  BY DEF Discard
<1> QED
  BY <1>1, <1>2, <1>3, ExitKeeps

LEMMA KeepEditingKeeps ==
  ASSUME Inv, KeepEditing
  PROVE  Inv'
<1> USE DEF Inv, store, worker, editor, calls, history
<1>1. TypeOK'
  BY DEF KeepEditing, TypeOK
<1>2. Polling' /\ Ordered' /\ Overtaken' /\ OnlyLateEntries'
      /\ SongLoadsLive' /\ OwnScreen' /\ OwnStore' /\ Exposed'
  BY DEF KeepEditing, Polling, Ordered, Overtaken, OnlyLateEntries, SupersededHasCause,
     LeftBehindHasCause, SongLoadsLive, OwnScreen, OwnStore, Exposed
<1> QED
  BY <1>1, <1>2

\* A reload leaves what the server has received.
LEMMA ReloadKeeps ==
  ASSUME Inv, Reload
  PROVE  Inv'
<1> USE DEF Inv, store, worker, editor, calls, history
<1> DEFINE kept == {s \in saves : s.v = 0}
<1>a. /\ at' = None /\ scan' = None /\ screen' = Blank /\ has' = FALSE /\ busy' = "none"
      /\ leaving' = None /\ loads' = {} /\ poll' = None /\ job' = NoJob /\ saves' = Abandon(kept)
      /\ UNCHANGED <<server, written, worker, user, history>>
  BY DEF Reload, Fresh
<1>b. kept \in SUBSET Saving
  BY DEF TypeOK
<1>c. /\ saves' \subseteq Saving
      /\ \A m \in saves' : ~m.live /\ \E s \in kept : m.page = s.page /\ m.of = s.of /\ m.v = s.v
  BY <1>a, <1>b, AbandonSaves
<1>d. screen' \in Screen /\ screen'.of = None /\ ~screen'.dirty
  BY <1>a, ShowingType
<1>e. orphans' \subseteq Pages
  <2>1. job.state = "running" => poll.page \in Pages
    BY DEF Polling, NoJob, TypeOK, Poll
  <2> QED
    BY <2>1 DEF Reload, TypeOK
<1>f. NoJob \in Job
  BY ReaderAssumption DEF NoJob, Job
<1>1. TypeOK'
  BY <1>a, <1>c, <1>d, <1>e, <1>f DEF TypeOK
<1>2. Polling'
  BY DEF Reload, Fresh, TypeOK, Polling
<1>3. Ordered'
  <2>1. \A s \in saves' : s.v = 0
    BY <1>c
  <2> QED
    BY <1>a, <2>1 DEF Ordered
<1>4. SongLoadsLive'
  BY DEF Reload, Fresh, TypeOK, SongLoadsLive
<1>5. OwnScreen'
  <2>1. ~moved => \A s \in saves' : ~s.live /\ s.of = s.page
    BY <1>c DEF OwnScreen
  <2> QED
    BY <1>a, <1>d, <2>1 DEF OwnScreen
<1>6. Exposed'
  BY <1>d DEF Exposed
<1>7. Overtaken' /\ OnlyLateEntries' /\ OwnStore'
  BY DEF Reload, Fresh, Overtaken, OnlyLateEntries, SupersededHasCause, LeftBehindHasCause,
     OwnStore
<1> QED
  BY <1>1, <1>2, <1>3, <1>4, <1>5, <1>6, <1>7

\* The sign-out empties the caches and marks what is on its way there.
LEMMA SignOutKeeps ==
  ASSUME Inv, SignOut
  PROVE  Inv'
<1> USE DEF Inv, store, worker, editor, calls, history
<1>a. user' = "out" /\ Evict(Pages) /\ UNCHANGED <<store, editor, calls, history>>
  BY DEF SignOut
<1>b. /\ cache' \in [Pages -> Answer \cup {None}] /\ puts' \subseteq Answer
      /\ \A p \in Pages : cache'[p] = None
      /\ \A a \in puts' : \E b \in puts : a.page = b.page /\ a.doc = b.doc /\ a.page \in Pages
      /\ \A a \in puts' : a.overtaken
  <2>1. \A a \in puts : a.page \in Pages
    BY DEF TypeOK, Answer
  <2> QED
    BY <1>a, <2>1, EvictKeeps
<1>1. TypeOK'
  BY <1>a, <1>b DEF TypeOK
<1>2. Overtaken'
  BY <1>b DEF Overtaken
<1>3. OnlyLateEntries'
  BY <1>b DEF OnlyLateEntries, SupersededHasCause, LeftBehindHasCause
<1>4. OwnStore'
  BY <1>a, <1>b DEF OwnStore
<1>5. Polling' /\ Ordered' /\ SongLoadsLive' /\ OwnScreen' /\ Exposed'
  BY DEF SignOut, Polling, Ordered, SongLoadsLive, OwnScreen, Exposed
<1> QED
  BY <1>1, <1>2, <1>3, <1>4, <1>5

LEMMA SignInKeeps ==
  ASSUME Inv, SignIn
  PROVE  Inv'
<1> USE DEF Inv, store, worker, editor, calls, history
<1>1. TypeOK'
  BY DEF SignIn, TypeOK
<1>2. Overtaken'
  BY DEF SignIn, TypeOK, Overtaken
<1>3. OnlyLateEntries'
  BY DEF SignIn, TypeOK, OnlyLateEntries, SupersededHasCause, LeftBehindHasCause
<1>4. Polling' /\ Ordered' /\ SongLoadsLive' /\ OwnScreen' /\ OwnStore' /\ Exposed'
  BY DEF SignIn, Polling, Ordered, SongLoadsLive, OwnScreen, OwnStore, Exposed
<1> QED
  BY <1>1, <1>2, <1>3, <1>4

\* The song's answer sets the page of its own load.
LEMMA SongAnswersKeeps ==
  ASSUME Inv, NEW l, SongAnswers(l)
  PROVE  Inv'
<1> USE DEF Inv, store, worker, editor, calls, history
<1> DEFINE next == [l EXCEPT !.stage = "get"]
<1>a. l \in loads /\ l \in Load /\ l.stage = "song"
  BY DEF SongAnswers, TypeOK
<1>b. next \in Load /\ next.stage = "get" /\ next.live = l.live /\ next.page = l.page
  BY <1>a DEF Load
<1>c. \/ loads' = loads \ {l} /\ scan' = scan
      \/ loads' = (loads \ {l}) \cup {next} /\ scan' = l.page
  BY DEF SongAnswers
<1>d. UNCHANGED <<store, worker, user, at, screen, has, busy, leaving, saves, poll, history>>
  BY DEF SongAnswers
<1>e. \A m \in loads' : m \in loads \/ m = next
  BY <1>c
<1>1. TypeOK'
  <2>1. loads' \subseteq Load /\ scan' \in Pages \cup {None}
    BY <1>a, <1>b, <1>c DEF TypeOK, Load
  <2> QED
    BY <1>d, <2>1 DEF TypeOK
<1>2. SongLoadsLive'
  BY <1>b, <1>e DEF SongLoadsLive
<1>3. OwnScreen'
  <2>1. l.live
    BY <1>a DEF SongLoadsLive
  <2>2. ~moved => l.page = at
    BY <1>a, <2>1 DEF OwnScreen
  <2>3. ~moved => \A m \in loads' : m.live => m.page = at
    BY <1>b, <1>e, <2>2 DEF OwnScreen
  <2>4. ~moved => scan' \in {None, at}
    BY <1>c, <2>2 DEF OwnScreen
  <2> QED
    BY <1>d, <2>3, <2>4 DEF OwnScreen
<1>4. Exposed'
  <2>1. (\E m \in loads' : m.live) => \E m \in loads : m.live
    BY <1>a, <1>b, <1>e
  <2> QED
    BY <1>d, <2>1 DEF Exposed
<1>5. Polling' /\ Ordered' /\ Overtaken' /\ OnlyLateEntries' /\ OwnStore'
  BY DEF SongAnswers, Polling, Ordered, Overtaken, OnlyLateEntries, SupersededHasCause,
     LeftBehindHasCause, OwnStore
<1> QED
  BY <1>1, <1>2, <1>3, <1>4, <1>5

LEMMA LoadFailsKeeps ==
  ASSUME Inv, NEW l, LoadFails(l)
  PROVE  Inv'
<1> USE DEF Inv, store, worker, editor, calls, history
<1>1. TypeOK'
  BY DEF LoadFails, TypeOK, Load
<1>2. SongLoadsLive'
  BY DEF LoadFails, TypeOK, SongLoadsLive
<1>3. OwnScreen'
  BY DEF LoadFails, TypeOK, OwnScreen
<1>4. Exposed'
  BY DEF LoadFails, TypeOK, Exposed
<1>5. Polling' /\ Ordered' /\ Overtaken' /\ OnlyLateEntries' /\ OwnStore'
  BY DEF LoadFails, Polling, Ordered, Overtaken, OnlyLateEntries, SupersededHasCause,
     LeftBehindHasCause, OwnStore
<1> QED
  BY <1>1, <1>2, <1>3, <1>4, <1>5

\* The network's answer is the stored document.
LEMMA GetAnswersKeeps ==
  ASSUME Inv, NEW l, GetAnswers(l)
  PROVE  Inv'
<1> USE DEF Inv, store, worker, editor, calls, history
<1> DEFINE doc == server[l.page]
           new == [page |-> l.page, doc |-> doc, overtaken |-> user = "out"]
<1>a. l \in loads /\ l.stage = "get" /\ l.page \in Pages /\ doc \in Doc \cup {None}
  BY DEF GetAnswers, TypeOK, Load
<1>b. /\ Loaded(l, doc)
      /\ puts' = IF doc = None THEN puts ELSE puts \cup {new}
      /\ UNCHANGED <<store, cache, user, at, scan, leaving, saves, poll, history>>
  BY DEF GetAnswers
<1>c. ~moved /\ doc # None => doc.of = l.page
  BY <1>a DEF OwnStore
<1>d. /\ loads' \subseteq Load /\ screen' \in Screen /\ has' \in BOOLEAN
      /\ busy' \in {"none", "load", "recognize", "save"}
      /\ SongLoadsLive' /\ OwnScreen' /\ Exposed'
  BY <1>a, <1>b, <1>c, LoadedKeeps
<1>e. /\ new.page = l.page /\ new.doc = doc /\ (new.overtaken <=> user = "out")
      /\ \A a \in puts' : a \in puts \/ (doc # None /\ a = new)
  <2>1. puts' = puts \/ (doc # None /\ puts' = puts \cup {new})
    BY <1>b
  <2> HIDE DEF doc
  <2>2. new.page = l.page /\ new.doc = doc /\ (new.overtaken <=> user = "out")
    OBVIOUS
  <2> HIDE DEF new
  <2> QED
    BY <2>1, <2>2
<1>f. doc # None => new \in Answer
  BY <1>a DEF Answer
<1>1. TypeOK'
  <2>1. puts' \subseteq Answer
    BY <1>e, <1>f DEF TypeOK
  <2> QED
    BY <1>b, <1>d, <2>1 DEF TypeOK
<1>2. Overtaken'
  <2>1. doc # None => ~(doc.v < told[l.page].save)
    <3>1. told[l.page].save \in Nat
      BY <1>a DEF TypeOK
    <3>2. doc # None => doc.v \in Nat /\ told[l.page].save <= doc.v
      BY <1>a DEF Ordered, Doc
    <3> QED
      BY <3>1, <3>2
  <2> QED
    BY <1>b, <1>e, <2>1 DEF Overtaken
<1>3. SongLoadsLive'
  BY <1>d
<1>4. OwnScreen'
  BY <1>d
<1>5. OwnStore'
  BY <1>b, <1>c, <1>e DEF OwnStore
<1>6. Exposed'
  BY <1>d
<1>7. Polling' /\ Ordered' /\ OnlyLateEntries'
  BY DEF GetAnswers, Loaded, Polling, Ordered, OnlyLateEntries, SupersededHasCause,
     LeftBehindHasCause
<1> QED
  BY <1>1, <1>2, <1>3, <1>4, <1>5, <1>6, <1>7

\* The cache's answer is of its page, too.
LEMMA GetFallsBackKeeps ==
  ASSUME Inv, NEW l, GetFallsBack(l)
  PROVE  Inv'
<1> USE DEF Inv, store, worker, editor, calls, history
<1> DEFINE doc == cache[l.page].doc
<1>a. l \in loads /\ l.stage = "get" /\ l.page \in Pages /\ cache[l.page] # None /\ doc \in Doc
  BY DEF GetFallsBack, TypeOK, Load, Answer
<1>b. /\ Loaded(l, doc)
      /\ UNCHANGED <<store, worker, user, at, scan, leaving, saves, poll, history>>
  BY DEF GetFallsBack
<1>c. ~moved /\ doc # None => doc.of = l.page
  BY <1>a DEF OwnStore
<1>d. /\ loads' \subseteq Load /\ screen' \in Screen /\ has' \in BOOLEAN
      /\ busy' \in {"none", "load", "recognize", "save"}
      /\ SongLoadsLive' /\ OwnScreen' /\ Exposed'
  BY <1>a, <1>b, <1>c, LoadedKeeps
<1>1. TypeOK'
  BY <1>b, <1>d DEF TypeOK
<1>2. SongLoadsLive'
  BY <1>d
<1>3. OwnScreen'
  BY <1>d
<1>4. Exposed'
  BY <1>d
<1>5. Polling' /\ Ordered' /\ Overtaken' /\ OnlyLateEntries' /\ OwnStore'
  BY DEF GetFallsBack, Loaded, Polling, Ordered, Overtaken, OnlyLateEntries, SupersededHasCause,
     LeftBehindHasCause, OwnStore
<1> QED
  BY <1>1, <1>2, <1>3, <1>4, <1>5

\* The worker stores what it handed on.
LEMMA StoreAnswerKeeps ==
  ASSUME Inv, NEW a, StoreAnswer(a)
  PROVE  Inv'
<1> USE DEF Inv, store, worker, editor, calls, history
<1>a. a \in puts /\ a \in Answer /\ a.page \in Pages /\ a # None
  BY NoneAssumption DEF StoreAnswer, TypeOK, Answer
<1>b. /\ cache' = [cache EXCEPT ![a.page] = a] /\ UNCHANGED <<told, user>>
      /\ \A p \in Pages : cache'[p] = cache[p] \/ (p = a.page /\ cache'[p] = a)
  BY <1>a DEF StoreAnswer, TypeOK
<1>1. TypeOK'
  BY DEF StoreAnswer, TypeOK, Answer
<1>2. Overtaken'
  BY DEF StoreAnswer, TypeOK, Overtaken
<1>3. OnlyLateEntries'
  <2>1. SupersededHasCause'
    BY <1>a, <1>b DEF Overtaken, OnlyLateEntries, SupersededHasCause
  <2>2. LeftBehindHasCause'
    BY <1>a, <1>b DEF Overtaken, OnlyLateEntries, LeftBehindHasCause
  <2> QED
    BY <2>1, <2>2 DEF OnlyLateEntries
<1>4. OwnStore'
  BY DEF StoreAnswer, TypeOK, OwnStore
<1>5. Polling' /\ Ordered' /\ SongLoadsLive' /\ OwnScreen' /\ Exposed'
  BY DEF StoreAnswer, Polling, Ordered, SongLoadsLive, OwnScreen, Exposed
<1> QED
  BY <1>1, <1>2, <1>3, <1>4, <1>5

\* Typing exposes the edits to the answers that are due.
LEMMA TypeKeeps ==
  ASSUME Inv, Type
  PROVE  Inv'
<1> USE DEF Inv, store, worker, editor, calls, history
<1>1. TypeOK'
  BY DEF Type, AnswerDue, TypeOK, Screen
<1>2. OwnScreen'
  BY DEF Type, AnswerDue, TypeOK, OwnScreen
<1>3. Exposed'
  BY DEF Type, AnswerDue, TypeOK, Exposed
<1>4. Polling' /\ Ordered' /\ Overtaken' /\ OnlyLateEntries' /\ SongLoadsLive' /\ OwnStore'
  BY DEF Type, AnswerDue, Polling, Ordered, Overtaken, OnlyLateEntries, SupersededHasCause,
     LeftBehindHasCause, SongLoadsLive, OwnStore
<1> QED
  BY <1>1, <1>2, <1>3, <1>4

\* A save carries the page that is on screen.
LEMMA SaveKeeps ==
  ASSUME Inv, Save
  PROVE  Inv'
<1> USE DEF Inv, store, worker, editor, calls, history
<1> DEFINE new == [page |-> scan, of |-> IF screen.of = None THEN scan ELSE screen.of,
                   v |-> 0, exit |-> leaving # None, live |-> TRUE]
<1>a. /\ scan \in Pages /\ saves' = saves \cup {new}
      /\ screen' = [screen EXCEPT !.exposed = AnswerDue]
      /\ busy' = "save" /\ UNCHANGED <<store, worker, user, at, scan, has, leaving, loads, poll,
                                       history>>
  BY DEF Save, TypeOK
<1>b. /\ new \in Saving /\ new.page = scan /\ new.v = 0
      /\ (screen.of \in {None, scan} => new.of = scan)
  BY <1>a, ReaderAssumption DEF TypeOK, Screen, Saving
<1>c. screen' \in Screen /\ screen'.of = screen.of /\ (screen'.exposed <=> AnswerDue)
  BY <1>a DEF TypeOK, Screen, AnswerDue
<1>1. TypeOK'
  BY <1>a, <1>b, <1>c DEF TypeOK
<1>2. Ordered'
  BY <1>a, <1>b DEF Ordered
<1>3. OwnScreen'
  BY ReaderAssumption, <1>a, <1>b, <1>c DEF OwnScreen
<1>4. Exposed'
  BY <1>a, <1>c DEF Exposed, AnswerDue
<1>5. Polling' /\ Overtaken' /\ OnlyLateEntries' /\ SongLoadsLive' /\ OwnStore'
  BY DEF Save, AnswerDue, Polling, Overtaken, OnlyLateEntries, SupersededHasCause,
     LeftBehindHasCause, SongLoadsLive, OwnStore
<1> QED
  BY <1>1, <1>2, <1>3, <1>4, <1>5

\* The server stores a save as the newest version.
LEMMA SaveHandledKeeps ==
  ASSUME Inv, NEW s, SaveHandled(s)
  PROVE  Inv'
<1> USE DEF Inv, store, worker, editor, calls, history
<1> DEFINE done == [s EXCEPT !.v = written + 1]
<1>a. /\ s \in saves /\ s \in Saving /\ s.page \in Pages /\ s.of \in Pages
      /\ Write(s.page, s.of) /\ saves' = (saves \ {s}) \cup {done}
      /\ UNCHANGED <<job, orphans, worker, user, editor, loads, poll, history>>
  BY DEF SaveHandled, TypeOK, Saving
<1>b. /\ written' \in 1 .. MaxVersion /\ written' = written + 1
      /\ server' \in [Pages -> Doc \cup {None}]
      /\ server'[s.page] # None /\ server'[s.page].of = s.of /\ server'[s.page].v = written + 1
      /\ \A q \in Pages : q # s.page => server'[q] = server[q]
      /\ \A q \in Pages : server[q] # None => server'[q] # None /\ server[q].v <= server'[q].v
      /\ \A q \in Pages : IF server'[q] = None THEN told[q].save = 0
                        ELSE told[q].save <= server'[q].v /\ server'[q].v <= written'
  BY <1>a, WriteKeeps
<1>c. /\ done \in Saving /\ done.page = s.page /\ done.of = s.of /\ done.live = s.live
      /\ done.v = written + 1
  BY <1>a, <1>b, ReaderAssumption DEF Saving
<1>d. \A m \in saves' : m \in saves \/ m = done
  BY <1>a
<1>1. TypeOK'
  <2>1. saves' \subseteq Saving
    BY <1>c, <1>d DEF TypeOK
  <2> QED
    BY <1>a, <1>b, <2>1 DEF TypeOK
<1>2. Polling'
  <2>1. poll # None => poll.page \in Pages
    BY DEF TypeOK, Poll
  <2> QED
    BY <1>a, <1>b, <2>1 DEF Polling
<1>3. Ordered'
  <2>1. ASSUME NEW m \in saves', m.v # 0
        PROVE  server'[m.page] # None /\ m.v <= server'[m.page].v
    <3>1. CASE m \in saves
      <4>1. m.page \in Pages /\ m.v \in Nat /\ server[m.page] # None /\ m.v <= server[m.page].v
        BY <2>1, <3>1 DEF Ordered, TypeOK, Saving
      <4>2. server[m.page].v \in Nat /\ server'[m.page].v \in Nat
        BY <1>b, <4>1 DEF TypeOK, Doc
      <4>3. server'[m.page] # None /\ server[m.page].v <= server'[m.page].v
        BY <1>b, <4>1
      <4> QED
        BY <4>1, <4>2, <4>3
    <3>2. CASE m = done
      <4>1. written + 1 \in Nat
        BY <1>b
      <4> QED
        BY <1>b, <1>c, <3>2, <4>1
    <3> QED
      BY <1>d, <3>1, <3>2
  <2> QED
    BY <1>a, <1>b, <2>1 DEF Ordered
<1>4. OwnScreen'
  <2>1. ~moved => \A m \in saves' : m.of = m.page /\ (m.live => m.page = at)
    BY <1>a, <1>c, <1>d DEF OwnScreen
  <2> QED
    BY <1>a, <2>1 DEF OwnScreen
<1>5. OwnStore'
  <2>1. ~moved => s.of = s.page
    BY <1>a DEF OwnScreen
  <2>2. ~moved => \A p \in Pages : server'[p] # None => server'[p].of = p
    BY <1>b, <2>1 DEF OwnStore
  <2> QED
    BY <1>a, <2>2 DEF OwnStore
<1>6. Overtaken' /\ OnlyLateEntries' /\ SongLoadsLive' /\ Exposed'
  BY DEF SaveHandled, Write, Overtaken, OnlyLateEntries, SupersededHasCause, LeftBehindHasCause,
     SongLoadsLive, Exposed
<1> QED
  BY <1>1, <1>2, <1>3, <1>4, <1>5, <1>6

\* The answer of a save evicts its page.
LEMMA SaveAnsweredKeeps ==
  ASSUME Inv, NEW s, SaveAnswered(s)
  PROVE  Inv'
<1> USE DEF Inv, store, worker, editor, calls, history
<1>a. /\ s \in saves /\ s \in Saving /\ s.page \in Pages /\ s.v \in 0 .. MaxVersion /\ s.of \in Pages
      /\ s.v # 0 /\ Evict({s.page}) /\ UNCHANGED <<store, user>>
      /\ told' = [told EXCEPT ![s.page] = [save |-> s.v, any |-> s.v]]
  BY DEF SaveAnswered, TypeOK, Saving
<1>b. /\ cache' \in [Pages -> Answer \cup {None}]
      /\ puts' \subseteq Answer
      /\ \A p \in Pages : cache'[p] = None \/ (cache'[p] = cache[p] /\ p # s.page)
      /\ \A a \in puts' : \E b \in puts :
           /\ a.page = b.page /\ a.doc = b.doc
           /\ a.overtaken <=> b.overtaken \/ b.page = s.page
  BY <1>a, EvictKeeps
<1>c. /\ told' \in [Pages -> [save : 0 .. MaxVersion, any : 0 .. MaxVersion]]
      /\ told'[s.page].save = s.v
      /\ \A q \in Pages : q # s.page => told'[q] = told[q]
  BY <1>a DEF TypeOK
<1>d. \A a \in puts' : a.page \in Pages
  BY <1>b DEF Answer
<1> DEFINE Editing ==
             /\ at' \in Pages \cup {None} /\ scan' \in Pages \cup {None} /\ screen' \in Screen
             /\ has' \in BOOLEAN /\ busy' \in {"none", "load", "recognize", "save"}
             /\ leaving' \in Pages \cup {"away", None}
             /\ loads' \subseteq Load /\ saves' \subseteq Saving /\ poll' \in Poll \cup {None}
             /\ moved' \in BOOLEAN
           Calls ==
             /\ poll' = None <=> poll = None
             /\ poll # None => /\ poll'.page = poll.page /\ poll'.phase = poll.phase
                               /\ poll'.recovering = poll.recovering /\ poll'.since = poll.since
             /\ \A m \in saves' : \E k \in saves : m.page = k.page /\ m.of = k.of /\ m.v = k.v
             /\ moved => moved'
<1>e. Editing /\ Calls /\ SongLoadsLive' /\ OwnScreen' /\ Exposed'
  <2>1. CASE ~s.live
    <3>1. saves' = saves \ {s} /\ UNCHANGED <<editor, loads, poll, moved>>
      BY <2>1 DEF SaveAnswered
    <3> QED
      BY <3>1 DEF TypeOK, SongLoadsLive, OwnScreen, Exposed
  <2>2. CASE s.live /\ s.exit /\ leaving # None
    <3> DEFINE S == saves \ {s}
    <3>1. Proceed(leaving, S, Showing(s.of), TRUE)
      BY <2>2 DEF SaveAnswered
    <3>2. /\ leaving \in Pages \cup {"away", None} /\ S \in SUBSET Saving
          /\ Showing(s.of) \in Screen /\ ~Showing(s.of).dirty
      BY <1>a, ShowingType DEF TypeOK
    <3>3. Editing /\ SongLoadsLive' /\ Exposed'
      BY <3>1, <3>2, ProceedKeeps
    <3>4. /\ poll' = None <=> poll = None
          /\ poll # None => /\ poll'.page = poll.page /\ poll'.phase = poll.phase
                            /\ poll'.recovering = poll.recovering /\ poll'.since = poll.since
          /\ \A m \in saves' : \E k \in S : m.page = k.page /\ m.of = k.of /\ m.v = k.v
      BY <3>1, <3>2, ProceedKeeps
    <3>5. /\ moved => moved'
          /\ ~moved' =>
                /\ scan' = None /\ screen'.of = None
                /\ \A l \in loads' : ~l.live
                /\ \A m \in saves' : ~m.live
                /\ poll' # None => ~poll'.live
      BY <3>1, <3>2, ProceedKeeps
    <3>6. ~moved' => \A m \in saves' : m.of = m.page
      BY <3>4, <3>5 DEF OwnScreen
    <3>7. OwnScreen'
      BY <3>5, <3>6 DEF OwnScreen
    <3> QED
      BY <3>3, <3>4, <3>5, <3>7
  <2>3. CASE s.live /\ ~(s.exit /\ leaving # None)
    <3>1. /\ screen' = Showing(s.of) /\ has' = TRUE /\ busy' = "none" /\ saves' = saves \ {s}
          /\ UNCHANGED <<at, scan, leaving, loads, poll, moved>>
      BY <2>3 DEF SaveAnswered
    <3>2. screen' \in Screen /\ ~screen'.dirty /\ screen'.of = s.of
      BY <1>a, <3>1, ShowingType
    <3>3. ~moved => s.of = at
      BY <1>a, <2>3 DEF OwnScreen
    <3>4. Editing /\ Calls
      BY <3>1, <3>2 DEF TypeOK
    <3>5. OwnScreen'
      BY <3>1, <3>2, <3>3 DEF OwnScreen
    <3> QED
      BY <3>1, <3>2, <3>4, <3>5 DEF SongLoadsLive, Exposed
  <2> QED
    BY <2>1, <2>2, <2>3
<1>1. TypeOK'
  <2>1. /\ server' \in [Pages -> Doc \cup {None}] /\ written' \in 1 .. MaxVersion
        /\ user' \in {"in", "out"} /\ job' \in Job /\ orphans' \subseteq Pages
    BY <1>a DEF TypeOK
  <2> QED
    BY <1>b, <1>c, <1>e, <2>1 DEF TypeOK
<1>2. Polling'
  BY <1>a, <1>e DEF Polling
<1>3. Ordered'
  <2>1. server[s.page] # None /\ s.v <= server[s.page].v
    BY <1>a DEF Ordered
  <2>2. server' = server /\ written' = written
    BY <1>a
  <2>3. \A m \in saves' : m.v # 0 => server'[m.page] # None /\ m.v <= server'[m.page].v
    BY <1>e, <2>2 DEF Ordered
  <2>4. \A p \in Pages : IF server'[p] = None THEN told'[p].save = 0
                        ELSE told'[p].save <= server'[p].v /\ server'[p].v <= written'
    BY <1>a, <1>c, <2>1, <2>2 DEF Ordered
  <2> QED
    BY <2>3, <2>4 DEF Ordered
<1>4. Overtaken'
  BY <1>a, <1>b, <1>c, <1>d DEF Overtaken
<1>5. OnlyLateEntries'
  <2>1. user' = user
    BY <1>a
  <2> QED
    BY <1>b, <1>c, <2>1 DEF OnlyLateEntries, SupersededHasCause, LeftBehindHasCause
<1>6. SongLoadsLive'
  BY <1>e
<1>7. OwnScreen'
  BY <1>e
<1>8. OwnStore'
  <2>1. server' = server /\ (moved => moved')
    BY <1>a, <1>e
  <2> QED
    BY <1>b, <2>1 DEF OwnStore
<1>9. Exposed'
  BY <1>e
<1> QED
  BY <1>1, <1>2, <1>3, <1>4, <1>5, <1>6, <1>7, <1>8, <1>9

LEMMA SaveFailsKeeps ==
  ASSUME Inv, NEW s, SaveFails(s)
  PROVE  Inv'
<1> USE DEF Inv, store, worker, editor, calls, history
<1>1. TypeOK'
  BY DEF SaveFails, TypeOK, Saving
<1>2. Ordered'
  BY DEF SaveFails, TypeOK, Ordered
<1>3. OwnScreen'
  BY DEF SaveFails, TypeOK, OwnScreen
<1>4. Polling' /\ Overtaken' /\ OnlyLateEntries' /\ SongLoadsLive' /\ OwnStore' /\ Exposed'
  BY DEF SaveFails, Polling, Overtaken, OnlyLateEntries, SupersededHasCause, LeftBehindHasCause,
     SongLoadsLive, OwnStore, Exposed
<1> QED
  BY <1>1, <1>2, <1>3, <1>4

\* A recognition exposes the edits it asked about.
LEMMA RecognizeKeeps ==
  ASSUME Inv, Recognize
  PROVE  Inv'
<1> USE DEF Inv, store, worker, editor, calls, history
<1>a. /\ scan \in Pages /\ busy' = "recognize" /\ job' = NoJob
      /\ screen' = [screen EXCEPT !.exposed = screen.exposed \/ (has /\ screen.dirty)]
      /\ poll' = [page |-> scan, phase |-> "calling", recovering |-> FALSE, since |-> 0,
                  asked |-> has, live |-> TRUE]
      /\ UNCHANGED <<server, written, orphans, worker, user, at, scan, has, leaving, loads,
                     saves, history>>
  BY DEF Recognize, TypeOK
<1>b. /\ poll' \in Poll /\ poll' # None /\ poll'.page = scan /\ poll'.phase = "calling"
      /\ ~poll'.recovering /\ poll'.since = 0 /\ poll'.asked = has
  <2>1. has \in BOOLEAN /\ 0 \in 0 .. Budget
    BY ReaderAssumption DEF TypeOK
  <2>2. poll' \in Poll
    BY <1>a, <2>1 DEF Poll
  <2> QED
    BY <1>a, <2>2, NoneAssumption
<1>c. /\ screen' \in Screen /\ screen'.of = screen.of /\ screen'.dirty = screen.dirty
      /\ (screen'.exposed <=> screen.exposed \/ (has /\ screen.dirty))
  BY <1>a DEF TypeOK, Screen
<1>d. NoJob \in Job /\ NoJob.state = "none"
  BY ReaderAssumption DEF NoJob, Job
<1>1. TypeOK'
  BY <1>a, <1>b, <1>c, <1>d DEF TypeOK
<1>2. Polling'
  BY <1>a, <1>b, <1>d DEF Polling
<1>3. OwnScreen'
  BY ReaderAssumption, <1>a, <1>b, <1>c DEF OwnScreen
<1>4. Exposed'
  BY <1>a, <1>b, <1>c DEF Exposed
<1>5. Ordered' /\ Overtaken' /\ OnlyLateEntries' /\ SongLoadsLive' /\ OwnStore'
  BY DEF Recognize, Ordered, Overtaken, OnlyLateEntries, SupersededHasCause, LeftBehindHasCause,
     SongLoadsLive, OwnStore
<1> QED
  BY <1>1, <1>2, <1>3, <1>4, <1>5

LEMMA JobStartsKeeps ==
  ASSUME Inv, JobStarts
  PROVE  Inv'
<1> USE DEF Inv, store, worker, editor, calls, history
<1>a. /\ poll # None /\ poll \in Poll /\ job \in Job
      /\ job' = [job EXCEPT !.state = "running"] /\ poll' = [poll EXCEPT !.phase = "awaiting"]
      /\ UNCHANGED <<server, written, orphans, worker, user, editor, loads, saves, history>>
  BY DEF JobStarts, InFlight, TypeOK
<1>b. job' \in Job /\ job'.state = "running"
  BY <1>a DEF Job
<1>c. /\ poll' \in Poll /\ poll'.page = poll.page /\ poll'.phase = "awaiting"
      /\ poll'.recovering = poll.recovering /\ poll'.since = poll.since
      /\ poll'.asked = poll.asked /\ poll'.live = poll.live
  BY <1>a DEF Poll
<1>d. poll' # None
  BY <1>c, NoneAssumption
<1>1. TypeOK'
  BY <1>a, <1>b, <1>c DEF TypeOK
<1>2. Polling'
  BY <1>a, <1>b, <1>c, <1>d DEF Polling
<1>3. OwnScreen'
  BY <1>a, <1>c DEF OwnScreen
<1>4. Exposed'
  BY <1>a, <1>c DEF Exposed
<1>5. Ordered' /\ Overtaken' /\ OnlyLateEntries' /\ SongLoadsLive' /\ OwnStore'
  BY DEF JobStarts, Ordered, Overtaken, OnlyLateEntries, SupersededHasCause, LeftBehindHasCause,
     SongLoadsLive, OwnStore
<1> QED
  BY <1>1, <1>2, <1>3, <1>4, <1>5

\* The server finishes a recognition.
LEMMA JobEndsKeeps ==
  ASSUME Inv, JobEnds
  PROVE  Inv'
<1> USE DEF Inv, store, worker, editor, calls, history
<1>a. /\ job.state = "running" /\ job \in Job
      /\ UNCHANGED <<orphans, worker, user, editor, calls, history>>
  BY DEF JobEnds, TypeOK
<1>b. poll # None /\ poll.page \in Pages
  BY <1>a DEF Polling, NoJob, TypeOK, Poll
<1>c. /\ job' \in Job /\ (job'.state = "done" => server'[poll.page] # None)
      /\ server' \in [Pages -> Doc \cup {None}] /\ written' \in 1 .. MaxVersion
      /\ \A q \in Pages : server[q] # None => server'[q] # None /\ server[q].v <= server'[q].v
      /\ \A q \in Pages : IF server'[q] = None THEN told[q].save = 0
                        ELSE told[q].save <= server'[q].v /\ server'[q].v <= written'
      /\ ~moved => \A q \in Pages : server'[q] # None => server'[q].of = q
  <2>1. CASE Write(poll.page, poll.page) /\ job' = [state |-> "done", v |-> written + 1]
    <3>1. job' \in Job
      BY <1>b, <2>1, WriteKeeps DEF Job
    <3>2. ~moved => \A q \in Pages : server'[q] # None => server'[q].of = q
      BY <1>b, <2>1, WriteKeeps DEF OwnStore
    <3> QED
      BY <1>b, <2>1, <3>1, <3>2, WriteKeeps
  <2>2. CASE job' = [job EXCEPT !.state = "failed"] /\ UNCHANGED <<server, written>>
    <3>1. job' \in Job /\ job'.state = "failed"
      BY <1>a, <2>2 DEF Job
    <3>2. \A q \in Pages : server[q] # None => server[q].v <= server[q].v
      BY DEF TypeOK, Doc
    <3> QED
      BY <2>2, <3>1, <3>2 DEF TypeOK, Ordered, OwnStore
  <2> QED
    BY <2>1, <2>2 DEF JobEnds
<1>1. TypeOK'
  BY <1>a, <1>c DEF TypeOK
<1>2. Polling'
  BY <1>a, <1>b, <1>c DEF Polling
<1>3. Ordered'
  <2>1. ASSUME NEW m \in saves, m.v # 0
        PROVE  server'[m.page] # None /\ m.v <= server'[m.page].v
    <3>1. m.page \in Pages /\ m.v \in Nat /\ server[m.page] # None /\ m.v <= server[m.page].v
      BY <2>1 DEF Ordered, TypeOK, Saving
    <3>2. server'[m.page] # None /\ server[m.page].v <= server'[m.page].v
      BY <1>c, <3>1
    <3>3. server[m.page].v \in Nat /\ server'[m.page].v \in Nat
      BY <1>c, <3>1, <3>2 DEF TypeOK, Doc
    <3> QED
      BY <3>1, <3>2, <3>3
  <2> QED
    BY <1>a, <1>c, <2>1 DEF Ordered
<1>4. OwnStore'
  BY <1>a, <1>c DEF OwnStore
<1>5. Overtaken' /\ OnlyLateEntries' /\ SongLoadsLive' /\ OwnScreen' /\ Exposed'
  BY DEF JobEnds, Write, Overtaken, OnlyLateEntries, SupersededHasCause, LeftBehindHasCause,
     SongLoadsLive, OwnScreen, Exposed
<1> QED
  BY <1>1, <1>2, <1>3, <1>4, <1>5

LEMMA OrphanEndsKeeps ==
  ASSUME Inv, NEW p \in Pages, OrphanEnds(p)
  PROVE  Inv'
<1> USE DEF Inv, store, worker, editor, calls, history
<1>a. /\ orphans' = orphans \ {p} /\ UNCHANGED <<job, worker, user, editor, calls, history>>
  BY DEF OrphanEnds
<1>c. /\ server' \in [Pages -> Doc \cup {None}] /\ written' \in 1 .. MaxVersion
      /\ \A q \in Pages : server[q] # None => server'[q] # None /\ server[q].v <= server'[q].v
      /\ \A q \in Pages : IF server'[q] = None THEN told[q].save = 0
                        ELSE told[q].save <= server'[q].v /\ server'[q].v <= written'
      /\ ~moved => \A q \in Pages : server'[q] # None => server'[q].of = q
  <2>1. CASE Write(p, p)
    <3>1. ~moved => \A q \in Pages : server'[q] # None => server'[q].of = q
      BY <2>1, WriteKeeps DEF OwnStore
    <3> QED
      BY <2>1, <3>1, WriteKeeps
  <2>2. CASE UNCHANGED <<server, written>>
    <3>1. \A q \in Pages : server[q] # None => server[q].v <= server[q].v
      BY DEF TypeOK, Doc
    <3> QED
      BY <2>2, <3>1 DEF TypeOK, Ordered, OwnStore
  <2> QED
    BY <2>1, <2>2 DEF OrphanEnds
<1>1. TypeOK'
  BY <1>a, <1>c DEF TypeOK
<1>2. Polling'
  <2>1. poll # None => poll.page \in Pages
    BY DEF TypeOK, Poll
  <2> QED
    BY <1>a, <1>c, <2>1 DEF Polling
<1>3. Ordered'
  <2>1. ASSUME NEW m \in saves, m.v # 0
        PROVE  server'[m.page] # None /\ m.v <= server'[m.page].v
    <3>1. m.page \in Pages /\ m.v \in Nat /\ server[m.page] # None /\ m.v <= server[m.page].v
      BY <2>1 DEF Ordered, TypeOK, Saving
    <3>2. server'[m.page] # None /\ server[m.page].v <= server'[m.page].v
      BY <1>c, <3>1
    <3>3. server[m.page].v \in Nat /\ server'[m.page].v \in Nat
      BY <1>c, <3>1, <3>2 DEF TypeOK, Doc
    <3> QED
      BY <3>1, <3>2, <3>3
  <2> QED
    BY <1>a, <1>c, <2>1 DEF Ordered
<1>4. OwnStore'
  BY <1>a, <1>c DEF OwnStore
<1>5. Overtaken' /\ OnlyLateEntries' /\ SongLoadsLive' /\ OwnScreen' /\ Exposed'
  BY DEF OrphanEnds, Write, Overtaken, OnlyLateEntries, SupersededHasCause, LeftBehindHasCause,
     SongLoadsLive, OwnScreen, Exposed
<1> QED
  BY <1>1, <1>2, <1>3, <1>4, <1>5

\* The answer of a recognition is of the poll's page.
LEMMA RecognizeAnsweredKeeps ==
  ASSUME Inv, RecognizeAnswered
  PROVE  Inv'
<1> USE DEF Inv, store, worker, editor, calls, history
<1> DEFINE doc == IF poll.phase = "awaiting" THEN server[poll.page]
                  ELSE [of |-> poll.page, v |-> job.v]
<1>a. /\ poll # None /\ poll \in Poll /\ poll.page \in Pages /\ server[poll.page] # None /\ End
      /\ IF poll.live THEN screen' = Showing(doc.of) /\ has' = TRUE ELSE UNCHANGED <<screen, has>>
      /\ told' = [told EXCEPT ![poll.page].any = doc.v]
      /\ UNCHANGED <<server, written, worker, user, at, scan, leaving, loads, saves, moved>>
  BY DEF RecognizeAnswered, InFlight, Polling, TypeOK, Poll, Around
<1>b. doc.of \in Pages /\ doc.v \in 0 .. MaxVersion /\ (~moved => doc.of = poll.page)
  <2>1. CASE poll.phase = "awaiting"
    <3>1. server[poll.page] \in Doc
      BY <1>a DEF TypeOK
    <3> QED
      BY <1>a, <2>1, <3>1 DEF Doc, OwnStore
  <2>2. CASE poll.phase # "awaiting"
    BY <1>a, <2>2 DEF TypeOK, Job
  <2> QED
    BY <2>1, <2>2
<1> HIDE DEF doc
<1>c. /\ poll' = None /\ job' = NoJob /\ NoJob \in Job /\ orphans' \subseteq Pages
      /\ busy' \in {"none", "load", "recognize", "save"}
  BY <1>a, EndKeeps
<1>d. /\ screen' \in Screen /\ has' \in BOOLEAN
      /\ screen'.dirty => screen' = screen
      /\ ~moved => screen'.of \in {None, at}
  <2>1. CASE poll.live
    <3>1. screen' = Showing(doc.of) /\ has' = TRUE
      BY <1>a, <2>1
    <3>2. screen' \in Screen /\ ~screen'.dirty /\ screen'.of = doc.of
      BY <1>b, <3>1, ShowingType
    <3> QED
      BY <1>a, <1>b, <2>1, <3>1, <3>2 DEF OwnScreen
  <2>2. CASE ~poll.live
    BY <1>a, <2>2 DEF TypeOK, OwnScreen
  <2> QED
    BY <2>1, <2>2
<1>e. /\ told' \in [Pages -> [save : 0 .. MaxVersion, any : 0 .. MaxVersion]]
      /\ \A p \in Pages : told'[p].save = told[p].save
  BY <1>a, <1>b DEF TypeOK
<1>1. TypeOK'
  BY <1>a, <1>c, <1>d, <1>e DEF TypeOK
<1>2. Polling'
  BY <1>c DEF Polling
<1>3. Ordered'
  BY <1>a, <1>e DEF Ordered
<1>4. Overtaken'
  <2>1. \A a \in puts : a.page \in Pages
    BY DEF TypeOK, Answer
  <2> QED
    BY <1>a, <1>e, <2>1 DEF Overtaken
<1>5. OnlyLateEntries'
  BY <1>a, <1>e DEF OnlyLateEntries, SupersededHasCause, LeftBehindHasCause
<1>6. OwnScreen'
  BY <1>a, <1>c, <1>d DEF OwnScreen
<1>7. Exposed'
  BY <1>a, <1>c, <1>d DEF Exposed
<1>8. SongLoadsLive' /\ OwnStore'
  BY DEF RecognizeAnswered, End, Around, SongLoadsLive, OwnStore
<1> QED
  BY <1>1, <1>2, <1>3, <1>4, <1>5, <1>6, <1>7, <1>8

LEMMA RecognizeRefusedKeeps ==
  ASSUME Inv, RecognizeRefused
  PROVE  Inv'
<1> USE DEF Inv, store, worker, editor, calls, history
<1>a. /\ poll # None /\ End
      /\ UNCHANGED <<server, written, worker, user, at, scan, screen, has, leaving, loads, saves,
                     history>>
  BY DEF RecognizeRefused, InFlight, Around
<1>b. /\ poll' = None /\ job' = NoJob /\ NoJob \in Job /\ orphans' \subseteq Pages
      /\ busy' \in {"none", "load", "recognize", "save"}
  BY <1>a, EndKeeps
<1>1. TypeOK'
  BY <1>a, <1>b DEF TypeOK
<1>2. Polling'
  BY DEF RecognizeRefused, End, Around, TypeOK, Polling
<1>3. OwnScreen'
  BY DEF RecognizeRefused, End, Around, TypeOK, OwnScreen
<1>4. Exposed'
  BY DEF RecognizeRefused, End, Around, TypeOK, Exposed
<1>5. Ordered' /\ Overtaken' /\ OnlyLateEntries' /\ SongLoadsLive' /\ OwnStore'
  BY DEF RecognizeRefused, End, Around, Ordered, Overtaken, OnlyLateEntries, SupersededHasCause,
     LeftBehindHasCause, SongLoadsLive, OwnStore
<1> QED
  BY <1>1, <1>2, <1>3, <1>4, <1>5

\* A poll told to wait waits, or gives up at the end of its budget.
LEMMA RecognizeInProgressKeeps ==
  ASSUME Inv, RecognizeInProgress
  PROVE  Inv'
<1> USE DEF Inv, store, worker, editor, calls, history
<1>a. /\ InFlight /\ poll # None /\ Interrupted(FALSE)
      /\ UNCHANGED <<server, written, worker, user, at, scan, screen, has, leaving, loads, saves,
                     history>>
  BY DEF RecognizeInProgress, InFlight, Around
<1>b. /\ poll' \in Poll \cup {None} /\ job' \in Job /\ orphans' \subseteq Pages
      /\ busy' \in {"none", "load", "recognize", "save"}
      /\ poll' = None => job' = NoJob
      /\ poll' # None =>
           /\ job' = job /\ poll'.page = poll.page
           /\ poll'.live = poll.live /\ poll'.asked = poll.asked
           /\ poll'.recovering
           /\ poll'.phase = "waiting" => poll'.since < Budget
  BY <1>a, InterruptedKeeps
<1>1. TypeOK'
  BY <1>a, <1>b DEF TypeOK
<1>2. Polling'
  BY <1>a, <1>b DEF Polling
<1>3. OwnScreen'
  BY <1>a, <1>b DEF OwnScreen
<1>4. Exposed'
  BY <1>a, <1>b DEF Exposed
<1>5. Ordered' /\ Overtaken' /\ OnlyLateEntries' /\ SongLoadsLive' /\ OwnStore'
  BY DEF RecognizeInProgress, Interrupted, End, Around, Ordered, Overtaken, OnlyLateEntries,
     SupersededHasCause, LeftBehindHasCause, SongLoadsLive, OwnStore
<1> QED
  BY <1>1, <1>2, <1>3, <1>4, <1>5

\* A cut request goes on, waits or gives up.
LEMMA RecognizeCutKeeps ==
  ASSUME Inv, RecognizeCut
  PROVE  Inv'
<1> USE DEF Inv, store, worker, editor, calls, history
<1> DEFINE immediate == ~poll.recovering
<1>a. /\ InFlight /\ poll # None /\ Interrupted(immediate) /\ immediate \in BOOLEAN
      /\ UNCHANGED <<server, written, worker, user, at, scan, screen, has, leaving, loads, saves,
                     history>>
  BY DEF RecognizeCut, InFlight, Around
<1>b. /\ poll' \in Poll \cup {None} /\ job' \in Job /\ orphans' \subseteq Pages
      /\ busy' \in {"none", "load", "recognize", "save"}
      /\ poll' = None => job' = NoJob
      /\ poll' # None =>
           /\ job' = job /\ poll'.page = poll.page
           /\ poll'.live = poll.live /\ poll'.asked = poll.asked
           /\ poll'.recovering
           /\ poll'.phase = "waiting" => poll'.since < Budget
  BY <1>a, InterruptedKeeps
<1>1. TypeOK'
  BY <1>a, <1>b DEF TypeOK
<1>2. Polling'
  BY <1>a, <1>b DEF Polling
<1>3. OwnScreen'
  BY <1>a, <1>b DEF OwnScreen
<1>4. Exposed'
  BY <1>a, <1>b DEF Exposed
<1>5. Ordered' /\ Overtaken' /\ OnlyLateEntries' /\ SongLoadsLive' /\ OwnStore'
  BY DEF RecognizeCut, Interrupted, End, Around, Ordered, Overtaken, OnlyLateEntries,
     SupersededHasCause, LeftBehindHasCause, SongLoadsLive, OwnStore
<1> QED
  BY <1>1, <1>2, <1>3, <1>4, <1>5

LEMMA DelayKeeps ==
  ASSUME Inv, Delay
  PROVE  Inv'
<1> USE DEF Inv, store, worker, editor, calls, history
<1>a. /\ poll # None /\ poll \in Poll /\ poll.phase = "waiting" /\ poll.recovering /\ poll.since < Budget
      /\ poll' = [poll EXCEPT !.phase = "calling", !.since = poll.since + 1]
      /\ UNCHANGED <<store, worker, user, editor, loads, saves, history>>
  BY DEF Delay, TypeOK, Polling
<1>b. poll.since + 1 \in 0 .. Budget
  BY <1>a, ReaderAssumption DEF Poll
<1>c. /\ poll' \in Poll /\ poll'.page = poll.page /\ poll'.phase = "calling" /\ poll'.recovering
      /\ poll'.asked = poll.asked /\ poll'.live = poll.live
  BY <1>a, <1>b DEF Poll
<1>d. poll' # None
  BY <1>c, NoneAssumption
<1>1. TypeOK'
  BY <1>a, <1>c DEF TypeOK
<1>2. Polling'
  BY <1>a, <1>c, <1>d DEF Polling
<1>3. OwnScreen'
  BY <1>a, <1>c DEF OwnScreen
<1>4. Exposed'
  BY <1>a, <1>c DEF Exposed
<1>5. Ordered' /\ Overtaken' /\ OnlyLateEntries' /\ SongLoadsLive' /\ OwnStore'
  BY DEF Delay, Ordered, Overtaken, OnlyLateEntries, SupersededHasCause, LeftBehindHasCause,
     SongLoadsLive, OwnStore
<1> QED
  BY <1>1, <1>2, <1>3, <1>4, <1>5

-----------------------------------------------------------------------------
(* The invariant and what follows from it.                                 *)

LEMMA InitInv ==
  ASSUME Init
  PROVE  Inv
<1> USE DEF Init
<1>1. Blank \in Screen /\ Blank.of = None /\ ~Blank.dirty
  BY ShowingType
<1>2. NoJob \in Job /\ NoJob.state = "none"
  BY ReaderAssumption DEF NoJob, Job
<1>3. /\ server \in [Pages -> Doc \cup {None}]
      /\ \A p \in Pages : server[p] # None => server[p] = [of |-> p, v |-> 1]
  <2>1. 1 \in 1 .. MaxVersion
    BY ReaderAssumption
  <2>2. \A p \in Pages : [of |-> p, v |-> 1] \in Doc
    BY <2>1 DEF Doc
  <2> QED
    BY <2>2
<1>4. TypeOK
  <2>1. 1 \in 1 .. MaxVersion /\ 0 \in 0 .. MaxVersion
    BY ReaderAssumption
  <2> QED
    BY <1>1, <1>2, <1>3, <2>1 DEF TypeOK
<1>5. Polling
  BY <1>2 DEF Polling
<1>6. Ordered
  BY <1>3 DEF Ordered
<1>7. Overtaken /\ OnlyLateEntries /\ SongLoadsLive
  BY DEF Overtaken, OnlyLateEntries, SupersededHasCause, LeftBehindHasCause, SongLoadsLive
<1>8. OwnScreen /\ Exposed
  BY <1>1 DEF OwnScreen, Exposed
<1>9. OwnStore
  BY <1>3 DEF OwnStore
<1> QED
  BY <1>4, <1>5, <1>6, <1>7, <1>8, <1>9 DEF Inv

LEMMA NextInv ==
  ASSUME Inv, [Next]_vars
  PROVE  Inv'
<1>1. ASSUME NEW p \in Pages, Open(p) PROVE Inv'
  BY <1>1, OpenKeeps
<1>2. ASSUME NEW p \in Pages, OrphanEnds(p) PROVE Inv'
  BY <1>2, OrphanEndsKeeps
<1>3. ASSUME NEW to \in Pages \cup {"away"}, RequestExit(to) PROVE Inv'
  BY <1>3, RequestExitKeeps
<1>4. CASE Discard
  BY <1>4, DiscardKeeps
<1>5. CASE KeepEditing
  BY <1>5, KeepEditingKeeps
<1>6. CASE Reload
  BY <1>6, ReloadKeeps
<1>7. CASE SignOut
  BY <1>7, SignOutKeeps
<1>8. CASE SignIn
  BY <1>8, SignInKeeps
<1>9. ASSUME NEW l \in loads, SongAnswers(l) \/ LoadFails(l) \/ GetAnswers(l) \/ GetFallsBack(l)
      PROVE  Inv'
  BY <1>9, SongAnswersKeeps, LoadFailsKeeps, GetAnswersKeeps, GetFallsBackKeeps
<1>10. ASSUME NEW a \in puts, StoreAnswer(a) PROVE Inv'
  BY <1>10, StoreAnswerKeeps
<1>11. CASE Type
  BY <1>11, TypeKeeps
<1>12. CASE Save
  BY <1>12, SaveKeeps
<1>13. CASE Recognize
  BY <1>13, RecognizeKeeps
<1>14. CASE JobEnds
  BY <1>14, JobEndsKeeps
<1>15. ASSUME NEW s \in saves, SaveHandled(s) \/ SaveAnswered(s) \/ SaveFails(s)
       PROVE  Inv'
  BY <1>15, SaveHandledKeeps, SaveAnsweredKeeps, SaveFailsKeeps
<1>16. CASE PollStep
  BY <1>16, JobStartsKeeps, RecognizeAnsweredKeeps, RecognizeRefusedKeeps,
     RecognizeInProgressKeeps, RecognizeCutKeeps, DelayKeeps DEF PollStep
<1>17. CASE UNCHANGED vars
  <2>1. UNCHANGED <<server, written, cache, puts, user, at, scan, screen, has, busy, leaving,
                    loads, saves, poll, job, orphans, told, moved>>
    BY <1>17 DEF vars, store, worker, editor, calls, history
  <2>2. TypeOK' /\ Polling' /\ Ordered'
    BY <2>1 DEF Inv, TypeOK, Polling, Ordered
  <2>3. Overtaken' /\ OnlyLateEntries' /\ SongLoadsLive'
    BY <2>1 DEF Inv, Overtaken, OnlyLateEntries, SupersededHasCause, LeftBehindHasCause,
                SongLoadsLive
  <2>4. OwnScreen' /\ OwnStore' /\ Exposed'
    BY <2>1 DEF Inv, OwnScreen, OwnStore, Exposed
  <2> QED
    BY <2>2, <2>3, <2>4 DEF Inv
<1> QED
  BY <1>1, <1>2, <1>3, <1>4, <1>5, <1>6, <1>7, <1>8, <1>9, <1>10, <1>11, <1>12, <1>13,
     <1>14, <1>15, <1>16, <1>17 DEF Next

\* The invariant holds in every reachable state.
THEOREM Invariant == Spec => []Inv
<1>1. Init => Inv
  BY InitInv
<1>2. Inv /\ [Next]_vars => Inv'
  BY NextInv
<1> QED
  BY <1>1, <1>2, PTL DEF Spec

\* Every variable keeps its type; the recovery poll's waits stay inside its budget.
THEOREM TypeCorrect == Spec => []TypeOK
<1>1. Inv => TypeOK
  BY DEF Inv
<1> QED
  BY <1>1, Invariant, PTL

\* The device keeps a superseded document, or any after a sign-out, only when the
\* worker stored it after the eviction.
THEOREM LateEntriesOnly == Spec => []OnlyLateEntries
<1>1. Inv => OnlyLateEntries
  BY DEF Inv
<1> QED
  BY <1>1, Invariant, PTL

\* Until the route moves under a mounted editor, every page shows and stores what
\* was written for it.
THEOREM PagesAreOwn == Spec => []StoredHasOwnPage
<1>1. Inv => StoredHasOwnPage
  BY DEF Inv, OwnScreen, OwnStore, StoredHasOwnPage
<1> QED
  BY <1>1, Invariant, PTL

\* Unsaved edits leave the screen only in ways the reader chose, with the call that
\* carried them, or when they were typed while an answer was due.
THEOREM EditsAreCaused == Spec => EditsHaveCause
<1> DEFINE Cause ==
      screen.dirty /\ ~screen'.dirty =>
        \/ screen.exposed \/ leaving # None \/ Reload
        \/ \E s \in saves : SaveAnswered(s)
        \/ RecognizeAnswered /\ ~poll.asked
<1>1. ASSUME Inv, Next, screen.dirty, ~screen'.dirty, ~screen.exposed, leaving = None
      PROVE  Reload \/ (\E s \in saves : SaveAnswered(s)) \/ (RecognizeAnswered /\ ~poll.asked)
  <2> USE <1>1
  <2>1. screen' # screen
    OBVIOUS
  <2>2. at # None /\ (\A l \in loads : ~l.live)
        /\ (poll # None /\ poll.live => ~poll.asked)
    BY DEF Inv, Exposed
  <2>3. ASSUME NEW p \in Pages, Open(p) \/ OrphanEnds(p) PROVE FALSE
    BY <2>1, <2>2, <2>3 DEF Open, OrphanEnds, editor
  <2>4. ASSUME NEW to \in Pages \cup {"away"}, RequestExit(to) PROVE FALSE
    BY <2>1, <2>4 DEF RequestExit
  <2>5. ASSUME Discard \/ KeepEditing \/ SignOut \/ SignIn PROVE FALSE
    BY <2>1, <2>5 DEF Discard, KeepEditing, SignOut, SignIn, editor
  <2>6. ASSUME NEW l \in loads, SongAnswers(l) \/ LoadFails(l) \/ GetAnswers(l) \/ GetFallsBack(l)
        PROVE  FALSE
    BY <2>1, <2>2, <2>6 DEF SongAnswers, LoadFails, GetAnswers, GetFallsBack, Loaded
  <2>7. ASSUME NEW a \in puts, StoreAnswer(a) PROVE FALSE
    BY <2>1, <2>7 DEF StoreAnswer, editor
  <2>8. ASSUME Type PROVE FALSE
    BY <2>8 DEF Type
  <2>9. ASSUME Save \/ Recognize PROVE FALSE
    <3>1. screen'.dirty = screen.dirty
      BY <2>9 DEF Save, Recognize, Inv, TypeOK, Screen
    <3> QED
      BY <3>1
  <2>10. ASSUME JobEnds \/ JobStarts \/ Delay PROVE FALSE
    BY <2>1, <2>10 DEF JobEnds, JobStarts, Delay, editor
  <2>11. ASSUME NEW s \in saves, SaveHandled(s) \/ SaveFails(s) PROVE FALSE
    BY <2>1, <2>11 DEF SaveHandled, SaveFails, editor
  <2>12. ASSUME RecognizeRefused \/ RecognizeInProgress \/ RecognizeCut PROVE FALSE
    BY <2>1, <2>12 DEF RecognizeRefused, RecognizeInProgress, RecognizeCut
  <2>13. ASSUME RecognizeAnswered PROVE ~poll.asked
    BY <2>1, <2>2, <2>13 DEF RecognizeAnswered, InFlight
  <2> QED
    BY <2>3, <2>4, <2>5, <2>6, <2>7, <2>8, <2>9, <2>10, <2>11, <2>12, <2>13 DEF Next, PollStep
<1>2. Inv /\ [Next]_vars => [Cause]_vars
  <2> SUFFICES ASSUME Inv, Next PROVE Cause
    OBVIOUS
  <2> QED
    BY <1>1
<1>3. Spec => [][Cause]_vars
  BY <1>2, Invariant, PTL DEF Spec
<1> QED
  BY <1>3 DEF EditsHaveCause

-------------------------------------------------------------------------------
(* The derived copies. *)

\* Only a request that is done has been answered.
Unanswered == \A r \in Requests : pc[r] # "done" => answer[r] = ""

\* A handler that writes has a file open.
WritersHold == \A r \in Requests : pc[r] = "write" => file[r] \in Requests

CopyInv ==
  /\ CopyTypeOK
  /\ Unanswered
  /\ WritersHold
  /\ PartHasCause
  /\ PartNeedsAnother

-----------------------------------------------------------------------------
LEMMA CopyInitInv == CopyInit => CopyInv
<1> SUFFICES ASSUME CopyInit PROVE CopyInv
  OBVIOUS
<1>1. CopyTypeOK
  BY DEF CopyInit, CopyTypeOK, Places, Outcomes
<1>2. Unanswered /\ WritersHold /\ PartHasCause /\ PartNeedsAnother
  BY DEF CopyInit, Unanswered, WritersHold, PartHasCause, PartNeedsAnother
<1> QED
  BY <1>1, <1>2 DEF CopyInv

\* Every action of one request leaves the others where they are.
CopyStep(r) ==
  \/ Arrive(r) \/ Gate(r) \/ Look(r) \/ Ensure(r) \/ Decode(r)
  \/ Create(r) \/ Encode(r) \/ EncodeFails(r) \/ Respond(r)
  \/ Delete(r) \/ UnlinkOriginal(r) \/ UnlinkCopy(r)

\* What a step does to the places and answers: it moves one request that was not
\* done, and answers it only when it is.
LEMMA CopyMoves ==
  ASSUME CopyTypeOK, NEW r \in Requests, CopyStep(r)
  PROVE  \E p \in Places, a \in Outcomes :
           /\ pc' = [pc EXCEPT ![r] = p]
           /\ answer' = [answer EXCEPT ![r] = a]
           /\ pc[r] \notin {"done", "died"}
           /\ p # "died"
           /\ p # "done" => a = answer[r]
<1> DEFINE Goal == \E p \in Places, a \in Outcomes :
           /\ pc' = [pc EXCEPT ![r] = p]
           /\ answer' = [answer EXCEPT ![r] = a]
           /\ pc[r] \notin {"done", "died"}
           /\ p # "died"
           /\ p # "done" => a = answer[r]
<1>0. answer[r] \in Outcomes /\ answer = [answer EXCEPT ![r] = answer[r]]
  BY DEF CopyTypeOK
<1>1. ASSUME NEW p \in Places \ {"died", "done"}, pc' = [pc EXCEPT ![r] = p],
             answer' = answer, pc[r] \notin {"done", "died"}
      PROVE Goal
  BY <1>0, <1>1
<1>2. ASSUME NEW a \in Outcomes, Reply(r, a), pc[r] \notin {"done", "died"}
      PROVE Goal
  BY <1>2 DEF Reply, Goto, Places
<1> HIDE DEF Goal
<1>3. ASSUME Arrive(r) PROVE Goal
  BY <1>3, <1>1 DEF Arrive, Goto, Places
<1>4. ASSUME Gate(r) PROVE Goal
  BY <1>4, <1>1, <1>2 DEF Gate, Goto, Places, Outcomes
<1>5. ASSUME Look(r) PROVE Goal
  BY <1>5, <1>1, <1>2 DEF Look, Goto, Places, Outcomes
<1>6. ASSUME Ensure(r) PROVE Goal
  BY <1>6, <1>1 DEF Ensure, Goto, Places
<1>7. ASSUME Decode(r) PROVE Goal
  BY <1>7, <1>1, <1>2 DEF Decode, Goto, Places, Outcomes
<1>8. ASSUME Create(r) PROVE Goal
  BY <1>8, <1>1 DEF Create, Goto, Places
<1>9. ASSUME Encode(r) PROVE Goal
  BY <1>9, <1>1 DEF Encode, Goto, Places
<1>10. ASSUME EncodeFails(r) PROVE Goal
  BY <1>10, <1>2 DEF EncodeFails, Outcomes
<1>11. ASSUME Respond(r) PROVE Goal
  <2>1. copy # NoFile => content[copy] \in Outcomes
    BY DEF CopyTypeOK, Outcomes
  <2> DEFINE body == IF copy = NoFile \/ (kind[r] = "bands" /\ content[copy] = "part")
                       THEN "error" ELSE content[copy]
  <2>2. body \in Outcomes
    BY <2>1 DEF Outcomes
  <2> QED
    BY <1>11, <1>2, <2>2 DEF Respond
<1>12. ASSUME Delete(r) PROVE Goal
  BY <1>12, <1>1 DEF Delete, Goto, Places
<1>13. ASSUME UnlinkOriginal(r) PROVE Goal
  BY <1>13, <1>1 DEF UnlinkOriginal, Goto, Places
<1>14. ASSUME UnlinkCopy(r) PROVE Goal
  BY <1>14, <1>2 DEF UnlinkCopy, Outcomes
<1>15. Goal
  BY <1>3, <1>4, <1>5, <1>6, <1>7, <1>8, <1>9, <1>10, <1>11, <1>12, <1>13, <1>14 DEF CopyStep
<1> QED
  BY <1>15 DEF Goal

\* What a step does to the files.
LEMMA CopyFiles ==
  ASSUME CopyTypeOK, WritersHold, NEW r \in Requests, CopyStep(r)
  PROVE  \/ UNCHANGED <<copy, content, file>>
         \/ copy' = NoFile /\ UNCHANGED <<content, file>>
         \/ /\ copy' \in Requests
            /\ pc' = [pc EXCEPT ![r] = "write"]
            /\ content' = [content EXCEPT ![copy'] = "part"]
            /\ file' = [file EXCEPT ![r] = copy']
         \/ /\ pc[r] = "write" /\ file[r] \in Requests
            /\ content' = [content EXCEPT ![file[r]] = "whole"]
            /\ UNCHANGED <<copy, file>>
<1>1. CASE Create(r)
  BY <1>1 DEF Create, Goto, CopyTypeOK
<1>2. CASE Encode(r)
  BY <1>2 DEF Encode, WritersHold
<1>3. CASE EncodeFails(r) \/ UnlinkCopy(r)
  BY <1>3 DEF EncodeFails, UnlinkCopy
<1>4. CASE Arrive(r) \/ Gate(r) \/ Look(r) \/ Ensure(r) \/ Decode(r)
             \/ Respond(r) \/ Delete(r) \/ UnlinkOriginal(r)
  BY <1>4 DEF Arrive, Gate, Look, Ensure, Decode, Respond, Delete, UnlinkOriginal
<1> QED
  BY <1>1, <1>2, <1>3, <1>4 DEF CopyStep

LEMMA CopyNextInv == CopyInv /\ [CopyNext]_copyVars => CopyInv'
<1> SUFFICES ASSUME CopyInv, [CopyNext]_copyVars PROVE CopyInv'
  OBVIOUS
<1> USE DEF CopyInv
<1>1. ASSUME NEW r \in Requests, CopyStep(r) PROVE CopyInv'
  <2>1. PICK p \in Places, a \in Outcomes :
           /\ pc' = [pc EXCEPT ![r] = p]
           /\ answer' = [answer EXCEPT ![r] = a]
           /\ pc[r] \notin {"done", "died"}
           /\ p # "died"
           /\ p # "done" => a = answer[r]
    BY <1>1, CopyMoves
  <2>2. \/ UNCHANGED <<copy, content, file>>
        \/ copy' = NoFile /\ UNCHANGED <<content, file>>
        \/ /\ copy' \in Requests
           /\ pc' = [pc EXCEPT ![r] = "write"]
           /\ content' = [content EXCEPT ![copy'] = "part"]
           /\ file' = [file EXCEPT ![r] = copy']
        \/ /\ pc[r] = "write" /\ file[r] \in Requests
           /\ content' = [content EXCEPT ![file[r]] = "whole"]
           /\ UNCHANGED <<copy, file>>
    BY <1>1, CopyFiles
  <2>3. CopyTypeOK'
    <3>1. row' \in BOOLEAN /\ original' \in BOOLEAN
          /\ kind' \in [Requests -> {"", "view", "bands", "delete"}]
      BY <1>1 DEF CopyTypeOK, CopyStep, Arrive, Gate, Look, Ensure, Decode, Create, Encode,
                  EncodeFails, Respond, Delete, UnlinkOriginal, UnlinkCopy
    <3>4. created' \in [Requests -> BOOLEAN]
      BY <1>1 DEF CopyTypeOK, CopyStep, Arrive, Gate, Look, Ensure, Decode, Create, Encode,
                  EncodeFails, Respond, Delete, UnlinkOriginal, UnlinkCopy
    <3>2. /\ copy' \in Requests \cup {NoFile}
          /\ content' \in [Requests -> {"part", "whole"}]
          /\ file' \in [Requests -> Requests \cup {NoFile}]
      BY <2>2 DEF CopyTypeOK
    <3>3. pc' \in [Requests -> Places] /\ answer' \in [Requests -> Outcomes]
      BY <2>1 DEF CopyTypeOK
    <3> QED
      BY <3>1, <3>2, <3>3, <3>4 DEF CopyTypeOK
  <2>4. Unanswered'
    BY <2>1 DEF Unanswered, CopyTypeOK
  <2>5. WritersHold'
    <3> SUFFICES ASSUME NEW s \in Requests, pc'[s] = "write" PROVE file'[s] \in Requests
      BY DEF WritersHold
    <3>1. CASE s # r
      BY <3>1, <2>1, <2>2 DEF WritersHold, CopyTypeOK
    <3>2. CASE s = r
      <4>1. Create(r)
        BY <1>1, <3>2 DEF CopyTypeOK, CopyStep, Arrive, Gate, Look, Ensure, Decode, Create, Encode,
              EncodeFails, Respond, Delete, UnlinkOriginal, UnlinkCopy, Goto, Reply
      <4> QED
        BY <4>1, <3>2 DEF Create, CopyTypeOK
    <3> QED
      BY <3>1, <3>2
  <2>6. PartHasCause'
    <3> SUFFICES ASSUME copy' # NoFile, content'[copy'] = "part"
                 PROVE  \E s \in Requests :
                          /\ file'[s] = copy'
                          /\ pc'[s] \in {"write", "died"} \/ answer'[s] = "none"
      BY DEF PartHasCause
    <3>1. CASE pc' = [pc EXCEPT ![r] = "write"] /\ file' = [file EXCEPT ![r] = copy']
      BY <3>1 DEF CopyTypeOK
    <3>2. CASE UNCHANGED <<copy, content, file>>
      <4>1. PICK s \in Requests :
              /\ file[s] = copy
              /\ pc[s] \in {"write", "died"} \/ answer[s] = "none"
        BY <3>2 DEF PartHasCause
      <4>2. CASE s # r
        BY <4>1, <4>2, <3>2, <2>1 DEF CopyTypeOK
      <4>3. CASE s = r
        <5>1. pc[r] = "write"
          BY <4>1, <4>3, <2>1 DEF Unanswered
        <5>2. Encode(r) \/ EncodeFails(r)
          BY <5>1, <1>1 DEF CopyStep, Arrive, Gate, Look, Ensure, Decode, Create,
              Respond, Delete, UnlinkOriginal, UnlinkCopy
        <5>3. CASE Encode(r)
          BY <5>3, <4>1, <4>3, <3>2 DEF Encode, CopyTypeOK, WritersHold
        <5>4. CASE EncodeFails(r)
          BY <5>4, <4>1, <4>3, <3>2 DEF EncodeFails, Reply, CopyTypeOK
        <5> QED
          BY <5>2, <5>3, <5>4
      <4> QED
        BY <4>2, <4>3
    <3>3. CASE /\ pc[r] = "write" /\ file[r] \in Requests
               /\ content' = [content EXCEPT ![file[r]] = "whole"]
               /\ UNCHANGED <<copy, file>>
      <4>1. copy # file[r] /\ content[copy] = "part"
        BY <3>3 DEF CopyTypeOK
      <4>2. PICK s \in Requests :
              /\ file[s] = copy
              /\ pc[s] \in {"write", "died"} \/ answer[s] = "none"
        BY <3>3, <4>1 DEF PartHasCause
      <4> QED
        BY <4>1, <4>2, <3>3, <2>1 DEF CopyTypeOK
    <3> QED
      BY <3>1, <3>2, <3>3, <2>2
  <2>7. PartNeedsAnother'
    <3> SUFFICES ASSUME NEW s \in Requests, answer'[s] = "part"
                 PROVE  \E other \in Requests \ {s} : file'[other] # NoFile
      BY DEF PartNeedsAnother
    <3>1. \A t \in Requests : file[t] # NoFile => file'[t] # NoFile
      <4> SUFFICES ASSUME NEW t \in Requests, file[t] # NoFile PROVE file'[t] # NoFile
        OBVIOUS
      <4>1. CASE file' = file
        BY <4>1
      <4>2. CASE copy' \in Requests /\ file' = [file EXCEPT ![r] = copy']
        BY <4>2, NoFileAssumption DEF CopyTypeOK
      <4> QED
        BY <4>1, <4>2, <2>2
    <3>2. CASE answer[s] = "part"
      BY <3>1, <3>2 DEF PartNeedsAnother
    <3>3. CASE answer[s] # "part"
      <4>1. s = r /\ Respond(r)
        BY <3>3, <1>1, <2>1 DEF CopyTypeOK, CopyStep, Arrive, Gate, Look, Ensure, Decode, Create, Encode,
              EncodeFails, Respond, Delete, UnlinkOriginal, UnlinkCopy, Reply
      <4>2. copy # NoFile /\ content[copy] = "part" /\ pc[r] = "respond" /\ answer[r] = ""
        BY <4>1 DEF Respond, Reply, CopyTypeOK, Unanswered
      <4>3. PICK t \in Requests :
              /\ file[t] = copy
              /\ pc[t] \in {"write", "died"} \/ answer[t] = "none"
        BY <4>2 DEF PartHasCause
      <4> QED
        BY <4>1, <4>2, <4>3, <3>1
    <3> QED
      BY <3>2, <3>3
  <2> QED
    BY <2>3, <2>4, <2>5, <2>6, <2>7
<1>2. CASE Crash
  <2>1. pc' = [r \in Requests |-> IF Handling(r) THEN "died" ELSE pc[r]]
        /\ UNCHANGED <<row, original, copy, content, kind, file, created, answer>>
    BY <1>2 DEF Crash
  <2>2. CopyTypeOK'
    <3>1. pc' \in [Requests -> Places]
      BY <2>1 DEF CopyTypeOK, Places
    <3> QED
      BY <2>1, <3>1 DEF CopyTypeOK
  <2>3. \A r \in Requests : pc'[r] = pc[r] \/ (pc'[r] = "died" /\ pc[r] # "done")
    BY <2>1 DEF Handling
  <2>4. \A r \in Requests : pc[r] \in {"write", "died"} => pc'[r] = "died"
    BY <2>1 DEF Handling
  <2>5. Unanswered' /\ WritersHold' /\ PartNeedsAnother'
    BY <2>1, <2>3 DEF Unanswered, WritersHold, PartNeedsAnother
  <2>6. PartHasCause'
    BY <2>1, <2>4 DEF PartHasCause
  <2> QED
    BY <2>2, <2>5, <2>6
<1>3. CASE UNCHANGED copyVars
  BY <1>3 DEF copyVars, CopyTypeOK, Unanswered, WritersHold, PartHasCause, PartNeedsAnother
<1> QED
  BY <1>1, <1>2, <1>3 DEF CopyNext, CopyStep

-----------------------------------------------------------------------------
\* The invariant of the copy, its writers and its answers holds in every run.
THEOREM CopyInvariant == CopySpec => []CopyInv
<1> QED
  BY CopyInitInv, CopyNextInv, PTL DEF CopySpec

\* Files, places and answers keep their types.
THEOREM CopyTypeCorrect == CopySpec => []CopyTypeOK
<1>1. CopyInv => CopyTypeOK
  BY DEF CopyInv
<1> QED
  BY <1>1, CopyInvariant, PTL

\* A half-written copy has a writer, or one that died or failed, however many
\* requests render, read and delete it at once.
THEOREM PartIsCaused == CopySpec => []PartHasCause
<1>1. CopyInv => PartHasCause
  BY DEF CopyInv
<1> QED
  BY <1>1, CopyInvariant, PTL

\* The first view of a page, alone, is answered with the whole copy.
THEOREM LoneViewIsWhole == CopySpec => []PartNeedsAnother
<1>1. CopyInv => PartNeedsAnother
  BY DEF CopyInv
<1> QED
  BY <1>1, CopyInvariant, PTL
===============================================================================
