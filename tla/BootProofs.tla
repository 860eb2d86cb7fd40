------------------------------ MODULE BootProofs ------------------------------
(***************************************************************************)
(* What holds of Boot for every set of addresses, every settings a         *)
(* deployment may bring and a kill between any two statements.             *)
(***************************************************************************)
EXTENDS Boot, TLAPS

\* Statement i of script v adds c, working on t; or it is another kind of step.
Adds(v, i, t, c) == Scripts[v][i].op = "add" /\ Scripts[v][i].on = t /\ Scripts[v][i].adds = c
Does(v, i, op) == Scripts[v][i].op = op

-------------------------------------------------------------------------------
(* The scripts.                                                               *)

LEMMA Lengths ==
  /\ Versions = 1 .. 5
  /\ Len(Scripts) = 5
  /\ Len(Scripts[1]) = 5 /\ Len(Scripts[2]) = 4 /\ Len(Scripts[3]) = 13
  /\ Len(Scripts[4]) = 4 /\ Len(Scripts[5]) = 10
BY DEF Scripts, Versions

LEMMA ScriptLength ==
  ASSUME NEW v \in Versions
  PROVE  v \in 1 .. 5 /\ Len(Scripts[v]) \in Nat /\ Len(Scripts[v]) >= 4 /\ Len(Scripts[v]) <= 13
<1>1. v \in {1, 2, 3, 4, 5}
  BY Lengths
<1>2. CASE v = 1
  BY <1>2, Lengths
<1>3. CASE v = 2
  BY <1>3, Lengths
<1>4. CASE v = 3
  BY <1>4, Lengths
<1>5. CASE v = 4
  BY <1>5, Lengths
<1>6. CASE v = 5
  BY <1>6, Lengths
<1> QED
  BY <1>1, <1>2, <1>3, <1>4, <1>5, <1>6

LEMMA Domains ==
  /\ DOMAIN Scripts[1] = 1 .. 5 /\ DOMAIN Scripts[2] = 1 .. 4 /\ DOMAIN Scripts[3] = 1 .. 13
  /\ DOMAIN Scripts[4] = 1 .. 4 /\ DOMAIN Scripts[5] = 1 .. 10
BY DEF Scripts

\* Their statements, script by script.
LEMMA Script1 ==
  /\ Adds(1, 1, "-", "songs") /\ Adds(1, 2, "-", "scans")
  /\ Adds(1, 3, "scans", "idx_scans_song")
  /\ Adds(1, 4, "-", "transcriptions")
  /\ Adds(1, 5, "transcriptions", "idx_transcriptions_scan")
BY DEF Scripts, Create, AddTo, Adds

LEMMA Script2 ==
  /\ Adds(2, 1, "transcriptions", "model")
  /\ Adds(2, 2, "transcriptions", "input_tokens")
  /\ Adds(2, 3, "transcriptions", "output_tokens")
  /\ Adds(2, 4, "transcriptions", "idx_transcriptions_scan_unique")
BY DEF Scripts, AddTo, Adds

LEMMA Script3 ==
  /\ Adds(3, 1, "-", "users") /\ Does(3, 2, "insert_owner")
  /\ Adds(3, 3, "-", "identities") /\ Adds(3, 4, "identities", "idx_identities_user")
  /\ Adds(3, 5, "-", "sessions") /\ Adds(3, 6, "sessions", "idx_sessions_user")
  /\ Does(3, 7, "keys_off") /\ Adds(3, 8, "-", "songs_with_owner")
  /\ Does(3, 9, "copy_songs") /\ Does(3, 10, "drop_songs") /\ Does(3, 11, "rename_songs")
  /\ Does(3, 12, "keys_on") /\ Adds(3, 13, "songs", "idx_songs_owner_created")
BY DEF Scripts, Create, AddTo, Do, Adds, Does

LEMMA Script4 ==
  /\ Adds(4, 1, "-", "security_limit_events")
  /\ Adds(4, 2, "security_limit_events", "idx_security_limit_lookup")
  /\ Adds(4, 3, "-", "recognition_idempotency")
  /\ Adds(4, 4, "recognition_idempotency", "idx_recognition_idempotency_scan")
BY DEF Scripts, Create, AddTo, Adds

LEMMA Script5 ==
  /\ Adds(5, 1, "-", "recognition_runs")
  /\ Adds(5, 2, "recognition_runs", "idx_recognition_runs_scan_created")
  /\ Adds(5, 3, "recognition_runs", "idx_recognition_runs_user_created")
  /\ Adds(5, 4, "-", "transcription_revisions")
  /\ Adds(5, 5, "transcription_revisions", "idx_transcription_revisions_transcription_created")
  /\ Adds(5, 6, "transcriptions", "recognition_run_id")
  /\ Adds(5, 7, "transcriptions", "current_revision_id")
  /\ Adds(5, 8, "recognition_idempotency", "idempotency.recognition_run_id")
  /\ Does(5, 9, "backfill_revisions") /\ Does(5, 10, "point_at_revisions")
BY DEF Scripts, Create, AddTo, Do, Adds, Does

\* The objects of each script, the table that 003 renames included.
Names == <<
  {"songs", "scans", "idx_scans_song", "transcriptions", "idx_transcriptions_scan"},
  {"model", "input_tokens", "output_tokens", "idx_transcriptions_scan_unique"},
  {"users", "identities", "idx_identities_user", "sessions", "idx_sessions_user",
   "songs_with_owner", "idx_songs_owner_created"},
  {"security_limit_events", "idx_security_limit_lookup", "recognition_idempotency",
   "idx_recognition_idempotency_scan"},
  {"recognition_runs", "idx_recognition_runs_scan_created", "idx_recognition_runs_user_created",
   "transcription_revisions", "idx_transcription_revisions_transcription_created",
   "recognition_run_id", "current_revision_id", "idempotency.recognition_run_id"} >>

\* What the first n - 1 statements of script v add, and what they take away.
AddedBefore(v, n) == {Scripts[v][i].adds : i \in {j \in 1 .. n - 1 : Scripts[v][j].op = "add"}}
Gone(v, n) ==
  IF v = 3 /\ n = 11 THEN {"songs"}
  ELSE IF v = 3 /\ n > 11 THEN {"songs_with_owner"} ELSE {}
SchemaIn(v, n) == (SchemaAt(v - 1) \cup AddedBefore(v, n)) \ Gone(v, n)

\* Where the songs are then, and whether the keys are on.
SongsIn(v, n) ==
  IF pages = "none" THEN {}
  ELSE IF v = 3 /\ n = 10 THEN {"songs", "songs_with_owner"}
  ELSE IF v = 3 /\ n = 11 THEN {"songs_with_owner"} ELSE {"songs"}
KeysIn(v, n) == IF v = 3 /\ n \in 8 .. 12 THEN FALSE ELSE TRUE

\* No two scripts add an object of one name.
LEMMA NamesApart ==
  ASSUME NEW u \in 1 .. 5, NEW v \in 1 .. 5, u # v
  PROVE  Names[u] \cap Names[v] = {}
BY DEF Names

\* A statement that adds adds an object of its script.
LEMMA AddsItsNames ==
  ASSUME NEW v \in Versions, NEW i \in 1 .. Len(Scripts[v]), Scripts[v][i].op = "add"
  PROVE  Scripts[v][i].adds \in Names[v]
<1> USE DEF Adds, Does, Names
<1>1. CASE v = 1
  BY <1>1, Lengths, Script1
<1>2. CASE v = 2
  BY <1>2, Lengths, Script2
<1>3. CASE v = 3
  BY <1>3, Lengths, Script3
<1>4. CASE v = 4
  BY <1>4, Lengths, Script4
<1>5. CASE v = 5
  BY <1>5, Lengths, Script5
<1> QED
  BY <1>1, <1>2, <1>3, <1>4, <1>5, Lengths

\* The schema of a version is of the objects of its scripts.
LEMMA SchemaNames ==
  ASSUME NEW v \in 0 .. 5, NEW x \in SchemaAt(v)
  PROVE  \E u \in 1 .. v : x \in Names[u] /\ x # "songs_with_owner"
<1>1. PICK u \in 1 .. v : x \in Added(u)
  BY DEF SchemaAt
<1>2. PICK i \in DOMAIN Scripts[u] : Scripts[u][i].op = "add" /\ x = Scripts[u][i].adds
  BY <1>1 DEF Added
<1>3. i \in 1 .. Len(Scripts[u])
  BY <1>2, Lengths, Domains
<1>4. x # "songs_with_owner"
  BY <1>1 DEF Added
<1>5. x \in Names[u]
  BY <1>2, <1>3, AddsItsNames, Lengths
<1> QED
  BY <1>4, <1>5

\* No statement adds what is there already,
LEMMA AddsNew ==
  ASSUME NEW v \in Versions, NEW i \in 1 .. Len(Scripts[v]), Scripts[v][i].op = "add"
  PROVE  Scripts[v][i].adds \notin SchemaAt(v - 1) \cup AddedBefore(v, i)
<1>1. Scripts[v][i].adds \notin SchemaAt(v - 1)
  BY AddsItsNames, SchemaNames, NamesApart, Lengths
<1>2. Scripts[v][i].adds \notin AddedBefore(v, i)
  <2> USE DEF Adds, Does, AddedBefore
  <2>1. CASE v = 1
    BY <2>1, Lengths, Script1
  <2>2. CASE v = 2
    BY <2>2, Lengths, Script2
  <2>3. CASE v = 3
    BY <2>3, Lengths, Script3
  <2>4. CASE v = 4
    BY <2>4, Lengths, Script4
  <2>5. CASE v = 5
    BY <2>5, Lengths, Script5
  <2> QED
    BY <2>1, <2>2, <2>3, <2>4, <2>5, Lengths
<1> QED
  BY <1>1, <1>2

\* The old tables that later scripts work on.
LEMMA OldTables ==
  /\ "songs" \in Added(1) /\ "transcriptions" \in Added(1) /\ "scans" \in Added(1)
  /\ "recognition_idempotency" \in Added(4)
BY Domains, Script1, Script4 DEF Added, Adds

\* and each finds the table it works on.
LEMMA FindsTable ==
  ASSUME NEW v \in Versions, NEW i \in 1 .. Len(Scripts[v]), Scripts[v][i].op = "add",
         Scripts[v][i].on # "-"
  PROVE  Scripts[v][i].on \in SchemaIn(v, i)
<1> USE DEF Adds, Does
<1>1. CASE v = 1
  BY <1>1, Lengths, Script1 DEF SchemaIn, AddedBefore, Gone
<1>2. CASE v = 2
  <2>1. "transcriptions" \in SchemaAt(1)
    BY OldTables DEF SchemaAt
  <2> QED
    BY <1>2, <2>1, Lengths, Script2 DEF SchemaIn, Gone
<1>3. CASE v = 3
  <2>1. "songs" \in SchemaAt(2)
    BY OldTables DEF SchemaAt
  <2> QED
    BY <1>3, <2>1, Lengths, Script3 DEF SchemaIn, AddedBefore, Gone
<1>4. CASE v = 4
  BY <1>4, Lengths, Script4 DEF SchemaIn, AddedBefore, Gone
<1>5. CASE v = 5
  <2>1. {"transcriptions", "recognition_idempotency"} \subseteq SchemaAt(4)
    BY OldTables DEF SchemaAt
  <2> QED
    BY <1>5, <2>1, Lengths, Script5 DEF SchemaIn, AddedBefore, Gone
<1> QED
  BY <1>1, <1>2, <1>3, <1>4, <1>5, Lengths

\* Only 003 does more than add, and the only other statements are 005's backfills.
LEMMA OpsOf ==
  ASSUME NEW v \in Versions, NEW n \in 1 .. Len(Scripts[v])
  PROVE  /\ Scripts[v][n].op = "insert_owner" <=> v = 3 /\ n = 2
         /\ Scripts[v][n].op = "keys_off" <=> v = 3 /\ n = 7
         /\ Scripts[v][n].op = "copy_songs" <=> v = 3 /\ n = 9
         /\ Scripts[v][n].op = "drop_songs" <=> v = 3 /\ n = 10
         /\ Scripts[v][n].op = "rename_songs" <=> v = 3 /\ n = 11
         /\ Scripts[v][n].op = "keys_on" <=> v = 3 /\ n = 12
         /\ Scripts[v][n].op = "backfill_revisions" <=> v = 5 /\ n = 9
         /\ Scripts[v][n].op = "point_at_revisions" <=> v = 5 /\ n = 10
         /\ Scripts[v][n].op = "add" <=> ~(v = 3 /\ n \in {2, 7, 9, 10, 11, 12})
                                          /\ ~(v = 5 /\ n \in {9, 10})
<1> USE DEF Adds, Does
<1>1. CASE v = 1
  BY <1>1, Lengths, Script1
<1>2. CASE v = 2
  BY <1>2, Lengths, Script2
<1>3. CASE v = 3
  BY <1>3, Lengths, Script3
<1>4. CASE v = 4
  BY <1>4, Lengths, Script4
<1>5. CASE v = 5
  BY <1>5, Lengths, Script5
<1> QED
  BY <1>1, <1>2, <1>3, <1>4, <1>5, Lengths

\* What a statement does to the schema of the statements before it.
LEMMA SchemaMoves ==
  ASSUME NEW v \in Versions, NEW n \in 1 .. Len(Scripts[v])
  PROVE  LET s == Scripts[v][n]
         IN SchemaIn(v, n + 1) = CASE s.op = "add"          -> SchemaIn(v, n) \cup {s.adds}
                                   [] s.op = "drop_songs"   -> SchemaIn(v, n) \ {"songs"}
                                   [] s.op = "rename_songs" ->
                                        (SchemaIn(v, n) \ {"songs_with_owner"}) \cup {"songs"}
                                   [] OTHER                 -> SchemaIn(v, n)
<1> DEFINE s == Scripts[v][n]
<1>1. AddedBefore(v, n + 1) = AddedBefore(v, n) \cup (IF s.op = "add" THEN {s.adds} ELSE {})
  <2>1. 1 .. (n + 1) - 1 = (1 .. n - 1) \cup {n}
    BY Lengths
  <2> QED
    BY <2>1 DEF AddedBefore
<1>2. CASE v # 3
  <2>1. s.op \notin {"drop_songs", "rename_songs"}
    BY <1>2, OpsOf
  <2>2. Gone(v, n) = {} /\ Gone(v, n + 1) = {}
    BY <1>2 DEF Gone
  <2>3. CASE s.op = "add"
    BY <1>1, <2>2, <2>3 DEF SchemaIn
  <2>4. CASE s.op # "add"
    BY <1>1, <2>1, <2>2, <2>4 DEF SchemaIn
  <2> QED
    BY <2>3, <2>4
<1>3. CASE v = 3
  <2>1. s.op = "add" => s.adds # "songs" /\ (n = 8 <=> s.adds = "songs_with_owner")
    BY <1>3, Lengths, Script3 DEF Adds, Does
  <2>2. /\ n = 10 <=> s.op = "drop_songs"
        /\ n = 11 <=> s.op = "rename_songs"
        /\ s.op = "add" => n # 9 /\ n # 12
    BY <1>3, Lengths, Script3 DEF Adds, Does
  <2>3. "songs" \in SchemaAt(2) /\ "songs_with_owner" \notin SchemaAt(2)
    BY OldTables, SchemaNames DEF SchemaAt
  <2>4. n > 8 => "songs_with_owner" \in AddedBefore(v, n)
    BY <1>3, Lengths, Script3 DEF Adds, Does, AddedBefore
  <2>5. n \in 1 .. 13
    BY <1>3, Lengths
  <2>6. CASE n < 10
    BY <1>1, <1>3, <2>1, <2>2, <2>5, <2>6 DEF SchemaIn, Gone
  <2>7. CASE n = 10
    BY <1>1, <1>3, <2>2, <2>7 DEF SchemaIn, Gone
  <2>8. CASE n = 11
    BY <1>1, <1>3, <2>2, <2>3, <2>8 DEF SchemaIn, Gone
  <2>9. CASE n > 11
    BY <1>1, <1>3, <2>1, <2>2, <2>5, <2>9 DEF SchemaIn, Gone
  <2> QED
    BY <2>5, <2>6, <2>7, <2>8, <2>9
<1> QED
  BY <1>2, <1>3

\* A whole script leaves its version's schema, where the next one starts.
LEMMA ScriptDone ==
  ASSUME NEW v \in Versions
  PROVE  /\ SchemaIn(v, Len(Scripts[v]) + 1) = SchemaAt(v)
         /\ SchemaIn(v + 1, 1) = SchemaAt(v)
         /\ SchemaIn(1, 1) = SchemaAt(0)
<1>1. \A u \in 1 .. 6 : AddedBefore(u, 1) = {} /\ Gone(u, 1) = {}
  BY DEF AddedBefore, Gone
<1>2. SchemaIn(v + 1, 1) = SchemaAt(v) /\ SchemaIn(1, 1) = SchemaAt(0)
  BY <1>1, Lengths DEF SchemaIn
<1>3. SchemaAt(v) = SchemaAt(v - 1) \cup Added(v)
  <2>1. 1 .. v = (1 .. v - 1) \cup {v}
    BY Lengths
  <2> QED
    BY <2>1 DEF SchemaAt
<1>4. Added(v) = AddedBefore(v, Len(Scripts[v]) + 1) \ {"songs_with_owner"}
  <2>1. DOMAIN Scripts[v] = 1 .. (Len(Scripts[v]) + 1) - 1
    BY Lengths, Domains
  <2> QED
    BY <2>1 DEF Added, AddedBefore
<1>5. "songs_with_owner" \notin SchemaAt(v - 1)
  BY SchemaNames, Lengths
<1>6. CASE v = 3
  <2>1. Gone(v, Len(Scripts[v]) + 1) = {"songs_with_owner"}
    BY <1>6, Lengths DEF Gone
  <2>2. SchemaIn(v, Len(Scripts[v]) + 1)
          = (SchemaAt(v - 1) \cup AddedBefore(v, Len(Scripts[v]) + 1)) \ {"songs_with_owner"}
    BY <2>1 DEF SchemaIn
  <2> QED
    BY <1>2, <1>3, <1>4, <1>5, <2>2
<1>7. CASE v # 3
  <2>1. "songs_with_owner" \notin AddedBefore(v, Len(Scripts[v]) + 1)
    <3>1. SUFFICES ASSUME NEW i \in 1 .. Len(Scripts[v]), Scripts[v][i].op = "add"
                   PROVE  Scripts[v][i].adds # "songs_with_owner"
      BY Lengths DEF AddedBefore
    <3>2. "songs_with_owner" \in Names[3]
      BY DEF Names
    <3> QED
      BY <1>7, <3>1, <3>2, AddsItsNames, NamesApart, Lengths
  <2>2. Gone(v, Len(Scripts[v]) + 1) = {}
    BY <1>7 DEF Gone
  <2>3. SchemaIn(v, Len(Scripts[v]) + 1)
          = SchemaAt(v - 1) \cup AddedBefore(v, Len(Scripts[v]) + 1)
    BY <2>2 DEF SchemaIn
  <2> QED
    BY <1>2, <1>3, <1>4, <2>1, <2>3
<1> QED
  BY <1>2, <1>6, <1>7

-------------------------------------------------------------------------------
(* The database in the middle of a migration, and the process on it.          *)

\* What the database holds before statement n of script v.
Database(v, n) ==
  /\ recorded = 1 .. v - 1
  /\ schema = SchemaIn(v, n)
  /\ pages \in {"none", "kept"} /\ songRows = SongsIn(v, n)
  /\ IF v < 3 \/ (v = 3 /\ n <= 2) THEN owner = Unset
     ELSE owner \in Owner /\ owner.email \notin invited

\* Every statement of a script that is run from its start can be run, and leaves
\* what the next one needs.
LEMMA StatementRuns ==
  ASSUME NEW v \in Versions, NEW n \in 1 .. Len(Scripts[v]), Database(v, n), keys = KeysIn(v, n),
         invited \subseteq Emails
  PROVE  /\ CanRun(Scripts[v][n])
         /\ Effect(Scripts[v][n]) /\ UNCHANGED <<recorded, invited>> =>
              Database(v, n + 1)' /\ keys' = KeysIn(v, n + 1)
<1> DEFINE s == Scripts[v][n]
<1>1. ASSUME s.op = "add" PROVE CanRun(s)
  <2>1. s.adds \notin schema
    BY <1>1, AddsNew DEF Database, SchemaIn
  <2>2. s.on # "-" => s.on \in schema
    BY <1>1, FindsTable DEF Database
  <2> QED
    BY <1>1, <2>1, <2>2 DEF CanRun
<1>2. ASSUME s.op # "add", v = 3 PROVE CanRun(s)
  <2>1. "songs" \in SchemaAt(2)
    BY OldTables DEF SchemaAt
  <2>2. n > 8 => "songs_with_owner" \in AddedBefore(v, n)
    BY <1>2, Lengths, Script3 DEF Adds, Does, AddedBefore
  <2>3. n \in {2, 7, 9, 10, 11, 12}
    BY <1>2, Lengths, Script3 DEF Adds, Does
  <2> QED
    BY <1>2, <2>1, <2>2, <2>3, Script3 DEF Does, CanRun, Database, SchemaIn, Gone
<1>3. ASSUME s.op # "add", v # 3 PROVE CanRun(s)
  <2>1. s.op \in {"backfill_revisions", "point_at_revisions"}
    BY <1>3, OpsOf, Lengths
  <2> QED
    BY <2>1 DEF CanRun
<1>4. ASSUME Effect(s), UNCHANGED <<recorded, invited>>
      PROVE  Database(v, n + 1)' /\ keys' = KeysIn(v, n + 1)
  <2>1. schema' = SchemaIn(v, n + 1)
    BY <1>4, SchemaMoves DEF Effect, Database
  <2>2. v \in 1 .. 5 /\ n \in 1 .. 13
    <3>1. v \in 1 .. 5 /\ Len(Scripts[v]) \in Nat /\ Len(Scripts[v]) <= 13
      BY ScriptLength
    <3>2. n \in Nat /\ n >= 1 /\ n <= Len(Scripts[v])
      BY <3>1
    <3> QED
      BY <3>1, <3>2
  <2>7. /\ s.op = "insert_owner" <=> v = 3 /\ n = 2
        /\ s.op = "keys_off" <=> v = 3 /\ n = 7
        /\ s.op = "copy_songs" <=> v = 3 /\ n = 9
        /\ s.op = "drop_songs" <=> v = 3 /\ n = 10
        /\ s.op = "rename_songs" <=> v = 3 /\ n = 11
        /\ s.op = "keys_on" <=> v = 3 /\ n = 12
    BY OpsOf
  <2> HIDE DEF s
  <2>3. keys' = KeysIn(v, n + 1)
    <3>1. CASE s.op = "keys_off"
      BY <1>4, <2>2, <2>7, <3>1 DEF Effect, KeysIn
    <3>2. CASE s.op = "keys_on"
      BY <1>4, <2>2, <2>7, <3>2 DEF Effect, KeysIn
    <3>3. CASE s.op \notin {"keys_off", "keys_on"}
      BY <1>4, <2>2, <2>7, <3>3 DEF Effect, KeysIn
    <3> QED
      BY <3>1, <3>2, <3>3
  <2>4. pages' = pages
    BY <1>4, <2>2, <2>7 DEF Effect, DropCascades, KeysIn
  <2>5. songRows' = SongsIn(v, n + 1)'
    <3>1. songRows = SongsIn(v, n)
      BY DEF Database
    <3>2. songRows' = CASE s.op = "copy_songs" /\ songRows # {} -> songRows \cup {"songs_with_owner"}
                       [] s.op = "drop_songs"                  -> songRows \ {"songs"}
                       [] s.op = "rename_songs" /\ songRows # {} -> {"songs"}
                       [] OTHER                                -> songRows
      BY <1>4 DEF Effect
    <3>3. CASE pages = "none"
      BY <2>4, <3>1, <3>2, <3>3 DEF SongsIn
    <3>4. CASE pages # "none" /\ s.op = "copy_songs"
      BY <2>4, <2>7, <3>1, <3>2, <3>4 DEF SongsIn
    <3>5. CASE pages # "none" /\ s.op = "drop_songs"
      BY <2>4, <2>7, <3>1, <3>2, <3>5 DEF SongsIn
    <3>6. CASE pages # "none" /\ s.op = "rename_songs"
      BY <2>4, <2>7, <3>1, <3>2, <3>6 DEF SongsIn
    <3>7. CASE pages # "none" /\ s.op \notin {"copy_songs", "drop_songs", "rename_songs"}
      <4>1. songRows' = songRows
        BY <3>2, <3>7
      <4>2. ~(v = 3 /\ n \in 9 .. 11)
        BY <2>2, <2>7, <3>7
      <4> QED
        BY <2>2, <2>4, <3>1, <3>7, <4>1, <4>2 DEF SongsIn
    <3> QED
      BY <3>3, <3>4, <3>5, <3>6, <3>7
  <2>6. IF v < 3 \/ (v = 3 /\ n + 1 <= 2) THEN owner' = Unset
        ELSE owner' \in Owner /\ owner'.email \notin invited'
    <3>1. CASE s.op = "insert_owner"
      <4>1. owner' = NewOwner
        BY <1>4, <3>1 DEF Effect
      <4>2. owner'.email = Unset /\ owner' \in Owner
        BY <4>1 DEF NewOwner, Owner
      <4> QED
        BY <1>4, <2>2, <2>7, <3>1, <4>2, EmailAssumption
    <3>2. CASE s.op # "insert_owner"
      <4>1. owner' = owner
        BY <1>4, <3>2 DEF Effect
      <4>2. v < 3 \/ (v = 3 /\ n + 1 <= 2) <=> v < 3 \/ (v = 3 /\ n <= 2)
        BY <2>2, <2>7, <3>2
      <4> QED
        BY <1>4, <4>1, <4>2 DEF Database
    <3> QED
      BY <3>1, <3>2
  <2> QED
    BY <1>4, <2>1, <2>3, <2>4, <2>5, <2>6 DEF Database
<1> QED
  BY <1>1, <1>2, <1>3, <1>4
\* The first statement of a script cannot be run again once it has been.
LEMMA CutFails ==
  ASSUME NEW v \in Versions, NEW n \in 2 .. Len(Scripts[v]) + 1, Database(v, n)
  PROVE  ~CanRun(Scripts[v][1])
<1> DEFINE s == Scripts[v][1]
<1>1. /\ 1 \in 1 .. Len(Scripts[v]) /\ Len(Scripts[v]) \in Nat /\ n \in Nat /\ n >= 2
      /\ v \in 1 .. 5
  BY ScriptLength
<1>2. s.op = "add"
  BY <1>1, OpsOf
<1>3. s.adds \notin {"songs_with_owner"} /\ (v = 3 => s.adds # "songs")
  <2>1. CASE v = 3
    BY <2>1, Script3 DEF Adds
  <2>2. CASE v # 3
    <3>1. "songs_with_owner" \in Names[3]
      BY DEF Names
    <3> QED
      BY <1>1, <1>2, <2>2, <3>1, AddsItsNames, NamesApart
  <2> QED
    BY <2>1, <2>2
<1>4. s.adds \in AddedBefore(v, n)
  BY <1>1, <1>2 DEF AddedBefore
<1>5. s.adds \notin Gone(v, n)
  BY <1>3 DEF Gone
<1>6. s.adds \in schema
  BY <1>4, <1>5 DEF Database, SchemaIn
<1> QED
  BY <1>2, <1>6 DEF CanRun

\* Between two scripts everything is as the version says.
LEMMA WholeSchema ==
  ASSUME NEW v \in 1 .. 6, Database(v, 1)
  PROVE  /\ recorded = 1 .. v - 1 /\ schema = SchemaAt(v - 1)
         /\ pages \in {"none", "kept"} /\ songRows = (IF pages = "none" THEN {} ELSE {"songs"})
         /\ IF v <= 3 THEN owner = Unset ELSE owner \in Owner /\ owner.email \notin invited
<1>1. schema = SchemaAt(v - 1)
  <2>1. CASE v = 1
    <3>1. 1 \in Versions
      BY Lengths
    <3> QED
      BY <2>1, <3>1, ScriptDone DEF Database
  <2>2. CASE v # 1
    <3>1. v - 1 \in Versions /\ (v - 1) + 1 = v
      BY <2>2, Lengths
    <3> QED
      BY <3>1, ScriptDone DEF Database
  <2> QED
    BY <2>1, <2>2
<1>2. songRows = IF pages = "none" THEN {} ELSE {"songs"}
  BY DEF Database, SongsIn
<1> QED
  BY <1>1, <1>2 DEF Database

\* The row of a version, written after its last statement, is where the next
\* script starts.
LEMMA ScriptRecorded ==
  ASSUME NEW v \in Versions, Database(v, Len(Scripts[v]) + 1),
         recorded' = recorded \cup {v}, UNCHANGED <<schema, songRows, pages, owner, invited>>
  PROVE  Database(v + 1, 1)'
<1>1. v \in 1 .. 5 /\ Len(Scripts[v]) \in Nat /\ Len(Scripts[v]) >= 4
  BY ScriptLength
<1>2. recorded' = 1 .. (v + 1) - 1
  BY <1>1 DEF Database
<1>3. schema' = SchemaIn(v + 1, 1)
  BY ScriptDone DEF Database
<1>4. songRows' = SongsIn(v + 1, 1)'
  <2>2. songRows = IF pages = "none" THEN {} ELSE {"songs"}
    <3>1. songRows = SongsIn(v, Len(Scripts[v]) + 1)
      BY DEF Database
    <3>2. CASE v = 3
      <4>1. Len(Scripts[v]) + 1 = 14
        BY <3>2, Lengths
      <4> QED
        BY <3>1, <4>1 DEF SongsIn
    <3>3. CASE v # 3
      BY <3>1, <3>3 DEF SongsIn
    <3> QED
      BY <3>2, <3>3
  <2>3. SongsIn(v + 1, 1)' = IF pages' = "none" THEN {} ELSE {"songs"}
    BY <1>1 DEF SongsIn
  <2> QED
    BY <2>2, <2>3
<1>5. IF v + 1 < 3 \/ (v + 1 = 3 /\ 1 <= 2) THEN owner' = Unset
      ELSE owner' \in Owner /\ owner'.email \notin invited'
  BY <1>1, Lengths DEF Database
<1> QED
  BY <1>2, <1>3, <1>4, <1>5 DEF Database
-------------------------------------------------------------------------------
(* The inductive invariant.                                                   *)

\* No script has been cut short and none runs: the database is a version's.
Whole ==
  /\ torn = 0 /\ pc # "script"
  /\ \E v \in 1 .. 6 : Database(v, 1)
  /\ pc \in {"migrate", "owner", "prune", "serving"} => keys = TRUE
  /\ pc \in {"owner", "prune", "serving"} => Database(6, 1)

\* A script runs that was started on the version before it.
Running ==
  /\ torn = 0 /\ pc = "script"
  /\ Database(version, next) /\ next <= Len(Scripts[version]) + 1
  /\ keys = KeysIn(version, next)

\* A script was cut short: no start gets past its first statement again.
Left ==
  /\ \E v \in Versions : torn = v /\ \E n \in 2 .. Len(Scripts[v]) + 1 : Database(v, n)
  /\ pc \in {"down", "validate", "migrate", "script", "failed"}
  /\ pc = "script" => version = torn /\ next = 1

\* What the steps of the start have seen of the settings and of the owner.
Checked ==
  /\ pc = "validate" => settings.parses
  /\ pc \in {"migrate", "script", "owner", "prune", "serving"} =>
       settings.parses /\ SettingsOK(settings)
  /\ pc \in {"prune", "serving"} =>
       /\ settings.email # Unset => owner.email = settings.email
       /\ ~settings.auth => owner.status = "active"

Inv == TypeOK /\ (Whole \/ Running \/ Left) /\ Checked /\ FailureHasCause

\* The database is what it was when no step touches it.
LEMMA DatabaseStays ==
  ASSUME NEW v, NEW n, Database(v, n), UNCHANGED disk
  PROVE  Database(v, n)'
BY DEF Database, SongsIn, disk

\* What an earlier release left is the database of a version.
LEMMA InitInv == Init => Inv
<1> SUFFICES ASSUME Init PROVE Inv
  OBVIOUS
<1>1. PICK v \in 0 .. 5 :
        /\ schema = SchemaAt(v) /\ recorded = 1 .. v
        /\ songRows \in (IF v = 0 THEN {{}} ELSE {{}, {"songs"}})
        /\ owner = IF v < 3 THEN Unset ELSE NewOwner
  BY Lengths DEF Init
<1>2. /\ pages = (IF songRows = {} THEN "none" ELSE "kept") /\ invited = {} /\ pc = "down"
      /\ settings \in Settings /\ version = 1 /\ next = 1 /\ keys = TRUE /\ torn = 0
  BY DEF Init
<1>3. SchemaIn(v + 1, 1) = SchemaAt(v)
  <2>1. 1 \in Versions /\ (v # 0 => v \in Versions) /\ 0 + 1 = 1
    BY Lengths
  <2>2. CASE v = 0
    BY <2>1, <2>2, ScriptDone
  <2>3. CASE v # 0
    BY <2>1, <2>3, ScriptDone
  <2> QED
    BY <2>2, <2>3
<1>4. Database(v + 1, 1)
  <2>1. v + 1 < 3 \/ (v + 1 = 3 /\ 1 <= 2) <=> v < 3
    OBVIOUS
  <2>2. NewOwner \in Owner
    BY DEF NewOwner, Owner
  <2>3. songRows = SongsIn(v + 1, 1)
    BY <1>1, <1>2 DEF SongsIn
  <2>4. recorded = 1 .. (v + 1) - 1
    BY <1>1
  <2> QED
    BY <1>1, <1>2, <1>3, <2>1, <2>2, <2>3, <2>4 DEF Database
<1>5. Whole
  <2>1. v + 1 \in 1 .. 6
    OBVIOUS
  <2> QED
    BY <1>2, <1>4, <2>1 DEF Whole
<1>6. TypeOK
  <2>1. schema \subseteq SchemaAt(5)
    BY <1>1 DEF SchemaAt
  <2>2. owner \in Owner \cup {Unset}
    BY <1>1 DEF NewOwner, Owner
  <2>3. recorded \subseteq Versions /\ 1 \in Versions
    BY <1>1, Lengths
  <2> QED
    BY <1>1, <1>2, <2>1, <2>2, <2>3, Lengths DEF TypeOK
<1> QED
  BY <1>2, <1>5, <1>6 DEF Inv, Checked, FailureHasCause

\* The steps before the migration change nothing in the database.
LEMMA StartSteps ==
  ASSUME Inv, Deploy \/ CreateApp \/ ValidateAuth
  PROVE  Inv'
<1> USE DEF Inv, TypeOK
<1>1. UNCHANGED disk /\ UNCHANGED torn /\ UNCHANGED <<version, next>>
  BY DEF Deploy, CreateApp, ValidateAuth, process
<1>2. pc \in {"down", "validate"} /\ pc' \in {"down", "validate", "migrate", "failed"}
  BY DEF Deploy, CreateApp, ValidateAuth, process
<1>3. (Whole \/ Left)'
  <2>1. CASE Whole
    <3>1. PICK v \in 1 .. 6 : Database(v, 1)
      BY <2>1 DEF Whole
    <3>2. Database(v, 1)'
      BY <1>1, <3>1, DatabaseStays
    <3>3. pc' = "migrate" => keys' = TRUE
      BY <1>2 DEF Deploy, CreateApp, ValidateAuth, process
    <3> QED
      BY <1>1, <1>2, <2>1, <3>2, <3>3 DEF Whole
  <2>2. CASE Left
    <3>1. PICK v \in Versions : torn = v /\ \E n \in 2 .. Len(Scripts[v]) + 1 : Database(v, n)
      BY <2>2 DEF Left
    <3>2. PICK n \in 2 .. Len(Scripts[v]) + 1 : Database(v, n)
      BY <3>1
    <3>3. Database(v, n)'
      BY <1>1, <3>2, DatabaseStays
    <3> QED
      BY <1>1, <1>2, <2>2, <3>1, <3>3 DEF Left
  <2> QED
    BY <1>2, <2>1, <2>2 DEF Running
<1>4. TypeOK'
  BY <1>1, <1>2 DEF disk, Deploy, CreateApp, ValidateAuth, process
<1>5. Checked'
  BY <1>2 DEF Checked, Deploy, CreateApp, ValidateAuth, process
<1>6. FailureHasCause'
  <2>1. CASE Deploy
    BY <2>1 DEF FailureHasCause, Deploy, process
  <2>2. CASE CreateApp
    BY <2>2 DEF FailureHasCause, CreateApp
  <2>3. CASE ValidateAuth
    BY <2>3, EmailAssumption DEF FailureHasCause, ValidateAuth, SettingsOK, Settings
  <2> QED
    BY <2>1, <2>2, <2>3
<1> QED
  BY <1>3, <1>4, <1>5, <1>6
\* The script that is run next is the one after the versions recorded.
LEMMA NextScriptInv ==
  ASSUME Inv, NextScript
  PROVE  Inv'
<1> USE DEF Inv, TypeOK
<1>1. /\ UNCHANGED disk /\ UNCHANGED <<settings, keys, torn>> /\ pc = "migrate"
      /\ pc' \in {"owner", "script"}
  BY DEF NextScript
<1> DEFINE missing == Versions \ recorded
<1>2. ASSUME NEW v \in 1 .. 6, recorded = 1 .. v - 1
      PROVE  /\ v = 6 => pc' = "owner" /\ UNCHANGED <<version, next>>
             /\ v # 6 => pc' = "script" /\ version' = v /\ next' = 1
  <2>1. CASE v = 6
    <3>1. missing = {}
      BY <1>2, <2>1, Lengths
    <3> QED
      BY <2>1, <3>1 DEF NextScript
  <2>2. CASE v # 6
    <3>1. v \in missing /\ missing = v .. 5
      BY <1>2, <2>2, Lengths
    <3>2. \A w \in missing : (\A u \in missing : w <= u) <=> w = v
      BY <3>1
    <3>3. (CHOOSE w \in missing : \A u \in missing : w <= u) = v
      BY <3>1, <3>2
    <3>4. missing # {}
      BY <3>1
    <3> QED
      BY <2>2, <3>3, <3>4 DEF NextScript
  <2> QED
    BY <2>1, <2>2
<1>3. TypeOK' /\ (Whole \/ Running \/ Left)'
  <2>1. CASE Whole
    <3>1. PICK v \in 1 .. 6 : Database(v, 1)
      BY <2>1 DEF Whole
    <3>2. Database(v, 1)'
      BY <1>1, <3>1, DatabaseStays
    <3>3. recorded = 1 .. v - 1
      BY <3>1 DEF Database
    <3>4. CASE v = 6
      <4>1. pc' = "owner" /\ UNCHANGED <<version, next>>
        BY <1>2, <3>3, <3>4
      <4> QED
        BY <1>1, <2>1, <3>2, <3>4, <4>1 DEF Whole, disk
    <3>5. CASE v # 6
      <4>1. pc' = "script" /\ version' = v /\ next' = 1
        BY <1>2, <3>3, <3>5
      <4>2. v \in Versions
        BY <3>5, Lengths
      <4>3. Database(version, next)'
        BY <3>2, <4>1 DEF Database, SongsIn
      <4>4. (keys = KeysIn(version, next))'
        BY <1>1, <2>1, <4>1 DEF Whole, KeysIn
      <4>5. (next <= Len(Scripts[version]) + 1)'
        BY <4>1, <4>2, ScriptLength
      <4> QED
        BY <1>1, <2>1, <4>1, <4>2, <4>3, <4>4, <4>5 DEF Running, Whole, disk
    <3> QED
      BY <3>4, <3>5
  <2>2. CASE Left
    <3>1. PICK v \in Versions : torn = v /\ \E n \in 2 .. Len(Scripts[v]) + 1 : Database(v, n)
      BY <2>2 DEF Left
    <3>2. PICK n \in 2 .. Len(Scripts[v]) + 1 : Database(v, n)
      BY <3>1
    <3>3. Database(v, n)'
      BY <1>1, <3>2, DatabaseStays
    <3>4. recorded = 1 .. v - 1 /\ v \in 1 .. 6 /\ v # 6
      BY <3>2, Lengths DEF Database
    <3>5. pc' = "script" /\ version' = v /\ next' = 1
      BY <1>2, <3>4
    <3>6. Left'
      BY <1>1, <3>1, <3>3, <3>5 DEF Left
    <3> QED
      BY <1>1, <3>5, <3>6 DEF disk
  <2> QED
    BY <1>1, <2>1, <2>2 DEF Running
<1>4. Checked' /\ FailureHasCause'
  BY <1>1 DEF Checked, FailureHasCause
<1> QED
  BY <1>3, <1>4

\* What a script adds is of the schema.
LEMMA AddsOfSchema ==
  ASSUME NEW v \in Versions, NEW n \in 1 .. Len(Scripts[v]), Scripts[v][n].op = "add"
  PROVE  Scripts[v][n].adds \in SchemaAt(5) \cup {"songs_with_owner"}
<1>1. n \in DOMAIN Scripts[v] /\ v \in 1 .. 5
  BY Lengths, Domains
<1>2. Scripts[v][n].adds \in Added(v) \cup {"songs_with_owner"}
  BY <1>1 DEF Added
<1> QED
  BY <1>1, <1>2 DEF SchemaAt

\* A statement of a script run from its start succeeds; the first one of a script
\* that was cut fails.
LEMMA StatementInv ==
  ASSUME Inv, Statement
  PROVE  Inv'
<1> USE DEF Inv
<1> DEFINE s == Scripts[version][next]
<1>1. /\ pc = "script" /\ version \in Versions /\ next \in 1 .. Len(Scripts[version])
      /\ invited \subseteq Emails
      /\ UNCHANGED <<recorded, invited, settings, version, torn>>
  <2>1. version \in Versions /\ next \in 1 .. 14 /\ invited \subseteq Emails
    BY DEF TypeOK
  <2>2. Len(Scripts[version]) \in Nat
    BY <2>1, ScriptLength
  <2> QED
    BY <2>1, <2>2 DEF Statement
<1>2. \/ /\ CanRun(s) /\ Effect(s) /\ next' = next + 1 /\ pc' = pc
      \/ /\ ~CanRun(s) /\ pc' = "failed"
         /\ UNCHANGED <<schema, songRows, pages, owner, keys, next>>
  BY DEF Statement
<1>3. CASE Running
  <2>1. PICK v \in Versions, n \in 1 .. Len(Scripts[version]) : v = version /\ n = next
    BY <1>1
  <2>2. n \in 1 .. Len(Scripts[v]) /\ Database(v, n) /\ keys = KeysIn(v, n) /\ s = Scripts[v][n]
    BY <1>3, <2>1 DEF Running
  <2>3. /\ CanRun(s)
        /\ Effect(s) /\ UNCHANGED <<recorded, invited>> =>
              Database(v, n + 1)' /\ keys' = KeysIn(v, n + 1)
    BY <1>1, <2>2, StatementRuns
  <2>4. Effect(s) /\ next' = n + 1 /\ pc' = "script" /\ version' = v
    BY <1>1, <1>2, <2>1, <2>3
  <2>5. Database(v, n + 1)' /\ keys' = KeysIn(v, n + 1)
    BY <1>1, <2>3, <2>4
  <2>6. Len(Scripts[v]) \in Nat /\ Len(Scripts[v]) <= 13 /\ n \in Nat
    BY ScriptLength, <2>2
  <2>7. Running'
    <3>1. Database(version, next)'
      BY <2>4, <2>5 DEF Database, SongsIn
    <3>2. (next <= Len(Scripts[version]) + 1)'
      BY <2>2, <2>4, <2>6
    <3>3. (keys = KeysIn(version, next))'
      BY <2>4, <2>5
    <3> QED
      BY <1>1, <1>3, <2>4, <3>1, <3>2, <3>3 DEF Running
  <2>8. TypeOK'
    <3>1. schema' \subseteq SchemaAt(5) \cup {"songs_with_owner"}
      <4>1. schema \subseteq SchemaAt(5) \cup {"songs_with_owner"}
        BY Lengths DEF TypeOK
      <4>2. s.op = "add" => s.adds \in SchemaAt(5) \cup {"songs_with_owner"}
        BY <2>2, AddsOfSchema
      <4>3. "songs" \in SchemaAt(5)
        BY OldTables DEF SchemaAt
      <4> QED
        BY <2>4, <4>1, <4>2, <4>3 DEF Effect
    <3>2. songRows' \subseteq {"songs", "songs_with_owner"} /\ pages' \in {"none", "kept"}
      BY <2>5 DEF Database, SongsIn
    <3>3. owner' \in Owner \cup {Unset}
      BY <2>5 DEF Database
    <3>4. keys' \in BOOLEAN
      BY <2>5 DEF KeysIn
    <3>5. next' \in 1 .. 14
      BY <2>2, <2>4, <2>6
    <3> QED
      BY <1>1, <2>4, <3>1, <3>2, <3>3, <3>4, <3>5, Lengths DEF TypeOK
  <2>9. Checked' /\ FailureHasCause'
    BY <1>1, <2>4 DEF Checked, FailureHasCause
  <2> QED
    BY <2>7, <2>8, <2>9
<1>4. CASE Left
  <2>1. PICK v \in Versions : torn = v /\ \E n \in 2 .. Len(Scripts[v]) + 1 : Database(v, n)
    BY <1>4 DEF Left
  <2>2. PICK n \in 2 .. Len(Scripts[v]) + 1 : Database(v, n)
    BY <2>1
  <2>3. version = v /\ next = 1
    BY <1>1, <1>4, <2>1 DEF Left
  <2>4. ~CanRun(s)
    BY <2>2, <2>3, CutFails
  <2>5. pc' = "failed" /\ UNCHANGED disk /\ UNCHANGED <<keys, next>>
    BY <1>1, <1>2, <2>4 DEF disk
  <2>6. Database(v, n)'
    BY <2>2, <2>5, DatabaseStays
  <2>7. Left'
    BY <1>1, <2>1, <2>5, <2>6 DEF Left
  <2>8. FailureHasCause'
    <3>1. torn # 0 /\ torn \notin recorded
      BY <2>1, <2>2, Lengths DEF Database
    <3> QED
      BY <1>1, <3>1 DEF FailureHasCause, Cut
  <2>9. TypeOK' /\ Checked'
    BY <1>1, <2>5 DEF TypeOK, Checked, disk
  <2> QED
    BY <2>7, <2>8, <2>9
<1> QED
  BY <1>1, <1>3, <1>4 DEF Whole
\* A version is recorded after the last statement of its script.
LEMMA RecordInv ==
  ASSUME Inv, Record
  PROVE  Inv'
<1> USE DEF Inv
<1>1. /\ pc = "script" /\ version \in Versions /\ next \in 1 .. 14 /\ next > Len(Scripts[version])
      /\ recorded' = recorded \cup {version} /\ next' = next /\ pc' = "migrate"
      /\ UNCHANGED <<schema, songRows, pages, owner, invited, settings, version, keys, torn>>
  BY DEF Record, TypeOK
<1>2. Running
  <2>1. Len(Scripts[version]) \in Nat /\ Len(Scripts[version]) >= 4
    BY <1>1, ScriptLength
  <2>2. next # 1
    BY <1>1, <2>1
  <2> QED
    BY <1>1, <2>2 DEF Whole, Left
<1>3. PICK v \in Versions : v = version
  BY <1>1
<1>4. Len(Scripts[v]) \in Nat /\ next = Len(Scripts[v]) + 1
  BY <1>1, <1>2, <1>3, ScriptLength DEF Running
<1>5. Database(v + 1, 1)'
  <2>1. Database(v, Len(Scripts[v]) + 1)
    BY <1>2, <1>3, <1>4 DEF Running
  <2> QED
    BY <1>1, <1>3, <2>1, ScriptRecorded
<1>6. keys = TRUE
  <2>1. ~(v = 3 /\ next \in 8 .. 12)
    <3>1. CASE v = 3
      <4>1. next = 14
        BY <1>4, <3>1, Lengths
      <4> QED
        BY <4>1
    <3> QED
      BY <3>1
  <2> QED
    BY <1>2, <1>3, <2>1 DEF Running, KeysIn
<1>7. Whole'
  <2>1. v + 1 \in 1 .. 6
    BY <1>3, Lengths
  <2> QED
    BY <1>1, <1>2, <1>5, <1>6, <2>1 DEF Whole, Running
<1>8. TypeOK' /\ Checked' /\ FailureHasCause'
  BY <1>1 DEF TypeOK, Checked, FailureHasCause
<1> QED
  BY <1>7, <1>8

\* The database after the last script, which runs before the owner is prepared.
LEMMA VersionSix ==
  ASSUME Database(6, 1)
  PROVE  /\ recorded = Versions /\ schema = SchemaAt(5)
         /\ owner \in Owner /\ owner.email \notin invited
BY WholeSchema, Lengths

\* The owner's row takes the address and the state its environment asks for.
LEMMA OwnerSteps ==
  ASSUME Inv, PrepareInitialOwner \/ OwnerSignsIn
  PROVE  Inv'
<1> USE DEF Inv
<1>1. /\ pc \in {"owner", "serving"} /\ pc' \in {"failed", "prune", "serving"}
      /\ UNCHANGED <<schema, recorded, songRows, pages, invited, settings, version, next, keys, torn>>
  BY DEF PrepareInitialOwner, OwnerSignsIn, process
<1>2. Whole
  BY <1>1 DEF Running, Left
<1>3. Database(6, 1)
  BY <1>1, <1>2 DEF Whole
<1>4. owner \in Owner /\ owner.email \notin invited /\ settings \in Settings
  BY <1>3, VersionSix DEF TypeOK
<1>5. owner' \in Owner /\ owner'.email \notin invited
  <2>1. CASE PrepareInitialOwner
    <3>1. CASE settings.email \in invited
      BY <1>4, <2>1, <3>1 DEF PrepareInitialOwner
    <3>2. CASE settings.email \notin invited
      <4>1. owner' = [email |-> IF settings.email = Unset THEN owner.email ELSE settings.email,
                      status |-> IF settings.auth THEN owner.status ELSE "active"]
        BY <2>1, <3>2 DEF PrepareInitialOwner
      <4> QED
        BY <1>4, <3>2, <4>1 DEF Owner, Settings
    <3> QED
      BY <3>1, <3>2
  <2>2. CASE OwnerSignsIn
    <3>1. owner' = [owner EXCEPT !.status = "active"]
      BY <2>2 DEF OwnerSignsIn
    <3> QED
      BY <1>4, <3>1 DEF Owner
  <2> QED
    BY <2>1, <2>2
<1>6. Database(6, 1)'
  BY <1>1, <1>3, <1>5 DEF Database, SongsIn
<1>7. Whole'
  BY <1>1, <1>2, <1>6 DEF Whole
<1>8. TypeOK'
  BY <1>1, <1>5 DEF TypeOK
<1>9. Checked'
  <2>1. CASE PrepareInitialOwner
    <3>1. CASE settings.email \in invited
      BY <2>1, <3>1 DEF PrepareInitialOwner, Checked
    <3>2. CASE settings.email \notin invited
      <4>1. owner' = [email |-> IF settings.email = Unset THEN owner.email ELSE settings.email,
                      status |-> IF settings.auth THEN owner.status ELSE "active"]
        BY <2>1, <3>2 DEF PrepareInitialOwner
      <4>2. pc' = "prune" /\ pc = "owner"
        BY <2>1, <3>2 DEF PrepareInitialOwner
      <4> QED
        BY <1>1, <4>1, <4>2 DEF Checked
    <3> QED
      BY <3>1, <3>2
  <2>2. CASE OwnerSignsIn
    <3>1. owner' = [owner EXCEPT !.status = "active"] /\ pc' = pc /\ pc = "serving"
      BY <2>2 DEF OwnerSignsIn, process
    <3>2. owner'.email = owner.email /\ owner'.status = "active"
      BY <1>4, <3>1 DEF Owner
    <3> QED
      BY <1>1, <3>1, <3>2 DEF Checked
  <2> QED
    BY <2>1, <2>2
<1>10. FailureHasCause'
  <2>1. pc' = "failed" => settings.email \in invited
    BY DEF PrepareInitialOwner, OwnerSignsIn, process
  <2> QED
    BY <1>1, <2>1 DEF FailureHasCause
<1> QED
  BY <1>7, <1>8, <1>9, <1>10

\* A server that answers adds songs and users; a prune adds nothing.
LEMMA ServingSteps ==
  ASSUME Inv, PruneExpired \/ ImportSong \/ \E email \in Emails : InviteUser(email)
  PROVE  Inv'
<1> USE DEF Inv
<1>1. /\ pc \in {"prune", "serving"} /\ pc' = "serving"
      /\ UNCHANGED <<schema, recorded, owner, settings, version, next, keys, torn>>
  BY DEF PruneExpired, ImportSong, InviteUser, disk, process
<1>2. Whole
  BY <1>1 DEF Running, Left
<1>3. Database(6, 1)
  BY <1>1, <1>2 DEF Whole
<1>4. owner \in Owner /\ owner.email \notin invited
  BY <1>3, VersionSix
<1>5. owner.email \notin invited' /\ invited' \subseteq Emails
  BY <1>4 DEF PruneExpired, ImportSong, InviteUser, disk, TypeOK
<1>6. pages' \in {"none", "kept"} /\ songRows' = SongsIn(6, 1)'
  <2>1. CASE ImportSong
    BY <2>1 DEF ImportSong, SongsIn
  <2>2. CASE UNCHANGED <<songRows, pages>>
    BY <1>3, <2>2 DEF Database, SongsIn
  <2> QED
    BY <2>1, <2>2 DEF PruneExpired, InviteUser, disk
<1>7. Database(6, 1)'
  BY <1>1, <1>3, <1>4, <1>5, <1>6 DEF Database
<1>8. Whole'
  BY <1>1, <1>2, <1>7 DEF Whole
<1>9. TypeOK'
  <2>1. songRows' \subseteq {"songs", "songs_with_owner"} /\ pages' \in {"none", "kept", "cascaded"}
    BY <1>6 DEF SongsIn
  <2> QED
    BY <1>1, <1>5, <2>1 DEF TypeOK
<1>10. Checked' /\ FailureHasCause'
  BY <1>1 DEF Checked, FailureHasCause
<1> QED
  BY <1>8, <1>9, <1>10

\* A kill inside a script leaves what its statements so far have done.
LEMMA StopInv ==
  ASSUME Inv, Stop
  PROVE  Inv'
<1> USE DEF Inv
<1>1. /\ torn' = (IF pc = "script" /\ next > 1 THEN version ELSE torn) /\ pc' = "down"
      /\ UNCHANGED disk /\ UNCHANGED <<settings, version, next, keys>>
  BY DEF Stop
<1>2. (Whole \/ Left)'
  <2>1. CASE Whole
    <3>1. PICK v \in 1 .. 6 : Database(v, 1)
      BY <2>1 DEF Whole
    <3>2. Database(v, 1)'
      BY <1>1, <3>1, DatabaseStays
    <3> QED
      BY <1>1, <2>1, <3>2 DEF Whole
  <2>2. CASE Left
    <3>1. PICK v \in Versions : torn = v /\ \E n \in 2 .. Len(Scripts[v]) + 1 : Database(v, n)
      BY <2>2 DEF Left
    <3>2. PICK n \in 2 .. Len(Scripts[v]) + 1 : Database(v, n)
      BY <3>1
    <3>3. Database(v, n)'
      BY <1>1, <3>2, DatabaseStays
    <3>4. torn' = v
      BY <1>1, <2>2, <3>1 DEF Left
    <3> QED
      BY <1>1, <3>3, <3>4 DEF Left
  <2>3. CASE Running
    <3>1. PICK v \in Versions, n \in 1 .. 14 : v = version /\ n = next
      BY DEF TypeOK
    <3>2. Database(v, n)'
      <4>1. Database(v, n)
        BY <2>3, <3>1 DEF Running
      <4> QED
        BY <1>1, <4>1, DatabaseStays
    <3>3. CASE n = 1
      <4>1. v \in 1 .. 6
        BY Lengths
      <4> QED
        BY <1>1, <2>3, <3>1, <3>2, <3>3, <4>1 DEF Running, Whole
    <3>4. CASE n # 1
      <4>1. Len(Scripts[v]) \in Nat
        BY ScriptLength
      <4>2. n \in 2 .. Len(Scripts[v]) + 1
        BY <2>3, <3>1, <3>4, <4>1 DEF Running
      <4>3. torn' = v
        BY <1>1, <2>3, <3>1, <3>4 DEF Running
      <4> QED
        BY <1>1, <3>2, <4>2, <4>3 DEF Left
    <3> QED
      BY <3>3, <3>4
  <2> QED
    BY <2>1, <2>2, <2>3
<1>3. TypeOK' /\ Checked' /\ FailureHasCause'
  BY <1>1 DEF TypeOK, Checked, FailureHasCause, disk
<1> QED
  BY <1>2, <1>3
\* Every step keeps the invariant.
LEMMA NextInv == Inv /\ [Next]_vars => Inv'
<1> SUFFICES ASSUME Inv, [Next]_vars PROVE Inv'
  OBVIOUS
<1>1. CASE Next
  BY <1>1, StartSteps, NextScriptInv, StatementInv, RecordInv, OwnerSteps, ServingSteps, StopInv
  DEF Next
<1>2. CASE UNCHANGED vars
  <2>1. UNCHANGED disk /\ UNCHANGED <<settings, pc, version, next, keys, torn>>
    BY <1>2 DEF vars, disk, process
  <2> QED
    BY <2>1 DEF Inv, TypeOK, Whole, Running, Left, Checked, FailureHasCause, Cut, disk,
                Database, SongsIn
<1> QED
  BY <1>1, <1>2

-------------------------------------------------------------------------------
(* The theorems.                                                              *)

LEMMA SpecInv == Spec => []Inv
BY InitInv, NextInv, PTL DEF Spec

\* The values of the variables, for every set of addresses (main.py, db.py,
\* config.py and auth.py at the start of the server).
THEOREM TypeCorrect == Spec => []TypeOK
<1>1. Inv => TypeOK
  BY DEF Inv
<1> QED
  BY <1>1, SpecInv, PTL

\* A start fails for its settings, for the owner's address or for a migration
\* that was cut short, and for nothing else: no statement of db.py's scripts
\* fails on a database that the scripts before it left.
THEOREM FailuresAreCaused == Spec => []FailureHasCause
<1>1. Inv => FailureHasCause
  BY DEF Inv
<1> QED
  BY <1>1, SpecInv, PTL

\* Wherever a kill stops db.py migrate, and 003's rebuild of songs above all, the
\* songs' rows are in a table and no page is cascaded away.
THEOREM SongsAreKept == Spec => []SongsSurvive
<1>1. Inv => SongsSurvive
  <2> SUFFICES ASSUME NEW v, NEW n, Database(v, n) PROVE SongsSurvive
    BY DEF Inv, Whole, Running, Left
  <2> QED
    BY DEF Database, SongsIn, SongsSurvive
<1> QED
  BY <1>1, SpecInv, PTL

\* Added(u) of a version before the one that runs is in the schema, with songs
\* under its other name between 003's drop and its rename.
LEMMA AppliedBefore ==
  ASSUME NEW v \in 1 .. 6, NEW n \in 1 .. 14, Database(v, n),
         v # 6 => n <= Len(Scripts[v]) + 1, v = 6 => n = 1
  PROVE  RecordedIsApplied
<1> SUFFICES ASSUME NEW u \in 1 .. v - 1, NEW x \in Added(u)
             PROVE  x \in schema \/ (x = "songs" /\ "songs_with_owner" \in schema)
  BY DEF RecordedIsApplied, Database
<1>1. x \in SchemaAt(v - 1) /\ x # "songs_with_owner"
  BY DEF SchemaAt, Added
<1>2. schema = (SchemaAt(v - 1) \cup AddedBefore(v, n)) \ Gone(v, n)
  BY DEF Database, SchemaIn
<1>3. CASE v = 3 /\ n = 11
  <2>1. "songs_with_owner" \in AddedBefore(v, n)
    BY <1>3, Script3 DEF AddedBefore, Adds
  <2> QED
    BY <1>1, <1>2, <1>3, <2>1 DEF Gone
<1>4. CASE ~(v = 3 /\ n = 11)
  BY <1>1, <1>2, <1>4 DEF Gone
<1> QED
  BY <1>3, <1>4

\* What schema_migrations records is there (db.py), and a server that answers
\* has the whole schema, settings it may run under and the owner its environment
\* names (main.py, config.py, auth.py).
THEOREM RecordedAreReady == Spec => []RecordedIsReady
<1>1. Inv => RecordedIsApplied
  <2> SUFFICES ASSUME Inv PROVE RecordedIsApplied
    OBVIOUS
  <2>1. ASSUME NEW v \in 1 .. 6, Database(v, 1) PROVE RecordedIsApplied
    <3>1. v # 6 => 1 <= Len(Scripts[v]) + 1
      BY ScriptLength, Lengths
    <3> QED
      BY <2>1, <3>1, AppliedBefore
  <2>2. ASSUME NEW v \in Versions, NEW n \in 1 .. Len(Scripts[v]) + 1, Database(v, n)
        PROVE  RecordedIsApplied
    <3>1. /\ Len(Scripts[v]) \in Nat /\ Len(Scripts[v]) <= 13 /\ v \in 1 .. 6 /\ v # 6
          /\ n \in Nat /\ n >= 1 /\ n <= Len(Scripts[v]) + 1
      BY ScriptLength, Lengths
    <3>2. n \in 1 .. 14
      BY <3>1
    <3> QED
      BY <2>2, <3>1, <3>2, AppliedBefore
  <2>3. CASE Whole
    BY <2>1, <2>3 DEF Whole
  <2>4. CASE Running
    <3>1. version \in Versions /\ next \in 1 .. 14 /\ Database(version, next)
          /\ next <= Len(Scripts[version]) + 1
      BY <2>4 DEF Inv, TypeOK, Running
    <3>2. next \in 1 .. Len(Scripts[version]) + 1
      BY <3>1, ScriptLength
    <3> QED
      BY <2>2, <3>1, <3>2
  <2>5. CASE Left
    <3>1. PICK v \in Versions : \E n \in 2 .. Len(Scripts[v]) + 1 : Database(v, n)
      BY <2>5 DEF Left
    <3>2. PICK n \in 2 .. Len(Scripts[v]) + 1 : Database(v, n)
      BY <3>1
    <3>3. n \in 1 .. Len(Scripts[v]) + 1
      BY ScriptLength
    <3> QED
      BY <2>2, <3>2, <3>3
  <2> QED
    BY <2>3, <2>4, <2>5 DEF Inv
<1>2. Inv => ServingMeansReady
  <2> SUFFICES ASSUME Inv, pc = "serving"
               PROVE  ServingMeansReady
    BY DEF ServingMeansReady
  <2>1. Database(6, 1)
    BY DEF Inv, Whole, Running, Left
  <2>2. recorded = Versions /\ schema = SchemaAt(Len(Scripts)) /\ owner.email \notin invited
    BY <2>1, VersionSix, Lengths
  <2>3. settings \in Settings
    BY DEF Inv, TypeOK
  <2> QED
    BY <2>2, <2>3 DEF ServingMeansReady, Inv, Checked, SettingsOK, Settings
<1> QED
  BY <1>1, <1>2, SpecInv, PTL DEF RecordedIsReady

\* No start after a cut changes the database (db.py migrate fails at the first
\* statement of the script that was cut, before anything of it is committed).
THEOREM CutsAreLeftAlone == Spec => CutIsLeftAlone
<1>1. ASSUME Inv, [Next]_vars PROVE Cut => UNCHANGED disk
  <2> SUFFICES ASSUME Cut PROVE UNCHANGED disk
    OBVIOUS
  <2>1. Left
    BY <1>1 DEF Inv, Whole, Running, Cut
  <2>2. pc \in {"down", "validate", "migrate", "script", "failed"}
    BY <2>1 DEF Left
  <2>3. CASE Statement
    <3>1. pc = "script"
      BY <2>3 DEF Statement
    <3>2. PICK v \in Versions : torn = v /\ \E n \in 2 .. Len(Scripts[v]) + 1 : Database(v, n)
      BY <2>1 DEF Left
    <3>3. PICK n \in 2 .. Len(Scripts[v]) + 1 : Database(v, n)
      BY <3>2
    <3>4. version = v /\ next = 1
      BY <2>1, <3>1, <3>2 DEF Left
    <3>5. ~CanRun(Scripts[v][1])
      BY <3>3, CutFails
    <3> QED
      BY <2>3, <3>4, <3>5 DEF Statement, disk
  <2>4. CASE Record
    <3>1. pc = "script" /\ next > Len(Scripts[version]) /\ version \in Versions
      BY <1>1, <2>4 DEF Record, Inv, TypeOK
    <3>2. next = 1
      BY <2>1, <3>1 DEF Left
    <3> QED
      BY <3>1, <3>2, ScriptLength
  <2>5. CASE UNCHANGED vars
    BY <2>5 DEF vars
  <2>6. CASE Deploy \/ CreateApp \/ ValidateAuth \/ NextScript \/ Stop \/ PruneExpired
    BY <2>6 DEF Deploy, CreateApp, ValidateAuth, NextScript, Stop, PruneExpired, disk
  <2>7. ~PrepareInitialOwner /\ ~ImportSong /\ ~OwnerSignsIn
        /\ ~(\E email \in Emails : InviteUser(email))
    BY <2>2 DEF PrepareInitialOwner, ImportSong, OwnerSignsIn, InviteUser
  <2> QED
    BY <1>1, <2>3, <2>4, <2>5, <2>6, <2>7 DEF Next
<1> QED
  BY <1>1, SpecInv, PTL DEF Spec, CutIsLeftAlone
===============================================================================
