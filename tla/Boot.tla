--------------------------------- MODULE Boot ---------------------------------
(***************************************************************************)
(* The start of the server on a database of any earlier version: main.py   *)
(* create_app and its lifespan, db.py migrate, config.py validate_auth and *)
(* auth.py prepare_initial_owner.  A migration is an SQL script whose      *)
(* statements commit one by one; its version is recorded after the last.   *)
(* The process may be killed between any two steps and is started again,   *)
(* perhaps with other settings.                                            *)
(***************************************************************************)
EXTENDS Integers, Sequences, FiniteSets

CONSTANTS
  Emails,       \* addresses, lower case
  Unset         \* an environment variable that is not set

ASSUME EmailAssumption == Unset \notin Emails

Settings == [parses : BOOLEAN, auth : BOOLEAN, complete : BOOLEAN,
             inRange : BOOLEAN, email : Emails \cup {Unset}]

\* ---------------------------------------------------------------- migrations
\* A statement works on a table that must exist (on) and adds an object that
\* must not (adds), or it is one of the steps that rebuild songs.
Create(t) == [op |-> "add", adds |-> t, on |-> "-"]
AddTo(t, c) == [op |-> "add", adds |-> c, on |-> t]
Do(op) == [op |-> op, adds |-> "-", on |-> "-"]

Scripts == <<
  << Create("songs"), Create("scans"), AddTo("scans", "idx_scans_song"),
     Create("transcriptions"), AddTo("transcriptions", "idx_transcriptions_scan") >>,
  << AddTo("transcriptions", "model"), AddTo("transcriptions", "input_tokens"),
     AddTo("transcriptions", "output_tokens"),
     AddTo("transcriptions", "idx_transcriptions_scan_unique") >>,
  << Create("users"), Do("insert_owner"), Create("identities"),
     AddTo("identities", "idx_identities_user"), Create("sessions"),
     AddTo("sessions", "idx_sessions_user"), Do("keys_off"), Create("songs_with_owner"),
     Do("copy_songs"), Do("drop_songs"), Do("rename_songs"), Do("keys_on"),
     AddTo("songs", "idx_songs_owner_created") >>,
  << Create("security_limit_events"), AddTo("security_limit_events", "idx_security_limit_lookup"),
     Create("recognition_idempotency"),
     AddTo("recognition_idempotency", "idx_recognition_idempotency_scan") >>,
  << Create("recognition_runs"), AddTo("recognition_runs", "idx_recognition_runs_scan_created"),
     AddTo("recognition_runs", "idx_recognition_runs_user_created"),
     Create("transcription_revisions"),
     AddTo("transcription_revisions", "idx_transcription_revisions_transcription_created"),
     AddTo("transcriptions", "recognition_run_id"), AddTo("transcriptions", "current_revision_id"),
     AddTo("recognition_idempotency", "idempotency.recognition_run_id"),
     Do("backfill_revisions"), Do("point_at_revisions") >> >>

Versions == 1 .. Len(Scripts)

Added(v) == {Scripts[v][i].adds : i \in {j \in DOMAIN Scripts[v] : Scripts[v][j].op = "add"}}
              \ {"songs_with_owner"}
SchemaAt(v) == UNION {Added(u) : u \in 1 .. v}

VARIABLES
  schema,     \* the tables, indexes and added columns of the database
  recorded,   \* the versions in schema_migrations
  songRows,   \* the tables that hold the songs
  pages,      \* the songs' scans and transcriptions: "none", "kept" or "cascaded"
  owner,      \* the initial owner's row: [email, status], Unset before it exists
  invited,    \* the e-mails of all other users
  settings,   \* the environment of this deployment
  pc,         \* the process
  version,    \* the script it is running
  next,       \* the statement it runs next
  keys,       \* PRAGMA foreign_keys of its connection
  torn        \* history: the script a crash cut short, 0 if none

disk == <<schema, recorded, songRows, pages, owner, invited>>
process == <<pc, version, next, keys>>
vars == <<disk, settings, process, torn>>

Owner == [email : Emails \cup {Unset}, status : {"invited", "active"}]

TypeOK ==
  /\ schema \subseteq SchemaAt(Len(Scripts)) \cup {"songs_with_owner"}
  /\ recorded \subseteq Versions
  /\ songRows \subseteq {"songs", "songs_with_owner"}
  /\ pages \in {"none", "kept", "cascaded"}
  /\ owner \in Owner \cup {Unset}
  /\ invited \subseteq Emails
  /\ settings \in Settings
  /\ pc \in {"down", "validate", "migrate", "script", "owner", "prune", "serving", "failed"}
  /\ version \in Versions
  /\ next \in 1 .. 14
  /\ keys \in BOOLEAN
  /\ torn \in Versions \cup {0}

NewOwner == [email |-> Unset, status |-> "invited"]

\* Any earlier release left its schema, complete, and maybe songs.
Init ==
  /\ \E v \in Versions \cup {0} :
        /\ schema = SchemaAt(v)
        /\ recorded = 1 .. v
        /\ songRows \in (IF v = 0 THEN {{}} ELSE {{}, {"songs"}})
        /\ owner = IF v < 3 THEN Unset ELSE NewOwner
  /\ pages = IF songRows = {} THEN "none" ELSE "kept"
  /\ invited = {}
  /\ settings \in Settings
  /\ pc = "down"
  /\ version = 1 /\ next = 1 /\ keys = TRUE /\ torn = 0

\* -------------------------------------------------------------------- start
Deploy ==
  /\ pc = "down"
  /\ settings' \in Settings
  /\ UNCHANGED <<disk, process, torn>>

\* Settings and create_app: a limit that is no number, or an unknown effort,
\* raises before the server starts.
CreateApp ==
  /\ pc = "down"
  /\ pc' = IF settings.parses THEN "validate" ELSE "failed"
  /\ UNCHANGED <<disk, settings, version, next, keys, torn>>

\* Seeded bug: the settings are checked for being there only.
SettingsOKComplete(s) == s.auth => s.complete /\ s.email # Unset

\* validate_auth: nothing is checked while sign-in is off.
SettingsOK(s) == s.auth => s.complete /\ s.email # Unset /\ s.inRange

ValidateAuth ==
  /\ pc = "validate"
  /\ pc' = IF SettingsOK(settings) THEN "migrate" ELSE "failed"
  /\ keys' = TRUE
  /\ UNCHANGED <<disk, settings, version, next, torn>>

\* ------------------------------------------------------------------- migrate
NextScript ==
  /\ pc = "migrate"
  /\ LET missing == Versions \ recorded
     IN IF missing = {} THEN pc' = "owner" /\ UNCHANGED <<version, next>>
        ELSE /\ version' = CHOOSE v \in missing : \A u \in missing : v <= u
             /\ next' = 1
             /\ pc' = "script"
  /\ UNCHANGED <<disk, settings, keys, torn>>

\* Seeded bug: CREATE TABLE IF NOT EXISTS.
CanRunIfNotExists(s) ==
  CASE s.op = "add"          -> s.on = "-" \/ (s.on \in schema /\ s.adds \notin schema)
    [] s.op = "insert_owner" -> owner = Unset
    [] s.op = "copy_songs"   -> {"songs", "songs_with_owner"} \subseteq schema
    [] s.op = "drop_songs"   -> "songs" \in schema
    [] s.op = "rename_songs" -> "songs_with_owner" \in schema /\ "songs" \notin schema
    [] OTHER                 -> TRUE

\* What SQLite requires of a statement.
CanRun(s) ==
  CASE s.op = "add"          -> s.adds \notin schema /\ (s.on = "-" \/ s.on \in schema)
    [] s.op = "insert_owner" -> owner = Unset
    [] s.op = "copy_songs"   -> {"songs", "songs_with_owner"} \subseteq schema
    [] s.op = "drop_songs"   -> "songs" \in schema
    [] s.op = "rename_songs" -> "songs_with_owner" \in schema /\ "songs" \notin schema
    [] OTHER                 -> TRUE

\* Seeded bug: the rebuild leaves foreign keys on.
DropSongsWithKeys == TRUE

\* Dropping a table deletes its rows, and with the keys on those that refer to it.
DropCascades == keys

Effect(s) ==
  /\ schema' = CASE s.op = "add"          -> schema \cup {s.adds}
                 [] s.op = "drop_songs"   -> schema \ {"songs"}
                 [] s.op = "rename_songs" -> (schema \ {"songs_with_owner"}) \cup {"songs"}
                 [] OTHER                 -> schema
  /\ songRows' = CASE s.op = "copy_songs" /\ songRows # {} -> songRows \cup {"songs_with_owner"}
                   [] s.op = "drop_songs"                  -> songRows \ {"songs"}
                   [] s.op = "rename_songs" /\ songRows # {} -> {"songs"}
                   [] OTHER                                -> songRows
  /\ pages' = IF s.op = "drop_songs" /\ DropCascades /\ pages = "kept" THEN "cascaded" ELSE pages
  /\ owner' = IF s.op = "insert_owner" THEN NewOwner ELSE owner
  /\ keys' = CASE s.op = "keys_off" -> FALSE [] s.op = "keys_on" -> TRUE [] OTHER -> keys

\* One statement of executescript, committed at once, or the error that stops
\* the start.
Statement ==
  /\ pc = "script" /\ next <= Len(Scripts[version])
  /\ LET s == Scripts[version][next]
     IN IF CanRun(s)
        THEN Effect(s) /\ next' = next + 1 /\ pc' = pc
        ELSE pc' = "failed" /\ UNCHANGED <<schema, songRows, pages, owner, keys, next>>
  /\ UNCHANGED <<recorded, invited, settings, version, torn>>

\* Seeded bug: the version is recorded when its script starts.
RecordEarly ==
  /\ pc = "script" /\ next = 2
  /\ recorded' = recorded \cup {version}
  /\ next' = next
  /\ pc' = "migrate"
  /\ UNCHANGED <<schema, songRows, pages, owner, invited, settings, version, keys, torn>>

\* Seeded bug: off by one, the version after it is recorded.
RecordNext ==
  /\ pc = "script" /\ next > Len(Scripts[version])
  /\ recorded' = recorded \cup {version + 1}
  /\ next' = next
  /\ pc' = "migrate"
  /\ UNCHANGED <<schema, songRows, pages, owner, invited, settings, version, keys, torn>>

\* The row of schema_migrations, committed after the script.
Record ==
  /\ pc = "script" /\ next > Len(Scripts[version])
  /\ recorded' = recorded \cup {version}
  /\ next' = next
  /\ pc' = "migrate"
  /\ UNCHANGED <<schema, songRows, pages, owner, invited, settings, version, keys, torn>>

\* ---------------------------------------------------- owner, prune and serve
\* prepare_initial_owner: an e-mail another user has breaks the UNIQUE key and
\* the start with it.
PrepareInitialOwner ==
  /\ pc = "owner"
  /\ IF settings.email \in invited
     THEN pc' = "failed" /\ owner' = owner
     ELSE /\ pc' = "prune"
          /\ owner' = [email |-> IF settings.email = Unset THEN owner.email ELSE settings.email,
                       status |-> IF settings.auth THEN owner.status ELSE "active"]
  /\ UNCHANGED <<schema, recorded, songRows, pages, invited, settings, version, next, keys, torn>>

\* Seeded bug: a prune that fails stops the start.
PruneFatal ==
  /\ pc = "prune"
  /\ pc' \in {"serving", "failed"}
  /\ UNCHANGED <<disk, settings, version, next, keys, torn>>

\* A prune that fails is logged; what it deletes is in Sessions and Recognition.
PruneExpired ==
  /\ pc = "prune"
  /\ pc' = "serving"
  /\ UNCHANGED <<disk, settings, version, next, keys, torn>>

ImportSong ==
  /\ pc = "serving"
  /\ songRows' = {"songs"} /\ pages' = "kept"
  /\ UNCHANGED <<schema, recorded, owner, invited, settings, process, torn>>

\* invite_user refuses an e-mail that is taken.
InviteUser(email) ==
  /\ pc = "serving"
  /\ email \notin invited /\ email # owner.email
  /\ invited' = invited \cup {email}
  /\ UNCHANGED <<schema, recorded, songRows, pages, owner, settings, process, torn>>

\* The invited owner's first login.
OwnerSignsIn ==
  /\ pc = "serving" /\ settings.auth
  /\ owner' = [owner EXCEPT !.status = "active"]
  /\ UNCHANGED <<schema, recorded, songRows, pages, invited, settings, process, torn>>

\* The process ends: killed, replaced by a deployment, or failed.
Stop ==
  /\ pc # "down"
  /\ torn' = IF pc = "script" /\ next > 1 THEN version ELSE torn
  /\ pc' = "down"
  /\ UNCHANGED <<disk, settings, version, next, keys>>

Next ==
  \/ Deploy \/ CreateApp \/ ValidateAuth
  \/ NextScript \/ Statement \/ Record
  \/ PrepareInitialOwner \/ PruneExpired
  \/ ImportSong \/ OwnerSignsIn \/ Stop
  \/ \E email \in Emails : InviteUser(email)

Spec == Init /\ [][Next]_vars

-------------------------------------------------------------------------------
(* Properties. *)

Cut == torn # 0 /\ torn \notin recorded

\* A server that answers has the whole schema, every version recorded, settings
\* it may run under, and the owner its environment names.
ServingMeansReady ==
  pc = "serving" =>
    /\ recorded = Versions /\ schema = SchemaAt(Len(Scripts))
    /\ settings.parses
    /\ settings.auth => settings.complete /\ settings.inRange /\ settings.email \in Emails
    /\ settings.email # Unset => owner.email = settings.email
    /\ ~settings.auth => owner.status = "active"
    /\ owner.email \notin invited

\* The songs and their pages survive a migration and a kill at any statement of
\* it: the rows are in songs or in its copy, and nothing cascades.
SongsSurvive == pages # "none" => songRows # {} /\ pages = "kept"

\* A start fails only for settings it refuses, an initial owner whose e-mail
\* another user has, or a migration that an earlier start left unfinished.
FailureHasCause ==
  pc = "failed" =>
    \/ ~settings.parses
    \/ settings.auth /\ ~(settings.complete /\ settings.inRange /\ settings.email \in Emails)
    \/ settings.email \in invited
    \/ Cut

\* A recorded version is applied: its tables, columns and indexes are there,
\* the songs under their other name while 003 rebuilds them.
RecordedIsApplied ==
  \A v \in recorded :
    Added(v) \subseteq schema \cup (IF "songs_with_owner" \in schema THEN {"songs"} ELSE {})

\* What a version's row and a serving process promise is there.
RecordedIsReady == RecordedIsApplied /\ ServingMeansReady

\* The starts after a migration was cut change nothing in the database: each
\* fails at the first statement of the script, so what the cut left can still
\* be repaired by hand.
CutIsLeftAlone == [][Cut => UNCHANGED disk]_vars
===============================================================================
