----------------------------- MODULE DerivedCache -----------------------------
(***************************************************************************)
(* One scan and one of its derived copies (the thumbnail or the preview):  *)
(* storage._ensure_derived, the routes of routers/scans.py that serve the  *)
(* copy or read it, and delete_scan.                                       *)
(*                                                                         *)
(* All of them are `def` endpoints on the thread pool, and nothing locks   *)
(* the file.  Pillow's save opens the final path with "w+b", which creates *)
(* or truncates it, encodes, writes, and closes.  A file is named by the   *)
(* request that created it, as an inode is: a writer keeps writing to a    *)
(* file that was unlinked under it.                                        *)
(***************************************************************************)
EXTENDS Naturals

CONSTANTS
  Requests,   \* HTTP requests, each served once
  NoFile      \* no such file

ASSUME NoFileAssumption == NoFile \notin Requests

VARIABLES
  row,        \* the scan's row exists
  original,   \* its original exists
  copy,       \* the file at the derived path, or NoFile
  content,    \* what each file holds: "part" or "whole"
  pc,         \* where each request's handler is
  kind,       \* what each request asks for
  file,       \* the file the handler has opened for writing
  created,    \* the handler's save created the file it writes
  answer      \* what each request was answered

copyVars == <<row, original, copy, content, pc, kind, file, created, answer>>

Places == {"idle", "gate", "look", "ensure", "open", "create", "write",
           "respond", "delete", "unlink", "unlinkCopy", "done", "died"}

\* "part" and "whole": 200 with such a body; "none": 415, or 200 without bands.
Outcomes == {"", "part", "whole", "none", "gone", "error", "deleted"}

CopyTypeOK ==
  /\ row \in BOOLEAN /\ original \in BOOLEAN
  /\ copy \in Requests \cup {NoFile}
  /\ content \in [Requests -> {"part", "whole"}]
  /\ pc \in [Requests -> Places]
  /\ kind \in [Requests -> {"", "view", "bands", "delete"}]
  /\ file \in [Requests -> Requests \cup {NoFile}]
  /\ created \in [Requests -> BOOLEAN]
  /\ answer \in [Requests -> Outcomes]

-----------------------------------------------------------------------------
CopyInit ==
  /\ row = TRUE /\ original = TRUE
  /\ copy = NoFile
  /\ content = [r \in Requests |-> "part"]
  /\ pc = [r \in Requests |-> "idle"]
  /\ kind = [r \in Requests |-> ""]
  /\ file = [r \in Requests |-> NoFile]
  /\ created = [r \in Requests |-> FALSE]
  /\ answer = [r \in Requests |-> ""]

Goto(r, place) == pc' = [pc EXCEPT ![r] = place]
Reply(r, outcome) == Goto(r, "done") /\ answer' = [answer EXCEPT ![r] = outcome]

Arrive(r) ==
  /\ pc[r] = "idle"
  /\ kind' \in {[kind EXCEPT ![r] = k] : k \in {"view", "bands", "delete"}}
  /\ Goto(r, "gate")
  /\ UNCHANGED <<row, original, copy, content, file, created, answer>>

\* scan_row.
Gate(r) ==
  /\ pc[r] = "gate"
  /\ IF row THEN /\ Goto(r, IF kind[r] = "delete" THEN "delete" ELSE "look")
                 /\ UNCHANGED answer
            ELSE Reply(r, "gone")
  /\ UNCHANGED <<row, original, copy, content, kind, file, created>>

\* The original must be a file.
Look(r) ==
  /\ pc[r] = "look"
  /\ IF original THEN Goto(r, "ensure") /\ UNCHANGED answer
                 ELSE Reply(r, "gone")
  /\ UNCHANGED <<row, original, copy, content, kind, file, created>>

\* A copy that is there is the copy, whoever is still writing it.
Ensure(r) ==
  /\ pc[r] = "ensure"
  /\ Goto(r, IF copy # NoFile THEN "respond" ELSE "open")
  /\ UNCHANGED <<row, original, copy, content, kind, file, created, answer>>

\* The original is opened and decoded; one that is gone or cannot be decoded
\* gives no copy.
Decode(r) ==
  /\ pc[r] = "open"
  /\ \/ original /\ Goto(r, "create") /\ UNCHANGED answer
     \/ Reply(r, "none")
  /\ UNCHANGED <<row, original, copy, content, kind, file, created>>

\* Image.save opens the path: a new file, or the one that appeared since the
\* check, truncated.
Create(r) ==
  /\ pc[r] = "create"
  /\ LET target == IF copy = NoFile THEN r ELSE copy IN
       /\ copy' = target
       /\ content' = [content EXCEPT ![target] = "part"]
       /\ file' = [file EXCEPT ![r] = target]
       /\ created' = [created EXCEPT ![r] = copy = NoFile]
  /\ Goto(r, "write")
  /\ UNCHANGED <<row, original, kind, answer>>

\* Seeded bug: the response does not wait for the file to be written.
EncodeLater(r) ==
  /\ pc[r] = "write"
  /\ Goto(r, "respond")
  /\ UNCHANGED <<row, original, copy, content, kind, file, created, answer>>

\* Seeded bug: a writer that was not first leaves the writing to the first.
EncodeIfCreated(r) ==
  /\ pc[r] = "write"
  /\ content' = IF created[r] THEN [content EXCEPT ![file[r]] = "whole"] ELSE content
  /\ Goto(r, "respond")
  /\ UNCHANGED <<row, original, copy, kind, file, created, answer>>

\* Every writer writes the same bytes from the start of its file.
Encode(r) ==
  /\ pc[r] = "write"
  /\ content' = [content EXCEPT ![file[r]] = "whole"]
  /\ Goto(r, "respond")
  /\ UNCHANGED <<row, original, copy, kind, file, created, answer>>

\* The encoder or the disk fails: the save removes the path if it had created
\* the file, else leaves it as it is; OSError becomes None.
EncodeFails(r) ==
  /\ pc[r] = "write"
  /\ copy' = IF created[r] THEN NoFile ELSE copy
  /\ Reply(r, "none")
  /\ UNCHANGED <<row, original, content, kind, file, created>>

\* FileResponse sends what the path holds now; the detector opens it, and an
\* image it cannot open is an error.
Respond(r) ==
  /\ pc[r] = "respond"
  /\ Reply(r, IF copy = NoFile \/ (kind[r] = "bands" /\ content[copy] = "part")
                THEN "error" ELSE content[copy])
  /\ UNCHANGED <<row, original, copy, content, kind, file, created>>

\* delete_scan commits, then unlinks the original and the copies.
Delete(r) ==
  /\ pc[r] = "delete"
  /\ row' = FALSE
  /\ Goto(r, "unlink")
  /\ UNCHANGED <<original, copy, content, kind, file, created, answer>>

UnlinkOriginal(r) ==
  /\ pc[r] = "unlink"
  /\ original' = FALSE
  /\ Goto(r, "unlinkCopy")
  /\ UNCHANGED <<row, copy, content, kind, file, created, answer>>

UnlinkCopy(r) ==
  /\ pc[r] = "unlinkCopy"
  /\ copy' = NoFile
  /\ Reply(r, "deleted")
  /\ UNCHANGED <<row, original, content, kind, file, created>>

Handling(r) == pc[r] \notin {"idle", "done", "died"}

\* The process dies: files stay as they are.
Crash ==
  /\ pc' = [r \in Requests |-> IF Handling(r) THEN "died" ELSE pc[r]]
  /\ UNCHANGED <<row, original, copy, content, kind, file, created, answer>>

CopyNext ==
  \/ \E r \in Requests :
       \/ Arrive(r) \/ Gate(r) \/ Look(r) \/ Ensure(r) \/ Decode(r)
       \/ Create(r) \/ Encode(r) \/ EncodeFails(r) \/ Respond(r)
       \/ Delete(r) \/ UnlinkOriginal(r) \/ UnlinkCopy(r)
  \/ Crash

CopySpec == CopyInit /\ [][CopyNext]_copyVars

-----------------------------------------------------------------------------
(* Properties.                                                             *)

\* A half-written copy stays at its path only while a writer has it open, or
\* because a writer of that very file died or failed: concurrent first uses
\* heal each other's truncations.
PartHasCause ==
  copy # NoFile /\ content[copy] = "part" =>
    \E r \in Requests :
      /\ file[r] = copy
      /\ pc[r] \in {"write", "died"} \/ answer[r] = "none"

\* A half-written body is only ever answered to a request that met another
\* one's writing: the first view of a page, alone, gets the whole copy.
PartNeedsAnother ==
  \A r \in Requests :
    answer[r] = "part" => \E other \in Requests \ {r} : file[other] # NoFile
===============================================================================
