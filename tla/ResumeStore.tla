----------------------------- MODULE ResumeStore -----------------------------
(***************************************************************************)
(* The resumes a user manages in the web UI: rows of the resumes table     *)
(* (db.py) and files under data/uploads, written by three handlers of      *)
(* api/service.py: upload_resume, set_primary_resume and delete_resume.    *)
(*                                                                         *)
(* Each handler checks, awaits a transaction, and goes on; between two     *)
(* awaits other requests run.  A transaction is one step: _insert_resume_  *)
(* sync takes the write lock with BEGIN IMMEDIATE before it reads, and     *)
(* _set_primary_resume_sync writes with its first statement.  Requests     *)
(* refused with 400 or 404 change nothing; neither does the get_resume     *)
(* that builds a response.                                                 *)
(***************************************************************************)
EXTENDS Integers

CONSTANTS
  Clients,        \* requests that may be in flight together
  MaxUploads,     \* bound: uploads over the whole behaviour
  MaxFaults       \* bound: requests that raise half way, and crashes

ASSUME Bounds == MaxUploads \in Nat /\ MaxFaults \in Nat

Ids == 1 .. MaxUploads
Files == 1 .. MaxUploads         \* stored_path: a fresh uuid7 name per upload
Steps == {"idle", "insert", "update", "delete", "unlink"}

VARIABLES
  rows,       \* ids of the rows of resumes
  primary,    \* ids of the rows with is_primary = 1
  lastId,     \* the AUTOINCREMENT counter of resumes
  fileOf,     \* fileOf[i]: stored_path of row i (stale once the row is deleted)
  files,      \* files present in data/uploads
  lastFile,   \* names handed out by uuid7str so far
  step,       \* step[c]: what c's handler does when it runs next
  id,         \* id[c]: the resume_id of c's request
  path,       \* path[c]: the stored_path c's handler holds
  faults,     \* requests that raised half way, and crashes, so far
  contended   \* history: were a delete and a set-primary of one resume in flight at once?

vars == <<rows, primary, lastId, fileOf, files, lastFile, step, id, path, faults, contended>>
table == <<rows, primary, lastId, fileOf>>
disk == <<files, lastFile>>

TypeOK ==
  /\ rows \in SUBSET Ids /\ primary \in SUBSET rows
  /\ lastId \in 0 .. MaxUploads /\ lastFile \in 0 .. MaxUploads
  /\ fileOf \in [Ids -> 0 .. MaxUploads]
  /\ files \in SUBSET Files
  /\ step \in [Clients -> Steps]
  /\ id \in [Clients -> 0 .. MaxUploads]
  /\ path \in [Clients -> 0 .. MaxUploads]
  /\ faults \in 0 .. MaxFaults
  /\ contended \in BOOLEAN

Init ==
  /\ rows = {} /\ primary = {} /\ lastId = 0 /\ fileOf = [i \in Ids |-> 0]
  /\ files = {} /\ lastFile = 0
  /\ step = [c \in Clients |-> "idle"]
  /\ id = [c \in Clients |-> 0]
  /\ path = [c \in Clients |-> 0]
  /\ faults = 0 /\ contended = FALSE

InFlight(op, i) == \E c \in Clients : step[c] = op /\ id[c] = i

------------------------------------------------------------------------------
(* upload_resume up to the await on insert_resume: the file comes first.     *)
WriteFile(c) ==
  /\ step[c] = "idle"
  /\ lastFile < MaxUploads
  /\ lastFile' = lastFile + 1
  /\ files' = files \cup {lastFile + 1}
  /\ path' = [path EXCEPT ![c] = lastFile + 1]
  /\ step' = [step EXCEPT ![c] = "insert"]
  /\ UNCHANGED <<table, id, faults, contended>>

(* Variant for mutation checks: the old primary is not unmarked.             *)
InsertResumeKeepingPrimary(c, asked) ==
  /\ step[c] = "insert"
  /\ lastId < MaxUploads
  /\ lastId' = lastId + 1
  /\ rows' = rows \cup {lastId + 1}
  /\ primary' = IF asked \/ rows = {} THEN primary \cup {lastId + 1} ELSE primary
  /\ fileOf' = [fileOf EXCEPT ![lastId + 1] = path[c]]
  /\ step' = [step EXCEPT ![c] = "idle"]
  /\ UNCHANGED <<disk, id, path, faults, contended>>

(* Variant: no AUTOINCREMENT, so the highest id is used again once deleted.  *)
InsertResumeReusingId(c, asked) ==
  /\ step[c] = "insert"
  /\ \E new \in Ids :
       /\ new \notin rows /\ \A i \in rows : i < new
       /\ new = 1 \/ new - 1 \in rows
       /\ rows' = rows \cup {new}
       /\ primary' = IF asked \/ rows = {} THEN {new} ELSE primary
       /\ fileOf' = [fileOf EXCEPT ![new] = path[c]]
  /\ step' = [step EXCEPT ![c] = "idle"]
  /\ UNCHANGED <<lastId, disk, id, path, faults, contended>>

(* _insert_resume_sync: the first resume is primary whatever was asked for.  *)
InsertResume(c, asked) ==
  /\ step[c] = "insert"
  /\ lastId < MaxUploads
  /\ lastId' = lastId + 1
  /\ rows' = rows \cup {lastId + 1}
  /\ primary' = IF asked \/ rows = {} THEN {lastId + 1} ELSE primary
  /\ fileOf' = [fileOf EXCEPT ![lastId + 1] = path[c]]
  /\ step' = [step EXCEPT ![c] = "idle"]
  /\ UNCHANGED <<disk, id, path, faults, contended>>

(* set_primary_resume: the row exists, so no 404.                            *)
CheckPrimary(c, i) ==
  /\ step[c] = "idle"
  /\ i \in rows
  /\ id' = [id EXCEPT ![c] = i]
  /\ step' = [step EXCEPT ![c] = "update"]
  /\ contended' = (contended \/ InFlight("delete", i))
  /\ UNCHANGED <<table, disk, path, faults>>

(* _set_primary_resume_sync: unmark every row, mark the row if it is there.  *)
UpdatePrimary(c) ==
  /\ step[c] = "update"
  /\ primary' = {id[c]} \cap rows
  /\ step' = [step EXCEPT ![c] = "idle"]
  /\ UNCHANGED <<rows, lastId, fileOf, disk, id, path, faults, contended>>

(* Variants: the primary resume may be deleted; the file goes before the row.*)
CheckDeleteOfAny(c, i) ==
  /\ step[c] = "idle"
  /\ i \in rows
  /\ id' = [id EXCEPT ![c] = i]
  /\ path' = [path EXCEPT ![c] = fileOf[i]]
  /\ step' = [step EXCEPT ![c] = "delete"]
  /\ contended' = (contended \/ InFlight("update", i))
  /\ UNCHANGED <<table, disk, faults>>
CheckDeleteAndUnlink(c, i) ==
  /\ step[c] = "idle"
  /\ i \in rows \ primary
  /\ id' = [id EXCEPT ![c] = i]
  /\ path' = [path EXCEPT ![c] = fileOf[i]]
  /\ files' = files \ {fileOf[i]}
  /\ step' = [step EXCEPT ![c] = "delete"]
  /\ contended' = (contended \/ InFlight("update", i))
  /\ UNCHANGED <<table, lastFile, faults>>

(* delete_resume: the row exists and is not primary when it is read.         *)
CheckDelete(c, i) ==
  /\ step[c] = "idle"
  /\ i \in rows \ primary
  /\ id' = [id EXCEPT ![c] = i]
  /\ path' = [path EXCEPT ![c] = fileOf[i]]
  /\ step' = [step EXCEPT ![c] = "delete"]
  /\ contended' = (contended \/ InFlight("update", i))
  /\ UNCHANGED <<table, disk, faults>>

(* Variant: the handler ends with the row and forgets the file.              *)
DeleteRowOnly(c) ==
  /\ step[c] = "delete"
  /\ rows' = rows \ {id[c]}
  /\ primary' = primary \ {id[c]}
  /\ step' = [step EXCEPT ![c] = "idle"]
  /\ UNCHANGED <<lastId, fileOf, disk, id, path, faults, contended>>

(* _delete_resume_sync: by id alone; no row may be left to delete.           *)
DeleteRow(c) ==
  /\ step[c] = "delete"
  /\ rows' = rows \ {id[c]}
  /\ primary' = primary \ {id[c]}
  /\ step' = [step EXCEPT ![c] = "unlink"]
  /\ UNCHANGED <<lastId, fileOf, disk, id, path, faults, contended>>

(* unlink(missing_ok=True) of the path read by the check.                    *)
Unlink(c) ==
  /\ step[c] = "unlink"
  /\ files' = files \ {path[c]}
  /\ step' = [step EXCEPT ![c] = "idle"]
  /\ UNCHANGED <<table, lastFile, id, path, faults, contended>>

------------------------------------------------------------------------------
(* The awaited call raises ("database is locked", an unlink refused): a 500, *)
(* and what the handler did before stays done.                               *)
RequestFails(c) ==
  /\ step[c] # "idle"
  /\ faults < MaxFaults
  /\ faults' = faults + 1
  /\ step' = [step EXCEPT ![c] = "idle"]
  /\ UNCHANGED <<table, disk, id, path, contended>>

(* The process dies; a later one starts with no request in flight.           *)
Crash ==
  /\ faults < MaxFaults
  /\ faults' = faults + 1
  /\ step' = [c \in Clients |-> "idle"]
  /\ UNCHANGED <<table, disk, id, path, contended>>

Next ==
  \/ \E c \in Clients :
       \/ WriteFile(c) \/ \E asked \in BOOLEAN : InsertResume(c, asked)
       \/ \E i \in Ids : CheckPrimary(c, i) \/ CheckDelete(c, i)
       \/ UpdatePrimary(c) \/ DeleteRow(c) \/ Unlink(c)
       \/ RequestFails(c)
  \/ Crash

Spec == Init /\ [][Next]_vars

------------------------------------------------------------------------------
(* No interleaving, failure or crash leaves two primary resumes              *)
(* (load_role_profiles rejects the list then, and no run can start).         *)
AtMostOnePrimary == \A i, j \in primary : i = j

(* README: the "exactly one primary" invariant is enforced on every write.   *)
ExactlyOnePrimary == rows # {} => \E i \in primary : primary = {i}

(* What the handlers do ensure: the primary resume is lost only if a delete  *)
(* and a set-primary of the same resume were in flight together.             *)
PrimaryUnlessContended == contended \/ ExactlyOnePrimary

(* A listed resume can be parsed: its file is there before its row and goes  *)
(* after it, whatever fails in between and whoever else uploads or deletes.  *)
RowHasFile == \A i \in rows : fileOf[i] \in files

(* A delete that is past its check still means the resume it checked: the id *)
(* in hand has not come to name another upload (AUTOINCREMENT).              *)
DeletesWhatItChecked ==
  \A c \in Clients : step[c] = "delete" /\ id[c] \in rows => fileOf[id[c]] = path[c]

(* As long as nothing failed, no file is leaked: each belongs to a row or to *)
(* an upload or a delete that is still under way.                            *)
FilesAccounted ==
  faults = 0 =>
    \A f \in files : \/ \E i \in rows : fileOf[i] = f
                     \/ \E c \in Clients : step[c] \in {"insert", "unlink"} /\ path[c] = f
==============================================================================
