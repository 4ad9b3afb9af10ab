----------------------------- MODULE ResumeProofs -----------------------------
(***************************************************************************)
(* Proofs about the resumes: ResumeStore, which keeps them, for any number *)
(* of requests, uploads and failures; RoleRouting, which chooses among     *)
(* them and tailors the one that is sent, for any labels, blocks and       *)
(* answers; and what the one hands to the other.                           *)
(***************************************************************************)
EXTENDS ResumeStore, RoleRouting, FiniteSetTheorems, WellFoundedInduction, TLAPS

-----------------------------------------------------------------------------
(* The store                                                                 *)

Issued == 1 .. lastId                    \* every id a resume ever had

LEMMA TypeStep == ASSUME TypeOK, [Next]_vars PROVE TypeOK'
<1> USE DEF TypeOK, table, disk, Ids, Files, Steps
<1>1. ASSUME NEW c \in Clients, WriteFile(c) PROVE TypeOK'
  BY <1>1, Bounds DEF WriteFile
<1>2. ASSUME NEW c \in Clients, NEW asked \in BOOLEAN, InsertResume(c, asked) PROVE TypeOK'
  <2>1. lastId + 1 \in Ids
    BY <1>2, Bounds DEF InsertResume
  <2>2. rows' \in SUBSET Ids /\ primary' \in SUBSET rows'
    BY <1>2, <2>1 DEF InsertResume
  <2>3. fileOf' \in [Ids -> 0 .. MaxUploads]
    BY <1>2, <2>1 DEF InsertResume
  <2> QED
    BY <1>2, <2>1, <2>2, <2>3 DEF InsertResume
<1>3. ASSUME NEW c \in Clients, NEW i \in Ids, CheckPrimary(c, i) PROVE TypeOK'
  <2>1. contended' \in BOOLEAN
    BY <1>3 DEF CheckPrimary
  <2> QED
    BY <1>3, <2>1, Bounds DEF CheckPrimary
<1>4. ASSUME NEW c \in Clients, NEW i \in Ids, CheckDelete(c, i) PROVE TypeOK'
  <2>1. contended' \in BOOLEAN
    BY <1>4 DEF CheckDelete
  <2> QED
    BY <1>4, <2>1, Bounds DEF CheckDelete
<1>5. ASSUME NEW c \in Clients, UpdatePrimary(c) \/ DeleteRow(c) \/ Unlink(c) PROVE TypeOK'
  BY <1>5 DEF UpdatePrimary, DeleteRow, Unlink
<1>6. ASSUME NEW c \in Clients, RequestFails(c) PROVE TypeOK'
  BY <1>6, Bounds DEF RequestFails
<1>7. ASSUME Crash PROVE TypeOK'
  BY <1>7, Bounds DEF Crash
<1>8. CASE UNCHANGED vars
  BY <1>8 DEF vars
<1> QED
  BY <1>1, <1>2, <1>3, <1>4, <1>5, <1>6, <1>7, <1>8 DEF Next

LEMMA InitType == ASSUME Init PROVE TypeOK
<1> USE DEF Init
<1>1. rows \in SUBSET Ids /\ primary \in SUBSET rows /\ files \in SUBSET Files
  OBVIOUS
<1>2. /\ lastId \in 0 .. MaxUploads /\ lastFile \in 0 .. MaxUploads
      /\ faults \in 0 .. MaxFaults
  BY Bounds
<1>3. /\ fileOf \in [Ids -> 0 .. MaxUploads]
      /\ id \in [Clients -> 0 .. MaxUploads] /\ path \in [Clients -> 0 .. MaxUploads]
  BY Bounds
<1>4. step \in [Clients -> Steps] /\ contended \in BOOLEAN
  BY DEF Steps
<1> QED
  BY <1>1, <1>2, <1>3, <1>4 DEF TypeOK

(* The state of the resume store is well typed in every behaviour.           *)
THEOREM TypeCorrect == Spec => []TypeOK
<1> QED
  BY InitType, TypeStep, PTL DEF Spec

------------------------------------------------------------------------------
(* Two requests that both want to set the primary, or an upload that does,   *)
(* serialize on the database: each transaction leaves at most one mark.      *)
THEOREM AtMostOnePrimaryHolds == Spec => []AtMostOnePrimary
<1>1. Init => AtMostOnePrimary
  BY DEF Init, AtMostOnePrimary
<1>2. ASSUME AtMostOnePrimary, [Next]_vars PROVE AtMostOnePrimary'
  BY <1>2 DEF AtMostOnePrimary, Next, vars, WriteFile, InsertResume, CheckPrimary,
     UpdatePrimary, CheckDelete, DeleteRow, Unlink, RequestFails, Crash, table, disk
<1> QED
  BY <1>1, <1>2, PTL DEF Spec

------------------------------------------------------------------------------
(* Why a row keeps its file.  Ids and names are never reused, so a path      *)
(* names one upload for good: the path a delete holds is that of the id it   *)
(* holds, and the path an upload holds belongs to no row yet.                *)
IdsIssued == rows \subseteq Issued
OneFileEach ==
  /\ \A i \in Issued : fileOf[i] \in 1 .. lastFile
  /\ \A i, j \in Issued : fileOf[i] = fileOf[j] => i = j
UploadsHoldNewFiles ==
  /\ \A c \in Clients : step[c] = "insert" =>
       /\ path[c] \in files /\ path[c] \in 1 .. lastFile
       /\ \A i \in Issued : fileOf[i] # path[c]
  /\ \A c, d \in Clients :
       step[c] = "insert" /\ step[d] = "insert" /\ path[c] = path[d] => c = d
DeletesHoldTheirFile ==
  \A c \in Clients :
    /\ step[c] \in {"delete", "unlink"} => id[c] \in Issued /\ path[c] = fileOf[id[c]]
    /\ step[c] = "unlink" => id[c] \notin rows
FileInv ==
  IdsIssued /\ OneFileEach /\ UploadsHoldNewFiles /\ DeletesHoldTheirFile /\ RowHasFile

LEMMA FileStep == ASSUME TypeOK, FileInv, [Next]_vars PROVE FileInv'
<1> USE DEF FileInv, IdsIssued, OneFileEach, UploadsHoldNewFiles, DeletesHoldTheirFile,
            RowHasFile, Issued, table, disk
<1>t. /\ lastId \in Nat /\ lastFile \in Nat
      /\ fileOf \in [Ids -> 0 .. MaxUploads]
      /\ step \in [Clients -> Steps]
      /\ id \in [Clients -> 0 .. MaxUploads] /\ path \in [Clients -> 0 .. MaxUploads]
  BY Bounds DEF TypeOK
<1>1. ASSUME NEW c \in Clients, WriteFile(c) PROVE FileInv'
  <2>1. /\ path'[c] = lastFile + 1 /\ step'[c] = "insert"
        /\ \A d \in Clients : d # c => path'[d] = path[d] /\ step'[d] = step[d]
        /\ files' = files \cup {lastFile + 1} /\ lastFile' = lastFile + 1
        /\ UNCHANGED <<rows, lastId, fileOf, id>>
    BY <1>t, <1>1 DEF WriteFile
  <2>2. OneFileEach'
    BY <1>t, <2>1
  <2>3. UploadsHoldNewFiles'
    BY <1>t, <2>1
  <2>4. DeletesHoldTheirFile' /\ RowHasFile' /\ IdsIssued'
    BY <2>1
  <2> QED
    BY <2>2, <2>3, <2>4
<1>2. ASSUME NEW c \in Clients, NEW asked \in BOOLEAN, InsertResume(c, asked) PROVE FileInv'
  <2>1. lastId + 1 \in Ids /\ lastId' = lastId + 1 /\ \A i \in Issued : i \in Ids /\ i # lastId + 1
    BY <1>t, <1>2, Bounds DEF InsertResume, Ids, TypeOK
  <2>2. /\ fileOf'[lastId + 1] = path[c]
        /\ \A i \in Issued : fileOf'[i] = fileOf[i]
        /\ rows' = rows \cup {lastId + 1}
        /\ step'[c] = "idle" /\ step[c] = "insert"
        /\ \A d \in Clients : d # c => step'[d] = step[d]
        /\ UNCHANGED <<files, lastFile, id, path>>
    BY <1>t, <1>2, <2>1 DEF InsertResume
  <2>3. IdsIssued' /\ OneFileEach'
    BY <1>t, <2>1, <2>2
  <2>4. UploadsHoldNewFiles'
    BY <1>t, <2>1, <2>2
  <2>5. DeletesHoldTheirFile' /\ RowHasFile'
    BY <1>t, <2>1, <2>2
  <2> QED
    BY <2>3, <2>4, <2>5
<1>3. ASSUME NEW c \in Clients, NEW i \in Ids, CheckPrimary(c, i) PROVE FileInv'
  BY <1>t, <1>3 DEF CheckPrimary
<1>4. ASSUME NEW c \in Clients, UpdatePrimary(c) PROVE FileInv'
  BY <1>t, <1>4 DEF UpdatePrimary
<1>5. ASSUME NEW c \in Clients, NEW i \in Ids, CheckDelete(c, i) PROVE FileInv'
  BY <1>t, <1>5 DEF CheckDelete
<1>6. ASSUME NEW c \in Clients, DeleteRow(c) PROVE FileInv'
  BY <1>t, <1>6 DEF DeleteRow
<1>7. ASSUME NEW c \in Clients, Unlink(c) PROVE FileInv'
  <2>1. id[c] \in Issued /\ id[c] \notin rows /\ path[c] = fileOf[id[c]]
    BY <1>7 DEF Unlink
  <2>2. \A i \in rows : fileOf[i] # path[c]
    BY <2>1
  <2>3. \A d \in Clients : step[d] = "insert" => path[d] # path[c]
    BY <2>1
  <2> QED
    BY <1>t, <1>7, <2>2, <2>3 DEF Unlink
<1>8. ASSUME NEW c \in Clients, RequestFails(c) PROVE FileInv'
  BY <1>t, <1>8 DEF RequestFails
<1>9. ASSUME Crash PROVE FileInv'
  BY <1>t, <1>9 DEF Crash
<1>10. ASSUME UNCHANGED vars PROVE FileInv'
  BY <1>10 DEF vars
<1> QED
  BY <1>1, <1>2, <1>3, <1>4, <1>5, <1>6, <1>7, <1>8, <1>9, <1>10 DEF Next

THEOREM FilesAreInvariant == Spec => []FileInv
<1>1. Init => FileInv
  BY DEF Init, FileInv, IdsIssued, OneFileEach, UploadsHoldNewFiles,
     DeletesHoldTheirFile, RowHasFile, Issued
<1>2. TypeOK /\ FileInv /\ [Next]_vars => FileInv'
  BY FileStep
<1> QED
  BY <1>1, <1>2, TypeCorrect, PTL DEF Spec

(* No interleaving, failure or crash leaves a listed resume without a file.  *)
THEOREM RowHasFileHolds == Spec => []RowHasFile
<1>1. FileInv => RowHasFile
  BY DEF FileInv
<1> QED
  BY <1>1, FilesAreInvariant, PTL

(* A delete never removes an upload other than the one it checked.           *)
THEOREM DeletesWhatItCheckedHolds == Spec => []DeletesWhatItChecked
<1>1. FileInv => DeletesWhatItChecked
  BY DEF FileInv, DeletesHoldTheirFile, DeletesWhatItChecked
<1> QED
  BY <1>1, FilesAreInvariant, PTL

------------------------------------------------------------------------------
(* Without contention, what a handler checked still holds when it writes.    *)
ChecksHold ==
  contended \/ \A c \in Clients : /\ step[c] = "update" => id[c] \in rows
                                  /\ step[c] = "delete" => id[c] \notin primary
SameId ==
  contended \/ ~ \E c, d \in Clients : step[c] = "update" /\ step[d] = "delete" /\ id[c] = id[d]
PrimaryInv == PrimaryUnlessContended /\ ChecksHold /\ SameId

LEMMA PrimaryStep == ASSUME TypeOK, FileInv, PrimaryInv, [Next]_vars PROVE PrimaryInv'
<1> USE DEF PrimaryInv, PrimaryUnlessContended, ExactlyOnePrimary, ChecksHold, SameId,
            table, disk
<1>t. /\ step \in [Clients -> Steps] /\ id \in [Clients -> 0 .. MaxUploads]
      /\ primary \in SUBSET rows
  BY DEF TypeOK
<1>1. ASSUME NEW c \in Clients, WriteFile(c) PROVE PrimaryInv'
  BY <1>t, <1>1 DEF WriteFile
<1>2. ASSUME NEW c \in Clients, NEW asked \in BOOLEAN, InsertResume(c, asked) PROVE PrimaryInv'
  <2>1. \A d \in Clients : step[d] = "delete" => id[d] # lastId + 1
    BY <1>t, Bounds DEF FileInv, DeletesHoldTheirFile, Issued, TypeOK
  <2>2. \A d \in Clients : step'[d] = "idle" \/ step'[d] = step[d]
    BY <1>t, <1>2 DEF InsertResume
  <2>3. PrimaryUnlessContended'
    BY <1>t, <1>2 DEF InsertResume
  <2>4. ChecksHold'
    BY <1>t, <1>2, <2>1, <2>2 DEF InsertResume
  <2>5. SameId'
    BY <1>t, <1>2, <2>2 DEF InsertResume
  <2> QED
    BY <2>3, <2>4, <2>5
<1>3. ASSUME NEW c \in Clients, NEW i \in Ids, CheckPrimary(c, i) PROVE PrimaryInv'
  BY <1>t, <1>3 DEF CheckPrimary, InFlight
<1>4. ASSUME NEW c \in Clients, UpdatePrimary(c) PROVE PrimaryInv'
  BY <1>t, <1>4 DEF UpdatePrimary
<1>5. ASSUME NEW c \in Clients, NEW i \in Ids, CheckDelete(c, i) PROVE PrimaryInv'
  BY <1>t, <1>5 DEF CheckDelete, InFlight
<1>6. ASSUME NEW c \in Clients, DeleteRow(c) PROVE PrimaryInv'
  BY <1>t, <1>6 DEF DeleteRow
<1>7. ASSUME NEW c \in Clients, Unlink(c) \/ RequestFails(c) PROVE PrimaryInv'
  BY <1>t, <1>7 DEF Unlink, RequestFails
<1>8. ASSUME Crash PROVE PrimaryInv'
  BY <1>t, <1>8 DEF Crash
<1>9. ASSUME UNCHANGED vars PROVE PrimaryInv'
  BY <1>9 DEF vars
<1> QED
  BY <1>1, <1>2, <1>3, <1>4, <1>5, <1>6, <1>7, <1>8, <1>9 DEF Next

(* The primary resume can only be lost to a delete and a set-primary of the  *)
(* same resume that overlap.                                                 *)
THEOREM PrimaryUnlessContendedHolds == Spec => []PrimaryUnlessContended
<1>1. Init => PrimaryInv
  BY DEF Init, PrimaryInv, PrimaryUnlessContended, ExactlyOnePrimary, ChecksHold, SameId
<1>2. TypeOK /\ FileInv /\ PrimaryInv /\ [Next]_vars => PrimaryInv'
  BY PrimaryStep
<1>3. PrimaryInv => PrimaryUnlessContended
  BY DEF PrimaryInv
<1> QED
  BY <1>1, <1>2, <1>3, TypeCorrect, FilesAreInvariant, PTL DEF Spec

------------------------------------------------------------------------------
(* A file leaves its row and the handlers only by being unlinked.            *)
Accounted(f) ==
  \/ \E i \in rows : fileOf[i] = f
  \/ \E c \in Clients : step[c] \in {"insert", "unlink"} /\ path[c] = f

LEMMA AccountedStep ==
  ASSUME TypeOK, FileInv, FilesAccounted, [Next]_vars
  PROVE  FilesAccounted'
<1>t. /\ step \in [Clients -> Steps] /\ path \in [Clients -> 0 .. MaxUploads]
      /\ fileOf \in [Ids -> 0 .. MaxUploads] /\ faults \in 0 .. MaxFaults
  BY DEF TypeOK
<1>i. \A i \in rows : i \in Issued
  BY DEF FileInv, IdsIssued
<1>1. SUFFICES ASSUME faults' = 0, faults = 0, NEW f \in files' PROVE Accounted(f)'
  <2>1. faults' = 0 => faults = 0
    BY <1>t, Bounds DEF Next, WriteFile, InsertResume, CheckPrimary, UpdatePrimary, CheckDelete,
       DeleteRow, Unlink, RequestFails, Crash, vars
  <2> QED
    BY <2>1 DEF FilesAccounted, Accounted
<1>2. f \in files => Accounted(f)
  BY <1>1 DEF FilesAccounted, Accounted
<1>3. ASSUME NEW c \in Clients, WriteFile(c) PROVE Accounted(f)'
  <2>1. /\ UNCHANGED <<rows, fileOf>> /\ files' = files \cup {lastFile + 1} /\ step[c] = "idle"
        /\ path'[c] = lastFile + 1 /\ step'[c] = "insert"
        /\ \A d \in Clients : d # c => path'[d] = path[d] /\ step'[d] = step[d]
    BY <1>t, <1>3 DEF WriteFile, table
  <2> QED
    BY <1>1, <1>2, <2>1 DEF Accounted
<1>4. ASSUME NEW c \in Clients, NEW asked \in BOOLEAN, InsertResume(c, asked) PROVE Accounted(f)'
  <2>1. lastId + 1 \in Ids /\ \A i \in Issued : i # lastId + 1
    BY <1>4, Bounds DEF InsertResume, Ids, TypeOK, Issued
  <2>2. /\ fileOf'[lastId + 1] = path[c] /\ \A i \in Issued : fileOf'[i] = fileOf[i]
        /\ rows' = rows \cup {lastId + 1} /\ UNCHANGED <<files, path>>
        /\ \A d \in Clients : d # c => step'[d] = step[d]
    BY <1>t, <1>4, <2>1 DEF InsertResume, disk, Issued, Ids, TypeOK
  <2>3. CASE f = path[c]
    BY <2>2, <2>3 DEF Accounted
  <2>4. CASE f # path[c]
    BY <1>1, <1>2, <1>i, <2>2, <2>4 DEF Accounted
  <2> QED
    BY <2>3, <2>4
<1>5. ASSUME NEW c \in Clients, NEW i \in Ids, CheckPrimary(c, i) \/ CheckDelete(c, i)
      PROVE  Accounted(f)'
  <2>1. /\ UNCHANGED <<rows, fileOf, files>> /\ step[c] = "idle"
        /\ \A d \in Clients : d # c => path'[d] = path[d] /\ step'[d] = step[d]
    BY <1>t, <1>5 DEF CheckPrimary, CheckDelete, table, disk
  <2> QED
    BY <1>1, <1>2, <2>1 DEF Accounted
<1>6. ASSUME NEW c \in Clients, UpdatePrimary(c) PROVE Accounted(f)'
  <2>1. /\ UNCHANGED <<rows, fileOf, files, path>> /\ step[c] = "update"
        /\ \A d \in Clients : d # c => step'[d] = step[d]
    BY <1>t, <1>6 DEF UpdatePrimary, disk
  <2> QED
    BY <1>1, <1>2, <2>1 DEF Accounted
<1>7. ASSUME NEW c \in Clients, DeleteRow(c) PROVE Accounted(f)'
  <2>1. /\ UNCHANGED <<fileOf, files, path>> /\ rows' = rows \ {id[c]}
        /\ step[c] = "delete" /\ step'[c] = "unlink"
        /\ \A d \in Clients : d # c => step'[d] = step[d]
    BY <1>t, <1>7 DEF DeleteRow, disk
  <2>2. path[c] = fileOf[id[c]]
    BY <2>1 DEF FileInv, DeletesHoldTheirFile
  <2>3. CASE f = path[c]
    BY <2>1, <2>3 DEF Accounted
  <2>4. CASE f # path[c]
    BY <1>1, <1>2, <2>1, <2>2, <2>4 DEF Accounted
  <2> QED
    BY <2>3, <2>4
<1>8. ASSUME NEW c \in Clients, Unlink(c) PROVE Accounted(f)'
  <2>1. /\ UNCHANGED <<rows, fileOf, path>> /\ files' = files \ {path[c]}
        /\ \A d \in Clients : d # c => step'[d] = step[d]
    BY <1>t, <1>8 DEF Unlink, table
  <2>2. f \in files /\ f # path[c]
    BY <1>1, <2>1
  <2> QED
    BY <1>2, <2>1, <2>2 DEF Accounted
<1>9. ASSUME UNCHANGED vars PROVE Accounted(f)'
  BY <1>1, <1>2, <1>9 DEF vars, Accounted
<1>10. ASSUME NEW c \in Clients, RequestFails(c) \/ Crash PROVE FALSE
  BY <1>t, <1>1, <1>10, Bounds DEF RequestFails, Crash
<1>11. ~Crash
  BY <1>t, <1>1, Bounds DEF Crash
<1> QED
  BY <1>3, <1>4, <1>5, <1>6, <1>7, <1>8, <1>9, <1>10, <1>11 DEF Next

(* While nothing fails no file is leaked, whatever uploads and deletes       *)
(* overlap.                                                                  *)
THEOREM FilesAccountedHolds == Spec => []FilesAccounted
<1>1. Init => FilesAccounted
  BY DEF Init, FilesAccounted
<1>2. TypeOK /\ FileInv /\ FilesAccounted /\ [Next]_vars => FilesAccounted'
  BY AccountedStep
<1> QED
  BY <1>1, <1>2, TypeCorrect, FilesAreInvariant, PTL DEF Spec

-----------------------------------------------------------------------------
(* The choice of a resume                                                    *)

(* A finite set of numbers has a largest one: of the sets of what lies above *)
(* one of its members, one is minimal.                                       *)
LEMMA Largest ==
  ASSUME NEW S \in SUBSET Int, IsFiniteSet(S), S # {}
  PROVE  \E m \in S : \A s \in S : s <= m
<1> DEFINE Above(m) == {s \in S : s > m}
           T == {Above(m) : m \in S}
<1>1. T \subseteq FiniteSubsetsOf(S) /\ T # {}
  <2>1. \A m \in S : Above(m) \subseteq S /\ IsFiniteSet(Above(m))
    BY FS_Subset
  <2> QED
    BY <2>1 DEF FiniteSubsetsOf
<1>2. PICK x \in T : \A y \in T : <<y, x>> \notin StrictSubsetOrdering(S)
  <2> HIDE DEF T
  <2> QED
    BY <1>1, WFMin, FS_StrictSubsetOrderingWellFounded, Zenon
<1>3. PICK m \in S : x = Above(m)
  BY <1>2
<1>4. ASSUME NEW s \in S, s > m PROVE FALSE
  <2>1. Above(s) \subseteq Above(m) /\ Above(s) # Above(m)
    <3>1. s \in Above(m) /\ s \notin Above(s)
      BY <1>4
    <3>2. \A t \in S : t > s => t > m
      BY <1>4
    <3> QED
      BY <3>1, <3>2
  <2>2. <<Above(s), Above(m)>> \in StrictSubsetOrdering(S)
    BY <2>1, <1>1 DEF StrictSubsetOrdering
  <2> QED
    BY <2>2, <1>2, <1>3
<1> QED
  BY <1>4

(* So the lookup finds a resume for every label there is, the last of those  *)
(* that carry it.                                                            *)
LEMMA ByRoleFinds ==
  ASSUME NEW label, HasRole(label), roles \in Seq(Labels)
  PROVE  /\ ByRole(label) \in Loaded /\ roles[ByRole(label)] = label
         /\ \A j \in Loaded : roles[j] = label => j <= ByRole(label)
<1> DEFINE S == {i \in Loaded : roles[i] = label}
<1>1. S \subseteq Int /\ S # {}
  BY DEF HasRole, Loaded
<1>2. IsFiniteSet(S)
  <2>1. Loaded = 1 .. Len(roles) /\ Len(roles) \in Nat
    BY DEF Loaded
  <2>2. IsFiniteSet(1 .. Len(roles))
    BY <2>1, FS_Interval
  <2> QED
    BY <2>1, <2>2, FS_Subset
<1>3. PICK m \in S : \A s \in S : s <= m
  BY <1>1, <1>2, Largest
<1> QED
  BY <1>3 DEF ByRole

(* With distinct labels the lookup by label is the inverse of roles.         *)
LEMMA ByRoleInverts ==
  ASSUME DistinctRoles, roles \in Seq(Labels), NEW k \in Loaded
  PROVE  ByRole(roles[k]) = k
<1>1. \A j \in Loaded : roles[j] = roles[k] => j <= k
  BY DEF DistinctRoles, Loaded
<1> QED
  BY <1>1 DEF ByRole, DistinctRoles

(* What is known of the resume in hand: it is one that was loaded, and the   *)
(* primary one if the LLM's answer was no help.                              *)
AllLoaded == phase = "route" => OnePrimary /\ Len(roles) = Len(flags)
ScreenedLoaded == phase \in {"apply", "tailor", "done"} => screened \in Loaded
FallbackIsPrimary ==
  DistinctRoles /\ phase \in {"apply", "tailor", "done"} /\ fallback => flags[screened]
NothingYet == phase \notin {"tailor", "done"} => applied = 0
RoutingInv ==
  /\ AllLoaded /\ ScreenedLoaded /\ FallbackIsPrimary /\ NothingYet
  /\ SentAsRouted /\ AppliesWithScreenedIfDistinct

LEMMA RoutingInitInv == ASSUME RoutingInit PROVE RoutingInv
<1>1. PICK n \in 0 .. MaxResumes : flags \in [1 .. n -> BOOLEAN]
  BY DEF RoutingInit
<1>2. flags \in Seq(BOOLEAN) /\ Len(flags) = n
  BY <1>1, RoutingBounds
<1>3. RoutingTypeOK
  <2>1. roles = << >> /\ screened = 0 /\ applied = 0 /\ phase = "load"
        /\ section = "experience" /\ blocks = << >> /\ answer = << >>
    BY DEF RoutingInit
  <2>2. fallback \in BOOLEAN /\ passed \in BOOLEAN
    BY DEF RoutingInit
  <2>3. Len(roles) = 0 /\ n <= MaxResumes /\ n \in Nat
    BY <2>1, RoutingBounds
  <2> QED
    BY <1>2, <2>1, <2>2, <2>3 DEF RoutingTypeOK, Sections
<1> QED
  BY <1>3 DEF RoutingInit, RoutingInv, AllLoaded, ScreenedLoaded, FallbackIsPrimary, NothingYet,
     SentAsRouted, SentCarriesRoutedLabel, FallbackSendsPrimary,
     AppliesWithScreenedIfDistinct, AppliesWithScreened

LEMMA RoutingStepInv == ASSUME RoutingInv, [RoutingNext]_routingVars PROVE RoutingInv'
<1> USE DEF RoutingInv, SentAsRouted
<1>t. tailoringVars' = tailoringVars =>
        section' = section /\ blocks' = blocks /\ answer' = answer /\ document' = document
  BY DEF tailoringVars
<1>1. ASSUME RejectList \/ UNCHANGED routingVars PROVE RoutingInv'
  <2>1. /\ UNCHANGED <<flags, roles, screened, fallback, passed, applied, tailoringVars>>
        /\ phase' = phase \/ (phase = "load" /\ phase' = "error")
    BY <1>1 DEF RejectList, routingVars
  <2>2. RoutingTypeOK'
    BY <1>t, <2>1 DEF RoutingTypeOK
  <2> QED
    BY <2>1, <2>2 DEF AllLoaded, ScreenedLoaded, FallbackIsPrimary,
       NothingYet, OnePrimary, SentCarriesRoutedLabel, FallbackSendsPrimary,
       AppliesWithScreenedIfDistinct, AppliesWithScreened, DistinctRoles, Loaded
<1>2. ASSUME NEW label \in Labels, InferRole(label) PROVE RoutingInv'
  <2>1. /\ roles' = Append(roles, label) /\ UNCHANGED <<flags, screened, applied>>
        /\ phase' \in {"route", "load"} /\ applied' = 0
    BY <1>2 DEF InferRole, NothingYet
  <2>2. RoutingTypeOK'
    BY <1>2, <1>t, <2>1 DEF InferRole, RoutingTypeOK
  <2>3. AllLoaded'
    BY <1>2, <2>1 DEF InferRole, AllLoaded, OnePrimary, RoutingTypeOK
  <2> QED
    BY <2>1, <2>2, <2>3 DEF ScreenedLoaded, FallbackIsPrimary, NothingYet,
       SentCarriesRoutedLabel, FallbackSendsPrimary, AppliesWithScreenedIfDistinct,
       AppliesWithScreened
<1>3. ASSUME NEW verdict \in BOOLEAN, RouteOnly(verdict) PROVE RoutingInv'
  <2>1. Loaded = {1} /\ OnePrimary /\ Len(flags) = 1 /\ flags[1]
    BY <1>3 DEF RouteOnly, AllLoaded, RoutingTypeOK, Loaded, OnePrimary, ExactlyOne
  <2>2. screened' = 1 /\ applied' = 0 /\ applied = 0 /\ UNCHANGED <<flags, roles>>
    BY <1>3 DEF RouteOnly, NothingYet
  <2>3. RoutingTypeOK'
    <3>1. fallback' \in BOOLEAN /\ passed' \in BOOLEAN /\ phase' = "apply"
      BY <1>3 DEF RouteOnly
    <3>2. screened' \in 0 .. Len(roles)
      BY <1>3, <2>2 DEF RouteOnly
    <3> QED
      BY <1>3, <1>t, <2>2, <3>1, <3>2 DEF RouteOnly, RoutingTypeOK
  <2> QED
    BY <1>3, <2>1, <2>2, <2>3 DEF RouteOnly, AllLoaded, ScreenedLoaded, FallbackIsPrimary,
       NothingYet, Loaded, SentCarriesRoutedLabel, FallbackSendsPrimary,
       AppliesWithScreenedIfDistinct, AppliesWithScreened
<1>4. ASSUME NEW match \in Labels \cup {NoRole}, NEW verdict \in BOOLEAN,
             Route(match, verdict)
      PROVE  RoutingInv'
  <2>1. Primary \in Loaded /\ flags[Primary]
    BY <1>4 DEF Route, AllLoaded, RoutingTypeOK, Loaded, OnePrimary, ExactlyOne, Primary
  <2>2. applied' = 0 /\ applied = 0 /\ phase' = "apply" /\ UNCHANGED <<flags, roles>>
    BY <1>4 DEF Route, NothingYet
  <2>3. screened' \in Loaded /\ (fallback' => screened' = Primary)
    <3>1. CASE HasRole(match)
      <4>1. screened' = ByRole(match) /\ fallback' = FALSE
        BY <1>4, <3>1 DEF Route
      <4> QED
        BY <3>1, <4>1, ByRoleFinds DEF RoutingTypeOK
    <3>2. CASE ~HasRole(match)
      BY <1>4, <2>1, <3>2 DEF Route
    <3> QED
      BY <3>1, <3>2
  <2>4. RoutingTypeOK'
    <3>1. screened' \in 0 .. Len(roles) /\ fallback' \in BOOLEAN /\ passed' \in BOOLEAN
      BY <1>4, <2>3 DEF Route, RoutingTypeOK, Loaded
    <3> QED
      BY <1>4, <1>t, <2>2, <3>1 DEF Route, RoutingTypeOK
  <2> QED
    BY <2>1, <2>2, <2>3, <2>4 DEF AllLoaded, ScreenedLoaded, FallbackIsPrimary, NothingYet,
       Loaded, SentCarriesRoutedLabel, FallbackSendsPrimary,
       AppliesWithScreenedIfDistinct, AppliesWithScreened
<1>5. ASSUME Apply PROVE RoutingInv'
  <2>1. screened \in Loaded /\ HasRole(roles[screened])
    BY <1>5 DEF Apply, ScreenedLoaded, HasRole
  <2>2. /\ ByRole(roles[screened]) \in Loaded /\ ByRole(roles[screened]) >= screened
        /\ roles[ByRole(roles[screened])] = roles[screened]
    BY <2>1, ByRoleFinds DEF RoutingTypeOK
  <2>3. applied' \in {0, ByRole(roles[screened])} /\ phase' \in {"tailor", "done"}
        /\ UNCHANGED <<flags, roles, screened, fallback, passed>>
    BY <1>5 DEF Apply
  <2>4. RoutingTypeOK'
    <3>1. applied' \in 0 .. Len(roles)
      BY <2>2, <2>3 DEF RoutingTypeOK, Loaded
    <3> QED
      BY <1>5, <1>t, <2>3, <3>1 DEF Apply, RoutingTypeOK
  <2>5. ASSUME DistinctRoles PROVE ByRole(roles[screened]) = screened
    BY <2>1, <2>5, ByRoleInverts DEF RoutingTypeOK
  <2>6. SentCarriesRoutedLabel'
    BY <2>1, <2>2, <2>3 DEF SentCarriesRoutedLabel
  <2> QED
    BY <1>5, <2>1, <2>3, <2>4, <2>5, <2>6 DEF Apply, AllLoaded, ScreenedLoaded,
       FallbackIsPrimary, NothingYet, DistinctRoles, Loaded, FallbackSendsPrimary,
       AppliesWithScreenedIfDistinct, AppliesWithScreened
<1>6. ASSUME Tailor PROVE RoutingInv'
  <2>1. \A n \in Nat : UpTo(n) \subseteq Seq(BlockIds)
    BY DEF UpTo
  <2>2. section' \in Sections /\ blocks' \in Seq(BlockIds) /\ answer' \in Seq(BlockIds)
    BY <1>6, <2>1, RoutingBounds DEF Tailor
  <2>3. RoutingTypeOK'
    BY <1>6, <2>2 DEF Tailor, RoutingTypeOK
  <2> QED
    BY <1>6, <2>3 DEF Tailor, AllLoaded, ScreenedLoaded, FallbackIsPrimary, NothingYet,
       DistinctRoles, Loaded, SentCarriesRoutedLabel, FallbackSendsPrimary,
       AppliesWithScreenedIfDistinct, AppliesWithScreened
<1> QED
  BY <1>1, <1>2, <1>3, <1>4, <1>5, <1>6 DEF RoutingNext

(* Whatever the LLM answers, a posting is applied to with the very resume it *)
(* was screened with, provided the inferred labels differ.                   *)
THEOREM AppliesWithScreenedHolds == RoutingSpec => []AppliesWithScreenedIfDistinct
<1>1. RoutingInv => AppliesWithScreenedIfDistinct
  BY DEF RoutingInv
<1> QED
  BY <1>1, RoutingInitInv, RoutingStepInv, PTL DEF RoutingSpec

(* Whether or not labels collide, the resume sent carries the label the      *)
(* posting was routed to; and with distinct labels a posting that fits none  *)
(* goes out with the primary resume.                                         *)
THEOREM SentAsRoutedHolds == RoutingSpec => []SentAsRouted
<1>1. RoutingInv => SentAsRouted
  BY DEF RoutingInv
<1> QED
  BY <1>1, RoutingInitInv, RoutingStepInv, PTL DEF RoutingSpec

-----------------------------------------------------------------------------
(* The tailoring of a resume                                                 *)

LEMMA Least ==
  ASSUME NEW S \in SUBSET Nat, S # {}
  PROVE  \E m \in S : \A n \in S : m <= n
<1>1. PICK m \in S : \A n \in S : <<n, m>> \notin OpToRel(<, Nat)
  BY NatLessThanWellFounded, WFMin, Zenon
<1>2. \A n \in S : ~(n < m)
  BY <1>1 DEF OpToRel
<1> QED
  BY <1>2

IsKept(f, s, K, m) ==
  f = [n \in 0 .. m |->
        IF n = 0 THEN << >>
        ELSE IF s[n] \in K THEN Append(f[n - 1], s[n]) ELSE f[n - 1]]

LEMMA KeptExists ==
  ASSUME NEW s, NEW K, NEW m \in Nat
  PROVE  \E f : IsKept(f, s, K, m)
<1> DEFINE Bad == {n \in Nat : ~ \E f : IsKept(f, s, K, n)}
<1>1. SUFFICES ASSUME Bad # {} PROVE FALSE
  OBVIOUS
<1>2. PICK n \in Bad : \A k \in Bad : n <= k
  <2> HIDE DEF Bad
  <2> Bad \subseteq Nat
    BY DEF Bad
  <2> QED
    BY <1>1, Least
<1>3. n # 0
  <2>1. IsKept([k \in 0 .. 0 |-> << >>], s, K, 0)
    BY DEF IsKept
  <2> QED
    BY <2>1
<1>4. PICK f : IsKept(f, s, K, n - 1)
  BY <1>2, <1>3
<1> DEFINE last == IF s[n] \in K THEN Append(f[n - 1], s[n]) ELSE f[n - 1]
           g == [k \in 0 .. n |-> IF k = n THEN last ELSE f[k]]
<1>5. ASSUME NEW k \in 0 .. n
      PROVE  g[k] = IF k = 0 THEN << >>
                    ELSE IF s[k] \in K THEN Append(g[k - 1], s[k]) ELSE g[k - 1]
  <2>1. CASE k = n
    <3>1. g[k] = last /\ g[k - 1] = f[k - 1]
      BY <2>1, <1>2, <1>3
    <3> QED
      BY <3>1, <2>1, <1>3
  <2>2. CASE k # n
    <3>1. k \in 0 .. n - 1 /\ n \in Nat
      BY <1>2, <2>2
    <3>2. f[k] = IF k = 0 THEN << >>
                 ELSE IF s[k] \in K THEN Append(f[k - 1], s[k]) ELSE f[k - 1]
      <4> HIDE DEF g
      <4> QED
      BY <3>1, <1>4 DEF IsKept
    <3>3. g[k] = f[k] /\ (k # 0 => g[k - 1] = f[k - 1])
      BY <3>1
    <3> HIDE DEF g
    <3> QED
      BY <3>2, <3>3
  <2> QED
    BY <2>1, <2>2
<1>6. IsKept(g, s, K, n)
  <2>1. g = [k \in 0 .. n |-> g[k]]
    OBVIOUS
  <2> HIDE DEF g
  <2> QED
    BY <2>1, <1>5 DEF IsKept
<1> QED
  BY <1>2, <1>6

LEMMA KeepIsKept ==
  ASSUME NEW S, NEW s \in Seq(S), NEW K
  PROVE  \E f : IsKept(f, s, K, Len(s)) /\ Keep(s, K) = f[Len(s)]
<1> DEFINE f == CHOOSE f : IsKept(f, s, K, Len(s))
<1>1. IsKept(f, s, K, Len(s))
  BY KeptExists
<1>2. Keep(s, K) = f[Len(s)]
  BY DEF Keep, IsKept
<1> QED
  BY <1>1, <1>2

\* e tells from which of the first m places of s each element of t was taken
Picks(e, t, s, K, m) ==
  /\ e \in [1 .. Len(t) -> 1 .. m]
  /\ \A k \in 1 .. Len(t) : t[k] = s[e[k]] /\ t[k] \in K
  /\ \A k, l \in 1 .. Len(t) : k < l => e[k] < e[l]
  /\ \A i \in 1 .. m : s[i] \in K => \E k \in 1 .. Len(t) : e[k] = i

LEMMA KeepPicks ==
  ASSUME NEW S, NEW s \in Seq(S), NEW K
  PROVE  Keep(s, K) \in Seq(S) /\ \E e : Picks(e, Keep(s, K), s, K, Len(s))
<1>1. PICK f : IsKept(f, s, K, Len(s)) /\ Keep(s, K) = f[Len(s)]
  BY KeepIsKept
<1> DEFINE Good(n) == f[n] \in Seq(S) /\ \E e : Picks(e, f[n], s, K, n)
           Bad == {n \in 0 .. Len(s) : ~ Good(n)}
<1>2. SUFFICES ASSUME Bad # {} PROVE FALSE
  BY <1>1
<1>3. PICK n \in Bad : \A k \in Bad : n <= k
  <2>1. Bad \subseteq Nat
    OBVIOUS
  <2> HIDE DEF Bad
  <2> QED
    BY <1>2, <2>1, Least
<1>4. n \in 0 .. Len(s) /\ Len(s) \in Nat /\ ~ Good(n) /\ (n # 0 => Good(n - 1))
  <2> HIDE DEF Good
  <2> QED
    BY <1>3
<1>5. f[n] = IF n = 0 THEN << >>
             ELSE IF s[n] \in K THEN Append(f[n - 1], s[n]) ELSE f[n - 1]
  BY <1>1, <1>4 DEF IsKept
<1>6. CASE n = 0
  <2>1. Picks(<< >>, << >>, s, K, 0)
    BY DEF Picks
  <2>2. f[n] = << >> /\ << >> \in Seq(S)
    BY <1>5, <1>6
  <2> QED
    BY <1>4, <1>6, <2>1, <2>2
<1>7. CASE n # 0
  <2> DEFINE t == f[n - 1]
  <2>1. t \in Seq(S) /\ \E e : Picks(e, t, s, K, n - 1)
    BY <1>4, <1>7
  <2>2. PICK e : Picks(e, t, s, K, n - 1)
    BY <2>1
  <2>t. f[n] = IF s[n] \in K THEN Append(t, s[n]) ELSE t
    BY <1>5, <1>7
  <2> HIDE DEF t
  <2>3. CASE s[n] \in K
    <3> DEFINE u == Append(t, s[n])
               d == [k \in 1 .. Len(t) + 1 |-> IF k = Len(t) + 1 THEN n ELSE e[k]]
    <3>1. /\ u \in Seq(S) /\ Len(u) = Len(t) + 1 /\ Len(t) \in Nat
          /\ u[Len(t) + 1] = s[n] /\ \A k \in 1 .. Len(t) : u[k] = t[k]
      BY <1>4, <1>7, <2>1
    <3>2. /\ d[Len(t) + 1] = n /\ \A k \in 1 .. Len(t) : d[k] = e[k]
      BY <3>1
    <3>3. d \in [1 .. Len(u) -> 1 .. n]
      BY <1>4, <1>7, <2>2, <3>1 DEF Picks
    <3> HIDE DEF u, d
    <3>4. \A k \in 1 .. Len(u) : u[k] = s[d[k]] /\ u[k] \in K
      BY <2>2, <2>3, <3>1, <3>2 DEF Picks
    <3>5. ASSUME NEW k \in 1 .. Len(u), NEW l \in 1 .. Len(u), k < l
          PROVE  d[k] < d[l]
      <4>1. k \in 1 .. Len(t) /\ e[k] \in 1 .. n - 1
        BY <2>2, <3>1, <3>5 DEF Picks
      <4>2. CASE l = Len(t) + 1
        BY <1>4, <3>2, <4>1, <4>2
      <4>3. CASE l # Len(t) + 1
        <5>1. l \in 1 .. Len(t)
          BY <3>1, <4>3
        <5> QED
          BY <2>2, <3>2, <3>5, <4>1, <5>1 DEF Picks
      <4> QED
        BY <4>2, <4>3
    <3>6. ASSUME NEW i \in 1 .. n, s[i] \in K
          PROVE  \E k \in 1 .. Len(u) : d[k] = i
      <4>1. CASE i = n
        BY <3>1, <3>2, <4>1
      <4>2. CASE i # n
        <5>1. i \in 1 .. n - 1
          BY <1>4, <4>2
        <5>2. PICK k \in 1 .. Len(t) : e[k] = i
          BY <2>2, <3>6, <5>1 DEF Picks
        <5> QED
          BY <3>1, <3>2, <5>2
      <4> QED
        BY <4>1, <4>2
    <3>7. Picks(d, u, s, K, n)
      BY <3>3, <3>4, <3>5, <3>6 DEF Picks
    <3> QED
      BY <1>4, <2>t, <2>3, <3>1, <3>7 DEF u
  <2>4. CASE s[n] \notin K
    <3>1. e \in [1 .. Len(t) -> 1 .. n]
      BY <1>4, <1>7, <2>2 DEF Picks
    <3>2. Picks(e, t, s, K, n)
      BY <1>4, <1>7, <2>2, <2>4, <3>1 DEF Picks
    <3> QED
      BY <1>4, <2>t, <2>1, <2>4, <3>2
  <2> QED
    BY <2>3, <2>4
<1> QED
  BY <1>6, <1>7

DistinctIds(bs) == \A i, j \in DOMAIN bs : bs[i] = bs[j] => i = j

\* TailoredInFull of any blocks, answer and document
InFull(sec, bs, as, doc) ==
  /\ \A j \in DOMAIN bs :
       sec = "experience" \/ bs[j] \in IdsOf(as) => \E k \in DOMAIN doc : doc[k] = j
  /\ \A k \in DOMAIN doc :
       doc[k] \in DOMAIN bs /\ (sec = "experience" \/ bs[doc[k]] \in IdsOf(as))
  /\ \A k, l \in DOMAIN doc : k < l =>
       \/ \E i, j \in DOMAIN as : i < j /\ as[i] = bs[doc[k]] /\ as[j] = bs[doc[l]]
       \/ bs[doc[l]] \notin IdsOf(as) /\ (bs[doc[k]] \in IdsOf(as) \/ doc[k] < doc[l])

(* Different ids, so the block printed for an id is the one that carries it. *)
LEMMA BlockOfFinds ==
  ASSUME NEW S, NEW bs \in Seq(S), DistinctIds(bs), NEW j \in DOMAIN bs
  PROVE  BlockOf(bs[j], bs) = j
<1>1. \A k \in DOMAIN bs : bs[k] = bs[j] => k <= j
  BY DEF DistinctIds
<1> QED
  BY <1>1 DEF BlockOf, DistinctIds

(* What is printed of a section is what the LLM named, in its order, then,   *)
(* for experience, the blocks it left out, in theirs.                        *)
LEMMA TailoringIsFull ==
  ASSUME NEW S, NEW sec, NEW bs \in Seq(S), NEW as \in Seq(S), DistinctIds(bs)
  PROVE  InFull(sec, bs, as, Render(SelectBlocks(sec, as, bs), bs))
<1> DEFINE K == Known(as, bs)
           R == Keep(bs, IdsOf(bs) \ IdsOf(K))
           sel == SelectBlocks(sec, as, bs)
           doc == Render(sel, bs)
<1>1. K \in Seq(S) /\ \E e : Picks(e, K, as, IdsOf(bs), Len(as))
  BY KeepPicks DEF Known
<1>2. R \in Seq(S) /\ \E d : Picks(d, R, bs, IdsOf(bs) \ IdsOf(K), Len(bs))
  <2> HIDE DEF K
  <2> QED
    BY KeepPicks
<1>3. sel = IF sec = "experience" THEN K \o R ELSE K
  BY DEF SelectBlocks
<1>4. /\ DOMAIN doc = DOMAIN sel
      /\ \A k \in DOMAIN sel : doc[k] = BlockOf(sel[k], bs)
  BY DEF Render
<1>5. PICK e : Picks(e, K, as, IdsOf(bs), Len(as))
  BY <1>1
<1>6. PICK d : Picks(d, R, bs, IdsOf(bs) \ IdsOf(K), Len(bs))
  BY <1>2
<1> HIDE DEF K, R, sel, doc
<1>l. /\ Len(K) \in Nat /\ Len(R) \in Nat /\ Len(as) \in Nat /\ Len(bs) \in Nat
      /\ DOMAIN K = 1 .. Len(K) /\ DOMAIN R = 1 .. Len(R)
      /\ DOMAIN as = 1 .. Len(as) /\ DOMAIN bs = 1 .. Len(bs)
  <2>1. \A t \in Seq(S) : Len(t) \in Nat /\ DOMAIN t = 1 .. Len(t)
    OBVIOUS
  <2> QED
    BY <1>1, <1>2, <2>1
<1>7. /\ DOMAIN sel = 1 .. Len(K) + (IF sec = "experience" THEN Len(R) ELSE 0)
      /\ \A k \in 1 .. Len(K) : sel[k] = K[k]
      /\ sec = "experience" => \A k \in 1 .. Len(R) : sel[Len(K) + k] = R[k]
  BY <1>1, <1>2, <1>3, <1>l
<1>i. \A k \in DOMAIN sel : k \in Int
  BY <1>7, <1>l
<1>8. ASSUME NEW k \in DOMAIN sel, k > Len(K)
      PROVE  /\ k - Len(K) \in 1 .. Len(R) /\ sel[k] = R[k - Len(K)]
             /\ sel[k] \in IdsOf(bs) \ IdsOf(K)
  <2>1. k - Len(K) \in 1 .. Len(R) /\ sec = "experience"
    BY <1>7, <1>8, <1>l
  <2>2. sel[k] = R[k - Len(K)]
    BY <1>7, <1>8, <1>l, <2>1
  <2> QED
    BY <1>6, <2>1, <2>2 DEF Picks
<1>9. ASSUME NEW k \in DOMAIN sel, k <= Len(K)
      PROVE  /\ k \in 1 .. Len(K) /\ sel[k] = K[k] /\ e[k] \in DOMAIN as /\ sel[k] = as[e[k]]
             /\ sel[k] \in IdsOf(K) /\ sel[k] \in IdsOf(as) /\ sel[k] \in IdsOf(bs)
  <2>1. k \in 1 .. Len(K) /\ sel[k] = K[k]
    BY <1>7, <1>9, <1>l
  <2>2. e[k] \in DOMAIN as /\ sel[k] = as[e[k]] /\ sel[k] \in IdsOf(bs)
    BY <1>5, <1>l, <2>1 DEF Picks
  <2>3. sel[k] \in IdsOf(K)
    BY <1>l, <2>1 DEF IdsOf
  <2> QED
    BY <2>1, <2>2, <2>3 DEF IdsOf
<1>10. ASSUME NEW k \in DOMAIN sel
       PROVE  doc[k] \in DOMAIN bs /\ bs[doc[k]] = sel[k]
  <2>1. k <= Len(K) \/ k > Len(K)
    BY <1>i, <1>l
  <2>2. sel[k] \in IdsOf(bs)
    BY <1>8, <1>9, <2>1
  <2>3. PICK j \in DOMAIN bs : sel[k] = bs[j]
    BY <2>2 DEF IdsOf
  <2> QED
    BY <1>4, <2>3, BlockOfFinds
<1>k. ASSUME NEW b \in IdsOf(as), b \in IdsOf(bs) PROVE b \in IdsOf(K)
  <2>1. PICK i \in 1 .. Len(as) : b = as[i]
    BY <1>l DEF IdsOf
  <2>2. PICK j \in 1 .. Len(K) : e[j] = i
    BY <1>5, <1>k, <2>1 DEF Picks
  <2>3. K[j] = b
    BY <1>5, <2>1, <2>2 DEF Picks
  <2> QED
    BY <1>l, <2>3 DEF IdsOf
<1>11. ASSUME NEW j \in DOMAIN bs, sec = "experience" \/ bs[j] \in IdsOf(as)
       PROVE  \E k \in DOMAIN doc : doc[k] = j
  <2>1. bs[j] \in IdsOf(bs)
    BY DEF IdsOf
  <2>2. SUFFICES \E k \in DOMAIN sel : sel[k] = bs[j]
    BY <1>4, BlockOfFinds
  <2>3. CASE bs[j] \in IdsOf(K)
    <3>1. PICK k \in 1 .. Len(K) : K[k] = bs[j]
      BY <1>l, <2>3 DEF IdsOf
    <3> QED
      BY <1>7, <1>l, <3>1
  <2>4. CASE bs[j] \notin IdsOf(K)
    <3>1. PICK k \in 1 .. Len(R) : d[k] = j
      BY <1>6, <1>l, <2>1, <2>4 DEF Picks
    <3>2. R[k] = bs[j]
      BY <1>6, <3>1 DEF Picks
    <3>3. sec = "experience"
      BY <1>11, <1>k, <2>1, <2>4
    <3>4. Len(K) + k \in DOMAIN sel /\ sel[Len(K) + k] = R[k]
      BY <1>7, <1>l, <3>1, <3>3
    <3> QED
      BY <3>2, <3>4
  <2> QED
    BY <2>3, <2>4
<1>12. ASSUME NEW k \in DOMAIN sel
       PROVE  doc[k] \in DOMAIN bs /\ (sec = "experience" \/ bs[doc[k]] \in IdsOf(as))
  <2>1. doc[k] \in DOMAIN bs /\ bs[doc[k]] = sel[k]
    BY <1>10
  <2>2. sec # "experience" => k <= Len(K)
    BY <1>7, <1>l
  <2> QED
    BY <1>9, <2>1, <2>2
<1>13. ASSUME NEW k \in DOMAIN sel, NEW l \in DOMAIN sel, k < l
       PROVE  \/ \E i, j \in DOMAIN as : i < j /\ as[i] = bs[doc[k]] /\ as[j] = bs[doc[l]]
              \/ bs[doc[l]] \notin IdsOf(as) /\ (bs[doc[k]] \in IdsOf(as) \/ doc[k] < doc[l])
  <2>1. bs[doc[k]] = sel[k] /\ bs[doc[l]] = sel[l] /\ k \in Int /\ l \in Int
    BY <1>10, <1>i
  <2>4. (k <= Len(K) \/ k > Len(K)) /\ (l <= Len(K) \/ l > Len(K))
    BY <1>l, <2>1
  <2>2. CASE l <= Len(K)
    <3>1. k <= Len(K)
      BY <1>13, <1>l, <2>1, <2>2
    <3>2. k \in 1 .. Len(K) /\ l \in 1 .. Len(K)
      BY <1>9, <2>2, <3>1
    <3>3. e[k] < e[l]
      BY <1>5, <1>13, <3>2 DEF Picks
    <3>4. /\ e[k] \in DOMAIN as /\ sel[k] = as[e[k]]
          /\ e[l] \in DOMAIN as /\ sel[l] = as[e[l]]
      BY <1>9, <2>2, <3>1
    <3> QED
      BY <2>1, <3>3, <3>4
  <2>3. CASE l > Len(K)
    <3>1. sel[l] \notin IdsOf(as)
      BY <1>8, <1>k, <2>3
    <3>2. CASE k <= Len(K)
      BY <1>9, <2>1, <3>1, <3>2
    <3>3. CASE k > Len(K)
      <4> DEFINE m == k - Len(K)
                 n == l - Len(K)
      <4>1. m \in 1 .. Len(R) /\ n \in 1 .. Len(R) /\ sel[k] = R[m] /\ sel[l] = R[n]
        BY <1>8, <2>3, <3>3
      <4>2. m < n
        BY <1>13, <1>l, <2>1
      <4> HIDE DEF m, n
      <4>3. d[m] < d[n] /\ d[m] \in DOMAIN bs /\ d[n] \in DOMAIN bs
        BY <1>6, <1>l, <4>1, <4>2 DEF Picks
      <4>4. bs[d[m]] = R[m] /\ bs[d[n]] = R[n]
        BY <1>6, <4>1 DEF Picks
      <4>5. doc[k] \in DOMAIN bs /\ doc[l] \in DOMAIN bs
        BY <1>10
      <4>6. doc[k] = d[m] /\ doc[l] = d[n]
        BY <2>1, <4>1, <4>3, <4>4, <4>5 DEF DistinctIds
      <4> QED
        BY <2>1, <3>1, <4>3, <4>6
    <3> QED
      BY <2>4, <3>2, <3>3
  <2> QED
    BY <2>2, <2>3, <2>4
<1>14. InFull(sec, bs, as, doc)
  BY <1>4, <1>11, <1>12, <1>13 DEF InFull
<1> QED
  BY <1>14 DEF doc, sel

(* Without that: whatever ids the parser gave, what is selected are ids of   *)
(* the resume, of experience all of them, of another section only named ones.*)
Chosen(sec, bs, as, sel) ==
  /\ \A k \in DOMAIN sel : sel[k] \in IdsOf(bs) /\ (sec # "experience" => sel[k] \in IdsOf(as))
  /\ sec = "experience" => \A j \in DOMAIN bs : \E k \in DOMAIN sel : sel[k] = bs[j]

LEMMA Selected ==
  ASSUME NEW S, NEW sec, NEW bs \in Seq(S), NEW as \in Seq(S)
  PROVE  Chosen(sec, bs, as, SelectBlocks(sec, as, bs))
<1>s. PICK sel : sel = SelectBlocks(sec, as, bs)
  OBVIOUS
<1> DEFINE K == Known(as, bs)
           R == Keep(bs, IdsOf(bs) \ IdsOf(K))
<1>1. PICK e : K \in Seq(S) /\ Picks(e, K, as, IdsOf(bs), Len(as))
  BY KeepPicks DEF Known
<1>2. PICK d : R \in Seq(S) /\ Picks(d, R, bs, IdsOf(bs) \ IdsOf(K), Len(bs))
  <2> HIDE DEF K
  <2> QED
    BY KeepPicks
<1>3. sel = IF sec = "experience" THEN K \o R ELSE K
  BY <1>s DEF SelectBlocks
<1> HIDE DEF K, R
<1>l. /\ Len(K) \in Nat /\ Len(R) \in Nat /\ Len(as) \in Nat /\ Len(bs) \in Nat
      /\ DOMAIN K = 1 .. Len(K) /\ DOMAIN R = 1 .. Len(R)
      /\ DOMAIN as = 1 .. Len(as) /\ DOMAIN bs = 1 .. Len(bs)
  <2>1. \A t \in Seq(S) : Len(t) \in Nat /\ DOMAIN t = 1 .. Len(t)
    OBVIOUS
  <2> QED
    BY <1>1, <1>2, <2>1
<1>4. \A k \in DOMAIN K : K[k] \in IdsOf(bs) /\ K[k] \in IdsOf(as)
  <2>1. \A k \in DOMAIN K : K[k] \in IdsOf(bs) /\ e[k] \in DOMAIN as /\ K[k] = as[e[k]]
    BY <1>1, <1>l DEF Picks
  <2> QED
    BY <2>1 DEF IdsOf
<1>5. \A k \in DOMAIN R : R[k] \in IdsOf(bs)
  BY <1>2, <1>l DEF Picks
<1>6. ASSUME sec # "experience" PROVE Chosen(sec, bs, as, sel)
  BY <1>3, <1>4, <1>6 DEF Chosen
<1>7. ASSUME sec = "experience" PROVE Chosen(sec, bs, as, sel)
  <2>1. /\ DOMAIN sel = 1 .. Len(K) + Len(R)
        /\ \A k \in 1 .. Len(K) : sel[k] = K[k]
        /\ \A k \in 1 .. Len(R) : sel[Len(K) + k] = R[k]
    BY <1>1, <1>2, <1>3, <1>7, <1>l
  <2>2. ASSUME NEW k \in DOMAIN sel PROVE sel[k] \in IdsOf(bs)
    <3>1. CASE k \in 1 .. Len(K)
      BY <1>4, <1>l, <2>1, <3>1
    <3>2. CASE k \notin 1 .. Len(K)
      <4>1. k - Len(K) \in 1 .. Len(R) /\ k = Len(K) + (k - Len(K))
        BY <1>l, <2>1, <3>2
      <4>2. sel[k] = R[k - Len(K)]
        BY <2>1, <4>1
      <4> QED
        BY <1>5, <1>l, <4>1, <4>2
    <3> QED
      BY <3>1, <3>2
  <2>3. ASSUME NEW j \in DOMAIN bs PROVE \E k \in DOMAIN sel : sel[k] = bs[j]
    <3>1. CASE bs[j] \in IdsOf(K)
      <4>1. PICK k \in 1 .. Len(K) : K[k] = bs[j]
        BY <1>l, <3>1 DEF IdsOf
      <4>2. k \in 1 .. Len(K) + Len(R)
        BY <1>l
      <4>3. sel[k] = K[k]
        BY <2>1
      <4> QED
        BY <2>1, <4>1, <4>2, <4>3
    <3>2. CASE bs[j] \notin IdsOf(K)
      <4>1. bs[j] \in IdsOf(bs)
        BY DEF IdsOf
      <4>2. PICK k \in 1 .. Len(R) : d[k] = j
        BY <1>2, <1>l, <3>2, <4>1 DEF Picks
      <4>3. R[k] = bs[j]
        BY <1>2, <4>2 DEF Picks
      <4>4. Len(K) + k \in 1 .. Len(K) + Len(R)
        BY <1>l
      <4>5. sel[Len(K) + k] = R[k]
        BY <2>1
      <4> QED
        BY <2>1, <4>3, <4>4, <4>5
    <3> QED
      BY <3>1, <3>2
  <2> QED
    BY <1>7, <2>2, <2>3 DEF Chosen
<1>8. Chosen(sec, bs, as, sel)
  BY <1>6, <1>7
<1> QED
  BY <1>s, <1>8

LastOfItsId(bs, j) == \A l \in DOMAIN bs : bs[l] = bs[j] => l <= j

(* An id of the resume is printed by the last block that carries it.         *)
LEMMA BlockOfLast ==
  ASSUME NEW S, NEW bs \in Seq(S), NEW b \in IdsOf(bs)
  PROVE  /\ BlockOf(b, bs) \in DOMAIN bs /\ bs[BlockOf(b, bs)] = b
         /\ LastOfItsId(bs, BlockOf(b, bs))
<1> DEFINE T == {j \in DOMAIN bs : bs[j] = b}
<1>1. T # {} /\ T \in SUBSET Int
  BY DEF IdsOf
<1>2. IsFiniteSet(T)
  <2>1. IsFiniteSet(1 .. Len(bs)) /\ DOMAIN bs = 1 .. Len(bs)
    BY FS_Interval
  <2> QED
    BY <2>1, FS_Subset
<1>3. PICK m \in T : \A s \in T : s <= m
  <2> HIDE DEF T
  <2> QED
    BY <1>1, <1>2, Largest
<1> QED
  BY <1>3 DEF BlockOf, LastOfItsId

(* What is printed of blocks bs: blocks of the resume, each the last of its  *)
(* id; of experience all those, of another section those the LLM named.      *)
Genuine(sec, bs, as, doc) ==
  /\ \A k \in DOMAIN doc :
       /\ doc[k] \in DOMAIN bs /\ LastOfItsId(bs, doc[k])
       /\ sec # "experience" => bs[doc[k]] \in IdsOf(as)
  /\ sec = "experience" =>
       \A j \in DOMAIN bs : LastOfItsId(bs, j) => \E k \in DOMAIN doc : doc[k] = j

LEMMA TailoringIsGenuine ==
  ASSUME NEW S, NEW sec, NEW bs \in Seq(S), NEW as \in Seq(S)
  PROVE  Genuine(sec, bs, as, Render(SelectBlocks(sec, as, bs), bs))
<1>s. PICK sel : sel = SelectBlocks(sec, as, bs)
  OBVIOUS
<1>d. PICK doc : doc = Render(sel, bs)
  OBVIOUS
<1>1. DOMAIN doc = DOMAIN sel /\ \A k \in DOMAIN sel : doc[k] = BlockOf(sel[k], bs)
  BY <1>d DEF Render
<1>4. Chosen(sec, bs, as, sel)
  BY <1>s, Selected
<1>2. ASSUME NEW k \in DOMAIN doc
      PROVE  /\ doc[k] \in DOMAIN bs /\ LastOfItsId(bs, doc[k])
             /\ sec # "experience" => bs[doc[k]] \in IdsOf(as)
  <2>1. sel[k] \in IdsOf(bs) /\ (sec # "experience" => sel[k] \in IdsOf(as))
    BY <1>1, <1>4 DEF Chosen
  <2> QED
    BY <1>1, <2>1, BlockOfLast
<1>3. ASSUME sec = "experience", NEW j \in DOMAIN bs, LastOfItsId(bs, j)
      PROVE  \E k \in DOMAIN doc : doc[k] = j
  <2>1. PICK k \in DOMAIN sel : sel[k] = bs[j]
    BY <1>3, <1>4 DEF Chosen
  <2>2. bs[j] \in IdsOf(bs) /\ doc[k] = BlockOf(bs[j], bs)
    BY <1>1, <2>1 DEF IdsOf
  <2>3. doc[k] \in DOMAIN bs /\ bs[doc[k]] = bs[j] /\ LastOfItsId(bs, doc[k])
    BY <2>2, BlockOfLast
  <2>4. j <= doc[k] /\ doc[k] <= j /\ j \in Int /\ doc[k] \in Int
    BY <1>3, <2>3 DEF LastOfItsId
  <2> QED
    BY <1>1, <2>1, <2>4
<1> QED
  BY <1>s, <1>d, <1>2, <1>3 DEF Genuine

(* Until the PDF of a posting is printed there is nothing of it to judge;    *)
(* once it is, it is what select_blocks made of the LLM's answer.            *)
Tailored ==
  /\ blocks \in Seq(BlockIds) /\ answer \in Seq(BlockIds)
  /\ \/ document = Render(SelectBlocks(section, answer, blocks), blocks)
     \/ blocks = << >> /\ document = << >>
  /\ phase \in {"load", "route", "apply", "tailor"} => blocks = << >> /\ document = << >>

LEMMA TailoredStep == ASSUME Tailored, [RoutingNext]_routingVars PROVE Tailored'
<1>1. ASSUME Tailor PROVE Tailored'
  <2>1. blocks' \in Seq(BlockIds) /\ answer' \in Seq(BlockIds)
    <3>1. \A n \in Nat : UpTo(n) \subseteq Seq(BlockIds)
      BY DEF UpTo
    <3> QED
      BY <1>1, <3>1, RoutingBounds DEF Tailor
  <2>2. document' = Render(SelectBlocks(section', answer', blocks'), blocks')
    BY <1>1 DEF Tailor
  <2>3. phase' = "done"
    BY <1>1 DEF Tailor
  <2> QED
    BY <2>1, <2>2, <2>3 DEF Tailored
<1>2. ASSUME UNCHANGED tailoringVars,
             phase \in {"load", "route", "apply", "tailor"} \/ UNCHANGED phase
      PROVE  Tailored'
  BY <1>2 DEF Tailored, tailoringVars
<1>3. CASE UNCHANGED routingVars
  BY <1>2, <1>3 DEF routingVars
<1>4. ASSUME RejectList \/ \E label \in Labels : InferRole(label)
      PROVE  UNCHANGED tailoringVars /\ phase = "load"
  BY <1>4 DEF RejectList, InferRole
<1>5. ASSUME NEW verdict \in BOOLEAN,
             RouteOnly(verdict) \/ \E match \in Labels \cup {NoRole} : Route(match, verdict)
      PROVE  UNCHANGED tailoringVars /\ phase = "route"
  BY <1>5 DEF RouteOnly, Route
<1>6. ASSUME Apply PROVE UNCHANGED tailoringVars /\ phase = "apply"
  BY <1>6 DEF Apply
<1> QED
  BY <1>1, <1>2, <1>3, <1>4, <1>5, <1>6 DEF RoutingNext

LEMMA TailoredJudged == ASSUME Tailored PROVE TailoredInFull
<1> SUFFICES ASSUME DistinctIds(blocks) PROVE InFull(section, blocks, answer, document)
  BY DEF TailoredInFull, Named, InFull, DistinctIds
<1>1. CASE document = Render(SelectBlocks(section, answer, blocks), blocks)
  BY <1>1, TailoringIsFull DEF Tailored
<1>2. CASE blocks = << >> /\ document = << >>
  <2>1. DOMAIN << >> = {}
    OBVIOUS
  <2> QED
    BY <1>2, <2>1 DEF InFull
<1> QED
  BY <1>1, <1>2 DEF Tailored

(* Whatever the LLM answers, for any number of blocks with distinct ids:     *)
(* experience is printed in full, of another section what was named, nothing *)
(* else; any two blocks in the order of the answer, those it left out after  *)
(* the others in the order of the resume (select_blocks and render_resume).  *)
THEOREM TailoredInFullHolds == RoutingSpec => []TailoredInFull
<1>1. RoutingInit => Tailored
  BY DEF RoutingInit, Tailored
<1>2. Tailored /\ [RoutingNext]_routingVars => Tailored'
  BY TailoredStep
<1>3. Tailored => TailoredInFull
  BY TailoredJudged
<1> QED
  BY <1>1, <1>2, <1>3, PTL DEF RoutingSpec

(* "any hallucinated/unknown id in any list is dropped rather than trusted"  *)
(* (select_blocks): nothing is printed that the resume does not have, nor,   *)
(* outside experience, that the LLM did not choose; and if the parser gave   *)
(* two blocks one id, the last of them is the one that is printed, always.   *)
THEOREM PrintsGenuineBlocks == RoutingSpec => []Genuine(section, blocks, answer, document)
<1>1. RoutingInit => Tailored
  BY DEF RoutingInit, Tailored
<1>2. Tailored /\ [RoutingNext]_routingVars => Tailored'
  BY TailoredStep
<1>3. Tailored => Genuine(section, blocks, answer, document)
  <2>1. DOMAIN << >> = {}
    OBVIOUS
  <2> QED
    BY <2>1, TailoringIsGenuine DEF Tailored, Genuine
<1> QED
  BY <1>1, <1>2, <1>3, PTL DEF RoutingSpec

-----------------------------------------------------------------------------
(* What the store hands to a run                                             *)

\* list_resumes returns every row once; load_role_profiles counts those marked primary
Lists(n, list) ==
  /\ \A i \in rows : \E k \in 1 .. n : list[k] = i
  /\ \A k, l \in 1 .. n : list[k] = list[l] => k = l

Marks(n, list) == [k \in 1 .. n |-> list[k] \in primary]

ListAccepted ==
  \A n \in Nat : \A list \in [1 .. n -> rows] : Lists(n, list) => ExactlyOne(Marks(n, list))

(* Uploads, deletions and changes of the primary resume, with any failures   *)
(* between their steps, leave a list that load_role_profiles accepts, unless *)
(* no resume is left or a delete crossed a set-primary of the same one.      *)
THEOREM ListAcceptedHolds == Spec => [](contended \/ rows = {} \/ ListAccepted)
<1>1. TypeOK /\ PrimaryUnlessContended => contended \/ rows = {} \/ ListAccepted
  <2> SUFFICES ASSUME TypeOK, ExactlyOnePrimary, rows # {},
                      NEW n \in Nat, NEW list \in [1 .. n -> rows], Lists(n, list)
               PROVE  ExactlyOne(Marks(n, list))
    BY DEF PrimaryUnlessContended, ListAccepted
  <2>1. PICK i \in primary : primary = {i}
    BY DEF ExactlyOnePrimary
  <2>2. PICK k \in 1 .. n : list[k] = i
    BY <2>1 DEF TypeOK, Lists
  <2>3. \A l \in 1 .. n : list[l] \in primary <=> k = l
    BY <2>1, <2>2 DEF Lists
  <2> QED
    BY <2>3 DEF ExactlyOne, Marks
<1> QED
  BY <1>1, TypeCorrect, PrimaryUnlessContendedHolds, PTL

=============================================================================
