--------------------------- MODULE RunControlProofs ---------------------------
(***************************************************************************)
(* Proofs about module RunControl, for any number of runs, requests,        *)
(* failures and uploads.                                                    *)
(***************************************************************************)
EXTENDS RunControl, TLAPS

Kinds == {"none", "trigger", "poll"}
Requests == [kind : Kinds, id : 0 .. MaxRuns, told : {"unread", "error", "running"} \cup Ledger!Outcomes]
Runs == [id : 0 .. MaxRuns, status : {"none", "running"} \cup Ledger!Outcomes]

(* What a request was told of a run: the run exists, and an outcome is its   *)
(* own.                                                                      *)
IsTrue(q) ==
  /\ q.id # 0 => status[q.id] # "absent"
  /\ q.told \in {"running"} \cup Ledger!Outcomes => q.id # 0
  /\ q.told \in Ledger!Outcomes => status[q.id] = q.told

(* The same of the run that is shown.                                        *)
ShownIsTrue ==
  /\ run.id # 0 => run.status \in {"running"} \cup Ledger!Outcomes /\ status[run.id] # "absent"
  /\ run.status \in {"running"} \cup Ledger!Outcomes => run.id # 0
  /\ run.status \in Ledger!Outcomes => status[run.id] = run.status

PolledExists == polling # 0 => status[polling] # "absent"

Inv ==
  /\ TypeOK /\ PolledExists /\ ShownIsTrue /\ ShownIsPolled
  /\ \A i \in Slots : IsTrue(request[i])

LEMMA InitInv == ASSUME Init PROVE Inv
<1> USE DEF Init, NoRequest, running
<1>1. TypeOK
  <2>1. {error, late, runInProgress} \subseteq BOOLEAN
    OBVIOUS
  <2>2. status \in [RunIds -> {"absent", "running"} \cup Ledger!Outcomes]
    BY DEF Ledger!Init, RunIds, Ledger!RunIds
  <2>3. request \in [Slots -> Requests] /\ run \in Runs /\ polling \in 0 .. MaxRuns
        /\ errors \in 0 .. MaxErrors /\ uploads \in 0 .. MaxUploads
    BY Bounds DEF Requests, Runs, Kinds
  <2> QED
    BY <2>1, <2>2, <2>3 DEF TypeOK, Requests, Runs, Kinds
<1> QED
  BY <1>1 DEF Inv, PolledExists, ShownIsTrue, ShownIsPolled, IsTrue, Ledger!Outcomes

(* A step of the page.                                                       *)

LEMMA Sent ==
  ASSUME Inv, NEW kind \in Kinds, NEW id \in 0 .. MaxRuns, Send(kind, id), UNCHANGED status,
         id # 0 => status[id] # "absent"
  PROVE  /\ request' \in [Slots -> Requests]
         /\ \A i \in Slots : IsTrue(request[i])'
         /\ \A i \in Slots : request[i].kind = "trigger" => request'[i].kind = "trigger"
         /\ \E i \in Slots : request'[i].kind = kind
<1>1. PICK j \in Free : request' = [request EXCEPT ![j] = [kind |-> kind, id |-> id, told |-> "unread"]]
  BY DEF Send
<1>2. request \in [Slots -> Requests]
  BY DEF Inv, TypeOK, Requests, Kinds
<1>3. j \in Slots /\ request[j].kind = "none"
  BY DEF Free, NoRequest
<1>4. \A i \in Slots : request'[i] = IF i = j THEN [kind |-> kind, id |-> id, told |-> "unread"]
                                     ELSE request[i]
  BY <1>1, <1>2
<1>5. [kind |-> kind, id |-> id, told |-> "unread"] \in Requests
  BY DEF Requests
<1>6. request' \in [Slots -> Requests]
  BY <1>1, <1>2, <1>5
<1>7. \A i \in Slots : IsTrue(request[i])'
  BY <1>4 DEF Inv, IsTrue, Ledger!Outcomes
<1>8. \A i \in Slots : request[i].kind = "trigger" => request'[i].kind = "trigger"
  BY <1>3, <1>4
<1>9. request'[j].kind = kind
  BY <1>3, <1>4
<1> QED
  BY <1>3, <1>6, <1>7, <1>8, <1>9

LEMMA StartInv ==
  ASSUME Inv, start, UNCHANGED status
  PROVE  /\ request' \in [Slots -> Requests] /\ error' = FALSE /\ UNCHANGED <<run, polling, late>>
         /\ \A i \in Slots : IsTrue(request[i])'
         /\ PolledExists' /\ ShownIsTrue' /\ ShownIsPolled'
<1>1. Send("trigger", 0) /\ error' = FALSE /\ UNCHANGED <<run, polling, late>>
  BY DEF start
<1>2. /\ request' \in [Slots -> Requests]
      /\ \A i \in Slots : IsTrue(request[i])'
      /\ \E i \in Slots : request'[i].kind = "trigger"
  BY <1>1, Sent, Bounds DEF Kinds
<1> QED
  BY <1>1, <1>2 DEF Inv, PolledExists, ShownIsTrue, ShownIsPolled

LEMMA PageStepInv ==
  ASSUME Inv, Press \/ Tick \/ UploadBegins \/ UploadDone \/ UploadFails
  PROVE  Inv'
<1>1. CASE Press
  <2>1. start /\ UNCHANGED <<status, upload, runInProgress, uploads, errors>>
    BY <1>1 DEF Press, uploadVars
  <2>2. /\ request' \in [Slots -> Requests] /\ error' = FALSE /\ UNCHANGED <<run, polling, late>>
        /\ \A i \in Slots : IsTrue(request[i])'
        /\ PolledExists' /\ ShownIsTrue' /\ ShownIsPolled'
    BY <2>1, StartInv
  <2>3. {error', late', runInProgress'} \subseteq BOOLEAN
    BY <2>1, <2>2 DEF Inv, TypeOK
  <2>4. TypeOK'
    BY <2>1, <2>2, <2>3 DEF Inv, TypeOK, Requests, Kinds
  <2> QED
    BY <2>2, <2>4 DEF Inv
<1>2. CASE Tick
  <2>1. /\ polling # 0 /\ Send("poll", polling)
        /\ UNCHANGED <<status, run, error, polling, late, upload, runInProgress, uploads, errors>>
    BY <1>2 DEF Tick, uploadVars, pageVars
  <2>2. /\ request' \in [Slots -> Requests]
        /\ \A i \in Slots : IsTrue(request[i])'
        /\ \A i \in Slots : request[i].kind = "trigger" => request'[i].kind = "trigger"
    BY <2>1, Sent DEF Kinds, Inv, TypeOK, PolledExists
  <2>3. TypeOK'
    BY <2>1, <2>2 DEF Inv, TypeOK, Requests, Kinds
  <2> QED
    BY <2>1, <2>2, <2>3 DEF Inv, PolledExists, ShownIsTrue, ShownIsPolled, running
<1>3. CASE UploadDone
  <2>1. /\ UNCHANGED <<status, runInProgress, uploads, errors>> /\ upload' = "none"
        /\ UNCHANGED <<run, error, polling, late, request>> \/ start
    BY <1>3 DEF UploadDone, pageVars
  <2>2. /\ request' \in [Slots -> Requests] /\ UNCHANGED <<run, polling, late>>
        /\ error' \in {FALSE, error}
        /\ \A i \in Slots : IsTrue(request[i])'
        /\ PolledExists' /\ ShownIsTrue' /\ ShownIsPolled'
    <3>1. CASE UNCHANGED <<run, error, polling, late, request>>
      BY <2>1, <3>1 DEF Inv, TypeOK, Requests, Kinds, IsTrue, PolledExists, ShownIsTrue, ShownIsPolled, running
    <3>2. CASE start
      BY <2>1, <3>2, StartInv
    <3> QED
      BY <2>1, <3>1, <3>2
  <2>3. {error', late', runInProgress'} \subseteq BOOLEAN
    BY <2>1, <2>2 DEF Inv, TypeOK
  <2>4. TypeOK'
    BY <2>1, <2>2, <2>3 DEF Inv, TypeOK, Requests, Kinds
  <2> QED
    BY <2>2, <2>4 DEF Inv
<1>4. CASE UploadBegins \/ UploadFails
  <2>1. /\ UNCHANGED <<status, run, error, polling, late, request>>
        /\ upload' \in {"none", "sending"} /\ runInProgress' \in BOOLEAN
        /\ uploads' \in 0 .. MaxUploads /\ errors' \in 0 .. MaxErrors
    <3>1. CASE UploadBegins
      BY <3>1, Bounds DEF UploadBegins, pageVars, Inv, TypeOK, running
    <3>2. CASE UploadFails
      BY <3>2, Bounds DEF UploadFails, pageVars, Inv, TypeOK
    <3> QED
      BY <1>4, <3>1, <3>2
  <2>2. {error', late', runInProgress'} \subseteq BOOLEAN
    BY <2>1 DEF Inv, TypeOK
  <2>3. TypeOK'
    BY <2>1, <2>2 DEF Inv, TypeOK
  <2> QED
    BY <2>1, <2>3 DEF Inv, PolledExists, ShownIsTrue, ShownIsPolled, running, IsTrue
<1> QED
  BY <1>1, <1>2, <1>3, <1>4

(* An answer is applied.                                                     *)

LEMMA AnswerInv ==
  ASSUME Inv, NEW i \in Slots, Answer(i)
  PROVE  Inv'
<1>1. request \in [Slots -> Requests]
  BY DEF Inv, TypeOK, Requests, Kinds
<1>2. /\ UNCHANGED <<status, upload, runInProgress, uploads, errors>>
      /\ request' = [request EXCEPT ![i] = NoRequest] /\ request[i].told # "unread"
  BY DEF Answer, Started, NotStarted, Polled, PollFailed, Told, Done, uploadVars
<1>3. NoRequest \in Requests
  BY Bounds DEF NoRequest, Requests, Kinds
<1>4. request' \in [Slots -> Requests]
  BY <1>1, <1>2, <1>3
<1>5. \A j \in Slots : request'[j] = IF j = i THEN NoRequest ELSE request[j]
  BY <1>1, <1>2
<1>6. \A j \in Slots : IsTrue(request[j])'
  BY <1>2, <1>5 DEF Inv, IsTrue, NoRequest, Ledger!Outcomes
<1>7. request[i] \in Requests /\ IsTrue(request[i])
  BY <1>1 DEF Inv
<1>8. CASE request[i].told # "error" /\ (Started(i) \/ Polled(i))
  <2>1. run' = [id |-> request[i].id, status |-> request[i].told]
    BY <1>8 DEF Started, Polled, Show
  <2>2. request[i].told \in {"running"} \cup Ledger!Outcomes /\ request[i].id # 0
    BY <1>2, <1>7, <1>8 DEF Requests, IsTrue
  <2>3. run' \in Runs
    BY <1>7, <2>1, <2>2 DEF Runs, Requests
  <2>4. run'.id = request[i].id /\ run'.status = request[i].told
    BY <2>1
  <2>5. ShownIsTrue'
    BY <1>2, <1>7, <2>2, <2>4 DEF ShownIsTrue, IsTrue, Ledger!Outcomes
  <2>6. polling' \in {0, polling, request[i].id} /\ error' = error /\ late' \in BOOLEAN
    BY <1>8 DEF Started, Polled, Late, Inv, TypeOK
  <2>7. PolledExists' /\ polling' \in 0 .. MaxRuns
    BY <1>2, <1>7, <2>6, Bounds DEF PolledExists, Inv, TypeOK, IsTrue, Requests
  <2>8. {error', late', runInProgress'} \subseteq BOOLEAN
    BY <1>2, <2>6 DEF Inv, TypeOK
  <2>9. TypeOK'
    BY <1>2, <1>4, <2>3, <2>7, <2>8 DEF Inv, TypeOK, Requests, Runs, Kinds
  <2>10. ShownIsPolled'
    <3>1. CASE Started(i)
      <4>1. polling' = run'.id
        BY <2>4, <3>1 DEF Started
      <4> QED
        BY <4>1 DEF ShownIsPolled
    <3>2. CASE Polled(i)
      <4>1. late' = (late \/ polling # request[i].id)
            /\ polling' = IF request[i].told = "running" THEN polling ELSE 0
        BY <3>2 DEF Polled, Late
      <4>2. run'.status = "running" /\ ~late' => polling' = run'.id
        BY <2>4, <4>1
      <4> QED
        BY <4>2 DEF ShownIsPolled, running
    <3> QED
      BY <1>8, <3>1, <3>2
  <2> QED
    BY <1>6, <2>5, <2>7, <2>9, <2>10 DEF Inv
<1>9. CASE NotStarted(i) \/ PollFailed(i)
  <2>1. error' = TRUE /\ UNCHANGED run /\ polling' \in {0, polling}
    BY <1>9 DEF NotStarted, PollFailed
  <2>2. late' \in BOOLEAN
    BY <1>9 DEF NotStarted, PollFailed, Late, Inv, TypeOK
  <2>3. {error', late', runInProgress'} \subseteq BOOLEAN
    BY <1>2, <2>1, <2>2 DEF Inv, TypeOK
  <2>4. polling' \in 0 .. MaxRuns
    BY <2>1, Bounds DEF Inv, TypeOK
  <2>5. TypeOK'
    BY <1>2, <1>4, <2>1, <2>3, <2>4 DEF Inv, TypeOK, Requests, Kinds
  <2>6. PolledExists' /\ ShownIsTrue' /\ ShownIsPolled'
    BY <1>2, <2>1 DEF Inv, PolledExists, ShownIsTrue, ShownIsPolled
  <2> QED
    BY <1>6, <2>5, <2>6 DEF Inv
<1> QED
  BY <1>8, <1>9 DEF Answer, Started, Polled

-----------------------------------------------------------------------------
(* The server                                                                *)

(* A request learns something and nothing else happens.                      *)
LEMMA ReadsInv ==
  ASSUME Inv, NEW i \in Slots, NEW q \in Requests, q.kind = request[i].kind,
         request' = [request EXCEPT ![i] = q], IsTrue(q)', errors' \in 0 .. MaxErrors,
         UNCHANGED <<run, error, polling, late, upload, runInProgress, uploads>>,
         status' \in [RunIds -> {"absent", "running"} \cup Ledger!Outcomes],
         \A r \in RunIds : status[r] # "absent" => status'[r] = status[r]
  PROVE  Inv'
<1>1. request \in [Slots -> Requests]
  BY DEF Inv, TypeOK, Requests, Kinds
<1>2. request' \in [Slots -> Requests]
  BY <1>1
<1>3. \A j \in Slots : request'[j] = IF j = i THEN q ELSE request[j]
  BY <1>1
<1>4. TypeOK'
  BY <1>2 DEF Inv, TypeOK, Requests, Kinds
<1>5. \A j \in Slots : IsTrue(request[j])'
  <2> TAKE j \in Slots
  <2>1. CASE j = i
    BY <1>3, <2>1 DEF IsTrue
  <2>2. CASE j # i
    <3>1. request[j].id # 0 => request[j].id \in RunIds
      BY <1>1, Bounds DEF Requests, RunIds
    <3> QED
      BY <1>3, <2>2, <3>1 DEF Inv, IsTrue, Ledger!Outcomes
  <2> QED
    BY <2>1, <2>2
<1>6. PolledExists' /\ ShownIsTrue'
  <2>1. (polling # 0 => polling \in RunIds) /\ (run.id # 0 => run.id \in RunIds)
    BY Bounds DEF Inv, TypeOK, RunIds
  <2> QED
    BY <2>1 DEF Inv, PolledExists, ShownIsTrue
<1>7. ShownIsPolled'
  BY <1>3 DEF Inv, ShownIsPolled, running
<1> QED
  BY <1>4, <1>5, <1>6, <1>7 DEF Inv

LEMMA ServerStepInv ==
  ASSUME Inv, NEW i \in Slots, Triggered(i) \/ Read(i) \/ RequestFails(i)
  PROVE  Inv'
<1>1. request \in [Slots -> Requests] /\ request[i] \in Requests /\ IsTrue(request[i])
  BY DEF Inv, TypeOK, Requests, Kinds
<1>2. UNCHANGED <<run, error, polling, late, upload, runInProgress, uploads>>
  BY DEF Triggered, Read, RequestFails, pageVars, uploadVars
<1>3. ASSUME NEW told \in {"unread", "error", "running"} \cup Ledger!Outcomes, Reads(i, told), UNCHANGED status,
             told \in {"running"} \cup Ledger!Outcomes => request[i].id # 0,
             told \in Ledger!Outcomes => status[request[i].id] = told,
             errors' \in 0 .. MaxErrors
      PROVE  Inv'
  <2>1. [request[i] EXCEPT !.told = told] \in Requests
    BY <1>1 DEF Requests
  <2>2. PICK q \in Requests : q = [request[i] EXCEPT !.told = told]
    BY <2>1
  <2>3. q.kind = request[i].kind /\ q.id = request[i].id /\ q.told = told
    BY <1>1, <2>2 DEF Requests
  <2>4. request' = [request EXCEPT ![i] = q]
    BY <1>3, <2>2 DEF Reads
  <2>5. IsTrue(q)'
    BY <1>1, <1>3, <2>3 DEF IsTrue, Ledger!Outcomes
  <2> QED
    BY <1>2, <1>3, <2>3, <2>4, <2>5, ReadsInv DEF Inv, TypeOK
<1>4. CASE Read(i)
  <2>1. /\ request[i].id # 0 /\ Reads(i, status[request[i].id]) /\ UNCHANGED <<status, errors>>
    BY <1>4 DEF Read
  <2>2. request[i].id \in RunIds
    BY <1>1, <2>1, Bounds DEF Requests, RunIds
  <2>3. status[request[i].id] \in {"running"} \cup Ledger!Outcomes
    BY <1>1, <2>1, <2>2 DEF Inv, TypeOK, IsTrue
  <2> QED
    BY <1>3, <2>1, <2>3 DEF Inv, TypeOK
<1>5. CASE RequestFails(i)
  <2>1. Reads(i, "error") /\ errors' \in 0 .. MaxErrors /\ UNCHANGED status
    BY <1>5, Bounds DEF RequestFails, Inv, TypeOK
  <2> QED
    BY <1>3, <2>1 DEF Ledger!Outcomes
<1>6. CASE Triggered(i)
  <2>1. UNCHANGED errors /\ request[i] = [kind |-> "trigger", id |-> 0, told |-> "unread"]
    BY <1>6 DEF Triggered
  <2>2. CASE Reads(i, "error") /\ UNCHANGED status
    BY <1>3, <2>1, <2>2 DEF Ledger!Outcomes, Inv, TypeOK
  <2>3. ASSUME NEW r \in RunIds, Ledger!Open(r), request' = [request EXCEPT ![i].id = r] PROVE Inv'
    <3> DEFINE q == [kind |-> "trigger", id |-> r, told |-> "unread"]
    <3>1. status[r] = "absent" /\ status' = [status EXCEPT ![r] = "running"]
      BY <2>3, Bounds DEF Ledger!Open, Ledger!RunIds, RunIds
    <3>2. /\ status' \in [RunIds -> {"absent", "running"} \cup Ledger!Outcomes] /\ status'[r] = "running"
          /\ \A s \in RunIds : status[s] # "absent" => status'[s] = status[s]
      BY <3>1 DEF Inv, TypeOK
    <3>3. q \in Requests /\ q.kind = request[i].kind
      BY <2>1, Bounds DEF Requests, Kinds, RunIds
    <3>4. request' = [request EXCEPT ![i] = q]
      <4>1. q = [request[i] EXCEPT !.id = r]
        BY <2>1
      <4> QED
        BY <2>3, <4>1
    <3>5. IsTrue(q)'
      BY <3>2, Bounds DEF IsTrue, RunIds, Ledger!Outcomes
    <3> QED
      BY <1>2, <2>1, <3>2, <3>3, <3>4, <3>5, ReadsInv DEF Inv, TypeOK
  <2> QED
    BY <1>6, <2>2, <2>3 DEF Triggered
<1> QED
  BY <1>4, <1>5, <1>6

LEMMA RunEndsInv ==
  ASSUME Inv, RunEnds
  PROVE  Inv'
<1>1. PICK r \in RunIds, outcome \in Ledger!Outcomes : Ledger!Close(r, outcome)
  BY DEF RunEnds
<1>2. /\ UNCHANGED <<run, error, polling, late, request, upload, runInProgress, uploads, errors>>
      /\ status[r] = "running" /\ status' = [status EXCEPT ![r] = outcome]
  BY <1>1 DEF RunEnds, Ledger!Close, pageVars, uploadVars
<1>3. /\ status' \in [RunIds -> {"absent", "running"} \cup Ledger!Outcomes]
      /\ \A s \in RunIds : status'[s] = IF s = r THEN outcome ELSE status[s]
  BY <1>2 DEF Inv, TypeOK
<1>4. TypeOK'
  BY <1>2, <1>3 DEF Inv, TypeOK
<1>5. \A s \in RunIds : /\ status[s] # "absent" => status'[s] # "absent"
                        /\ status[s] \in Ledger!Outcomes => status'[s] = status[s]
  BY <1>2, <1>3 DEF Ledger!Outcomes
<1>6. \A i \in Slots : IsTrue(request[i])'
  <2> TAKE i \in Slots
  <2>1. request[i].id # 0 => request[i].id \in RunIds
    BY Bounds DEF Inv, TypeOK, RunIds
  <2> QED
    BY <1>2, <1>5, <2>1 DEF Inv, IsTrue
<1>7. PolledExists' /\ ShownIsTrue'
  <2>1. (polling # 0 => polling \in RunIds) /\ (run.id # 0 => run.id \in RunIds)
    BY Bounds DEF Inv, TypeOK, RunIds
  <2> QED
    BY <1>2, <1>5, <2>1 DEF Inv, PolledExists, ShownIsTrue
<1>8. ShownIsPolled'
  BY <1>2 DEF Inv, ShownIsPolled, running
<1> QED
  BY <1>4, <1>6, <1>7, <1>8 DEF Inv

LEMMA StepInv ==
  ASSUME Inv, [Next]_vars
  PROVE  Inv'
<1>1. CASE UNCHANGED vars
  <2>1. UNCHANGED <<status, run, error, polling, late, request, upload, runInProgress, uploads, errors>>
    BY <1>1 DEF vars, pageVars, uploadVars
  <2> QED
    BY <2>1 DEF Inv, TypeOK, PolledExists, ShownIsTrue, ShownIsPolled, running, IsTrue
<1>2. CASE Next
  BY <1>2, PageStepInv, AnswerInv, ServerStepInv, RunEndsInv DEF Next
<1> QED
  BY <1>1, <1>2

-----------------------------------------------------------------------------
(* A run that is shown as finished is shown with the outcome the runs table  *)
(* keeps, whatever requests were in flight and in whatever order their       *)
(* answers came.                                                             *)
THEOREM ConsistentHolds == Spec => []Consistent
<1>1. Inv => Consistent
  <2>1. ASSUME Inv PROVE TypeOK /\ OutcomeIsTrue
    BY <2>1 DEF Inv, OutcomeIsTrue, ShownIsTrue, running
  <2> QED
    BY <2>1 DEF Consistent
<1>2. Inv /\ [Next]_vars => Inv'
  BY StepInv
<1> QED
  BY InitInv, <1>1, <1>2, PTL DEF Spec

(* A run shown as running is polled, until a request fails, an answer comes  *)
(* late or another run has been asked for.                                   *)
THEOREM ShownIsPolledHolds == Spec => []ShownIsPolled
<1>1. Inv => ShownIsPolled
  BY DEF Inv
<1>2. Inv /\ [Next]_vars => Inv'
  BY StepInv
<1> QED
  BY InitInv, <1>1, <1>2, PTL DEF Spec

(* What the page is told by is a runs table as RunLedger promises it and     *)
(* Runs implements it: the page never changes it but by opening a run when   *)
(* none is open (POST /api/runs), and nothing else does but its run ending.  *)
THEOREM KeepsLedger == Spec => Ledger!Spec
<1>1. Init => Ledger!Init
  BY DEF Init
<1>2. ASSUME [Next]_vars PROVE [Ledger!Next]_status
  <2>1. ASSUME NEW r \in RunIds, Ledger!Open(r) \/ \E outcome \in Ledger!Outcomes : Ledger!Close(r, outcome)
        PROVE  Ledger!Next
    BY <2>1 DEF Ledger!Next, RunIds, Ledger!RunIds
  <2>2. ASSUME NEW i \in Slots, Triggered(i) PROVE [Ledger!Next]_status
    BY <2>1, <2>2 DEF Triggered
  <2>3. CASE RunEnds
    BY <2>1, <2>3 DEF RunEnds
  <2>4. ASSUME NEW i \in Slots, Answer(i) \/ Read(i) \/ RequestFails(i) PROVE UNCHANGED status
    BY <2>4 DEF Answer, Started, NotStarted, Polled, PollFailed, Read, RequestFails
  <2>5. CASE Press \/ Tick \/ UploadBegins \/ UploadDone \/ UploadFails \/ UNCHANGED vars
    BY <2>5 DEF Press, Tick, UploadBegins, UploadDone, UploadFails, vars
  <2> QED
    BY <1>2, <2>2, <2>3, <2>4, <2>5 DEF Next
<1> QED
  BY <1>1, <1>2, PTL DEF Spec, Ledger!Spec
==============================================================================
