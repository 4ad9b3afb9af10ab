------------------------------ MODULE RunControl -----------------------------
(***************************************************************************)
(* The page: frontend/src/hooks/useRunControl.ts (start a run, poll it every *)
(* two seconds) with the button of RunControl.tsx and the upload of          *)
(* ResumesPage.tsx that starts a run of its own.  The server behind it is    *)
(* the one RunLedger promises; requests take any time, answers come in any   *)
(* order.                                                                    *)
(***************************************************************************)
EXTENDS Naturals, FiniteSets

CONSTANTS
  MaxRuns,        \* bound: runs ever started
  Slots,          \* bound: requests in flight at once
  MaxErrors,      \* bound: requests that fail (a reloading backend)
  MaxUploads      \* bound: resumes dropped on the page

ASSUME Bounds ==
  MaxRuns \in Nat /\ IsFiniteSet(Slots) /\ MaxErrors \in Nat /\ MaxUploads \in Nat

VARIABLES
  status,         \* the runs table of the server, as RunLedger describes it
  run,            \* the run shown: id 0 for null
  error,          \* an error is shown
  polling,        \* the run the interval in pollRef polls, 0 for none
  request,        \* request[i]: what it is, the run it is about, what it was told
  upload,         \* where ResumesPage.upload stands
  runInProgress,  \* the prop that upload captured when it began
  late,           \* ghost: an answer was applied after its interval had ended
  errors, uploads \* counters of the bounds

pageVars == <<run, error, polling, late>>
uploadVars == <<upload, runInProgress, uploads>>
vars == <<status, pageVars, request, uploadVars, errors>>

Ledger == INSTANCE RunLedger

RunIds == 1 .. MaxRuns
NoRequest == [kind |-> "none", id |-> 0, told |-> "unread"]
Free == {i \in Slots : request[i] = NoRequest}
running == run.status = "running"

Init ==
  /\ Ledger!Init
  /\ run = [id |-> 0, status |-> "none"] /\ error = FALSE /\ polling = 0 /\ late = FALSE
  /\ request = [i \in Slots |-> NoRequest]
  /\ upload = "none" /\ runInProgress = FALSE /\ uploads = 0 /\ errors = 0

-----------------------------------------------------------------------------
(* The page                                                                  *)

Send(kind, id) ==
  \E i \in Free : request' = [request EXCEPT ![i] = [kind |-> kind, id |-> id, told |-> "unread"]]

\* the bound: a run is left for every request to start one
Bounded ==
  Cardinality({r \in RunIds : status[r] # "absent"})
    + Cardinality({i \in Slots : request[i].kind = "trigger" /\ request[i].id = 0}) < MaxRuns

start == Bounded /\ error' = FALSE /\ Send("trigger", 0) /\ UNCHANGED <<run, polling, late>>

\* the button is enabled until the answer says that a run is running
Press ==
  /\ ~running /\ start
  /\ UNCHANGED <<status, uploadVars, errors>>

\* the interval does not wait for the previous answer
Tick ==
  /\ polling # 0 /\ Send("poll", polling)
  /\ UNCHANGED <<status, pageVars, uploadVars, errors>>

Told(i, kind) == request[i].kind = kind /\ request[i].told # "unread"
Done(i) == request' = [request EXCEPT ![i] = NoRequest]
Show(i) == run' = [id |-> request[i].id, status |-> request[i].told]

\* Variant: the interval of the run before goes on.
StartedKeepingPoll(i) ==
  /\ Told(i, "trigger") /\ request[i].told # "error" /\ Done(i)
  /\ Show(i) /\ polling' = (IF polling = 0 THEN request[i].id ELSE polling) /\ late' = FALSE
  /\ UNCHANGED <<status, error, uploadVars, errors>>

\* the run started is shown and polled, instead of any other
Started(i) ==
  /\ Told(i, "trigger") /\ request[i].told # "error" /\ Done(i)
  /\ Show(i) /\ polling' = request[i].id /\ late' = FALSE
  /\ UNCHANGED <<status, error, uploadVars, errors>>

NotStarted(i) ==
  /\ Told(i, "trigger") /\ request[i].told = "error" /\ Done(i)
  /\ error' = TRUE
  /\ UNCHANGED <<status, run, polling, late, uploadVars, errors>>

Late(i) == late' = (late \/ polling # request[i].id)

\* Variant: the button waits for "completed".
PolledUntilCompleted(i) ==
  /\ Told(i, "poll") /\ request[i].told # "error" /\ Done(i)
  /\ run' = [id |-> request[i].id,
             status |-> IF request[i].told = "completed" THEN "completed" ELSE "running"]
  /\ polling' = IF request[i].told = "running" THEN polling ELSE 0
  /\ Late(i)
  /\ UNCHANGED <<status, error, uploadVars, errors>>

\* an answer is shown whatever is polled now, and one that is not "running" stops that
Polled(i) ==
  /\ Told(i, "poll") /\ request[i].told # "error" /\ Done(i)
  /\ Show(i) /\ polling' = IF request[i].told = "running" THEN polling ELSE 0
  /\ Late(i)
  /\ UNCHANGED <<status, error, uploadVars, errors>>

PollFailed(i) ==
  /\ Told(i, "poll") /\ request[i].told = "error" /\ Done(i)
  /\ polling' = 0 /\ error' = TRUE /\ Late(i)
  /\ UNCHANGED <<status, run, uploadVars, errors>>

\* the closure keeps the prop of the render it was made in
UploadBegins ==
  /\ upload = "none" /\ uploads < MaxUploads /\ uploads' = uploads + 1
  /\ upload' = "sending" /\ runInProgress' = running
  /\ UNCHANGED <<status, pageVars, request, errors>>

UploadDone ==
  /\ upload = "sending" /\ upload' = "none"
  /\ IF runInProgress THEN UNCHANGED <<pageVars, request>> ELSE start
  /\ UNCHANGED <<status, runInProgress, uploads, errors>>

UploadFails ==
  /\ upload = "sending" /\ upload' = "none" /\ errors < MaxErrors /\ errors' = errors + 1
  /\ UNCHANGED <<status, pageVars, request, runInProgress, uploads>>

-----------------------------------------------------------------------------
(* The server                                                                *)

Reads(i, told) == request' = [request EXCEPT ![i].told = told]

\* POST /api/runs opens a run, or is refused because one is open
Triggered(i) ==
  /\ request[i] = [kind |-> "trigger", id |-> 0, told |-> "unread"]
  /\ \/ \E r \in RunIds : Ledger!Open(r) /\ request' = [request EXCEPT ![i].id = r]
     \/ (\E r \in RunIds : status[r] = "running") /\ Reads(i, "error") /\ UNCHANGED status
  /\ UNCHANGED <<pageVars, uploadVars, errors>>

\* Variant: a run that is not running any more is reported as completed.
ReadAsCompleted(i) ==
  /\ request[i].id # 0 /\ request[i].told = "unread"
  /\ Reads(i, IF status[request[i].id] = "running" THEN "running" ELSE "completed")
  /\ UNCHANGED <<status, pageVars, uploadVars, errors>>

\* get_run, for the answer to either request
Read(i) ==
  /\ request[i].id # 0 /\ request[i].told = "unread"
  /\ Reads(i, status[request[i].id])
  /\ UNCHANGED <<status, pageVars, uploadVars, errors>>

RequestFails(i) ==
  /\ i \notin Free /\ request[i].told = "unread"
  /\ errors < MaxErrors /\ errors' = errors + 1 /\ Reads(i, "error")
  /\ UNCHANGED <<status, pageVars, uploadVars>>

RunEnds ==
  /\ \E r \in RunIds, outcome \in Ledger!Outcomes : Ledger!Close(r, outcome)
  /\ UNCHANGED <<pageVars, request, uploadVars, errors>>

Answer(i) == Started(i) \/ NotStarted(i) \/ Polled(i) \/ PollFailed(i)

Next ==
  \/ Press \/ Tick \/ UploadBegins \/ UploadDone \/ UploadFails \/ RunEnds
  \/ \E i \in Slots : Answer(i) \/ Triggered(i) \/ Read(i) \/ RequestFails(i)

Spec == Init /\ [][Next]_vars

\* every run ends (Runs!EveryRunEnds), the timer fires, requests are answered
FairSpec ==
  /\ Spec /\ WF_vars(RunEnds) /\ WF_vars(Tick)
  /\ \A i \in Slots : WF_vars(Answer(i)) /\ WF_vars(Triggered(i) \/ Read(i))

-----------------------------------------------------------------------------
TypeOK ==
  /\ status \in [RunIds -> {"absent", "running"} \cup Ledger!Outcomes]
  /\ run \in [id : 0 .. MaxRuns, status : {"none", "running"} \cup Ledger!Outcomes]
  /\ {error, late, runInProgress} \subseteq BOOLEAN /\ polling \in 0 .. MaxRuns
  /\ request \in [Slots -> [kind : {"none", "trigger", "poll"}, id : 0 .. MaxRuns,
                            told : {"unread", "error", "running"} \cup Ledger!Outcomes]]
  /\ upload \in {"none", "sending"}
  /\ errors \in 0 .. MaxErrors /\ uploads \in 0 .. MaxUploads

\* A finished run is shown with the outcome the table keeps for it, however late the
\* answer: outcomes are final.
OutcomeIsTrue == ~running /\ run.id # 0 => run.status = status[run.id]

\* Types, and the truth of what is shown.
Consistent == TypeOK /\ OutcomeIsTrue

\* A run shown as running is being polled, until a request fails or an answer arrives
\* after the poll that asked for it was over.  (Asking for another run hides the error.)
ShownIsPolled ==
  running /\ ~error /\ ~late /\ (\A i \in Slots : request[i].kind # "trigger")
    => polling = run.id

\* The button comes back: a run shown as running is shown finished in the end, unless
\* a request failed or an answer came late.
ButtonReturns == running ~> ~running \/ error \/ late

\* "dropping a resume there also starts a pipeline run automatically (skipped if one's
\* already in flight)" (README): an upload that starts none leaves one in flight.
UploadStartsRun ==
  [][ UploadDone /\ request' = request => \E r \in RunIds : status[r] = "running" ]_vars
==============================================================================
