-------------------------------- MODULE Runs ---------------------------------
(***************************************************************************)
(* Pipeline runs of the API server: POST /api/runs (api/service.py         *)
(* trigger_run, api/runner.py start_run), the background task it spawns    *)
(* (api/runner.py _execute_run), the runs table (db.py) and the startup    *)
(* sweep (api/service.py _lifespan).                                       *)
(*                                                                         *)
(* The server is one asyncio process, so a handler or a task runs alone    *)
(* from one await to the next; every await on db.* is a step here.  The    *)
(* database outlives the process.  pipeline.run is seen through the rows   *)
(* it appends to applications and through how it ends; module JobPipeline  *)
(* models it.  A request that is refused (409) changes nothing and is a    *)
(* stuttering step, and so are reads that nothing depends on.              *)
(***************************************************************************)
EXTENDS Integers, Sequences, FiniteSets

CONSTANTS
  Callers,        \* requests to POST /api/runs that may be in flight together
  MaxRuns,        \* bound: rows of runs
  MaxRows,        \* bound: rows of applications
  MaxFaults,      \* bound: database calls of the runner that raise
  MaxCrashes,     \* bound: deaths of the server process
  WithCli         \* may `python -c "... run()"` of the README write rows as well?

ASSUME Bounds == /\ MaxRuns \in Nat /\ MaxRows \in Nat
                 /\ MaxFaults \in Nat /\ MaxCrashes \in Nat
                 /\ WithCli \in BOOLEAN

RunIds == 1 .. MaxRuns
Cli == 0                    \* the writer of rows that no run of the server wrote
Kinds == {"screened_pass", "screened_reject", "applied"}
Statuses == {"absent", "running", "completed", "failed"}
Stages == {"none", "scheduled", "pipeline", "counting", "completing", "failing"}

VARIABLES
  up,         \* is the server process alive?
  status,     \* runs.status, "absent" for a row not inserted yet
  lastId,     \* the AUTOINCREMENT counter of runs
  starting,   \* starting[c]: the run whose start_run call c has not spawned, or 0
  task,       \* task[r]: where _execute_run(r) stands, "none" if there is no task
  log,        \* applications in the order of applied_at, with the writer of each row
  since,      \* since[r]: Len(log) when _execute_run(r) took started_at
  counts,     \* counts[r]: what _execute_run(r) counted, stored in the row on completion
  faults,     \* database calls of the runner that have raised
  crashes     \* deaths of the process so far

vars == <<up, status, lastId, starting, task, log, since, counts, faults, crashes>>
server == <<up, crashes>>
table == <<status, lastId>>

NoCount == [k \in Kinds |-> 0]

TypeOK ==
  /\ up \in BOOLEAN
  /\ status \in [RunIds -> Statuses]
  /\ lastId \in 0 .. MaxRuns
  /\ starting \in [Callers -> 0 .. MaxRuns]
  /\ task \in [RunIds -> Stages]
  /\ log \in Seq([by : 0 .. MaxRuns, kind : Kinds])
  /\ since \in [RunIds -> Nat]
  /\ counts \in [RunIds -> [Kinds -> Nat]]
  /\ faults \in 0 .. MaxFaults
  /\ crashes \in 0 .. MaxCrashes

------------------------------------------------------------------------------
(* The rows run r wrote, and the rows its filter applied_at >= started_at    *)
(* picks out: by their positions in log.                                     *)
Own(r, k) == {i \in DOMAIN log : log[i].by = r /\ log[i].kind = k}
Recent(r, k) == {i \in DOMAIN log : i > since[r] /\ log[i].kind = k}

(* Variant for mutation checks: the filter on started_at is forgotten.       *)
TallyOfAllRows(r) ==
  [k \in Kinds |-> Cardinality({i \in DOMAIN log : log[i].kind = k})]

(* What _execute_run stores.  The screening counters come from the table;    *)
(* applied_count comes from the outcomes pipeline.run returned, one per      *)
(* application this task itself recorded.                                    *)
Tally(r) ==
  [k \in Kinds |-> Cardinality(IF k = "applied" THEN Own(r, k) ELSE Recent(r, k))]

Init ==
  /\ up = FALSE
  /\ status = [r \in RunIds |-> "absent"]
  /\ lastId = 0
  /\ starting = [c \in Callers |-> 0]
  /\ task = [r \in RunIds |-> "none"]
  /\ log = << >>
  /\ since = [r \in RunIds |-> 0]
  /\ counts = [r \in RunIds |-> NoCount]
  /\ faults = 0
  /\ crashes = 0

------------------------------------------------------------------------------
(* Variant: a plain create_run that nothing guards.                          *)
CreateRunUnguarded(c) ==
  /\ up /\ starting[c] = 0
  /\ lastId < MaxRuns
  /\ lastId' = lastId + 1
  /\ status' = [status EXCEPT ![lastId + 1] = "running"]
  /\ starting' = [starting EXCEPT ![c] = lastId + 1]
  /\ UNCHANGED <<server, task, log, since, counts, faults>>

(* Variant: the guard asks the process for its tasks instead of the table.   *)
CreateRunByTasks(c) ==
  /\ \A r \in RunIds : task[r] = "none" /\ \A d \in Callers : starting[d] # r
  /\ CreateRunUnguarded(c)

(* start_run, up to the commit of the INSERT ... WHERE NOT EXISTS.           *)
CreateRun(c) ==
  /\ up /\ starting[c] = 0
  /\ \A r \in RunIds : status[r] # "running"
  /\ lastId < MaxRuns
  /\ lastId' = lastId + 1
  /\ status' = [status EXCEPT ![lastId + 1] = "running"]
  /\ starting' = [starting EXCEPT ![c] = lastId + 1]
  /\ UNCHANGED <<server, task, log, since, counts, faults>>

(* start_run, from the answer of db.list_resumes to create_task.             *)
SpawnTask(c) ==
  /\ starting[c] # 0
  /\ task' = [task EXCEPT ![starting[c]] = "scheduled"]
  /\ starting' = [starting EXCEPT ![c] = 0]
  /\ UNCHANGED <<server, table, log, since, counts, faults>>

(* db.list_resumes raises ("database is locked"): the request ends with a    *)
(* 500 and nobody takes the inserted row back.                               *)
SpawnFails(c) ==
  /\ starting[c] # 0
  /\ faults < MaxFaults
  /\ faults' = faults + 1
  /\ starting' = [starting EXCEPT ![c] = 0]
  /\ UNCHANGED <<server, table, task, log, since, counts>>

------------------------------------------------------------------------------
(* _execute_run takes started_at and enters the pipeline.                    *)
Begin(r) ==
  /\ task[r] = "scheduled"
  /\ since' = [since EXCEPT ![r] = Len(log)]
  /\ task' = [task EXCEPT ![r] = "pipeline"]
  /\ UNCHANGED <<server, table, starting, log, counts, faults>>

(* The pipeline records a screening or an application.                       *)
Record(r, k) ==
  /\ task[r] = "pipeline"
  /\ Len(log) < MaxRows
  /\ log' = Append(log, [by |-> r, kind |-> k])
  /\ UNCHANGED <<server, table, starting, task, since, counts, faults>>

PipelineReturns(r) ==
  /\ task[r] = "pipeline"
  /\ task' = [task EXCEPT ![r] = "counting"]
  /\ UNCHANGED <<server, table, starting, log, since, counts, faults>>

(* Variant: there is no `except`, the exception just ends the task.          *)
PipelineRaisesUncaught(r) ==
  /\ task[r] = "pipeline"
  /\ task' = [task EXCEPT ![r] = "none"]
  /\ UNCHANGED <<server, table, starting, log, since, counts, faults>>

(* An LLM call, a job board, a resume file, a progress update: anything      *)
(* pipeline.run lets through ends up in `except Exception`.                  *)
PipelineRaises(r) ==
  /\ task[r] = "pipeline"
  /\ task' = [task EXCEPT ![r] = "failing"]
  /\ UNCHANGED <<server, table, starting, log, since, counts, faults>>

(* db.list_applications and the two filters over its answer.                 *)
CountRows(r) ==
  /\ task[r] = "counting"
  /\ counts' = [counts EXCEPT ![r] = Tally(r)]
  /\ task' = [task EXCEPT ![r] = "completing"]
  /\ UNCHANGED <<server, table, starting, log, since, faults>>

(* db.update_run(status='completed', ...): an UPDATE with no guard on status.*)
CompleteRun(r) ==
  /\ task[r] = "completing"
  /\ status' = [status EXCEPT ![r] = "completed"]
  /\ task' = [task EXCEPT ![r] = "none"]
  /\ UNCHANGED <<server, lastId, starting, log, since, counts, faults>>

(* list_applications or the completing UPDATE raises inside the try.         *)
FinishFails(r) ==
  /\ task[r] \in {"counting", "completing"}
  /\ faults < MaxFaults
  /\ faults' = faults + 1
  /\ task' = [task EXCEPT ![r] = "failing"]
  /\ UNCHANGED <<server, table, starting, log, since, counts>>

(* The except branch: db.update_run(status='failed', ...).                   *)
FailRun(r) ==
  /\ task[r] = "failing"
  /\ status' = [status EXCEPT ![r] = "failed"]
  /\ task' = [task EXCEPT ![r] = "none"]
  /\ UNCHANGED <<server, lastId, starting, log, since, counts, faults>>

(* The UPDATE of the except branch raises: the exception ends the task.      *)
FailRunFails(r) ==
  /\ task[r] = "failing"
  /\ faults < MaxFaults
  /\ faults' = faults + 1
  /\ task' = [task EXCEPT ![r] = "none"]
  /\ UNCHANGED <<server, table, starting, log, since, counts>>

------------------------------------------------------------------------------
(* The process dies or reloads: handlers and tasks are gone (a cancelled     *)
(* task raises CancelledError, which `except Exception` does not catch).     *)
Crash ==
  /\ up
  /\ crashes < MaxCrashes
  /\ up' = FALSE
  /\ crashes' = crashes + 1
  /\ starting' = [c \in Callers |-> 0]
  /\ task' = [r \in RunIds |-> "none"]
  /\ UNCHANGED <<table, log, since, counts, faults>>

(* Variants: no sweep at startup; a sweep without its WHERE clause.          *)
UnsweptStatus(s) == s
OversweptStatus(s) == IF s = "absent" THEN s ELSE "failed"

(* _fail_stale_running_runs_sync: one UPDATE ... WHERE status = 'running'.   *)
SweptStatus(s) == IF s = "running" THEN "failed" ELSE s

(* _lifespan: the sweep commits before the first request is served.          *)
Startup ==
  /\ ~up
  /\ up' = TRUE
  /\ status' = [r \in RunIds |-> SweptStatus(status[r])]
  /\ UNCHANGED <<lastId, starting, task, log, since, counts, faults, crashes>>

(* A pipeline started from the command line writes to the same table.        *)
CliRecords(k) ==
  /\ WithCli
  /\ Len(log) < MaxRows
  /\ log' = Append(log, [by |-> Cli, kind |-> k])
  /\ UNCHANGED <<server, table, starting, task, since, counts, faults>>

------------------------------------------------------------------------------
StartStep(c) == CreateRun(c) \/ SpawnTask(c) \/ SpawnFails(c)

TaskStep(r) ==
  \/ Begin(r)
  \/ \E k \in Kinds : Record(r, k)
  \/ PipelineReturns(r) \/ PipelineRaises(r)
  \/ CountRows(r) \/ CompleteRun(r) \/ FinishFails(r)
  \/ FailRun(r) \/ FailRunFails(r)

Next ==
  \/ \E c \in Callers : StartStep(c)
  \/ \E r \in RunIds : TaskStep(r)
  \/ Crash \/ Startup
  \/ \E k \in Kinds : CliRecords(k)

Spec == Init /\ [][Next]_vars

(* The event loop serves every ready handler and task; a pipeline is finite  *)
(* (finite boards, APPLY_MAX_STEPS) and so returns or raises; the reloader   *)
(* or the user starts a dead server again.  No request need ever arrive.     *)
Fairness ==
  /\ \A c \in Callers : WF_vars(SpawnTask(c) \/ SpawnFails(c))
  /\ \A r \in RunIds :
       /\ WF_vars(Begin(r))
       /\ WF_vars(PipelineReturns(r) \/ PipelineRaises(r))
       /\ WF_vars(CountRows(r) \/ CompleteRun(r) \/ FinishFails(r))
       /\ WF_vars(FailRun(r) \/ FailRunFails(r))
  /\ WF_vars(Startup)

FairSpec == Spec /\ Fairness

------------------------------------------------------------------------------
(* Run r is being worked on: its request is still starting it, or its task   *)
(* has not ended.                                                            *)
Live(r) == task[r] # "none" \/ \E c \in Callers : starting[c] = r

(* At most one run is worked on, by exactly one request or one task, and its *)
(* row says running: two pipelines of the server never drive browsers at     *)
(* once (the aim of create_run_if_none_active), even across restarts.        *)
SingleFlight ==
  /\ \A r, s \in RunIds : Live(r) /\ Live(s) => r = s
  /\ \A r \in RunIds : Live(r) => status[r] = "running"
  /\ \A c, d \in Callers : starting[c] # 0 /\ starting[c] = starting[d] => c = d
  /\ \A c \in Callers : starting[c] # 0 => task[starting[c]] = "none"

(* As long as no database call of the runner has raised, a row that says     *)
(* running while the server is up belongs to work in flight.  (The docstring *)
(* of fail_stale_running_runs says so without that proviso.)                 *)
OwnedUnlessFaulty ==
  up /\ faults = 0 => \A r \in RunIds : status[r] = "running" => Live(r)

(* A completed run's counters miss none of the rows the run wrote, and count *)
(* exactly those unless a pipeline of another process wrote rows too.  (The  *)
(* docstring of _execute_run says so without that proviso.)                  *)
NoForeignRows == \A i \in DOMAIN log : log[i].by # Cli
CountersAreOwn ==
  \A r \in RunIds : status[r] = "completed" =>
    \A k \in Kinds :
      /\ counts[r][k] >= Cardinality(Own(r, k))
      /\ NoForeignRows => counts[r][k] = Cardinality(Own(r, k))

(* A finished run is never reopened, nor its outcome or counters rewritten:  *)
(* not by a late update of its task, not by the sweep of a restart.          *)
FinishedIsFinal ==
  [][\A r \in RunIds : status[r] \in {"completed", "failed"} =>
       status'[r] = status[r] /\ counts'[r] = counts[r]]_vars

(* Every run ends as completed or failed, across crashes and restarts,       *)
(* unless a database call of the runner raises.                              *)
EveryRunEnds ==
  \A r \in RunIds :
    status[r] = "running" ~> status[r] \in {"completed", "failed"} \/ faults > 0

(* Whatever went wrong before, a run that is open when the process dies is   *)
(* failed by the next start (README: rather than stuck running forever).     *)
RestartRecovers ==
  \A r \in RunIds : ~up /\ status[r] = "running" ~> status[r] = "failed"

(* The runs table keeps what RunLedger promises.  The sweep, which may write *)
(* any number of rows, is one closing step there.                            *)
Ledger == INSTANCE RunLedger
ImplementsLedger == Ledger!Spec
==============================================================================
