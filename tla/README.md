# A TLA+ model of job_agent

`job_agent` applies for jobs: it polls Greenhouse and Lever boards, lets an LLM
screen every new posting against one of the user's resumes, and drives a browser
to submit an application for what passes. A FastAPI server and a React page let
the user manage resumes, start a run and watch it. The browser is driven by a
copy of the library `browser_use`. This directory models the parts that keep
state: what happens when requests, background tasks, processes, connections,
event handlers, failing calls and restarts meet.

    tlc -workers 2 -config Runs.cfg MCRuns.tla      # model checking
    tlapm RunsProofs.tla                            # proofs

## 1. Inventory

| component | code | state | operations | talks to |
|---|---|---|---|---|
| Pipeline runs | `job_agent/api/runner.py`, `service.py`, `db.py` (runs) | table `runs`; handlers between awaits; the background task | `POST /api/runs`, `_execute_run`, startup sweep | calls the job pipeline; reads `resumes` and `applications` |
| Resume store | `api/service.py`, `db.py` (resumes) | table `resumes`; files in `data/uploads` | upload, set primary, delete | its rows are the resumes of the next run |
| Job pipeline | `pipeline.py`, `discovery/search_agent.py`, `apply_agent.py`, `db.py` (seen_jobs, applications) | tables `seen_jobs`, `applications`; the lists of the run in progress; what employers received | find, mark, screen, rate-limit, apply, record | boards, LLM, the agent loop |
| Role routing | `resume/roles.py`, `hr_agent.py`, `pipeline.py` | role profiles of the run | infer roles, choose, fall back, look up | LLM, resume tailoring |
| Resume tailoring | `resume/selector.py`, `render.py` | none | select, complete and order blocks | LLM |
| Web frontend | `frontend/src` | the run shown, the poll timer, uploads | start, poll, upload | the API |
| Agent loop | `browser_use/agent/service.py` | `AgentState`, the history, the step being executed | `run`, `step`, `multi_act`, `add_new_task`, pause, resume, stop | LLM, the browser session |
| Browser session | `browser_use/browser/session.py`, `watchdog_base.py` | CDP client, recovery task, event bus | start, connect, reconnect, stop, kill, the gate before handlers | the browser over a WebSocket |
| Targets and focus | `browser_use/browser/session_manager.py`, tab events of `session.py` | the pool of targets and sessions, the focus, recovery tasks | attached, detached, recover focus, switch, navigate, close tab | the browser's target events |
| SDK agent | `browser_use/beta/service.py` | the server process and its reader, pending request, notifications | run, call, close, stop | a `sdk-server` process |
| Resume parsing, board adapters, configuration | `resume/parse.py`, `profile.py`, `discovery/greenhouse.py`, `lever.py`, `config.py`, ... | none | conversions | LLM, files, boards |
| Rest of `browser_use` | watchdogs, DOM, tools, actor, LLM clients, tokens, MCP, sandbox, skills, sync, telemetry, CLI | caches, files | page actions and services | CDP, LLM, network |

All state of `job_agent` that outlives a process is in one SQLite database and
one directory of files. The server is one asyncio process: a handler or task runs
alone until an `await`, and every `db.*` call is an await around one transaction
in a worker thread. A pipeline may also be started from a command line, in a
process of its own on the same database. `browser_use` is asyncio as well, with
an event bus that runs the handlers of one event after the other, tasks that
callbacks start, and a browser or server that goes its own way.

What is hard about each component, and what makes it correct:

* **Runs.** A double-clicked button; a process that dies in the middle of a run; a
  database call that raises where nobody catches it; counters computed from a
  table others write to. Correct when at most one run is worked on, every run ends,
  a finished run stays as it is and its counters are its own.
* **Resume store.** Check-then-act over awaits, two stores (row and file) that
  cannot be changed together. Correct when at most one resume is primary, every
  row has its file, every file has a row or an excuse, and a delete deletes what it
  checked.
* **Job pipeline.** Deduplication, rate limit and screening are checked at one
  time and used at another, across crashes. Correct when nobody is applied to
  twice, nothing unscreened is sent, the hourly cap holds, nothing is lost.
* **Role routing and tailoring.** Labels and block ids are free text of an LLM, and
  used as keys. Correct when the resume that is sent is the one that was screened,
  and all of the user's experience is in it.
* **Web frontend.** Requests overlap and their answers come in any order. Correct
  when what is shown of a finished run is true, what is shown as running is
  followed, and the button comes back.
* **Agent loop.** A step may be cut short at any await: by a pause, a stop, its
  timeout, an error, a dead connection. Correct when steps are counted once, what
  was performed is told to the model, "done" is the end, and a run ends.
* **Browser session.** A dropped WebSocket starts a recovery beside whatever else
  goes on. Correct when no client is left open and forgotten, everybody who waits
  for a recovery is released, and a stopped session stays quiet.
* **Targets and focus.** Events of the browser, commands of the agent and the
  recovery all move the focus. Correct when the maps of the pool agree, the focus
  is a page with a session, and a lost focus comes back.
* **SDK agent.** A process at the other end of two pipes that may die at any time,
  and a `stop()` that closes it from another task. Correct when a run returns, with
  its own result, and leaves no process behind.

`PROJECT.json` lists each hazard at the line where it bites, with the properties
that cover it, or the reason that none does.

## 2. Modules

| module | models | proofs |
|---|---|---|
| `RunLedger` | what the runs table promises its readers: abstract specification of `Runs`, used by `RunControl` | |
| `Runs` | the run life cycle | `RunsProofs` |
| `ResumeStore` | the resume handlers, rows and files | `ResumeProofs` |
| `JobPipeline` | discovery, screening, applying, over many runs and processes | `JobPipelineProofs` |
| `ResumeTailoring` | block selection and rendering, as operators | `ResumeProofs` |
| `RoleRouting` | which resume a posting is screened and sent with, and what of it is printed | `ResumeProofs` |
| `RunControl` | the page, in front of a `RunLedger` | `RunControlProofs` |
| `ConnStatus` | what a browser session promises of its connection: abstract specification of `BrowserLifecycle`, used by `AgentLoop` | |
| `BrowserLifecycle` | connect, drop, reconnect, stop | `BrowserLifecycleProofs` |
| `AgentLoop` | the run and the step of the agent, on a `ConnStatus` | `AgentLoopProofs` |
| `Targets` | the pool of targets, the focus and its recovery | `TargetsProofs` |
| `SdkAgent` | the agent that talks to a server process | `SdkAgentProofs` |
| `MC*` | constants and symmetry for TLC; the other modules need none | |

Two compositions go through an abstract specification. `RunControl` is the page
in front of a server that behaves as `RunLedger` (`INSTANCE RunLedger`), and
`Runs` is proved to implement it. `AgentLoop` runs on a connection that behaves
as `ConnStatus`, and `BrowserLifecycle` is proved to implement it. `RoleRouting`
uses the operators of `ResumeTailoring` in its last action.

The operators commented as "Variant" are faulty forms of the definition that
follows them; each property is checked to fail when its variant takes the
place of the definition. They are used nowhere else.

### Runs

`status[r]` is the status column, `lastId` the AUTOINCREMENT counter.
`starting[c]` is a call of `start_run` between its two awaits; `task[r]` is where
`_execute_run(r)` stands. `log` is the table `applications` in the order of
`applied_at`, each row with its writer; `since[r]` is `started_at`. Each `await
db.*` is one action: `CreateRun` (the `INSERT ... WHERE NOT EXISTS`), `SpawnTask`
(the answer of `list_resumes` up to `create_task`), `Begin`, `Record`,
`PipelineReturns`/`PipelineRaises`, `CountRows`, `CompleteRun`, `FailRun`. A call
that raises is `SpawnFails`, `FinishFails` or `FailRunFails`, according to where
it happens: the first and the last leave the row running, the second is caught.
`Crash` ends the process at any point; `Startup` is the sweep of `_lifespan`,
which commits before a request is served. Refused requests (409) and progress
messages change nothing that is modelled.

`RunLedger` knows only the status column: ids in order, a run opened only while
none is open, a closed run keeps its outcome. `ImplementsLedger` says that `Runs`
implements it, with `status` and `MaxRuns` mapped to themselves.

### ResumeStore

`rows`, `primary` and `fileOf` are the table, `files` the directory. A request is
a small program counter `step[c]` with what its handler holds (`id[c]`,
`path[c]`): upload is `WriteFile` then `InsertResume`; set-primary is
`CheckPrimary` then `UpdatePrimary`; delete is `CheckDelete`, `DeleteRow`,
`Unlink`. `RequestFails` ends a request at its await, `Crash` all of them.
`contended` is a history variable: have a delete and a set-primary of one resume
ever been in flight together?

### JobPipeline

`seen` and `apps` are the tables; `site` is what the employers received, which
the program never sees. A run of process p goes through `stage[p]`: *checking*
and *marking* (`find_new_postings`), *screening* (`screen_new_postings`),
*applying*, *filling*, *submitted* (`apply_to_posting`). `todo`, `fresh`,
`passing` and `cur` are its lists. `Abort` is any exception or death of the
process: nothing in `pipeline.run` is caught, so both lose the lists and keep the
tables. The agent's report (`RecordOutcome`) may be wrong in both directions. One
call of the browser agent is taken to press submit at most once. `KeyOf` is
`dedup_key` (two postings may share one), `DomainOf` the netloc, `RateCap` the
lookup in `RATE_LIMITS`.

### RoleRouting

A resume is its position in the list. `RoutingInit` takes any list of primary flags,
`InferRole` any label for each resume, `Route` any answer. The code looks up
labels in dictionaries, where the last of equal keys stays: `ByRole`. Labels are
non-empty strings; an empty answer is treated by the code as null. `Tailor` is
the last step: any blocks of the resume and any answer of the LLM go through
`ResumeTailoring`. The specification is called `RoutingSpec`, with `RoutingInit`
and `RoutingNext`, because `ResumeProofs` speaks of it and of `ResumeStore` at once.

### ResumeTailoring

`select_blocks` as `SelectBlocks`, `render_resume`'s dictionary as `BlockOf`. A
section is the sequence of the ids its blocks were given; the same id may stand
twice, and the last block of equal ids is the one that is printed. The list
comprehensions are `Keep`, a recursive function, which proofs can reason about.

### RunControl

`run`, `error` and `polling` are the state and the timer of `useRunControl.ts`;
`request[i]` is a request with what it is about and what it was told. A request
is sent, read by the server and answered in three steps, so answers overtake each
other. `start` and `Press` are the button, `Tick` the interval (which polls
whether or not the last poll was answered), `Started`, `NotStarted`, `Polled` and
`PollFailed` the continuations. `UploadBegins` captures the prop `runInProgress`,
`UploadDone` tests it. `late` is a history variable: was an answer applied after
the interval that asked for it had ended?

### ConnStatus and BrowserLifecycle

`ConnStatus` is one variable: *closed*, *down*, *up*, *lost*, *recovering* and the
steps between them. `BrowserLifecycle` numbers the CDP clients as they are made;
`sock[c]` is the state of each socket, which may die at any time (`Drop`), and
`root` is `_cdp_client_root`. `Alarm` is the done-callback of the message handler
that creates the recovery task, `RecoveryBegins` up to `RecoveryDone`, `TryFails`
and `TryAgain` are `_auto_reconnect` with its attempts and `reconnect()`
(`OldClosed`, `NewOpens`, `NewOpened`, `Settled`). `Start*` is
`on_BrowserStartEvent` with `connect()`:
after `StartFocused` errors are swallowed, and `StartSettled` attaches the drop
callback only if the client still lives, so a start may leave the session *lost*
(`Connect` of `ConnStatus`). `Stop*` is `stop()` and `kill()` with `reset()`.
`Handler*` is one event handler of a watchdog at the gate of `watchdog_base.py`: it
runs, waits for `_reconnect_event`, or is skipped. `Overlap` says whether `start()`
may be called while a recovery runs. `Status` is the refinement mapping.

### AgentLoop

`pc` is the place where the coroutine is suspended. `run()` is `StartRun`,
`LoopTop`, `GiveUp`, `BeginStep`, `AfterStep` and `OutOfSteps`; `step()` is
`Prepare` (browser state and what precedes the model call), `SwitchFallback`,
`Answer`, one `Act` for each action of the answer (`multi_act`), `Record`
(`_finalize`, with the history item) and `Advance`. What cuts a step short is
`Interrupt` (a pause or a stop), `CallbackInterrupts` (the caller's status callback,
as often as it likes; both are a `Cut`), `ActRaises`, `StepRaises`, `ConnectionRaises` with the wait for the
reconnection, and `StepTimesOut`, which cancels the step wherever it is: the
`finally` block then runs with whatever the step had so far (`TimedOut`).
`AddTask` is `add_new_task`. `untold` is a history variable: how many performed
actions the model has not been told of, unless a named cut is to blame.

### Targets

`tab` and `link` are the browser's own targets and sessions, `target_sessions`,
`sessions` and `rank` the maps of `SessionManager`, `focus` the session's
`agent_focus_target_id`. `Attached` runs up to the `setAutoAttach` await,
`Registered` is the rest, `Detached` the other event. A lost focus creates a
recovery task `rec[i]`; its places are those of `_recover_agent_focus`, with
the wait behind another recovery, the polling for a target's session, the new tab
and the emergency. `seeking` is `get_or_create_cdp_session` waiting for a target on
behalf of a handler, `closing` and `asked` are a `CloseTabEvent` in `ensure_valid_focus`. `excused` is a history
variable that names why a lost focus may stay lost: the page just chosen was
*missed*, the browser *failed* to give a tab, a waiting recovery *overran* its five
seconds.

### SdkAgent

A run goes from the checks before it through *prefix*, *ping*, *run* and the
cleanup (`pc`); within `RustSdkClient.call` it is where `io` says. Client objects
and server processes are numbered; `process[c]` is the process client c believes
in, `reader[p]` the task that reads p. `closer[k]` is a `close()` in progress: the
run's *own*, or the one that `stop()` starts as a task. The server is external: it
answers, notifies, writes rubbish or dies. `deaf` (a request was sent when its
reader had ended) and `crossed` (a server was started under a `close()` of its
client) are history variables that name two cases described below.

## 3. Runs of TLC

| run | instance | shows |
|---|---|---|
| `Runs` | 2 callers, 2 runs, 2 rows, 1 raising call, 2 crashes, with a command-line pipeline, fair | `SingleFlight`, `OwnedUnlessFaulty`, `CountersAreOwn`, `FinishedIsFinal`, `ImplementsLedger`, `EveryRunEnds`, `RestartRecovers` |
| `ResumesSafety` | 3 requests at a time, 3 uploads, 1 failure or crash | `AtMostOnePrimary`, `PrimaryUnlessContended`, `RowHasFile`, `DeletesWhatItChecked`, `FilesAccounted` |
| `PipelineSafety` | 1 process, 3 postings with 2 keys on one domain, cap 1 per hour, 3 hours, 2 aborts | `RateLimited`, `SubmittedOnlyIfPassed`, `NothingDropped` |
| `PipelineOverlap` | 2 processes, 2 postings with one key, 2 aborts, fair | `NoDoubleSubmission`, `SeenIsScreened` |
| `Routing` | up to 3 resumes, 3 labels, sections of up to 2 blocks | `SentAsRouted`, `AppliesWithScreenedIfDistinct`, `TailoredInFull` |
| `RunControl` | 2 runs, 3 requests in flight, 1 failing, 1 upload, fair | `Consistent`, `ShownIsPolled`, `ButtonReturns` |
| `Browser` | 3 attempts, 7 clients, 3 starts, no start during a recovery, fair | `Consistent`, `StoppedIsQuiet`, `HandlersReleased`, `StopCompletes`, `ImplementsConnStatus` |
| `Agent` | 2 tasks of up to 3 steps of up to 2 actions, 1 failure allowed and then a final response, initial actions, a fallback model, pauses and interruptions without bound, 1 drop, fair | `StepsNumbered`, `PerformedIsTold`, `DoneIsLast`, `OnlyDoneAfterCap`, `RunEnds` |
| `Targets` | 3 targets, one of them perhaps an iframe, 2 recovery tasks, fair | `Consistent`, `FocusTracked`, `OneRecovery`, `FocusRecovered` |
| `Sdk` | 2 turns, 2 processes, 1 pause or cancellation, 1 line of rubbish, fair | `Consistent`, `ReportsOwnTurn`, `RunEnds` |
| `TargetsStale` | that of `Targets` | finding: a dropped session stays in the pool |
| `UploadSkipped` | 1 run, 2 requests, 1 upload, no failure | finding: an upload starts no run though none is in flight |

The largest (`Agent`, `ResumesSafety`) have 1.5 to 1.8 million distinct states,
the smallest (`Runs`, `Browser`) 34 and 40 thousand.

**Bounds.** `MaxRuns`, `MaxRows`, `MaxFaults`, `MaxCrashes`, `MaxUploads`,
`MaxClock`, `MaxAborts`, `MaxResumes`, `MaxBlocks`, `Slots`, `MaxErrors`,
`MaxTasks`, `MaxCuts`, `MaxDrops`, `MaxClients`, `MaxStarts`, `MaxTargets`,
`MaxIframes`, `MaxPending`, `MaxTurns`, `MaxProcs` and `MaxRubbish` bound counters
or what is in flight; each stands in the guard of the action that counts. The
other constants are settings of the program. Why the values are enough:

* `Runs`: the second run follows one that was completed, failed or crashed; an own
  and a foreign row meet; two crashes let a recovery be interrupted itself.
* `ResumeStore`: three requests are a delete, its rival, and an upload that could
  take a freed id.
* `JobPipeline`: a cap of one with an hour of one tick and three ticks reaches both
  ends of the window.
* `RunControl`: two runs and three requests let an answer about the first run
  arrive when the second is shown.
* `BrowserLifecycle`: seven clients are a connect, a recovery that uses up its three
  attempts, and a second start with a drop and a recovery of its own. With `Overlap = FALSE` a
  `start()` waits until a recovery is over; section 5 says what happens otherwise.
* `AgentLoop`: three steps are a failing one, the one last step the cap allows, and
  the end; the second task starts with what the first left. `MaxFailures = 1`
  reaches the cap with the fewest steps.
* `Targets`: three targets are a focused one, its replacement and one more that
  closes or opens meanwhile. `Doubled`, the targets a second session may attach to,
  is empty for TLC (the state space is too large otherwise); the proofs hold for any.
* `SdkAgent`: two turns and two processes let a second turn meet what the first
  left, and a restart meet a `close()`.

The systems may stop and the runs of the models end when the bounds are used up,
so deadlock is not checked; that something must go on is said by the liveness
properties.

**Fairness.** Nothing obliges a user, and no failure is obliged to happen.

* `Runs`: the event loop serves every ready handler and task, a pipeline is finite
  (finite boards, `APPLY_MAX_STEPS`, client timeouts) and so returns or raises, and
  a dead server is started again (`--reload`, the user). `EveryRunEnds` excuses
  itself when a database call of the runner raised.
* `JobPipeline`: a run that does not raise goes on; one cut short is excused.
* `RunControl`: every run ends, which is `EveryRunEnds` of `Runs`; the interval
  fires; a request is answered, or fails.
* `BrowserLifecycle`: the event loop runs what is ready, and every wait of the
  recovery and of `connect()` has a deadline. `StopHandled \/ StopKeepsAlive` is
  strongly fair, because the bus takes events in their order: a stop event waits
  for what is before it, and cannot be overtaken for ever by handlers that come later.
* `AgentLoop`: weak fairness of the agent's own steps. The waits in a step are
  bounded by `step_timeout`, the one of a paused agent is not: `RunEnds` excuses it.
  `RunEnds` assumes that pauses and interrupting callbacks come to an end,
  `<>[][~Pause /\ ~CallbackInterrupts]_vars`; the code does not see to that (section 5).
  No number of them is fixed: they may come at any time before.
* `Targets`: each recovery task goes on (its polls and waits are bounded), and the
  browser attaches to what it opens. `FocusRecovered` excuses the named cases and
  an instance that has no target left to open.
* `SdkAgent`: the run and each `close()` go on, a server answers its request or
  dies, a dead one is reaped, and the reader of a closed pipe ends.

## 4. Findings

Two disagreements between the code and its documentation are kept as runs that
must fail; `PROJECT.json` quotes the lines.

* `TargetsStale`. "No stale sessions - pool always reflects browser reality"
  (`session_manager.py:28`). The attach handler awaits `setAutoAttach` before it
  tracks the session; the detached event handled in between removes nothing, and
  the session is registered afterwards for ever.
* `UploadSkipped`. "starts a pipeline run automatically (skipped if one's already in
  flight)" (README of the repository). The upload tests a prop that is as old as
  its beginning.

## 5. Documented claims that hold only with a condition

Each of these is a sentence of the documentation that is too strong. The property
that does hold names the condition, and the models contain the behaviour.

* `db.py:488`, a running row "can only be left over from a previous process": a
  database call of the runner that raises (`runner.py:26`, `:58`) leaves one behind
  while the server lives. `OwnedUnlessFaulty`.
* `runner.py:34-36`, every row since `started_at` "unambiguously belongs to this
  run": not the rows a command-line pipeline writes meanwhile. `CountersAreOwn`.
* README:72-74, one primary resume "enforced on every write": a delete that checked
  a resume and a set-primary of it, in flight together, leave none.
  `PrimaryUnlessContended`.
* README:3-5, every new posting is screened: one marked seen by a run that is cut
  short before it was screened is not. `NothingDropped`, `SeenIsScreened`.
* `pipeline.py:73-74`, "whichever resume route_and_screen chose": with equal labels
  it is the last one that carries it. `AppliesWithScreenedIfDistinct`.
* `selector.py`, experience "is always included in full": if the parser gave two
  blocks one id, the last one is printed in the place of both (`render.py:18`).
  `TailoredInFull`.
* `session.py:784-786`, starting connects: a `start()` after `stop()`, or after a
  recovery that used up its attempts, does nothing and reports success; one during a recovery
  may open a second client that nobody closes (`Overlap = TRUE`). And a `start()`
  whose socket dies in the last awaits of `connect()` succeeds all the same: these
  swallow their errors (`session.py:1549-1556`, `:2148`), and no callback is attached to a
  dead client (`:2302-2304`), so no recovery follows. `ConnStatus` allows that start
  (`Connect` to *lost*), and `AgentLoop` works with it.
* `agent/service.py:2512`, run() executes the task "with maximum number of steps": an
  interrupted step (`:1252-1260`) is neither counted nor recorded (`:1353`). A status callback that returns True for ever
  (`:1017-1019`) therefore keeps `run()` going for ever, past `max_steps` and
  `max_failures`. `RunEnds` names it.
* A follow-up task of the agent loop may return at once with the "done" of an
  earlier one: `is_done` looks at the last item of the whole history
  (`agent/service.py:2453`, `:2487`). `DoneIsLast` speaks of one task.
* The SDK agent's `stop()` is not heeded when it comes during the initial actions
  (`beta/service.py:6267-6277`). With `keep_alive`, a follow-up whose server
  notified no result may return what an earlier turn produced (`:5286`):
  `ReportsOwnTurn` says exactly when. A call made
  when the reader has ended and the process still lives is never answered (`:460`):
  `deaf` in `RunEnds`. A `close()` of `stop()` that ends after another process was
  started forgets that one (`:415`): `crossed` in `NoServerLeft`.

## 6. Proofs

The theorems hold for every value of the constants, under the named assumptions
`Bounds`, `RoutingBounds`, `Settings` and `LabelsAreNotNull`: bounds are naturals, functions have their
domains, null is no label. TLC evaluates each assumption in a run.

* **`RunsProofs`.** `FlightInv` is the inductive invariant: `TypeOK` and
  `SingleFlight`, with what they lack: at most one row says running (a second
  owner could only come from a second one), a dead process owns nothing, and ids
  above `lastId` are free. `FinishedIsFinalHolds` and `RunsImplementLedger` are
  step-wise from it: an action that writes a status belongs to live work, whose row
  says running, and the startup sweep is one `Close` because at most one row says
  running. `CountersAreOwnHolds` adds where a run's rows lie in the log,
  `OwnedUnlessFaultyHolds` that a running row has an owner as long as no call raised.
* **`ResumeProofs`, the store.** `AtMostOnePrimaryHolds` follows from `TypeOK` and itself.
  `RowHasFileHolds` and `DeletesWhatItCheckedHolds` need that file names are handed
  out once and that an id names one file for ever. `PrimaryUnlessContendedHolds`
  needs that, without contention, the resume a delete has checked is still not
  primary when it is deleted, and the one a set-primary has checked still exists.
  `FilesAccountedHolds` counts: a file that has neither row nor request is one
  failure or crash more. `ListAcceptedHolds` joins the store to what reads it: as long
  as there is a resume and `contended` is false, however `list_resumes` orders the
  rows, `load_role_profiles` counts one that is primary (`ExactlyOne`) and accepts them.
* **`JobPipelineProofs`.** For `NoDoubleSubmissionHolds` the invariant says where a
  key is: what a run holds it has marked, it holds a key once, and what it sent it
  holds no more. `RowInv` says which rows a run in each stage has written and may
  still write; `SubmittedOnlyIfPassedHolds` and `NothingDroppedHolds` follow.
  `RateLimitedHolds`: the rows of any hour are among those the last check of that
  domain counted, and the one it let through.
* **`ResumeProofs`, routing and tailoring.** With distinct labels the lookup by label inverts the
  list of labels, so the resume sent is the one screened, and after a fallback
  it is the primary one. `TailoredInFullHolds` and `PrintsGenuineBlocks` rest on
  `KeepPicks`: what a filter keeps is the subsequence at some increasing positions,
  and all that belongs is there. It is an induction over a prefix of the list, done by
  the least counterexample: a set of naturals with no least element is empty
  (`Least`, from well-foundedness), so no theorem with an operator parameter is
  needed. `TailoredInFull` supposes distinct ids; `PrintsGenuineBlocks` does not, and
  says what is lost without: of equal ids every block but the last, and nothing else.
  That the blocks stand in the order of the answer follows from the positions: the
  ids of the answer that are kept come first, in its order, then what is left out.
* **`RunControlProofs`.** A finished outcome is final in the ledger; so an answer
  that carries one is true however late it is applied, and so is what is shown.
  A run shown as running is the one polled, because a poll that is still the
  current one can only be about it. `KeepsLedger` is the other half of the contract
  with `Runs`: the server the page is modelled with does what `RunLedger` allows.
* **`AgentLoopProofs`.** The invariant adds to the types the numbering of the step
  in progress against the history (`HistoryBelow`, `HistoryOrdered`), what the
  collected results contain (`Collecting`), what the model will still be told
  (`Telling`), that a recorded done of this task ends it (`DoneEnds`) and what
  holds after `max_failures` (`Failing`). `BoundedHolds` bounds the counters over all
  tasks: `n_steps` by `max_steps` + 1 and `consecutive_failures` by the cap + 1. Both
  sums are reached: a step that failed and was counted in `step()`, and is cut by its
  timeout before its `finally` block is over, is counted by `run()` once more.
  `KeepsConnStatus`: the agent's connection is the one `BrowserLifecycle` promises.
* **`BrowserLifecycleProofs`.** The invariant says of each place of the three
  coroutines which clients it holds (`Recovers`, `Starts`), that the root client is
  open or was (`RootLives`), that only a root is watched (`Watches`) and that a
  closed session has nothing left (`Quiet`). Each step then maps to one of
  `ConnStatus` or to a stutter. These three theorems assume that no `start()` comes
  during a recovery; with `Overlap = TRUE` TLC refutes `NoOpenClientForgotten`,
  `StoppedIsQuiet` and `ImplementsConnStatus`. `HeldByRecoveryHolds` assumes nothing:
  whenever the event is cleared a recovery is under way, within its attempts, so a
  handler that waits is never held by a recovery that is already over.
* **`TargetsProofs`.** The invariant ties the pool, the focus and the places of
  recoveries and handlers; the newest page exists because a non-empty finite set
  of pages has one of highest rank, by a well-founded order on subsets.
  `FocusSoughtHolds` is the safety half of `FocusRecovered`: unless `excused`, a lost
  focus has a task that will look for a page. It needs that the flag, which keeps a
  detached event from spawning a task, is up only while a task works, and that a task
  which has chosen its page (`RecoveryActivated`) still has the focus there.
* **`SdkAgentProofs`.** For `SdkConsistentHolds` the invariant says where the servers
  are: a client believes in a server of its own (`ProcInv`), a `close()` under way is
  about the server its client still believes in (`CloserInv`), a living server is the
  one of the run's client or is being closed (`Owned`), and the run lets go of its
  client only when that server is gone (`Ending`), each unless a start `crossed` a
  `close()`. `Fresh` says that the notifications a client has are of the turns since it
  was made, and that without `keep_alive` a run starts without a client: what a run
  finds is then its own, and otherwise the latest result is its own if there is one of
  its turn (`ReportsOwnTurnHolds`). `HeardHolds`
  is the safety half of `RunEnds`: a call that waits has, unless `deaf`, a server of
  its own client whose output is read and that was asked, has died or is being closed.

Every safety invariant and action property of a passing run is a theorem, and so
are the two refinements. Only model-checked is liveness, which under fairness is
beyond the prover: `EveryRunEnds`, `RestartRecovers`, `SeenIsScreened`, the `RunEnds`
of `AgentLoop` and of `SdkAgent`, `HandlersReleased`, `StopCompletes`,
`FocusRecovered` and `ButtonReturns`. Of some the safety half is proved, that
somebody is there who must move next: `OwnedUnlessFaultyHolds` for `EveryRunEnds`,
`NothingDroppedHolds` for `SeenIsScreened`, `HeldByRecoveryHolds` for
`HandlersReleased`, `HeardHolds` for `RunEnds` of `SdkAgent`, `FocusSoughtHolds` for
`FocusRecovered`, `ShownIsPolledHolds` for `ButtonReturns`.

## 7. What is not modelled

* One server process at a time is assumed, as the startup sweep assumes it.
* SQLite transactions are atomic steps. That a write transaction holds the lock
  from its first statement on is taken from the comments in `db.py`.
* What LLMs answer, what pages look like, parsing and rendering are arbitrary
  values. Texts (progress, notes, errors) are left out.
* A `rate_limited` posting is seen and never retried; `RATE_LIMITS` is looked up
  by exact netloc, so `www.linkedin.com` gets the default cap; `dedup_key` drops
  the query, so postings that differ only there are one. The model does what
  the code does in each case and states no property about it. `get_resume` after a
  write may find nothing, if a delete came in between, and the request then
  answers 500 (`service.py:67`): the tables are as the model says.
* Frontend: the lists of resumes and applications, fetched again after each change
  and deciding nothing, and the choice of the tab.
* `AgentLoop`: what the prompt contains beyond the last results, planning, loop
  detection, the judge, the waits for a captcha, saving and replaying histories.
* `BrowserLifecycle`: the launch of the browser process, cookies and storage; the
  single actions on pages.
* `Targets`: the discovery of existing targets at connect, workers, lifecycle events
  of pages.
* `SdkAgent`: the conversion of the server's events into a history, prompts,
  telemetry; a pause while a run is in progress and a cancellation during its
  cleanup.
* The rest of `browser_use`: the watchdogs, DOM, tools and actor translate one
  action into CDP calls or a page into text; LLM clients and token counting call
  services and add up; MCP, sandbox, skills, sync, telemetry and the CLI are not
  used by `job_agent`. They keep caches and files, not a protocol state that the
  parts above rely on.

## 8. What could come next

1. More of `BrowserLifecycle` with `Overlap = TRUE`, once `start()` takes the
   reconnection lock.
2. `Targets` composed with `BrowserLifecycle`: a reconnection replaces the whole
   pool while focus recoveries of the old one may still be running.
3. The downloads watchdog, the one watchdog with a protocol of its own.
