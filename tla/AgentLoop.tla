------------------------------ MODULE AgentLoop ------------------------------
(***************************************************************************)
(* browser_use/agent/service.py: Agent.run and the step it repeats (browser *)
(* state, model call, actions, bookkeeping), with everything that may cut a *)
(* step short: pause and stop, the step timeout, a dead browser connection, *)
(* errors of the model and of the actions; and add_new_task, which runs the *)
(* same agent again with the state the last run left.                      *)
(*                                                                         *)
(* One state per place where the coroutine may be suspended: that is where *)
(* pause, stop, a change of the connection or the timeout come in.  What   *)
(* the model answers and what a page does to an action are choices.  The   *)
(* connection is the one ConnStatus promises.                              *)
(***************************************************************************)
EXTENDS Naturals, Sequences

CONSTANTS
  MaxSteps,       \* max_steps of run()
  MaxFailures,    \* settings.max_failures
  FinalResponse,  \* settings.final_response_after_failure
  MaxActions,     \* settings.max_actions_per_step
  WithInitial,    \* initial_actions (directly_open_url)
  WithFallback,   \* a fallback_llm is configured
  MaxTasks,       \* bound: run() is called once, then after each add_new_task
  MaxDrops        \* bound: times the connection drops or is closed under a run

ASSUME Settings ==
  /\ MaxSteps \in Nat \ {0} /\ MaxFailures \in Nat \ {0} /\ MaxActions \in Nat \ {0}
  /\ FinalResponse \in BOOLEAN /\ WithInitial \in BOOLEAN /\ WithFallback \in BOOLEAN
  /\ MaxTasks \in Nat \ {0} /\ MaxDrops \in Nat

\* how one action, or one step, turned out (ActionResult)
Outcomes == {"ok", "error", "done"}

\* where the coroutine is; "idle" is outside run(), the others are in _execute_step
Stepping == {"context", "asking", "acting", "conn_wait", "finalize", "advance", "after"}
Places == {"idle", "initial", "top", "waiting", "checks"} \cup Stepping

Endings == {"none", "done", "stopped", "failures", "max_steps", "raised"}

VARIABLES
  pc,
  step,           \* current_step of run(), counted from 0
  n_steps, failures, last_result, last_output, paused, stopped,  \* AgentState
  awake,          \* _external_pause_event is set
  summary,        \* step() has a browser_state_summary
  left,           \* actions of the model's answer not executed yet
  results,        \* the results multi_act has collected
  done_only,      \* AgentOutput = DoneAgentOutput
  fallback,       \* _using_fallback_llm
  history,        \* AgentHistoryList: step number, last outcome and task of each item
  conn,           \* the connection, as ConnStatus describes it
  ended,          \* why the last run() returned
  task,           \* how many tasks the agent was given
  drops,          \* counter of the bound
  untold          \* ghost: performed actions the model was not told of, no cut excusing it

loopVars == <<step, n_steps, failures, ended, task>>
resultVars == <<last_result, last_output, summary, left, results, history, untold>>
modelVars == <<done_only, fallback>>
userVars == <<paused, stopped, awake>>
connVars == <<conn, drops>>
vars == <<pc, loopVars, resultVars, modelVars, userVars, connVars>>

Connection == INSTANCE ConnStatus WITH status <- conn

Cap == MaxFailures + IF FinalResponse THEN 1 ELSE 0
Last(s) == s[Len(s)]
Item(n, outcome) == [step |-> n, outcome |-> outcome, task |-> task]

\* history.is_done(): the last item of the whole history, whichever task wrote it
IsDone == history # <<>> /\ Last(history).outcome = "done"

Init ==
  /\ pc = "idle" /\ step = 0 /\ n_steps = 1 /\ failures = 0
  /\ ended = "none" /\ task = 1
  /\ last_result = <<>> /\ last_output = FALSE /\ summary = FALSE
  /\ left = 0 /\ results = <<>> /\ history = <<>> /\ untold = 0
  /\ done_only = FALSE /\ fallback = FALSE
  /\ paused = FALSE /\ stopped = FALSE /\ awake = TRUE
  /\ Connection!Init /\ drops = 0

-----------------------------------------------------------------------------
(* run()                                                                     *)

\* run() returns or raises; close() kills the browser unless it is kept alive
End(why) ==
  /\ pc' = "idle" /\ ended' = why
  /\ conn' \in {conn, "closed"}
  /\ UNCHANGED <<modelVars, userVars, drops, step, n_steps, failures, task,
                 last_result, last_output, summary, left, results, untold>>

\* browser_session.start(): connects a session that has no client yet (and may lose it
\* at once); a lost or a closed one it leaves as it is, without an error
StartRun ==
  /\ pc = "idle" /\ ended = "none"
  /\ IF conn = "down" THEN Connection!Connect ELSE UNCHANGED conn
  /\ IF WithInitial /\ task = 1 THEN pc' = "initial" /\ left' = 1
                                ELSE pc' = "top" /\ UNCHANGED left
  /\ UNCHANGED <<loopVars, modelVars, userVars, drops, last_result, last_output,
                 summary, results, history, untold>>

StartFails ==
  /\ pc = "idle" /\ ended = "none" /\ conn = "down"
  /\ End("raised") /\ UNCHANGED history

\* follow-up task: the flags are reset; counters, results and history are kept
AddTask ==
  /\ pc = "idle" /\ ended # "none" /\ task < MaxTasks
  /\ task' = task + 1 /\ ended' = "none"
  /\ paused' = FALSE /\ stopped' = FALSE
  /\ UNCHANGED <<pc, step, n_steps, failures, resultVars, modelVars, awake, connVars>>

\* the else branch of the while loop: an item without a step number
OutOfSteps ==
  /\ pc = "top" /\ n_steps > MaxSteps
  /\ history' = Append(history, Item(0, "error"))
  /\ End("max_steps")

\* a paused loop waits for the event, which a stop() after the pause has set
LoopTop ==
  /\ pc = "top" /\ n_steps <= MaxSteps
  /\ pc' = IF paused /\ ~awake THEN "waiting" ELSE "checks"
  /\ UNCHANGED <<loopVars, resultVars, modelVars, userVars, connVars>>

GiveUp ==
  /\ pc = "checks"
  /\ \/ failures >= Cap /\ End("failures")
     \/ failures < Cap /\ stopped /\ End("stopped")
  /\ UNCHANGED history

\* Variant: a stopped agent begins another step.
BeginStepAnyway ==
  /\ pc = "checks" /\ failures < Cap
  /\ pc' = "context" /\ step' = n_steps - 1 /\ summary' = FALSE
  /\ UNCHANGED <<n_steps, failures, ended, task, last_result, last_output, left,
                 results, history, untold, modelVars, userVars, connVars>>

BeginStep ==
  /\ pc = "checks" /\ failures < Cap /\ ~stopped
  /\ pc' = "context" /\ step' = n_steps - 1 /\ summary' = FALSE
  /\ UNCHANGED <<n_steps, failures, ended, task, last_result, last_output, left,
                 results, history, untold, modelVars, userVars, connVars>>

\* Variant: the loop does not look whether the step was done.
AfterStepAnyway ==
  /\ pc = "after" /\ pc' = "top"
  /\ UNCHANGED <<loopVars, resultVars, modelVars, userVars, connVars>>

\* on_step_end, then history.is_done()
AfterStep ==
  /\ pc = "after"
  /\ IF IsDone THEN End("done") /\ UNCHANGED history
     ELSE pc' = "top" /\ UNCHANGED <<loopVars, resultVars, modelVars, userVars, connVars>>

-----------------------------------------------------------------------------
(* One step                                                                  *)

\* _check_stop_or_pause does not raise
NotInterrupted == ~paused /\ ~stopped

\* the last item of the prompt's history carries last_result, unless there is no
\* model output to attach it to: then only the very first step shows it
Told == last_output \/ step = 0

\* Variant: only the last step is restricted to "done".
PrepareWithoutCap ==
  /\ pc = "context" /\ conn = "up" /\ NotInterrupted
  /\ untold' = IF Told /\ Len(last_result) >= untold THEN 0 ELSE untold
  /\ done_only' = (step >= MaxSteps - 1)
  /\ summary' = TRUE /\ last_output' = FALSE /\ last_result' = <<>>
  /\ pc' = "asking"
  /\ UNCHANGED <<loopVars, left, results, history, fallback, userVars, connVars>>

\* the prompt is built from the previous step, whose results are then cleared
Prepare ==
  /\ pc = "context" /\ conn = "up" /\ NotInterrupted
  /\ untold' = IF Told /\ Len(last_result) >= untold THEN 0 ELSE untold
  /\ done_only' = (step >= MaxSteps - 1 \/ (failures >= MaxFailures /\ FinalResponse))
  /\ summary' = TRUE /\ last_output' = FALSE /\ last_result' = <<>>
  /\ pc' = "asking"
  /\ UNCHANGED <<loopVars, left, results, history, fallback, userVars, connVars>>

\* a rate limit or provider error the fallback model may not have
SwitchFallback ==
  /\ pc = "asking" /\ WithFallback /\ ~fallback
  /\ fallback' = TRUE
  /\ UNCHANGED <<pc, loopVars, resultVars, done_only, userVars, connVars>>

\* an answer, cut to max_actions_per_step; two empty ones count as one "done"
Answer ==
  /\ pc = "asking" /\ NotInterrupted
  /\ left' \in 1 .. MaxActions
  /\ last_output' = TRUE /\ results' = <<>> /\ pc' = "acting"
  /\ UNCHANGED <<loopVars, last_result, summary, history, untold, modelVars,
                 userVars, connVars>>

\* multi_act is left: its locals are gone
Drain == left' = 0 /\ results' = <<>>

\* _check_stop_or_pause raises InterruptedError, which _handle_step_error swallows;
\* _finalize runs next
Cut ==
  /\ pc \in {"context", "asking", "acting", "initial"}
  /\ pc' = IF pc = "initial" THEN "top" ELSE "finalize"
  /\ last_output' = (last_output \/ pc = "asking")
  /\ untold' = IF pc = "context" /\ last_output THEN untold ELSE 0
  /\ Drain
  /\ UNCHANGED <<loopVars, last_result, summary, history, modelVars, userVars, connVars>>

Interrupt == (paused \/ stopped) /\ Cut

\* the caller's status callback asks for it, as often as it likes
CallbackInterrupts == NotInterrupted /\ Cut

\* multi_act returns r: to _post_process, or to _execute_initial_actions
Return(r) ==
  /\ last_result' = r /\ Drain
  /\ IF pc = "initial"
     THEN pc' = "top" /\ history' = Append(history, Item(0, Last(r))) /\ UNCHANGED failures
     ELSE /\ pc' = "finalize"
          /\ failures' = IF r = <<"error">> THEN failures + 1 ELSE 0
          /\ UNCHANGED history

\* an action reports; the rest of the answer is dropped after an error, a done, a
\* changed page, or when the next action is a done (allowed only as the first)
Act(outcome) ==
  /\ pc \in {"acting", "initial"} /\ NotInterrupted
  /\ outcome = "done" => pc = "acting" /\ results = <<>>
  /\ outcome = "ok" => pc = "initial" \/ ~done_only
  /\ untold' = untold + 1
  /\ \/ Return(Append(results, outcome))
     \/ /\ outcome = "ok" /\ left > 1
        /\ left' = left - 1 /\ results' = Append(results, outcome)
        /\ UNCHANGED <<pc, failures, last_result, history>>
  /\ UNCHANGED <<step, n_steps, ended, task, last_output, summary, modelVars,
                 userVars, connVars>>

\* Variant: the results collected before are lost with the exception.
ActRaisesAlone ==
  /\ pc \in {"acting", "initial"} /\ NotInterrupted
  /\ Return(<<"error">>)
  /\ untold' = untold + 1
  /\ UNCHANGED <<step, n_steps, ended, task, last_output, summary, modelVars,
                 userVars, connVars>>

\* an action raises something that is neither an interruption nor a dead connection
ActRaises ==
  /\ pc \in {"acting", "initial"} /\ NotInterrupted
  /\ Return(Append(results, "error"))
  /\ untold' = untold + 1
  /\ UNCHANGED <<step, n_steps, ended, task, last_output, summary, modelVars,
                 userVars, connVars>>

\* _handle_step_error, all other exceptions
CountError == failures' = failures + 1 /\ last_result' = <<"error">> /\ pc' = "finalize"

StepRaises ==
  /\ pc \in {"context", "asking"} /\ CountError
  /\ untold' = 0
  /\ UNCHANGED <<step, n_steps, ended, task, last_output, summary, left, results,
                 history, modelVars, userVars, connVars>>

\* a connection-like error whose browser is gone stops the agent; any other one,
\* that of a dead client included, counts as a failure
BrowserError ==
  /\ IF conn \in {"down", "closed"}
     THEN stopped' = TRUE /\ awake' = TRUE /\ pc' = "finalize" /\ UNCHANGED <<failures, last_result>>
     ELSE CountError /\ UNCHANGED <<stopped, awake>>
  /\ UNCHANGED paused

ConnectionRaises ==
  /\ pc \in {"context", "acting"} /\ conn # "up"
  /\ untold' = 0
  /\ IF conn = "recovering"
     THEN pc' = "conn_wait" /\ UNCHANGED <<failures, last_result, userVars>>
     ELSE BrowserError
  /\ Drain
  /\ UNCHANGED <<step, n_steps, ended, task, last_output, summary,
                 history, modelVars, connVars>>

\* the wait for _reconnect_event ends, or times out while the recovery goes on
ConnWaitEnds ==
  /\ pc = "conn_wait"
  /\ IF conn = "up"
     THEN last_result' = <<"error">> /\ pc' = "finalize" /\ UNCHANGED <<failures, userVars>>
     ELSE BrowserError
  /\ UNCHANGED <<step, n_steps, ended, task, last_output, summary, left, results,
                 history, untold, modelVars, connVars>>

\* outside step() nothing catches a connection error of the initial actions
InitialRaises == pc = "initial" /\ conn # "up" /\ End("raised") /\ UNCHANGED history

\* _finalize up to the screenshot: without a result nothing is recorded or counted
Record ==
  /\ pc = "finalize"
  /\ IF last_result = <<>> THEN pc' = "after" /\ UNCHANGED history
     ELSE /\ pc' = "advance"
          /\ history' = IF summary THEN Append(history, Item(n_steps, Last(last_result)))
                                   ELSE history
  /\ UNCHANGED <<loopVars, last_result, last_output, summary, left, results, untold,
                 modelVars, userVars, connVars>>

Advance ==
  /\ pc = "advance"
  /\ n_steps' = n_steps + 1 /\ pc' = "after"
  /\ UNCHANGED <<step, failures, ended, task, resultVars, modelVars, userVars, connVars>>

\* Variant: the handler counts the step whoever counted it.
TimedOutCounts ==
  LET counted == pc \in {"context", "conn_wait"} /\ last_result # <<>>
  IN n_steps' = (IF counted THEN n_steps + 1 ELSE n_steps) + 1

\* wait_for(step, step_timeout): the cancelled step runs its finally block, which
\* counts the step if the previous results are still there; the handler counts it
\* if nobody did
TimedOut ==
  LET counted == pc \in {"context", "conn_wait"} /\ last_result # <<>>
      n == IF counted THEN n_steps + 1 ELSE n_steps
  IN n_steps' = IF n = step + 1 THEN n + 1 ELSE n

StepTimesOut ==
  /\ pc \in Stepping \ {"after"}
  /\ TimedOut
  /\ failures' = failures + 1 /\ last_result' = <<"error">>
  /\ untold' = 0 /\ pc' = "after" /\ Drain
  /\ UNCHANGED <<step, ended, task, last_output, summary, history,
                 modelVars, userVars, connVars>>

InitialTimesOut ==
  /\ pc = "initial" /\ pc' = "top"
  /\ failures' = failures + 1 /\ last_result' = <<"error">> /\ untold' = 0
  /\ Drain
  /\ UNCHANGED <<step, n_steps, ended, task, last_output, summary, history, modelVars, userVars, connVars>>

-----------------------------------------------------------------------------
(* The user and the connection                                               *)

Pause ==
  /\ pc # "idle" /\ paused' = TRUE /\ awake' = FALSE
  /\ UNCHANGED <<pc, loopVars, resultVars, modelVars, stopped, connVars>>

\* both set the event the paused loop waits for
Wake == awake' = TRUE /\ pc' = IF pc = "waiting" THEN "checks" ELSE pc

Resume ==
  /\ paused /\ paused' = FALSE /\ Wake
  /\ UNCHANGED <<loopVars, resultVars, modelVars, stopped, connVars>>

Stop ==
  /\ pc # "idle" /\ ~stopped /\ stopped' = TRUE /\ Wake
  /\ UNCHANGED <<loopVars, resultVars, modelVars, paused, connVars>>

ConnBreaks ==
  /\ drops < MaxDrops /\ drops' = drops + 1
  /\ Connection!Drop \/ Connection!Reset \/ Connection!Close
  /\ UNCHANGED <<pc, loopVars, resultVars, modelVars, userVars>>

ConnRecovers ==
  /\ Connection!Recover \/ Connection!Recovered
  /\ UNCHANGED <<pc, loopVars, resultVars, modelVars, userVars, drops>>

LoopStep == StartRun \/ StartFails \/ OutOfSteps \/ LoopTop \/ GiveUp \/ BeginStep \/ AfterStep

StepStep ==
  \/ Prepare \/ SwitchFallback \/ Answer \/ Interrupt \/ CallbackInterrupts
  \/ \E outcome \in Outcomes : Act(outcome)
  \/ ActRaises \/ StepRaises \/ ConnectionRaises \/ ConnWaitEnds
  \/ Record \/ Advance \/ StepTimesOut \/ InitialRaises \/ InitialTimesOut

AgentStep == LoopStep \/ StepStep

Next == AgentStep \/ AddTask \/ Pause \/ Resume \/ Stop \/ ConnBreaks \/ ConnRecovers

Spec == Init /\ [][Next]_vars

\* the event loop runs the agent's coroutine; it owes nothing to the user
FairSpec == Spec /\ WF_vars(AgentStep)

-----------------------------------------------------------------------------
TypeOK ==
  /\ pc \in Places /\ step \in Nat /\ n_steps \in Nat \ {0} /\ failures \in Nat
  /\ last_result \in Seq(Outcomes) /\ results \in Seq(Outcomes) /\ left \in Nat
  /\ {last_output, summary, done_only, fallback, paused, stopped, awake} \subseteq BOOLEAN
  /\ history \in Seq([step : Nat, outcome : Outcomes, task : 1 .. MaxTasks])
  /\ conn \in Connection!Statuses /\ ended \in Endings /\ task \in 1 .. MaxTasks
  /\ drops \in 0 .. MaxDrops /\ untold \in Nat

\* A step is counted at most once, whoever counts it: _finalize, the finally block
\* of a cancelled step, or the timeout handler.
StepCountedOnce ==
  pc \in Stepping => n_steps - step \in IF pc = "after" THEN {1, 2} ELSE {1}

\* The recorded steps carry increasing numbers, across timeouts, interrupted steps
\* that are repeated, and follow-up tasks: no two items claim the same step.
HistoryOrdered ==
  \A i, j \in 1 .. Len(history) :
    i < j /\ history[j].step > 0 => history[i].step < history[j].step

\* Types, and the numbering of the steps: by the loop and in the history.
StepsNumbered == TypeOK /\ StepCountedOnce /\ HistoryOrdered

\* When the model is asked, every action performed so far has been shown to it,
\* except where an interruption, a dead connection, a timeout or an unreadable page
\* cut the step: partial results survive an action that raises.
PerformedIsTold == pc = "asking" => untold = 0

\* Once the agent has failed max_failures times in a row it only says "done".
OnlyDoneAfterCap ==
  [][ pc = "acting" /\ failures >= MaxFailures /\ untold' > untold
        => last_result' # <<>> /\ Last(last_result') # "ok" ]_vars

\* After a recorded "done" no action of the same task is performed any more, even
\* if the step that recorded it timed out while it was being closed.
DoneIsLast ==
  IsDone /\ Last(history).task = task => pc \notin {"context", "asking", "acting"}

\* A run ends, whatever errors, timeouts and connections do to its steps.  An interrupted
\* step neither counts nor records: a status callback that interrupts again and again
\* keeps run() going for ever, and so does a user who pauses it again and again.
RunEnds ==
  <>[][~Pause /\ ~CallbackInterrupts]_vars => (pc # "idle" ~> pc \in {"idle", "waiting"})
==============================================================================
