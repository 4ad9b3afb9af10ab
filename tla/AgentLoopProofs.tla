---------------------------- MODULE AgentLoopProofs ----------------------------
(***************************************************************************)
(* Proofs about module AgentLoop, for any settings, numbers of tasks,       *)
(* pauses, interruptions and drops of the connection.                       *)
(***************************************************************************)
EXTENDS AgentLoop, TLAPS

Items == [step : Nat, outcome : Outcomes, task : 1 .. MaxTasks]

(* While a step runs, n_steps is still the number it began with.             *)
Numbering ==
  /\ pc \in Stepping \ {"after"} => n_steps = step + 1
  /\ pc = "after" => n_steps \in {step + 1, step + 2}

(* What is recorded bears an earlier number, or the one about to be counted. *)
HistoryBelow ==
  \A i \in 1 .. Len(history) :
    /\ history[i].step < n_steps \/ (pc = "advance" /\ history[i].step = n_steps)
    /\ history[i].task <= task

(* Only multi_act collects results; the initial actions come before any step.*)
Collecting ==
  /\ pc # "acting" => results = <<>>
  /\ pc = "acting" => last_output
  /\ pc = "initial" => left = 1 /\ n_steps = 1
  /\ pc = "idle" /\ ended = "none" /\ task = 1 => untold = 0 /\ n_steps = 1

(* Where the actions the model was not told of are kept.                     *)
Telling ==
  /\ pc = "acting" => untold = Len(results)
  /\ pc \in {"initial", "asking", "conn_wait"} => untold = 0
  /\ pc \notin {"acting", "initial", "asking", "conn_wait"} => untold <= Len(last_result)
  /\ pc \in {"idle", "top", "waiting", "checks", "context"} => untold = 0 \/ last_output \/ n_steps = 1
  /\ pc \in {"finalize", "advance", "after"} => untold = 0 \/ last_output

(* A step that recorded "done" is the last one of its task.                  *)
DoneEnds ==
  IsDone /\ Last(history).task = task =>
    pc \in {"advance", "after"} \/ (pc = "idle" /\ ended # "none")

(* An agent that failed as often as it may begins no step, or a last one.    *)
Failing ==
  /\ pc \in {"context", "asking", "acting"} => failures < Cap
  /\ pc \in {"asking", "acting"} /\ failures >= MaxFailures => done_only

Inv ==
  TypeOK /\ Numbering /\ HistoryBelow /\ HistoryOrdered /\ Collecting /\ Telling /\ DoneEnds /\ Failing

LEMMA LastOfAppend ==
  ASSUME NEW S, NEW s \in Seq(S), NEW e \in S
  PROVE  /\ Append(s, e) \in Seq(S) /\ Append(s, e) # <<>> /\ Last(Append(s, e)) = e
         /\ Len(Append(s, e)) = Len(s) + 1
BY DEF Last

LEMMA InitInv == ASSUME Init PROVE Inv
<1> USE DEF Init
<1>1. TypeOK
  <2>1. {last_output, summary, done_only, fallback, paused, stopped, awake} \subseteq BOOLEAN
    OBVIOUS
  <2>2. conn \in Connection!Statuses
    BY DEF Connection!Init, Connection!Statuses
  <2>3. pc \in Places /\ ended \in Endings /\ task \in 1 .. MaxTasks /\ drops \in 0 .. MaxDrops
    BY Settings DEF Places, Stepping, Endings
  <2> QED
    BY <2>1, <2>2, <2>3 DEF TypeOK
<1>2. IsDone = FALSE
  BY DEF IsDone
<1>3. HistoryBelow /\ HistoryOrdered
  BY DEF HistoryBelow, HistoryOrdered
<1> QED
  BY <1>1, <1>2, <1>3 DEF Inv, Numbering, Stepping, Collecting, Telling, DoneEnds, Failing

-----------------------------------------------------------------------------
(* The groups of actions that leave most of the state alone.                 *)

(* The user and the connection.                                              *)
LEMMA OutsideInv ==
  ASSUME Inv, Pause \/ Resume \/ Stop \/ ConnBreaks \/ ConnRecovers
  PROVE  Inv'
<1> USE DEF Inv
<1>1. /\ UNCHANGED <<step, n_steps, failures, ended, task, last_result, last_output, summary, left,
                     results, history, untold, done_only, fallback>>
      /\ pc' = pc \/ (pc = "waiting" /\ pc' = "checks")
  BY DEF Pause, Resume, Stop, Wake, ConnBreaks, ConnRecovers, loopVars, resultVars, modelVars
<1>2. {last_output', summary', done_only', fallback', paused', stopped', awake'} \subseteq BOOLEAN
  BY DEF Pause, Resume, Stop, Wake, ConnBreaks, ConnRecovers, loopVars, resultVars, modelVars,
     userVars, TypeOK
<1>3. conn' \in Connection!Statuses
  BY DEF Pause, Resume, Stop, ConnBreaks, ConnRecovers, connVars, TypeOK, Connection!Statuses,
     Connection!Drop, Connection!Reset, Connection!Close, Connection!Recover, Connection!Recovered
<1>4. drops' \in 0 .. MaxDrops
  BY Settings DEF Pause, Resume, Stop, ConnBreaks, ConnRecovers, connVars, userVars, TypeOK
<1>5. TypeOK'
  BY <1>1, <1>2, <1>3, <1>4 DEF TypeOK, Places, Stepping
<1>6. Numbering' /\ HistoryBelow' /\ HistoryOrdered'
  BY <1>1 DEF Numbering, HistoryBelow, HistoryOrdered, Stepping
<1>7. Collecting' /\ Telling' /\ Failing'
  BY <1>1 DEF Collecting, Telling, Failing
<1>8. DoneEnds'
  BY <1>1 DEF DoneEnds, IsDone, Last
<1> QED
  BY <1>5, <1>6, <1>7, <1>8

(* run() returns with an unchanged or a longer history.                      *)
LEMMA EndInv ==
  ASSUME Inv, NEW why \in Endings \ {"none"}, End(why), pc # "acting",
         untold <= Len(last_result), untold = 0 \/ last_output \/ n_steps = 1, pc # "advance",
         \/ history' = history
         \/ history' = Append(history, Item(0, "error"))
  PROVE  Inv'
<1> USE DEF Inv
<1>1. /\ UNCHANGED <<step, n_steps, failures, task, last_result, last_output, summary, left, results,
                     untold, done_only, fallback, paused, stopped, awake, drops>>
      /\ pc' = "idle" /\ ended' = why /\ conn' \in {conn, "closed"}
  BY DEF End, modelVars, userVars
<1>2. Item(0, "error") \in Items
  BY DEF Item, Items, Outcomes, TypeOK
<1>3. history \in Seq(Items) /\ n_steps \in Nat \ {0} /\ task \in 1 .. MaxTasks
  BY DEF TypeOK, Items
<1>4. history' \in Seq(Items)
  BY <1>2, <1>3
<1>5. TypeOK'
  BY <1>1, <1>4 DEF TypeOK, Places, Endings, Items, Connection!Statuses
<1>6. \A i \in 1 .. Len(history') :
        history'[i] = Item(0, "error") \/ (i \in 1 .. Len(history) /\ history'[i] = history[i])
  BY <1>2, <1>3
<1>7. HistoryBelow'
  BY <1>1, <1>3, <1>6, Settings DEF HistoryBelow, Item
<1>8. HistoryOrdered'
  <2>1. CASE history' = history
    BY <2>1 DEF HistoryOrdered
  <2>2. CASE history' = Append(history, Item(0, "error"))
    BY <1>2, <1>3, <2>2 DEF HistoryOrdered, Item
  <2> QED
    BY <2>1, <2>2
<1>9. Numbering' /\ Collecting' /\ Telling' /\ Failing' /\ DoneEnds'
  BY <1>1 DEF Numbering, Stepping, Collecting, Telling, Failing, DoneEnds, Endings
<1> QED
  BY <1>5, <1>7, <1>8, <1>9

(* run(): beginning, looping and giving up.                                  *)
LEMMA LoopInv ==
  ASSUME Inv, LoopStep
  PROVE  Inv'
<1> USE DEF Inv
<1>0. /\ untold \in Nat /\ last_result \in Seq(Outcomes) /\ n_steps \in Nat \ {0}
      /\ history \in Seq(Items) /\ task \in 1 .. MaxTasks /\ failures \in Nat
  BY DEF TypeOK, Items
<1>1. ASSUME NEW why \in Endings \ {"none"}, End(why),
             pc \in {"idle", "top", "checks"} \/ pc = "after",
             \/ history' = history
             \/ history' = Append(history, Item(0, "error"))
      PROVE  Inv'
  <2>1. untold <= Len(last_result) /\ (untold = 0 \/ last_output \/ n_steps = 1)
    BY <1>1 DEF Telling
  <2> QED
    BY <1>1, <2>1, EndInv
<1>2. CASE StartRun
  <2>1. /\ UNCHANGED <<loopVars, modelVars, userVars, drops, last_result, last_output, summary,
                       results, history, untold>>
        /\ \/ pc' = "initial" /\ left' = 1 /\ task = 1
           \/ pc' = "top" /\ left' = left
        /\ pc = "idle" /\ ended = "none"
        /\ conn' \in {conn, "up", "lost"}
    BY <1>2 DEF StartRun, Connection!Connect
  <2>2. TypeOK'
    BY <2>1 DEF TypeOK, loopVars, modelVars, userVars, Places, Connection!Statuses
  <2>3. Numbering' /\ HistoryBelow' /\ HistoryOrdered' /\ Failing' /\ DoneEnds'
    BY <2>1 DEF Numbering, HistoryBelow, HistoryOrdered, Failing, DoneEnds, IsDone, Last, loopVars, Stepping
  <2>4. Collecting'
    BY <2>1 DEF Collecting, loopVars
  <2>5. Telling'
    BY <2>1 DEF Telling, Collecting, loopVars
  <2> QED
    BY <2>2, <2>3, <2>4, <2>5
<1>3. CASE StartFails
  BY <1>3, <1>1 DEF StartFails, Endings
<1>4. CASE OutOfSteps
  BY <1>4, <1>1 DEF OutOfSteps, Endings
<1>5. CASE LoopTop
  <2>1. /\ UNCHANGED <<loopVars, resultVars, modelVars, userVars, connVars>>
        /\ pc = "top" /\ pc' \in {"waiting", "checks"}
    BY <1>5 DEF LoopTop
  <2>2. TypeOK'
    BY <2>1 DEF TypeOK, loopVars, resultVars, modelVars, userVars, connVars, Places
  <2>3. Numbering' /\ HistoryBelow' /\ HistoryOrdered' /\ Failing' /\ DoneEnds' /\ Collecting' /\ Telling'
    BY <2>1 DEF Numbering, HistoryBelow, HistoryOrdered, Failing, DoneEnds, IsDone, Last, loopVars,
       resultVars, Stepping, Collecting, Telling
  <2> QED
    BY <2>2, <2>3
<1>6. CASE GiveUp
  BY <1>6, <1>1 DEF GiveUp, Endings
<1>7. CASE BeginStep
  <2>1. /\ pc = "checks" /\ failures < Cap
        /\ pc' = "context" /\ step' = n_steps - 1 /\ summary' = FALSE
        /\ UNCHANGED <<n_steps, failures, ended, task, last_result, last_output, left,
                       results, history, untold, modelVars, userVars, connVars>>
    BY <1>7 DEF BeginStep
  <2>2. step' \in Nat /\ n_steps' = step' + 1
    BY <2>1, <1>0
  <2>3. TypeOK'
    BY <2>1, <2>2 DEF TypeOK, modelVars, userVars, connVars, Places, Stepping
  <2>4. Numbering'
    BY <2>1, <2>2 DEF Numbering
  <2>5. HistoryBelow' /\ HistoryOrdered' /\ Collecting' /\ Telling'
    BY <2>1 DEF HistoryBelow, HistoryOrdered, Collecting, Telling
  <2>6. Failing' /\ DoneEnds'
    BY <2>1 DEF Failing, DoneEnds, IsDone, Last, Cap
  <2> QED
    BY <2>3, <2>4, <2>5, <2>6
<1>8. CASE AfterStep
  <2>1. CASE IsDone
    BY <1>8, <2>1, <1>1 DEF AfterStep, Endings
  <2>2. CASE ~IsDone
    <3>1. /\ UNCHANGED <<loopVars, resultVars, modelVars, userVars, connVars>>
          /\ pc = "after" /\ pc' = "top"
      BY <1>8, <2>2 DEF AfterStep
    <3>2. TypeOK'
      BY <3>1 DEF TypeOK, loopVars, resultVars, modelVars, userVars, connVars, Places
    <3>3. DoneEnds'
      BY <3>1, <2>2 DEF DoneEnds, IsDone, Last, resultVars
    <3>4. Numbering' /\ HistoryBelow' /\ HistoryOrdered' /\ Failing' /\ Collecting' /\ Telling'
      BY <3>1 DEF Numbering, HistoryBelow, HistoryOrdered, Failing, loopVars,
         resultVars, Stepping, Collecting, Telling
    <3> QED
      BY <3>2, <3>3, <3>4
  <2> QED
    BY <2>1, <2>2
<1> QED
  BY <1>2, <1>3, <1>4, <1>5, <1>6, <1>7, <1>8 DEF LoopStep

(* A follow-up task: nothing recorded so far belongs to it.                  *)
LEMMA AddTaskInv ==
  ASSUME Inv, AddTask
  PROVE  Inv'
<1> USE DEF Inv
<1>1. /\ pc = "idle" /\ pc' = "idle" /\ task' = task + 1 /\ task < MaxTasks /\ ended' = "none"
      /\ paused' = FALSE /\ stopped' = FALSE
      /\ UNCHANGED <<step, n_steps, failures, resultVars, modelVars, awake, connVars>>
  BY DEF AddTask
<1>2. history \in Seq(Items) /\ task \in 1 .. MaxTasks
  BY DEF TypeOK, Items
<1>3. TypeOK'
  <2>1. {last_output', summary', done_only', fallback', paused', stopped', awake'} \subseteq BOOLEAN
    BY <1>1 DEF TypeOK, resultVars, modelVars
  <2>2. task' \in 1 .. MaxTasks
    BY <1>1, <1>2, Settings
  <2> QED
    BY <1>1, <2>1, <2>2 DEF TypeOK, resultVars, connVars, Places, Endings
<1>4. HistoryBelow'
  <2>1. \A i \in 1 .. Len(history) : history[i] \in Items
    BY <1>2
  <2>2. \A i \in 1 .. Len(history) : history[i].task <= task + 1
    BY <1>2, <2>1 DEF HistoryBelow, Items
  <2> QED
    BY <1>1, <2>2 DEF HistoryBelow, resultVars
<1>5. DoneEnds'
  <2>1. ASSUME IsDone PROVE Last(history).task <= task
    <3>1. history # <<>> /\ Len(history) \in 1 .. Len(history)
      BY <2>1, <1>2 DEF IsDone
    <3> QED
      BY <3>1 DEF HistoryBelow, Last
  <2>2. ASSUME IsDone PROVE Last(history).task # task + 1
    <3>1. Last(history) \in Items
      BY <2>2, <1>2 DEF IsDone, Last
    <3> QED
      BY <2>1, <2>2, <3>1, <1>2 DEF Items
  <2>3. IsDone' = IsDone /\ Last(history)' = Last(history)
    BY <1>1 DEF IsDone, Last, resultVars
  <2> QED
    BY <1>1, <2>2, <2>3 DEF DoneEnds
<1>6. Numbering' /\ HistoryOrdered' /\ Failing' /\ Telling'
  BY <1>1 DEF Numbering, HistoryOrdered, Failing, Telling, resultVars, Stepping
<1>7. Collecting'
  BY <1>1, <1>2 DEF Collecting, resultVars
<1> QED
  BY <1>3, <1>4, <1>5, <1>6, <1>7

-----------------------------------------------------------------------------
(* One step.                                                                 *)

(* A step that records nothing may only raise the number to come.            *)
LEMMA HistoryKept ==
  ASSUME Inv, UNCHANGED <<history, task>>, n_steps' \in Nat, n_steps' >= n_steps,
         pc = "advance" => n_steps' > n_steps
  PROVE  HistoryBelow' /\ HistoryOrdered'
<1> USE DEF Inv
<1>1. history \in Seq(Items) /\ n_steps \in Nat
  BY DEF TypeOK, Items
<1>2. \A i \in 1 .. Len(history) : history[i] \in Items
  BY <1>1
<1>3. \A i \in 1 .. Len(history) : history[i].step < n_steps' /\ history[i].task <= task
  BY <1>1, <1>2 DEF HistoryBelow, Items
<1> QED
  BY <1>3 DEF HistoryBelow, HistoryOrdered

(* What is left to show of a step that keeps the history and is not closing. *)
LEMMA DoneKept ==
  ASSUME Inv, UNCHANGED <<history, task>>, pc \notin {"idle", "advance", "after"}
  PROVE  DoneEnds'
BY DEF Inv, DoneEnds, IsDone, Last

(* Up to the actions: the browser state and the model call.                  *)
LEMMA AskingInv ==
  ASSUME Inv, Prepare \/ SwitchFallback \/ Answer
  PROVE  Inv'
<1> USE DEF Inv
<1>0. /\ untold \in Nat /\ last_result \in Seq(Outcomes) /\ n_steps \in Nat \ {0} /\ step \in Nat
      /\ failures \in Nat
  BY DEF TypeOK
<1>1. /\ UNCHANGED <<loopVars, history, userVars, connVars>>
      /\ pc \in {"context", "asking"} /\ pc' \in {"asking", "acting"}
  BY DEF Prepare, SwitchFallback, Answer, resultVars
<1>2. HistoryBelow' /\ HistoryOrdered' /\ DoneEnds'
  BY <1>0, <1>1, HistoryKept, DoneKept DEF loopVars
<1>3. Numbering'
  BY <1>1 DEF Numbering, loopVars, Stepping
<1>4. CASE Prepare
  <2>1. /\ pc = "context" /\ pc' = "asking"
        /\ untold' = IF Told /\ Len(last_result) >= untold THEN 0 ELSE untold
        /\ done_only' = (step >= MaxSteps - 1 \/ (failures >= MaxFailures /\ FinalResponse))
        /\ summary' = TRUE /\ last_output' = FALSE /\ last_result' = <<>>
        /\ UNCHANGED <<left, results, fallback>>
    BY <1>4 DEF Prepare
  <2>2. untold' = 0
    <3>1. Len(last_result) >= untold
      BY <1>0, <2>1 DEF Telling
    <3>2. untold = 0 \/ last_output \/ step = 0
      BY <1>0, <2>1 DEF Telling, Numbering, Stepping
    <3> QED
      BY <2>1, <3>1, <3>2 DEF Told
  <2>3. {last_output', summary', done_only', fallback', paused', stopped', awake'} \subseteq BOOLEAN
    BY <1>1, <2>1 DEF TypeOK, userVars
  <2>4. TypeOK'
    BY <1>1, <2>1, <2>2, <2>3 DEF TypeOK, loopVars, userVars, connVars, Places, Stepping
  <2>5. Collecting' /\ Telling'
    BY <2>1, <2>2 DEF Collecting, Telling
  <2>6. Failing'
    BY <1>0, <1>1, <2>1, Settings DEF Failing, Cap, loopVars
  <2> QED
    BY <1>2, <1>3, <2>4, <2>5, <2>6
<1>5. CASE SwitchFallback
  <2>1. pc = "asking" /\ pc' = "asking" /\ fallback' = TRUE /\ UNCHANGED <<resultVars, done_only>>
    BY <1>5 DEF SwitchFallback
  <2>2. {last_output', summary', done_only', fallback', paused', stopped', awake'} \subseteq BOOLEAN
    BY <1>1, <2>1 DEF TypeOK, userVars, resultVars
  <2>3. TypeOK'
    BY <1>1, <2>1, <2>2 DEF TypeOK, loopVars, resultVars, userVars, connVars, Places, Stepping
  <2>4. Collecting' /\ Telling' /\ Failing'
    BY <1>1, <2>1 DEF Collecting, Telling, Failing, loopVars, resultVars
  <2> QED
    BY <1>2, <1>3, <2>3, <2>4
<1>6. CASE Answer
  <2>1. /\ pc = "asking" /\ pc' = "acting" /\ left' \in 1 .. MaxActions /\ last_output' = TRUE
        /\ results' = <<>> /\ UNCHANGED <<last_result, summary, untold, modelVars>>
    BY <1>6 DEF Answer
  <2>2. {last_output', summary', done_only', fallback', paused', stopped', awake'} \subseteq BOOLEAN
    BY <1>1, <2>1 DEF TypeOK, userVars, modelVars
  <2>3. TypeOK'
    BY <1>1, <2>1, <2>2, Settings DEF TypeOK, loopVars, connVars, userVars, Places, Stepping
  <2>4. Collecting' /\ Telling' /\ Failing'
    BY <1>1, <2>1 DEF Collecting, Telling, Failing, loopVars, modelVars
  <2> QED
    BY <1>2, <1>3, <2>3, <2>4
<1> QED
  BY <1>4, <1>5, <1>6

(* multi_act, in a step or for the initial actions.                          *)
LEMMA ActingInv ==
  ASSUME Inv, ActRaises \/ \E outcome \in Outcomes : Act(outcome)
  PROVE  Inv'
<1> USE DEF Inv
<1>0. /\ untold \in Nat /\ results \in Seq(Outcomes) /\ n_steps \in Nat \ {0} /\ step \in Nat
      /\ failures \in Nat /\ left \in Nat /\ history \in Seq(Items) /\ task \in 1 .. MaxTasks
  BY DEF TypeOK, Items
<1>1. PICK outcome \in Outcomes :
        /\ \/ Return(Append(results, outcome))
           \/ /\ outcome = "ok" /\ left > 1
              /\ left' = left - 1 /\ results' = Append(results, outcome)
              /\ UNCHANGED <<pc, failures, last_result, history>>
        /\ outcome = "done" => pc = "acting"
        /\ pc \in {"acting", "initial"} /\ untold' = untold + 1
        /\ UNCHANGED <<step, n_steps, ended, task, last_output, summary, modelVars, userVars, connVars>>
  BY DEF ActRaises, Act, Outcomes
<1> DEFINE r == Append(results, outcome)
<1>2. r \in Seq(Outcomes) /\ r # <<>> /\ Last(r) = outcome /\ Len(r) = Len(results) + 1
  BY <1>0, LastOfAppend
<1>3. {last_output', summary', done_only', fallback', paused', stopped', awake'} \subseteq BOOLEAN
  BY <1>1 DEF TypeOK, userVars, modelVars
<1>4. ASSUME Return(r), pc = "acting"
      PROVE  Inv'
  <2>1. /\ pc' = "finalize" /\ failures' \in {0, failures + 1} /\ history' = history
        /\ last_result' = r /\ left' = 0 /\ results' = <<>>
    BY <1>4 DEF Return, Drain
  <2>2. TypeOK'
    BY <1>0, <1>1, <1>2, <1>3, <2>1 DEF TypeOK, connVars, userVars, Places, Stepping
  <2>3. HistoryBelow' /\ HistoryOrdered' /\ DoneEnds'
    BY <1>0, <1>1, <1>4, <2>1, HistoryKept, DoneKept
  <2>4. Numbering' /\ Collecting' /\ Failing'
    BY <1>1, <1>4, <2>1 DEF Numbering, Collecting, Failing, Stepping
  <2>5. untold' <= Len(last_result') /\ last_output'
    BY <1>0, <1>1, <1>2, <1>4, <2>1 DEF Telling, Collecting
  <2>6. Telling'
    BY <2>1, <2>5 DEF Telling
  <2> QED
    BY <2>2, <2>3, <2>4, <2>6
<1>5. ASSUME Return(r), pc = "initial"
      PROVE  Inv'
  <2>1. /\ pc' = "top" /\ failures' = failures
        /\ history' = Append(history, Item(0, outcome)) /\ outcome # "done"
        /\ last_result' = r /\ left' = 0 /\ results' = <<>>
    BY <1>1, <1>2, <1>5 DEF Return, Drain
  <2>2. Item(0, outcome) \in Items
    BY <1>0 DEF Item, Items
  <2>3. history' \in Seq(Items) /\ Len(history') = Len(history) + 1
        /\ history'[Len(history')] = Item(0, outcome)
    BY <1>0, <2>1, <2>2
  <2>4. TypeOK'
    BY <1>0, <1>1, <1>2, <1>3, <2>1, <2>3 DEF TypeOK, connVars, userVars, Places, Items
  <2>5. \A i \in 1 .. Len(history') :
          history'[i] = Item(0, outcome) \/ (i \in 1 .. Len(history) /\ history'[i] = history[i])
    BY <1>0, <2>1, <2>2
  <2>6. HistoryBelow'
    BY <1>0, <1>1, <1>5, <2>1, <2>5 DEF HistoryBelow, Item
  <2>7. HistoryOrdered'
    BY <1>0, <2>1, <2>2 DEF HistoryOrdered, Item
  <2>8. ~IsDone'
    BY <2>1, <2>3 DEF IsDone, Last, Item
  <2>9. untold' <= Len(last_result') /\ n_steps' = 1
    BY <1>0, <1>1, <1>2, <1>5, <2>1 DEF Telling, Collecting
  <2>10. Numbering' /\ Collecting' /\ Failing' /\ DoneEnds' /\ Telling'
    BY <2>1, <2>8, <2>9 DEF Numbering, Collecting, Failing, Stepping, DoneEnds, Telling
  <2> QED
    BY <2>4, <2>6, <2>7, <2>10
<1>6. ASSUME left > 1, left' = left - 1, results' = r, UNCHANGED <<pc, failures, last_result, history>>
      PROVE  Inv'
  <2>1. pc = "acting" /\ pc' = "acting"
    BY <1>1, <1>6 DEF Collecting
  <2>2. TypeOK'
    BY <1>0, <1>1, <1>2, <1>3, <1>6 DEF TypeOK, connVars, userVars
  <2>3. HistoryBelow' /\ HistoryOrdered' /\ DoneEnds'
    BY <1>0, <1>1, <1>6, <2>1, HistoryKept, DoneKept
  <2>4. Numbering' /\ Collecting' /\ Failing'
    BY <1>1, <1>6, <2>1 DEF Numbering, Collecting, Failing, Stepping, modelVars
  <2>5. Telling'
    BY <1>0, <1>1, <1>2, <1>6, <2>1 DEF Telling
  <2> QED
    BY <2>2, <2>3, <2>4, <2>5
<1> QED
  BY <1>1, <1>4, <1>5, <1>6

(* A step that is cut short, and what it leaves behind.                      *)
LEMMA CutInv ==
  ASSUME Inv, Cut \/ StepRaises \/ ConnectionRaises \/ ConnWaitEnds
  PROVE  Inv'
<1> USE DEF Inv
<1>0. /\ untold \in Nat /\ last_result \in Seq(Outcomes) /\ n_steps \in Nat \ {0} /\ step \in Nat
      /\ failures \in Nat
  BY DEF TypeOK
<1>1. /\ UNCHANGED <<step, n_steps, ended, task, summary, history, modelVars, connVars, paused>>
      /\ pc \in {"context", "asking", "acting", "initial", "conn_wait"}
      /\ IF pc = "initial" THEN pc' = "top" ELSE pc' \in {"finalize", "conn_wait"}
      /\ results' = <<>>
  BY DEF Cut, StepRaises, ConnectionRaises, ConnWaitEnds, BrowserError, CountError, Drain,
     loopVars, userVars, Collecting
<1>2. /\ failures' \in Nat /\ last_result' \in {last_result, <<"error">>} /\ left' \in {0, left}
  BY Settings DEF Cut, StepRaises, ConnectionRaises, ConnWaitEnds, BrowserError, CountError,
     Drain, loopVars, userVars, TypeOK
<1>3. {last_output', summary', done_only', fallback', paused', stopped', awake'} \subseteq BOOLEAN
  BY <1>1 DEF Cut, StepRaises, ConnectionRaises, ConnWaitEnds, BrowserError, CountError,
     modelVars, userVars, TypeOK
<1>4. TypeOK'
  <2>1. last_result' \in Seq(Outcomes) /\ results' \in Seq(Outcomes) /\ left' \in Nat
    <3>1. <<"error">> \in Seq(Outcomes) /\ <<>> \in Seq(Outcomes) /\ left \in Nat
      BY DEF TypeOK, Outcomes
    <3>2. last_result' \in Seq(Outcomes)
      <4>1. CASE last_result' = last_result
        BY <1>0, <4>1
      <4>2. CASE last_result' = <<"error">>
        BY <3>1, <4>2
      <4> QED
        BY <1>2, <4>1, <4>2
    <3>3. left' \in Nat
      BY <1>2, <3>1
    <3>4. results' \in Seq(Outcomes)
      BY <1>1, <3>1
    <3> QED
      BY <3>2, <3>3, <3>4
  <2>2. pc' \in Places /\ conn' \in Connection!Statuses /\ drops' \in 0 .. MaxDrops
    BY <1>1 DEF TypeOK, connVars, Places, Stepping
  <2>3. untold' \in Nat
    BY <1>0 DEF Cut, StepRaises, ConnectionRaises, ConnWaitEnds
  <2> QED
    BY <1>1, <1>2, <1>3, <2>1, <2>2, <2>3 DEF TypeOK
<1>5. HistoryBelow' /\ HistoryOrdered' /\ DoneEnds'
  BY <1>0, <1>1, HistoryKept, DoneKept
<1>6. Numbering' /\ Collecting' /\ Failing'
  BY <1>1 DEF Numbering, Collecting, Failing, Stepping
<1>7. Telling'
  <2>1. CASE Cut
    <3>1. /\ untold' = (IF pc = "context" /\ last_output THEN untold ELSE 0)
          /\ last_output' = (last_output \/ pc = "asking") /\ last_result' = last_result
          /\ pc' \in {"top", "finalize"}
      BY <2>1 DEF Cut
    <3>2. untold' <= Len(last_result) /\ (untold' = 0 \/ last_output')
      <4>1. CASE pc = "context" /\ last_output
        BY <1>0, <3>1, <4>1 DEF Telling
      <4>2. CASE ~(pc = "context" /\ last_output)
        BY <1>0, <3>1, <4>2
      <4> QED
        BY <4>1, <4>2
    <3>3. pc' = "top" => n_steps' = 1
      BY <1>1, <3>1 DEF Collecting
    <3> QED
      BY <3>1, <3>2, <3>3 DEF Telling
  <2>2. CASE StepRaises \/ ConnectionRaises \/ ConnWaitEnds
    <3>1. untold' = 0 /\ pc' \in {"finalize", "conn_wait"}
      BY <2>2 DEF StepRaises, ConnectionRaises, ConnWaitEnds, BrowserError, CountError, Telling
    <3>2. untold' <= Len(last_result')
      BY <1>4, <3>1 DEF TypeOK
    <3> QED
      BY <3>1, <3>2 DEF Telling
  <2> QED
    BY <2>1, <2>2
<1> QED
  BY <1>4, <1>5, <1>6, <1>7

(* _finalize records the step under its number and then counts it.           *)
LEMMA FinalizeInv ==
  ASSUME Inv, Record \/ Advance
  PROVE  Inv'
<1> USE DEF Inv
<1>0. /\ untold \in Nat /\ last_result \in Seq(Outcomes) /\ n_steps \in Nat \ {0} /\ step \in Nat
      /\ failures \in Nat /\ history \in Seq(Items) /\ task \in 1 .. MaxTasks
  BY DEF TypeOK, Items
<1>1. CASE Record
  <2>1. /\ UNCHANGED <<loopVars, last_result, last_output, summary, left, results, untold,
                       modelVars, userVars, connVars>>
        /\ pc = "finalize" /\ pc' \in {"advance", "after"}
    BY <1>1 DEF Record
  <2>2. Numbering' /\ Collecting' /\ Failing' /\ DoneEnds' /\ Telling'
    BY <2>1 DEF Numbering, Collecting, Failing, Stepping, DoneEnds, Telling, loopVars
  <2>3. ASSUME history' = history
        PROVE  TypeOK' /\ HistoryBelow' /\ HistoryOrdered'
    <3>1. HistoryBelow' /\ HistoryOrdered'
      BY <1>0, <2>1, <2>3, HistoryKept DEF loopVars
    <3> QED
      BY <2>1, <2>3, <3>1 DEF TypeOK, loopVars, modelVars, userVars, connVars, Places, Stepping
  <2>4. ASSUME last_result # <<>>, history' = Append(history, Item(n_steps, Last(last_result))),
               pc' = "advance"
        PROVE  TypeOK' /\ HistoryBelow' /\ HistoryOrdered'
    <3>1. PICK item \in Items : item.step = n_steps /\ item.task = task /\ history' = Append(history, item)
      <4>1. Last(last_result) \in Outcomes
        BY <1>0, <2>4 DEF Last
      <4> QED
        BY <1>0, <2>4, <4>1 DEF Item, Items
    <3>2. history' \in Seq(Items)
      BY <1>0, <3>1
    <3>3. TypeOK'
      BY <2>1, <2>4, <3>2 DEF TypeOK, loopVars, modelVars, userVars, connVars, Places, Stepping, Items
    <3>4. \A i \in 1 .. Len(history') :
            history'[i] = item \/ (i \in 1 .. Len(history) /\ history'[i] = history[i])
      BY <1>0, <3>1
    <3>5. HistoryBelow'
      BY <1>0, <2>1, <2>4, <3>1, <3>4 DEF HistoryBelow, loopVars
    <3>6. \A i \in 1 .. Len(history) : history[i].step < n_steps
      BY <2>1 DEF HistoryBelow
    <3>7. HistoryOrdered'
      BY <1>0, <3>1, <3>6 DEF HistoryOrdered
    <3> QED
      BY <3>3, <3>5, <3>7
  <2>5. TypeOK' /\ HistoryBelow' /\ HistoryOrdered'
    BY <1>1, <2>3, <2>4 DEF Record
  <2> QED
    BY <2>2, <2>5
<1>2. CASE Advance
  <2>1. /\ UNCHANGED <<step, failures, ended, task, resultVars, modelVars, userVars, connVars>>
        /\ pc = "advance" /\ pc' = "after" /\ n_steps' = n_steps + 1
    BY <1>2 DEF Advance
  <2>2. HistoryBelow' /\ HistoryOrdered'
    BY <1>0, <2>1, HistoryKept DEF resultVars
  <2>3. TypeOK'
    BY <1>0, <2>1 DEF TypeOK, resultVars, modelVars, userVars, connVars, Places, Stepping
  <2>4. Numbering'
    BY <1>0, <2>1 DEF Numbering, Stepping
  <2>5. Collecting' /\ Failing' /\ DoneEnds' /\ Telling'
    BY <2>1 DEF Collecting, Failing, DoneEnds, Telling, resultVars
  <2> QED
    BY <2>2, <2>3, <2>4, <2>5
<1> QED
  BY <1>1, <1>2

(* The timeouts, and initial actions that end the run.                       *)
LEMMA TimeoutInv ==
  ASSUME Inv, StepTimesOut \/ InitialTimesOut \/ InitialRaises
  PROVE  Inv'
<1> USE DEF Inv
<1>0. /\ untold \in Nat /\ last_result \in Seq(Outcomes) /\ n_steps \in Nat \ {0} /\ step \in Nat
      /\ failures \in Nat
  BY DEF TypeOK
<1>1. ASSUME failures' = failures + 1, last_result' = <<"error">>, untold' = 0, Drain,
             UNCHANGED <<step, ended, task, last_output, summary, history, modelVars, userVars, connVars>>,
             n_steps' \in Nat, n_steps' >= n_steps, pc' \in {"after", "top"}
      PROVE  TypeOK' /\ Telling' /\ Collecting' /\ Failing'
  <2>1. last_result' \in Seq(Outcomes) /\ Len(last_result') = 1
    BY <1>1 DEF Outcomes
  <2>2. {last_output', summary', done_only', fallback', paused', stopped', awake'} \subseteq BOOLEAN
    BY <1>1 DEF TypeOK, userVars, modelVars
  <2>3. TypeOK'
    BY <1>0, <1>1, <2>1, <2>2 DEF TypeOK, Drain, connVars, userVars, Places, Stepping
  <2>4. Telling' /\ Collecting' /\ Failing'
    BY <1>1, <2>1 DEF Telling, Collecting, Failing, Drain
  <2> QED
    BY <2>3, <2>4
<1>2. CASE StepTimesOut
  <2>1. n_steps = step + 1 /\ pc' = "after" /\ pc # "idle" /\ pc \in Stepping \ {"after"}
    BY <1>2 DEF StepTimesOut, Numbering, Stepping
  <2>2. n_steps' = step + 2
    BY <1>0, <1>2, <2>1 DEF StepTimesOut, TimedOut
  <2>3. HistoryBelow' /\ HistoryOrdered'
    BY <1>0, <1>2, <2>1, <2>2, HistoryKept DEF StepTimesOut
  <2>4. Numbering' /\ DoneEnds'
    BY <1>2, <2>1, <2>2 DEF StepTimesOut, Numbering, DoneEnds, Stepping
  <2> QED
    BY <1>0, <1>1, <1>2, <2>1, <2>2, <2>3, <2>4 DEF StepTimesOut
<1>3. CASE InitialTimesOut
  <2>1. HistoryBelow' /\ HistoryOrdered' /\ DoneEnds'
    BY <1>0, <1>3, HistoryKept, DoneKept DEF InitialTimesOut
  <2>2. Numbering'
    BY <1>3 DEF InitialTimesOut, Numbering, Stepping
  <2> QED
    BY <1>0, <1>1, <1>3, <2>1, <2>2 DEF InitialTimesOut
<1>4. CASE InitialRaises
  <2>1. untold = 0
    BY <1>4 DEF InitialRaises, Telling
  <2> QED
    BY <1>0, <1>4, <2>1, EndInv DEF InitialRaises, Endings
<1> QED
  BY <1>2, <1>3, <1>4

LEMMA StepInv == ASSUME Inv, [Next]_vars PROVE Inv'
<1>1. CASE UNCHANGED vars
  BY <1>1 DEF vars, loopVars, resultVars, modelVars, userVars, connVars, Inv, TypeOK, Numbering,
     HistoryBelow, HistoryOrdered, Collecting, Telling, DoneEnds, IsDone, Last, Failing
<1>2. CASE LoopStep
  BY <1>2, LoopInv
<1>3. CASE StepStep
  BY <1>3, AskingInv, ActingInv, CutInv, FinalizeInv, TimeoutInv DEF StepStep, Interrupt, CallbackInterrupts
<1>4. CASE AddTask
  BY <1>4, AddTaskInv
<1>5. CASE Pause \/ Resume \/ Stop \/ ConnBreaks \/ ConnRecovers
  BY <1>5, OutsideInv
<1> QED
  BY <1>1, <1>2, <1>3, <1>4, <1>5 DEF Next, AgentStep

-----------------------------------------------------------------------------
(* The theorems.                                                             *)

(* Every reachable state satisfies the inductive invariant.                  *)
THEOREM Invariant == Spec => []Inv
<1> QED
  BY InitInv, StepInv, PTL DEF Spec

(* Every step is counted once, by _finalize, by the finally block of the     *)
(* cancelled step or by the timeout handler, and the recorded steps carry    *)
(* increasing numbers across timeouts, repeated steps and follow-up tasks.   *)
THEOREM StepsNumberedHolds == Spec => []StepsNumbered
<1>1. Inv => StepsNumbered
  <2>1. ASSUME Inv PROVE StepCountedOnce
    BY <2>1 DEF Inv, TypeOK, Numbering, StepCountedOnce, Stepping
  <2> QED
    BY <2>1 DEF Inv, StepsNumbered
<1> QED
  BY <1>1, Invariant, PTL

(* When the model is asked, it has seen every action performed so far, but   *)
(* for those of a step that was cut.                                         *)
THEOREM PerformedIsToldHolds == Spec => []PerformedIsTold
<1>1. Inv => PerformedIsTold
  BY DEF Inv, Telling, PerformedIsTold
<1> QED
  BY <1>1, Invariant, PTL

(* After a recorded "done" no action of the same task is performed.          *)
THEOREM DoneIsLastHolds == Spec => []DoneIsLast
<1>1. Inv => DoneIsLast
  BY DEF Inv, DoneEnds, DoneIsLast
<1> QED
  BY <1>1, Invariant, PTL

(* An agent that failed max_failures times in a row performs only "done".    *)
THEOREM OnlyDoneAfterCapHolds == Spec => OnlyDoneAfterCap
<1> DEFINE P == pc = "acting" /\ failures >= MaxFailures /\ untold' > untold
                  => last_result' # <<>> /\ Last(last_result') # "ok"
<1>1. Inv /\ [Next]_vars => [P]_vars
  <2> SUFFICES ASSUME Inv, Next, pc = "acting", failures >= MaxFailures, untold' > untold
               PROVE  last_result' # <<>> /\ Last(last_result') # "ok"
    OBVIOUS
  <2>0. done_only /\ untold \in Nat /\ results \in Seq(Outcomes)
    BY DEF Inv, Failing, TypeOK
  <2>1. ActRaises \/ \E outcome \in Outcomes : Act(outcome)
    BY <2>0 DEF Next, AgentStep, LoopStep, StepStep, StartRun, StartFails, OutOfSteps, LoopTop, GiveUp,
       BeginStep, AfterStep, Prepare, SwitchFallback, Answer, Interrupt, CallbackInterrupts, Cut, StepRaises, ConnectionRaises,
       ConnWaitEnds, Record, Advance, StepTimesOut, InitialRaises, InitialTimesOut, AddTask, Pause,
       Resume, Stop, ConnBreaks, ConnRecovers, End, resultVars
  <2>2. PICK outcome \in Outcomes \ {"ok"} : last_result' = Append(results, outcome)
    BY <2>0, <2>1 DEF ActRaises, Act, Return, Outcomes
  <2> QED
    BY <2>0, <2>2, LastOfAppend
<1> QED
  BY <1>1, Invariant, PTL DEF Spec, OnlyDoneAfterCap

-----------------------------------------------------------------------------
(* How long a run may last                                                   *)

Running == {"waiting", "checks"} \cup (Stepping \ {"after"})

\* the last step may be counted twice over, the last failure too
Bounded ==
  /\ n_steps <= MaxSteps + 1 /\ failures <= Cap + 1
  /\ pc \in Running => n_steps <= MaxSteps
  /\ pc \in {"context", "asking", "acting", "conn_wait"} => failures < Cap
  /\ pc \in {"finalize", "advance"} => failures <= Cap
  /\ pc = "initial" \/ (pc = "idle" /\ ended = "none" /\ task = 1) => failures = 0

LEMMA BoundedStep == ASSUME Inv, Bounded, [Next]_vars PROVE Bounded'
<1> USE DEF Bounded, Running, Stepping
<1> USE DEF loopVars, resultVars, modelVars, userVars, connVars
<1>t. /\ step \in Nat /\ n_steps \in Nat /\ failures \in Nat /\ Cap \in Nat /\ Cap > 0
      /\ MaxSteps \in Nat /\ task \in Nat \ {0} /\ MaxFailures \in Nat
  BY Settings DEF Inv, TypeOK, Cap
<1>n. pc \in Stepping \ {"after"} => n_steps = step + 1
  BY DEF Inv, Numbering
<1>c. UNCHANGED Cap
  BY DEF Cap
<1>e. ASSUME NEW why, End(why), why # "none" PROVE Bounded'
  BY <1>c, <1>e, <1>t DEF End
<1> HIDE DEF Stepping
<1>1. CASE StartRun \/ StartFails \/ AddTask
  <2>1. CASE StartRun
    BY <1>t, <2>1 DEF StartRun, Stepping
  <2>2. CASE StartFails
    BY <1>e, <2>2 DEF StartFails
  <2>3. CASE AddTask
    BY <1>t, <2>3 DEF AddTask, Stepping
  <2> QED
    BY <1>1, <2>1, <2>2, <2>3
<1>2. CASE OutOfSteps \/ GiveUp \/ InitialRaises
  BY <1>e, <1>2 DEF OutOfSteps, GiveUp, InitialRaises
<1>3. CASE LoopTop \/ BeginStep
  BY <1>c, <1>t, <1>3 DEF LoopTop, BeginStep, Stepping
<1>4. CASE AfterStep
  BY <1>c, <1>e, <1>t, <1>4 DEF AfterStep, Stepping
<1>5. CASE Prepare \/ SwitchFallback \/ Answer
  BY <1>c, <1>t, <1>5 DEF Prepare, SwitchFallback, Answer, Stepping
<1>6. CASE Interrupt \/ CallbackInterrupts
  BY <1>c, <1>t, <1>6 DEF Interrupt, CallbackInterrupts, Cut, Stepping
<1>7. ASSUME NEW r, Return(r), pc \in {"acting", "initial"}, UNCHANGED <<n_steps, ended, task>>
      PROVE  Bounded'
  BY <1>c, <1>t, <1>7 DEF Return, Stepping
<1>8. CASE ActRaises \/ \E outcome \in Outcomes : Act(outcome)
  <2>1. ASSUME NEW outcome \in Outcomes, Act(outcome), UNCHANGED <<pc, failures>> PROVE Bounded'
    BY <1>c, <1>t, <2>1 DEF Act
  <2> QED
    BY <1>7, <1>8, <2>1 DEF ActRaises, Act
<1>9. CASE StepRaises
  BY <1>c, <1>t, <1>9 DEF StepRaises, CountError, Stepping
<1>10. CASE ConnectionRaises \/ ConnWaitEnds
  BY <1>c, <1>t, <1>10 DEF ConnectionRaises, ConnWaitEnds, BrowserError, CountError, Stepping
<1>11. CASE Record \/ Advance
  BY <1>c, <1>n, <1>t, <1>11 DEF Record, Advance, Stepping
<1>12. CASE StepTimesOut
  <2>1. n_steps' <= step + 2 /\ step + 1 <= MaxSteps
    BY <1>n, <1>t, <1>12 DEF StepTimesOut, TimedOut, Stepping
  <2> QED
    BY <1>c, <1>t, <1>12, <2>1 DEF StepTimesOut, TimedOut, Stepping
<1>13. CASE InitialTimesOut
  BY <1>c, <1>t, <1>13 DEF InitialTimesOut, Stepping
<1>14. CASE Pause \/ Resume \/ Stop \/ ConnBreaks \/ ConnRecovers \/ UNCHANGED vars
  BY <1>c, <1>t, <1>14 DEF Pause, Resume, Stop, Wake, ConnBreaks, ConnRecovers, vars, Stepping
<1> QED
  BY <1>1, <1>2, <1>3, <1>4, <1>5, <1>6, <1>8, <1>9, <1>10, <1>11, <1>12, <1>13, <1>14
     DEF Next, AgentStep, LoopStep, StepStep

(* No run takes a step beyond max_steps, over all its tasks, and consecutive *)
(* failures stop it one above the cap at most (a step that fails and then    *)
(* times out counts twice): run, _handle_step_error, the timeout handler.    *)
THEOREM BoundedHolds == Spec => []Bounded
<1>1. Init => Bounded
  <2>1. MaxSteps \in Nat /\ MaxSteps > 0 /\ Cap \in Nat
    BY Settings DEF Cap
  <2> QED
    BY <2>1 DEF Init, Bounded, Running, Stepping
<1>2. Inv /\ Bounded /\ [Next]_vars => Bounded'
  BY BoundedStep
<1> QED
  BY <1>1, <1>2, Invariant, PTL DEF Spec

(* Whatever the agent and its user do, the connection under it behaves as    *)
(* ConnStatus promises, which BrowserLifecycle implements: the loop assumes  *)
(* no more of the session than the session keeps.                            *)
THEOREM KeepsConnStatus == Spec => Connection!Spec
<1>1. Init => Connection!Init
  BY DEF Init
<1>2. Inv /\ [Next]_vars => [Connection!Next]_conn
  <2> SUFFICES ASSUME Inv, [Next]_vars PROVE [Connection!Next]_conn
    OBVIOUS
  <2> USE DEF Connection!Next
  <2>t. conn \in Connection!Statuses
    BY DEF Inv, TypeOK
  <2>1. ASSUME NEW why, End(why) PROVE [Connection!Next]_conn
    BY <2>1, <2>t DEF End, Connection!Close
  <2>2. CASE StartRun
    BY <2>2 DEF StartRun, Connection!Connect
  <2>3. CASE StartFails \/ OutOfSteps \/ GiveUp \/ InitialRaises
    BY <2>1, <2>3 DEF StartFails, OutOfSteps, GiveUp, InitialRaises
  <2>4. CASE AfterStep
    BY <2>1, <2>4 DEF AfterStep, connVars
  <2>5. CASE LoopTop \/ BeginStep \/ Prepare \/ SwitchFallback \/ Answer \/ Cut
    BY <2>5 DEF LoopTop, BeginStep, Prepare, SwitchFallback, Answer, Cut, connVars
  <2>6. CASE ActRaises \/ (\E outcome \in Outcomes : Act(outcome)) \/ StepRaises
    BY <2>6 DEF ActRaises, Act, StepRaises, connVars
  <2>7. CASE ConnectionRaises \/ ConnWaitEnds \/ Record \/ Advance \/ StepTimesOut \/ InitialTimesOut
    BY <2>7 DEF ConnectionRaises, ConnWaitEnds, Record, Advance, StepTimesOut, InitialTimesOut, connVars
  <2>8. CASE AddTask \/ Pause \/ Resume \/ Stop \/ UNCHANGED vars
    BY <2>8 DEF AddTask, Pause, Resume, Stop, connVars, vars
  <2>9. CASE ConnBreaks \/ ConnRecovers
    BY <2>9 DEF ConnBreaks, ConnRecovers
  <2> QED
    BY <2>2, <2>3, <2>4, <2>5, <2>6, <2>7, <2>8, <2>9
       DEF Next, AgentStep, LoopStep, StepStep, Interrupt, CallbackInterrupts
<1> QED
  BY <1>1, <1>2, Invariant, PTL DEF Spec, Connection!Spec
==============================================================================
