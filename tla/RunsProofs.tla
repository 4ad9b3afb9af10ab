----------------------------- MODULE RunsProofs ------------------------------
(***************************************************************************)
(* Proofs about module Runs, for any number of requests, runs, rows,       *)
(* faults and crashes.                                                     *)
(***************************************************************************)
EXTENDS Runs, FiniteSetTheorems, TLAPS

(* The strengthening that carries SingleFlight through a step: a second      *)
(* owner could only come from a second running row, so the invariant has to  *)
(* say that there is none, that a dead process owns nothing, and that ids    *)
(* beyond the AUTOINCREMENT counter are free.                                *)
FreshIds == \A r \in RunIds : status[r] = "absent" <=> r > lastId
OneRunning ==
  \A r, s \in RunIds : status[r] = "running" /\ status[s] = "running" => r = s
DeadOwnsNothing == ~up => \A r \in RunIds : ~Live(r)
Rows == FreshIds /\ OneRunning /\ DeadOwnsNothing /\ SingleFlight
FlightInv == TypeOK /\ Rows

------------------------------------------------------------------------------
(* The indices a count ranges over are finitely many, so a count is a        *)
(* natural number.                                                           *)
LEMMA CountsAreNat ==
  ASSUME TypeOK, NEW r \in RunIds, NEW k \in Kinds
  PROVE  /\ IsFiniteSet(Own(r, k)) /\ Cardinality(Own(r, k)) \in Nat
         /\ IsFiniteSet(Recent(r, k)) /\ Cardinality(Recent(r, k)) \in Nat
<1>1. IsFiniteSet(DOMAIN log)
  <2>1. Len(log) \in Nat /\ DOMAIN log = 1 .. Len(log)
    BY DEF TypeOK
  <2> QED
    BY <2>1, FS_Interval
<1>2. Own(r, k) \in SUBSET DOMAIN log /\ Recent(r, k) \in SUBSET DOMAIN log
  BY DEF Own, Recent
<1> QED
  BY <1>1, <1>2, FS_Subset, FS_CardinalityType

LEMMA TallyType ==
  ASSUME TypeOK, NEW r \in RunIds
  PROVE  Tally(r) \in [Kinds -> Nat]
BY CountsAreNat DEF Tally

------------------------------------------------------------------------------
LEMMA InitFlight == ASSUME Init PROVE FlightInv
<1> USE DEF Init, FlightInv
<1>1. TypeOK
  <2>1. NoCount \in [Kinds -> Nat]
    BY DEF NoCount
  <2>2. counts \in [RunIds -> [Kinds -> Nat]]
    BY <2>1
  <2>3. log \in Seq([by : 0 .. MaxRuns, kind : Kinds])
    OBVIOUS
  <2>4. faults \in 0 .. MaxFaults /\ crashes \in 0 .. MaxCrashes /\ lastId \in 0 .. MaxRuns
    BY Bounds
  <2>5. starting \in [Callers -> 0 .. MaxRuns] /\ since \in [RunIds -> Nat]
    BY Bounds
  <2>6. status \in [RunIds -> Statuses] /\ task \in [RunIds -> Stages] /\ up \in BOOLEAN
    BY DEF Statuses, Stages
  <2> QED
    BY <2>2, <2>3, <2>4, <2>5, <2>6 DEF TypeOK
<1>2. Rows
  BY DEF Rows, FreshIds, OneRunning, DeadOwnsNothing, SingleFlight, Live, RunIds
<1> QED
  BY <1>1, <1>2

(* One lemma per conjunct of the invariant that several actions disturb.     *)
LEMMA TypeStep == ASSUME FlightInv, [Next]_vars PROVE TypeOK'
<1> USE DEF FlightInv, TypeOK, server, table
<1>1. ASSUME NEW c \in Callers, CreateRun(c) PROVE TypeOK'
  BY <1>1, Bounds DEF CreateRun, RunIds, Statuses
<1>2. ASSUME NEW c \in Callers, SpawnTask(c) PROVE TypeOK'
  BY <1>2, Bounds DEF SpawnTask, RunIds, Stages
<1>3. ASSUME NEW c \in Callers, SpawnFails(c) PROVE TypeOK'
  BY <1>3, Bounds DEF SpawnFails
<1>4. ASSUME NEW r \in RunIds, Begin(r) PROVE TypeOK'
  BY <1>4 DEF Begin, Stages
<1>5. ASSUME NEW r \in RunIds, NEW k \in Kinds, Record(r, k) PROVE TypeOK'
  <2>1. [by |-> r, kind |-> k] \in [by : 0 .. MaxRuns, kind : Kinds]
    BY Bounds DEF RunIds
  <2> QED
    BY <1>5, <2>1 DEF Record
<1>6. ASSUME NEW r \in RunIds, PipelineReturns(r) \/ PipelineRaises(r) PROVE TypeOK'
  BY <1>6 DEF PipelineReturns, PipelineRaises, Stages
<1>7. ASSUME NEW r \in RunIds, CountRows(r) PROVE TypeOK'
  BY <1>7, TallyType DEF CountRows, Stages
<1>8. ASSUME NEW r \in RunIds, CompleteRun(r) \/ FailRun(r) PROVE TypeOK'
  BY <1>8 DEF CompleteRun, FailRun, Stages, Statuses
<1>9. ASSUME NEW r \in RunIds, FinishFails(r) \/ FailRunFails(r) PROVE TypeOK'
  <2>1. faults' \in 0 .. MaxFaults
    BY <1>9, Bounds DEF FinishFails, FailRunFails
  <2>2. task' \in [RunIds -> Stages]
    BY <1>9 DEF FinishFails, FailRunFails, Stages
  <2> QED
    BY <1>9, <2>1, <2>2 DEF FinishFails, FailRunFails
<1>10. ASSUME Crash PROVE TypeOK'
  <2>1. crashes' \in 0 .. MaxCrashes /\ starting' \in [Callers -> 0 .. MaxRuns]
    BY <1>10, Bounds DEF Crash
  <2>2. task' \in [RunIds -> Stages] /\ up' \in BOOLEAN
    BY <1>10 DEF Crash, Stages
  <2> QED
    BY <1>10, <2>1, <2>2 DEF Crash
<1>11. ASSUME Startup PROVE TypeOK'
  BY <1>11 DEF Startup, SweptStatus, Statuses
<1>12. ASSUME NEW k \in Kinds, CliRecords(k) PROVE TypeOK'
  <2>1. [by |-> Cli, kind |-> k] \in [by : 0 .. MaxRuns, kind : Kinds]
    BY Bounds DEF Cli
  <2> QED
    BY <1>12, <2>1 DEF CliRecords
<1>13. CASE UNCHANGED vars
  BY <1>13 DEF vars
<1> QED
  BY <1>1, <1>2, <1>3, <1>4, <1>5, <1>6, <1>7, <1>8, <1>9, <1>10, <1>11, <1>12, <1>13
     DEF Next, StartStep, TaskStep

(* A step keeps the facts about rows and owners.                             *)
LEMMA FlightStep == ASSUME FlightInv, [Next]_vars PROVE FlightInv'
<1> USE DEF Rows, FreshIds, OneRunning, DeadOwnsNothing, SingleFlight, Live,
            server, table
<1>t. TypeOK /\ TypeOK' /\ Rows
  BY TypeStep DEF FlightInv
<1>1. ASSUME NEW c \in Callers, CreateRun(c) PROVE Rows'
  <2>1. lastId + 1 \in RunIds /\ status[lastId + 1] = "absent"
    BY <1>t, <1>1, Bounds DEF CreateRun, RunIds, TypeOK
  <2>2. ~Live(lastId + 1) /\ \A r \in RunIds : ~Live(r)
    BY <1>t, <1>1, <2>1 DEF CreateRun
  <2>3. FreshIds' /\ OneRunning'
    BY <1>t, <1>1, <2>1 DEF CreateRun, RunIds, TypeOK
  <2>4. ASSUME NEW d \in Callers PROVE starting[d] = 0
    <3>1. starting[d] \in 0 .. MaxRuns /\ starting[d] \notin RunIds
      BY <1>t, <2>2 DEF TypeOK
    <3> QED
      BY <3>1, Bounds DEF RunIds
  <2>5. DeadOwnsNothing' /\ SingleFlight'
    BY <1>t, <1>1, <2>1, <2>2, <2>4 DEF CreateRun, RunIds, TypeOK
  <2> QED
    BY <2>3, <2>5
<1>2. ASSUME NEW c \in Callers, SpawnTask(c) PROVE Rows'
  <2>1. starting[c] \in RunIds
    BY <1>t, <1>2, Bounds DEF SpawnTask, RunIds, TypeOK
  <2> QED
    BY <1>t, <1>2, <2>1 DEF SpawnTask, RunIds, TypeOK
<1>3. ASSUME NEW c \in Callers, SpawnFails(c) PROVE Rows'
  BY <1>t, <1>3 DEF SpawnFails, RunIds, TypeOK
<1>4. ASSUME NEW r \in RunIds,
             \/ Begin(r) \/ PipelineReturns(r) \/ PipelineRaises(r)
             \/ CountRows(r) \/ FinishFails(r)
      PROVE  Rows'
  <2>1. \A q \in RunIds : task'[q] = "none" <=> task[q] = "none"
    BY <1>t, <1>4
       DEF Begin, PipelineReturns, PipelineRaises, CountRows, FinishFails, TypeOK
  <2>2. UNCHANGED <<up, status, lastId, starting>>
    BY <1>4 DEF Begin, PipelineReturns, PipelineRaises, CountRows, FinishFails
  <2>3. starting \in [Callers -> 0 .. MaxRuns]
    BY <1>t DEF TypeOK
  <2>4. FreshIds' /\ OneRunning'
    BY <1>t, <2>2
  <2>5. DeadOwnsNothing'
    BY <1>t, <2>1, <2>2
  <2>6. SingleFlight'
    BY <1>t, <2>1, <2>2, <2>3, Bounds DEF RunIds
  <2> QED
    BY <2>4, <2>5, <2>6
<1>5. ASSUME NEW r \in RunIds, NEW k \in Kinds, Record(r, k) PROVE Rows'
  BY <1>t, <1>5 DEF Record
<1>6. ASSUME NEW r \in RunIds, CompleteRun(r) \/ FailRun(r) PROVE Rows'
  <2>1. task[r] # "none" /\ r # 0
    BY <1>6, Bounds DEF CompleteRun, FailRun, RunIds
  <2>2. status[r] = "running" /\ \A c \in Callers : starting[c] # r
    BY <1>t, <2>1
  <2>3. ASSUME NEW q \in RunIds PROVE ~Live(q)'
    <3>1. q # r => ~Live(q)
      BY <1>t, <2>1
    <3> QED
      BY <1>t, <1>6, <2>2, <3>1 DEF CompleteRun, FailRun, TypeOK
  <2>4. \A q \in RunIds : q # r => status'[q] = status[q]
    BY <1>t, <1>6 DEF CompleteRun, FailRun, TypeOK
  <2>5. status'[r] \in {"completed", "failed"} /\ UNCHANGED <<lastId, starting>>
    BY <1>t, <1>6 DEF CompleteRun, FailRun, TypeOK
  <2>6. FreshIds' /\ OneRunning'
    BY <1>t, <2>2, <2>4, <2>5
  <2>7. ASSUME NEW c \in Callers PROVE starting'[c] = 0
    <3>1. starting'[c] \in 0 .. MaxRuns /\ starting'[c] \notin RunIds
      BY <1>t, <2>3 DEF TypeOK
    <3> QED
      BY <3>1, Bounds DEF RunIds
  <2> QED
    BY <2>3, <2>6, <2>7
<1>7. ASSUME NEW r \in RunIds, FailRunFails(r) PROVE Rows'
  BY <1>t, <1>7 DEF FailRunFails, RunIds, TypeOK
<1>8. ASSUME Crash PROVE Rows'
  BY <1>t, <1>8, Bounds DEF Crash, RunIds, TypeOK
<1>9. ASSUME Startup PROVE Rows'
  BY <1>t, <1>9 DEF Startup, SweptStatus, RunIds, TypeOK
<1>10. ASSUME NEW k \in Kinds, CliRecords(k) PROVE Rows'
  BY <1>t, <1>10 DEF CliRecords
<1>11. ASSUME UNCHANGED vars PROVE Rows'
  <2>1. UNCHANGED <<up, status, lastId, starting, task>>
    BY <1>11 DEF vars
  <2>2. FreshIds' /\ OneRunning'
    BY <1>t, <2>1
  <2>3. DeadOwnsNothing' /\ SingleFlight'
    BY <1>t, <2>1
  <2> QED
    BY <2>2, <2>3
<1>12. Rows'
  BY <1>1, <1>2, <1>3, <1>4, <1>5, <1>6, <1>7, <1>8, <1>9, <1>10, <1>11
     DEF Next, StartStep, TaskStep
<1> QED
  BY <1>t, <1>12 DEF FlightInv

(* Every reachable state is well typed and has a single flight: the pipeline *)
(* of the server is never run twice at once, whatever raises or crashes.     *)
THEOREM FlightIsInvariant == Spec => []FlightInv
<1> QED
  BY InitFlight, FlightStep, PTL DEF Spec

THEOREM TypeCorrect == Spec => []TypeOK
<1>1. FlightInv => TypeOK
  BY DEF FlightInv
<1> QED
  BY <1>1, FlightIsInvariant, PTL

THEOREM SingleFlightHolds == Spec => []SingleFlight
<1>1. FlightInv => SingleFlight
  BY DEF FlightInv, Rows
<1> QED
  BY <1>1, FlightIsInvariant, PTL

------------------------------------------------------------------------------
(* A finished run stays as it is: only the task of a run writes its row, and *)
(* a run whose row is finished has no task.                                  *)
LEMMA FinalStep ==
  ASSUME FlightInv, [Next]_vars, NEW r \in RunIds, status[r] \in {"completed", "failed"}
  PROVE  status'[r] = status[r] /\ counts'[r] = counts[r]
<1> USE DEF FlightInv, Rows, server, table
<1>1. ~Live(r) /\ task[r] = "none"
  BY DEF SingleFlight, Live
<1>2. TypeOK
  OBVIOUS
<1>3. ASSUME NEW c \in Callers, CreateRun(c)
      PROVE  status'[r] = status[r] /\ counts'[r] = counts[r]
  <2>1. r # lastId + 1
    BY <1>2, Bounds DEF FreshIds, TypeOK, RunIds
  <2> QED
    BY <1>2, <1>3, <2>1 DEF CreateRun, TypeOK
<1>4. ASSUME NEW c \in Callers, SpawnTask(c) \/ SpawnFails(c)
      PROVE  status'[r] = status[r] /\ counts'[r] = counts[r]
  BY <1>4 DEF SpawnTask, SpawnFails
<1>5. ASSUME NEW q \in RunIds, TaskStep(q)
      PROVE  status'[r] = status[r] /\ counts'[r] = counts[r]
  <2>1. q # r
    BY <1>1, <1>5 DEF TaskStep, Begin, Record, PipelineReturns, PipelineRaises, CountRows,
       CompleteRun, FinishFails, FailRun, FailRunFails
  <2>2. \/ status' = status
        \/ \E o \in Statuses : status' = [status EXCEPT ![q] = o]
    BY <1>5 DEF TaskStep, Begin, Record, PipelineReturns, PipelineRaises, CountRows,
       CompleteRun, FinishFails, FailRun, FailRunFails, Statuses
  <2>3. counts' = counts \/ counts' = [counts EXCEPT ![q] = Tally(q)]
    BY <1>5 DEF TaskStep, Begin, Record, PipelineReturns, PipelineRaises, CountRows,
       CompleteRun, FinishFails, FailRun, FailRunFails
  <2> QED
    BY <1>2, <2>1, <2>2, <2>3 DEF TypeOK
<1>6. ASSUME Crash \/ (\E k \in Kinds : CliRecords(k)) \/ UNCHANGED vars
      PROVE  status'[r] = status[r] /\ counts'[r] = counts[r]
  BY <1>6 DEF Crash, CliRecords, vars
<1>7. ASSUME Startup PROVE status'[r] = status[r] /\ counts'[r] = counts[r]
  BY <1>7 DEF Startup, SweptStatus
<1> QED
  BY <1>3, <1>4, <1>5, <1>6, <1>7 DEF Next, StartStep

(* No late update, crash or sweep rewrites a finished run.                   *)
THEOREM FinishedIsFinalHolds == Spec => FinishedIsFinal
<1>1. ASSUME FlightInv, [Next]_vars
      PROVE  [\A r \in RunIds : status[r] \in {"completed", "failed"} =>
                status'[r] = status[r] /\ counts'[r] = counts[r]]_vars
  BY <1>1, FinalStep
<1> QED
  BY <1>1, FlightIsInvariant, PTL DEF Spec, FinishedIsFinal

------------------------------------------------------------------------------
(* Every step of the runner is a step of the ledger or leaves it alone.      *)
LEMMA LedgerStep == ASSUME FlightInv, [Next]_vars PROVE [Ledger!Next]_status
<1> USE DEF FlightInv, Rows, server, table, Ledger!Next, Ledger!RunIds, Ledger!Outcomes
<1>1. RunIds = Ledger!RunIds /\ TypeOK
  BY DEF RunIds
<1>2. ASSUME NEW c \in Callers, CreateRun(c) PROVE Ledger!Next
  <2>1. lastId + 1 \in Ledger!RunIds /\ lastId \in Nat
    BY <1>1, <1>2, Bounds DEF CreateRun, TypeOK
  <2>2. \A s \in Ledger!RunIds : s < lastId + 1 <=> status[s] # "absent"
    BY <1>1, <2>1, Bounds DEF FreshIds
  <2>3. Ledger!Open(lastId + 1)
    BY <1>1, <1>2, <2>1, <2>2 DEF Ledger!Open, CreateRun
  <2> QED
    BY <2>1, <2>3
<1>3. ASSUME NEW r \in RunIds, CompleteRun(r) \/ FailRun(r) PROVE Ledger!Next
  <2>1. status[r] = "running"
    BY <1>3 DEF CompleteRun, FailRun, SingleFlight, Live
  <2>2. Ledger!Close(r, "completed") \/ Ledger!Close(r, "failed")
    BY <1>3, <2>1 DEF CompleteRun, FailRun, Ledger!Close
  <2> QED
    BY <1>1, <2>2
<1>4. ASSUME Startup PROVE Ledger!Next \/ UNCHANGED status
  <2>1. CASE \E r \in RunIds : status[r] = "running"
    <3>1. PICK r \in RunIds : status[r] = "running"
      BY <2>1
    <3>2. \A s \in RunIds : s # r => status[s] # "running"
      BY <3>1 DEF OneRunning
    <3>3. status' = [status EXCEPT ![r] = "failed"]
      BY <1>1, <1>4, <3>1, <3>2 DEF Startup, SweptStatus, TypeOK
    <3> QED
      BY <1>1, <3>1, <3>3 DEF Ledger!Close
  <2>2. CASE \A r \in RunIds : status[r] # "running"
    BY <1>1, <1>4, <2>2 DEF Startup, SweptStatus, TypeOK
  <2> QED
    BY <2>1, <2>2
<1>5. ASSUME \/ \E c \in Callers : SpawnTask(c) \/ SpawnFails(c)
             \/ Crash \/ (\E k \in Kinds : CliRecords(k)) \/ UNCHANGED vars
      PROVE  UNCHANGED status
  BY <1>5 DEF SpawnTask, SpawnFails, Crash, CliRecords, vars
<1>6. ASSUME NEW r \in RunIds, TaskStep(r), ~CompleteRun(r), ~FailRun(r)
      PROVE  UNCHANGED status
  BY <1>6 DEF TaskStep, Begin, Record, PipelineReturns, PipelineRaises, CountRows,
     FinishFails, FailRunFails
<1> QED
  BY <1>2, <1>3, <1>4, <1>5, <1>6 DEF Next, StartStep

(* The runs table keeps the ledger's promises: ids in order, one open run,   *)
(* outcomes for good.                                                        *)
THEOREM RunsImplementLedger == Spec => ImplementsLedger
<1>1. Init => Ledger!Init
  BY DEF Init, Ledger!Init, RunIds, Ledger!RunIds
<1>2. FlightInv /\ [Next]_vars => [Ledger!Next]_status
  BY LedgerStep
<1> QED
  BY <1>1, <1>2, FlightIsInvariant, PTL DEF Spec, ImplementsLedger, Ledger!Spec

------------------------------------------------------------------------------
(* Why the counters are right although nothing in a row of applications      *)
(* names its run: a run that has not begun has no rows, and while one is     *)
(* counting from since[r] on, only it and the command line can write.        *)
Unbegun(r) ==
  status[r] = "absent" \/ task[r] = "scheduled" \/ \E c \in Callers : starting[c] = r
NoEarlyRows == \A r \in RunIds : Unbegun(r) => \A i \in DOMAIN log : log[i].by # r
RecentOnly ==
  \A r \in RunIds : task[r] \in {"pipeline", "counting", "completing"} =>
    \A i \in DOMAIN log : /\ log[i].by = r => i > since[r]
                          /\ i > since[r] => log[i].by \in {r, Cli}
Counted(r) ==
  \A k \in Kinds : /\ counts[r][k] >= Cardinality(Own(r, k))
                   /\ NoForeignRows => counts[r][k] = Cardinality(Own(r, k))
CountedRuns ==
  \A r \in RunIds : task[r] = "completing" \/ status[r] = "completed" => Counted(r)
SinceBound == \A r \in RunIds : since[r] <= Len(log)
CountInv == SinceBound /\ NoEarlyRows /\ RecentOnly /\ CountedRuns

(* An appended row belongs to its writer: the rows of every other run stay.  *)
LEMMA OwnKept ==
  ASSUME TypeOK, NEW w \in 0 .. MaxRuns, NEW q \in Kinds,
         log' = Append(log, [by |-> w, kind |-> q]), NEW r \in RunIds, r # w
  PROVE  /\ \A k \in Kinds : Own(r, k)' = Own(r, k)
         /\ NoForeignRows' => NoForeignRows
<1>1. /\ Len(log) \in Nat /\ DOMAIN log = 1 .. Len(log)
      /\ DOMAIN log' = 1 .. Len(log) + 1
      /\ log'[Len(log) + 1] = [by |-> w, kind |-> q]
      /\ \A i \in 1 .. Len(log) : log'[i] = log[i]
  BY DEF TypeOK
<1>2. \A i \in DOMAIN log' : log'[i].by = r => i \in DOMAIN log
  BY <1>1
<1> QED
  BY <1>1, <1>2 DEF Own, NoForeignRows

(* The filter of _execute_run picks every row of the run, and no other row   *)
(* unless the command line wrote one.                                        *)
LEMMA TallyCounts ==
  ASSUME TypeOK, RecentOnly, NEW r \in RunIds, task[r] = "counting", NEW k \in Kinds
  PROVE  /\ Tally(r)[k] >= Cardinality(Own(r, k))
         /\ NoForeignRows => Tally(r)[k] = Cardinality(Own(r, k))
<1>1. Own(r, k) \subseteq Recent(r, k)
  BY DEF RecentOnly, Own, Recent
<1>2. NoForeignRows => Recent(r, k) = Own(r, k)
  BY DEF RecentOnly, Own, Recent, NoForeignRows
<1>3. /\ Cardinality(Own(r, k)) <= Cardinality(Recent(r, k))
      /\ Cardinality(Own(r, k)) \in Nat /\ Cardinality(Recent(r, k)) \in Nat
  BY <1>1, CountsAreNat, FS_Subset
<1> QED
  BY <1>2, <1>3 DEF Tally

LEMMA CountStep == ASSUME FlightInv, CountInv, [Next]_vars PROVE CountInv'
<1> USE DEF CountInv, SinceBound, NoEarlyRows, RecentOnly, CountedRuns, server, table
<1>t. TypeOK /\ Rows
  BY DEF FlightInv
<1>own. \A r \in RunIds : Live(r) => status[r] = "running"
  BY <1>t DEF Rows, SingleFlight
<1>log. ASSUME UNCHANGED log
        PROVE  /\ \A r \in RunIds, k \in Kinds : Own(r, k)' = Own(r, k)
               /\ NoForeignRows' <=> NoForeignRows
  BY <1>log DEF Own, NoForeignRows
<1>1. ASSUME NEW c \in Callers, CreateRun(c) PROVE CountInv'
  <2>1. lastId + 1 \in RunIds /\ status[lastId + 1] = "absent"
    BY <1>t, <1>1, Bounds DEF CreateRun, RunIds, TypeOK, Rows, FreshIds
  <2>2. \A r \in RunIds : Unbegun(r)' => Unbegun(r)
    BY <1>t, <1>1, <2>1 DEF CreateRun, Unbegun, TypeOK
  <2>3. \A r \in RunIds : status'[r] = "completed" => status[r] = "completed"
    BY <1>t, <1>1, <2>1 DEF CreateRun, TypeOK
  <2> QED
    BY <1>1, <1>log, <2>2, <2>3 DEF CreateRun, Counted
<1>2. ASSUME NEW c \in Callers, SpawnTask(c) PROVE CountInv'
  <2>1. starting[c] \in RunIds
    BY <1>t, <1>2, Bounds DEF SpawnTask, RunIds, TypeOK
  <2>2. ASSUME NEW r \in RunIds, Unbegun(r)' PROVE Unbegun(r)
    <3>1. CASE r = starting[c]
      BY <3>1 DEF Unbegun
    <3>2. CASE r # starting[c]
      <4>1. task'[r] = task[r] /\ status' = status
        BY <1>t, <1>2, <2>1, <3>2 DEF SpawnTask, TypeOK
      <4>2. \A d \in Callers : starting'[d] = r => starting[d] = r
        BY <1>t, <1>2, Bounds DEF SpawnTask, RunIds, TypeOK
      <4> QED
        BY <2>2, <4>1, <4>2 DEF Unbegun
    <3> QED
      BY <3>1, <3>2
  <2>3. \A r \in RunIds : task'[r] = task[r] \/ task'[r] = "scheduled"
    BY <1>t, <1>2, <2>1 DEF SpawnTask, TypeOK
  <2> QED
    BY <1>2, <1>log, <2>2, <2>3 DEF SpawnTask, Counted
<1>3. ASSUME NEW c \in Callers, SpawnFails(c) PROVE CountInv'
  <2>1. \A r \in RunIds : Unbegun(r)' => Unbegun(r)
    BY <1>t, <1>3, Bounds DEF SpawnFails, Unbegun, TypeOK, RunIds
  <2> QED
    BY <1>3, <1>log, <2>1 DEF SpawnFails, Counted
<1>4. ASSUME NEW r \in RunIds, Begin(r) PROVE CountInv'
  <2>1. \A q \in RunIds : Unbegun(q)' => Unbegun(q)
    BY <1>t, <1>4 DEF Begin, Unbegun, TypeOK
  <2>2. \A i \in DOMAIN log : log[i].by # r /\ ~(i > Len(log))
    <3>1. DOMAIN log = 1 .. Len(log) /\ Len(log) \in Nat
      BY <1>t DEF TypeOK
    <3> QED
      BY <1>4, <3>1 DEF Begin, Unbegun
  <2>3. /\ since'[r] = Len(log) /\ task'[r] = "pipeline"
        /\ \A q \in RunIds : q # r => since'[q] = since[q] /\ task'[q] = task[q]
        /\ Len(log) \in Nat
    BY <1>t, <1>4 DEF Begin, TypeOK
  <2>4. UNCHANGED <<log, status, counts>>
    BY <1>4 DEF Begin
  <2>5. RecentOnly'
    BY <2>2, <2>3, <2>4
  <2> QED
    BY <1>log, <2>1, <2>3, <2>4, <2>5 DEF Counted
<1>5. ASSUME NEW r \in RunIds, NEW k \in Kinds, Record(r, k) PROVE CountInv'
  <2>1. \A q \in RunIds : Live(q) => q = r
    BY <1>t, <1>5 DEF Record, Rows, SingleFlight, Live
  <2>2. status[r] = "running" /\ task[r] = "pipeline" /\ \A c \in Callers : starting[c] # r
    BY <1>t, <1>5, Bounds DEF Record, Rows, SingleFlight, Live, RunIds
  <2>3. r \in 0 .. MaxRuns /\ log' = Append(log, [by |-> r, kind |-> k])
    BY <1>5, Bounds DEF Record, RunIds
  <2>4. /\ Len(log) \in Nat /\ DOMAIN log = 1 .. Len(log)
        /\ DOMAIN log' = 1 .. Len(log) + 1 /\ log'[Len(log) + 1].by = r
        /\ \A i \in 1 .. Len(log) : log'[i] = log[i]
    BY <1>t, <2>3 DEF TypeOK
  <2>5. UNCHANGED <<status, task, starting, since, counts>>
    BY <1>5 DEF Record
  <2>6. NoEarlyRows'
    BY <2>2, <2>4, <2>5 DEF Unbegun
  <2>7. RecentOnly'
    <3>1. \A q \in RunIds : task[q] # "none" => q = r
      BY <2>1 DEF Live
    <3>2. since[r] \in Nat
      BY <1>t DEF TypeOK
    <3>3. \A i \in DOMAIN log' : /\ log'[i].by = r => i > since[r] \/ i = Len(log) + 1
                                 /\ i > since[r] => log'[i].by \in {r, Cli}
      BY <2>2, <2>4
    <3>4. Len(log) + 1 > since[r]
      BY <2>4, <3>2
    <3> QED
      BY <2>5, <3>1, <3>3, <3>4
  <2>8. SinceBound'
    BY <1>t, <2>3, <2>5 DEF TypeOK
  <2>9. ASSUME NEW q \in RunIds, (task[q] = "completing" \/ status[q] = "completed")'
        PROVE  Counted(q)'
    <3>1. q # r /\ Counted(q)
      BY <2>2, <2>5, <2>9
    <3> QED
      BY <1>t, <2>3, <2>5, <3>1, OwnKept DEF Counted
  <2> QED
    BY <2>6, <2>7, <2>8, <2>9
<1>6. ASSUME NEW r \in RunIds, PipelineReturns(r) \/ PipelineRaises(r) PROVE CountInv'
  <2>1. \A q \in RunIds : Unbegun(q)' => Unbegun(q)
    BY <1>t, <1>6 DEF PipelineReturns, PipelineRaises, Unbegun, TypeOK
  <2>2. \A q \in RunIds : /\ task'[q] = "completing" => task[q] = "completing"
                          /\ task'[q] = "counting" => task[q] \in {"pipeline", "counting"}
                          /\ task'[q] = "pipeline" => task[q] = "pipeline"
    BY <1>t, <1>6 DEF PipelineReturns, PipelineRaises, TypeOK
  <2> QED
    BY <1>6, <1>log, <2>1, <2>2 DEF PipelineReturns, PipelineRaises, Counted
<1>7. ASSUME NEW r \in RunIds, CountRows(r) PROVE CountInv'
  <2>1. \A q \in RunIds : Unbegun(q)' => Unbegun(q)
    BY <1>t, <1>7 DEF CountRows, Unbegun, TypeOK
  <2>2. /\ counts'[r] = Tally(r) /\ task[r] = "counting"
        /\ \A q \in RunIds : q # r => counts'[q] = counts[q] /\ task'[q] = task[q]
    BY <1>t, <1>7 DEF CountRows, TypeOK
  <2>3. Counted(r)'
    BY <1>t, <1>7, <1>log, <2>2, TallyCounts DEF CountRows, Counted
  <2>4. \A q \in RunIds : q # r => (Counted(q) => Counted(q)')
    BY <1>7, <1>log, <2>2 DEF CountRows, Counted
  <2>5. RecentOnly'
    BY <1>7, <2>2 DEF CountRows
  <2> QED
    BY <1>7, <2>1, <2>2, <2>3, <2>4, <2>5 DEF CountRows
<1>8. ASSUME NEW r \in RunIds,
             CompleteRun(r) \/ FinishFails(r) \/ FailRun(r) \/ FailRunFails(r)
      PROVE  CountInv'
  <2>1. \A q \in RunIds : Unbegun(q)' => Unbegun(q)
    BY <1>t, <1>8
       DEF CompleteRun, FinishFails, FailRun, FailRunFails, Unbegun, TypeOK
  <2>2. \A q \in RunIds : task'[q] \in {"pipeline", "counting", "completing"} =>
                            task'[q] = task[q]
    BY <1>t, <1>8 DEF CompleteRun, FinishFails, FailRun, FailRunFails, TypeOK
  <2>3. \A q \in RunIds : status'[q] = "completed" =>
                            status[q] = "completed" \/ task[q] = "completing"
    BY <1>t, <1>8 DEF CompleteRun, FinishFails, FailRun, FailRunFails, TypeOK
  <2>4. UNCHANGED <<log, since, counts>>
    BY <1>8 DEF CompleteRun, FinishFails, FailRun, FailRunFails
  <2> QED
    BY <1>log, <2>1, <2>2, <2>3, <2>4 DEF Counted
<1>9. ASSUME Crash PROVE CountInv'
  <2>1. \A q \in RunIds : (Unbegun(q)' => Unbegun(q)) /\ task'[q] = "none"
    BY <1>t, <1>9, Bounds DEF Crash, Unbegun, RunIds
  <2> QED
    BY <1>9, <1>log, <2>1 DEF Crash, Counted
<1>10. ASSUME Startup PROVE CountInv'
  <2>1. \A q \in RunIds : /\ Unbegun(q)' => Unbegun(q)
                          /\ status'[q] = "completed" => status[q] = "completed"
    BY <1>t, <1>10 DEF Startup, SweptStatus, Unbegun
  <2> QED
    BY <1>10, <1>log, <2>1 DEF Startup, Counted
<1>11. ASSUME NEW k \in Kinds, CliRecords(k) PROVE CountInv'
  <2>1. Cli \in 0 .. MaxRuns /\ Cli \notin RunIds
    BY Bounds DEF Cli, RunIds
  <2>2. log' = Append(log, [by |-> Cli, kind |-> k])
    BY <1>11 DEF CliRecords
  <2>3. /\ Len(log) \in Nat /\ DOMAIN log = 1 .. Len(log)
        /\ DOMAIN log' = 1 .. Len(log) + 1 /\ log'[Len(log) + 1].by = Cli
        /\ \A i \in 1 .. Len(log) : log'[i] = log[i]
    BY <1>t, <2>2 DEF TypeOK
  <2>4. UNCHANGED <<status, task, starting, since, counts>>
    BY <1>11 DEF CliRecords
  <2>5. NoEarlyRows' /\ RecentOnly'
    BY <2>1, <2>3, <2>4 DEF Unbegun
  <2>6. \A q \in RunIds : Counted(q) => Counted(q)'
    BY <1>t, <2>1, <2>2, <2>4, OwnKept DEF Counted
  <2>7. SinceBound'
    BY <1>t, <2>2, <2>4 DEF TypeOK
  <2> QED
    BY <2>4, <2>5, <2>6, <2>7
<1>12. ASSUME UNCHANGED vars PROVE CountInv'
  BY <1>12, <1>log DEF vars, Unbegun, Counted
<1> QED
  BY <1>1, <1>2, <1>3, <1>4, <1>5, <1>6, <1>7, <1>8, <1>9, <1>10, <1>11, <1>12
     DEF Next, StartStep, TaskStep

(* A completed run reports its own rows, all of them, and no others unless   *)
(* the command line wrote to the table.                                      *)
THEOREM CountersAreOwnHolds == Spec => []CountersAreOwn
<1>1. Init => CountInv
  BY DEF Init, CountInv, SinceBound, NoEarlyRows, RecentOnly, CountedRuns
<1>2. FlightInv /\ CountInv /\ [Next]_vars => CountInv'
  BY CountStep
<1>3. CountInv => CountersAreOwn
  BY DEF CountInv, CountedRuns, Counted, CountersAreOwn
<1> QED
  BY <1>1, <1>2, <1>3, FlightIsInvariant, PTL DEF Spec

------------------------------------------------------------------------------
(* A step takes the owner of a running row away only by finishing the row,   *)
(* by raising, or with the whole process, which the next start sweeps.       *)
LEMMA OwnedStep ==
  ASSUME FlightInv, OwnedUnlessFaulty, [Next]_vars, up', faults' = 0
  PROVE  \A r \in RunIds : status'[r] = "running" => Live(r)'
<1> USE DEF server, table
<1>t. TypeOK
  BY DEF FlightInv
<1>f. ASSUME up, faults = 0 PROVE \A r \in RunIds : status[r] = "running" => Live(r)
  BY <1>f DEF OwnedUnlessFaulty
<1>g. ASSUME faults' = faults + 1 PROVE FALSE
  BY <1>t, <1>g, Bounds DEF TypeOK
<1> DEFINE Goal == \A r \in RunIds : status'[r] = "running" => Live(r)'
<1>1. ASSUME NEW c \in Callers, CreateRun(c) PROVE Goal
  <2>1. starting'[c] = lastId + 1
    BY <1>t, <1>1 DEF CreateRun, TypeOK
  <2>2. \A r \in RunIds : status'[r] = "running" => r = lastId + 1
    BY <1>t, <1>1 DEF CreateRun, TypeOK
  <2> QED
    BY <2>1, <2>2 DEF Live
<1>2. ASSUME NEW c \in Callers, SpawnTask(c) PROVE Goal
  <2>1. starting[c] \in RunIds
    BY <1>t, <1>2, Bounds DEF SpawnTask, RunIds, TypeOK
  <2>2. ASSUME NEW r \in RunIds, Live(r) PROVE Live(r)'
    <3>1. task'[starting[c]] = "scheduled"
      BY <1>t, <1>2, <2>1 DEF SpawnTask, TypeOK
    <3>2. r # starting[c] => task'[r] = task[r]
      BY <1>t, <1>2, <2>1 DEF SpawnTask, TypeOK
    <3>3. \A d \in Callers : starting[d] = r => d = c \/ starting'[d] = r
      BY <1>t, <1>2 DEF SpawnTask, TypeOK
    <3> QED
      BY <2>2, <3>1, <3>2, <3>3 DEF Live
  <2> QED
    BY <1>2, <1>f, <2>2, Bounds DEF SpawnTask
<1>3. ASSUME NEW c \in Callers, SpawnFails(c) PROVE Goal
  BY <1>3, <1>g DEF SpawnFails
<1>4. ASSUME NEW r \in RunIds,
             Begin(r) \/ PipelineReturns(r) \/ PipelineRaises(r) \/ CountRows(r)
      PROVE  Goal
  <2>1. \A q \in RunIds : task[q] # "none" => task'[q] # "none"
    BY <1>t, <1>4 DEF Begin, PipelineReturns, PipelineRaises, CountRows, TypeOK
  <2>2. UNCHANGED <<up, status, starting, faults>>
    BY <1>4 DEF Begin, PipelineReturns, PipelineRaises, CountRows
  <2> QED
    BY <1>f, <2>1, <2>2 DEF Live
<1>5. ASSUME NEW r \in RunIds, CompleteRun(r) \/ FailRun(r) PROVE Goal
  <2>1. status'[r] # "running"
    BY <1>t, <1>5 DEF CompleteRun, FailRun, TypeOK
  <2>2. \A q \in RunIds : q # r => task'[q] = task[q] /\ status'[q] = status[q]
    BY <1>t, <1>5 DEF CompleteRun, FailRun, TypeOK
  <2>3. UNCHANGED <<up, starting, faults>>
    BY <1>5 DEF CompleteRun, FailRun
  <2> QED
    BY <1>f, <2>1, <2>2, <2>3 DEF Live
<1>6. ASSUME NEW r \in RunIds, FinishFails(r) \/ FailRunFails(r) PROVE Goal
  BY <1>6, <1>g DEF FinishFails, FailRunFails
<1>7. ASSUME Crash PROVE Goal
  BY <1>7 DEF Crash
<1>8. ASSUME Startup PROVE Goal
  BY <1>8 DEF Startup, SweptStatus
<1>9. ASSUME \/ \E k \in Kinds : CliRecords(k)
             \/ \E r \in RunIds, k \in Kinds : Record(r, k)
             \/ UNCHANGED vars
      PROVE  Goal
  <2>1. UNCHANGED <<up, status, task, starting, faults>>
    BY <1>9 DEF CliRecords, Record, vars
  <2> QED
    BY <1>f, <2>1 DEF Live
<1> QED
  BY <1>1, <1>2, <1>3, <1>4, <1>5, <1>6, <1>7, <1>8, <1>9 DEF Next, StartStep, TaskStep

(* In a live server whose database calls have not raised, a row that says    *)
(* running is being worked on, so a POST refused with 409 waits for          *)
(* something that is really there.                                           *)
THEOREM OwnedUnlessFaultyHolds == Spec => []OwnedUnlessFaulty
<1>1. Init => OwnedUnlessFaulty
  BY DEF Init, OwnedUnlessFaulty
<1>2. FlightInv /\ OwnedUnlessFaulty /\ [Next]_vars => OwnedUnlessFaulty'
  BY OwnedStep DEF OwnedUnlessFaulty
<1> QED
  BY <1>1, <1>2, FlightIsInvariant, PTL DEF Spec
==============================================================================
