------------------------------ MODULE RunLedger ------------------------------
(***************************************************************************)
(* What the runs table promises its readers (the Run button, the progress  *)
(* poll, the dashboard): run ids are handed out in order and never reused, *)
(* a run is opened only while no other one is open, and a run that was     *)
(* closed keeps the outcome it was closed with.                            *)
(***************************************************************************)
EXTENDS Integers

CONSTANT MaxRuns            \* how many runs the table may ever hold

RunIds == 1 .. MaxRuns
Outcomes == {"completed", "failed"}

VARIABLE status             \* status[r]: the status column of row r, or "absent"

Init == status = [r \in RunIds |-> "absent"]

Open(r) ==
  /\ \A s \in RunIds : s < r <=> status[s] # "absent"
  /\ \A s \in RunIds : status[s] # "running"
  /\ status' = [status EXCEPT ![r] = "running"]

Close(r, outcome) ==
  /\ status[r] = "running"
  /\ status' = [status EXCEPT ![r] = outcome]

Next == \E r \in RunIds : Open(r) \/ \E outcome \in Outcomes : Close(r, outcome)

Spec == Init /\ [][Next]_status
==============================================================================
