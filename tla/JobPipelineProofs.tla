-------------------------- MODULE JobPipelineProofs --------------------------
(***************************************************************************)
(* Proofs about module JobPipeline, for any processes, boards, dedup keys, *)
(* caps, times and numbers of aborted runs.                                *)
(***************************************************************************)
EXTENDS JobPipeline, FiniteSetTheorems, TLAPS

(* The part of the type invariant the safety proof needs.                    *)
Typed ==
  /\ seen \subseteq Keys
  /\ site \in Seq(Submission)
  /\ stage \in [Pipes -> Stages]
  /\ todo \in [Pipes -> SUBSET Postings]
  /\ fresh \in [Pipes -> SUBSET Postings]
  /\ passing \in [Pipes -> SUBSET Postings]
  /\ cur \in [Pipes -> Postings]
  /\ clock \in Nat /\ overlapped \in BOOLEAN

(* A posting a run has marked and may still submit.                          *)
Held(p) == fresh[p] \cup passing[p] \cup (IF stage[p] = "filling" THEN {cur[p]} ELSE {})

(* A run carries only keys it has itself seen, and each of them once: the    *)
(* same key is never in two of its lists, nor twice in one.                  *)
HeldSeen == \A p \in Pipes : \A x \in Held(p) : KeyOf[x] \in seen
HeldOnce ==
  \A p \in Pipes :
    /\ \A x, y \in Held(p) : SameKey(x, y) => x = y
    /\ fresh[p] \cap passing[p] = {}
    /\ stage[p] = "filling" => cur[p] \notin fresh[p] \cup passing[p]
    /\ stage[p] = "marking" => \A x \in Held(p) : ~SameKey(x, cur[p])

(* What a process has sent it neither holds nor is about to mark; and unless *)
(* processes overlapped, that goes for whatever anybody sent.                *)
SentSeen == \A i \in DOMAIN site : KeyOf[site[i].posting] \in seen
HeldUnsent ==
  \A p \in Pipes, i \in DOMAIN site : site[i].by = p \/ ~overlapped =>
    /\ \A x \in Held(p) : ~SameKey(x, site[i].posting)
    /\ stage[p] = "marking" => ~SameKey(cur[p], site[i].posting)

(* Without overlap at most one process has a run, and an ended run holds     *)
(* nothing.                                                                  *)
OneActive ==
  ~overlapped => \A p, q \in Pipes : stage[p] # "idle" /\ stage[q] # "idle" => p = q
IdleHoldsNothing ==
  \A p \in Pipes :
    /\ stage[p] = "idle" => fresh[p] = {} /\ passing[p] = {}
    /\ stage[p] \in {"applying", "filling", "submitted"} => fresh[p] = {}

Inv == /\ Typed /\ HeldSeen /\ HeldOnce /\ SentSeen /\ HeldUnsent
       /\ OneActive /\ IdleHoldsNothing /\ NoDoubleSubmission

LEMMA InitInv == ASSUME Init PROVE Inv
<1> USE DEF Init
<1>1. Typed
  <2>1. (CHOOSE x \in Postings : TRUE) \in Postings
    BY Bounds
  <2>2. overlapped \in BOOLEAN
    OBVIOUS
  <2>3. clock \in Nat /\ site \in Seq(Submission)
    OBVIOUS
  <2> QED
    BY <2>1, <2>2, <2>3 DEF Typed, Stages
<1> QED
  BY <1>1 DEF Inv, HeldSeen, HeldOnce, SentSeen, HeldUnsent, OneActive,
     IdleHoldsNothing, NoDoubleSubmission, Held

LEMMA StepInv == ASSUME Inv, [Next]_vars PROVE Inv'
<1> USE DEF Inv, Typed, HeldSeen, HeldOnce, SentSeen, HeldUnsent, OneActive,
            IdleHoldsNothing, NoDoubleSubmission, Held, SameKey, Stages, history
<1>k. \A x \in Postings : KeyOf[x] \in Keys
  BY DEF Keys
<1>1. ASSUME NEW p \in Pipes, NEW found \in SUBSET Postings, Poll(p, found) PROVE Inv'
  <2>1. /\ fresh[p] = {} /\ passing[p] = {}
        /\ stage' = [stage EXCEPT ![p] = "checking"]
        /\ UNCHANGED <<seen, site, fresh, passing, cur>>
    BY <1>1 DEF Poll
  <2>2. Typed'
    BY <1>1, <2>1 DEF Poll
  <2>3. overlapped => overlapped'
    BY <1>1 DEF Poll
  <2>4. HeldSeen' /\ HeldOnce' /\ SentSeen' /\ IdleHoldsNothing'
    BY <2>1
  <2>5. HeldUnsent' /\ NoDoubleSubmission'
    BY <2>1, <2>3
  <2>6. OneActive'
    <3>1. ASSUME ~overlapped' PROVE ~overlapped /\ \A q \in Pipes : q # p => stage[q] = "idle"
      BY <1>1, <3>1 DEF Poll
    <3>2. ASSUME ~overlapped', NEW q \in Pipes, NEW r \in Pipes,
                 stage'[q] # "idle", stage'[r] # "idle"
          PROVE  q = r
      BY <2>1, <3>1, <3>2
    <3> QED
      BY <3>2
  <2> QED
    BY <2>2, <2>4, <2>5, <2>6
<1>2. ASSUME NEW p \in Pipes, NEW x \in Postings, SkipSeen(p, x) PROVE Inv'
  BY <1>2 DEF SkipSeen
<1>3. ASSUME NEW p \in Pipes, NEW x \in Postings, FindNew(p, x) PROVE Inv'
  BY <1>3 DEF FindNew
<1>4. ASSUME NEW p \in Pipes, MarkSeen(p) PROVE Inv'
  BY <1>4, <1>k DEF MarkSeen
<1>5. ASSUME NEW p \in Pipes, StartScreening(p) \/ StartApplying(p) \/ Finish(p) PROVE Inv'
  BY <1>5 DEF StartScreening, StartApplying, Finish
<1>6. ASSUME NEW p \in Pipes, NEW x \in Postings, NEW verdict \in Screenings,
             Screen(p, x, verdict)
      PROVE  Inv'
  BY <1>6 DEF Screen
<1>7. ASSUME NEW p \in Pipes, NEW x \in Postings, RefuseApply(p, x) PROVE Inv'
  BY <1>7 DEF RefuseApply
<1>8. ASSUME NEW p \in Pipes, NEW x \in Postings, StartApply(p, x) PROVE Inv'
  BY <1>8 DEF StartApply
<1>9. ASSUME NEW p \in Pipes, Submit(p) PROVE Inv'
  <2> DEFINE sent == [posting |-> cur[p], at |-> clock, by |-> p]
  <2>1. /\ stage[p] = "filling" /\ cur[p] \in Held(p)
        /\ stage' = [stage EXCEPT ![p] = "submitted"]
        /\ site' = Append(site, sent)
        /\ UNCHANGED <<seen, todo, fresh, passing, cur, clock, overlapped>>
    BY <1>9 DEF Submit
  <2>2. sent \in Submission
    BY DEF Submission
  <2>3. Typed'
    BY <2>1, <2>2
  <2>4. /\ Len(site') = Len(site) + 1 /\ site'[Len(site) + 1] = sent
        /\ \A i \in DOMAIN site : site'[i] = site[i]
        /\ DOMAIN site' = DOMAIN site \cup {Len(site) + 1}
    BY <2>1, <2>2
  <2>5. HeldSeen' /\ HeldOnce' /\ OneActive' /\ IdleHoldsNothing'
    BY <2>1
  <2>6. SentSeen'
    BY <2>1, <2>4
  <2>7. HeldUnsent'
    BY <2>1, <2>4
  <2>8. NoDoubleSubmission'
    BY <2>1, <2>4
  <2> QED
    BY <2>3, <2>5, <2>6, <2>7, <2>8
<1>10. ASSUME NEW p \in Pipes, NEW status \in Applications, RecordOutcome(p, status)
       PROVE  Inv'
  BY <1>10 DEF RecordOutcome
<1>11. ASSUME NEW p \in Pipes, Abort(p) PROVE Inv'
  BY <1>11 DEF Abort
<1>12. ASSUME Tick \/ UNCHANGED vars PROVE Inv'
  BY <1>12 DEF Tick, vars
<1> HIDE DEF Inv, Typed, HeldSeen, HeldOnce, SentSeen, HeldUnsent, OneActive,
             IdleHoldsNothing, NoDoubleSubmission, Held, SameKey, Stages, history
<1>13. ASSUME NEW p \in Pipes, Discover(p) PROVE Inv'
  BY <1>2, <1>3, <1>4, <1>5, <1>13 DEF Discover
<1>14. ASSUME NEW p \in Pipes, ScreenStep(p) PROVE Inv'
  BY <1>5, <1>6, <1>14 DEF ScreenStep
<1>15. ASSUME NEW p \in Pipes, ApplyStep(p) PROVE Inv'
  BY <1>5, <1>7, <1>8, <1>9, <1>10, <1>15 DEF ApplyStep, Applications
<1> QED
  BY <1>1, <1>11, <1>12, <1>13, <1>14, <1>15 DEF Next

(* Nobody is applied to twice, through any sequence of crashes and runs,     *)
(* unless two processes run pipelines at the same time; and even then no     *)
(* process does it twice.                                                    *)
THEOREM NoDoubleSubmissionHolds == Spec => []NoDoubleSubmission
<1>1. Inv => NoDoubleSubmission
  BY DEF Inv
<1> QED
  BY <1>1, InitInv, StepInv, PTL DEF Spec

------------------------------------------------------------------------------
(* The rows of applications.                                                 *)

RowOf(i, p, x) == apps[i].by = p /\ apps[i].posting = x

(* A posting a process recorded as passing, and never as rejected.           *)
Passed(p, x) ==
  /\ \E i \in DOMAIN apps : RowOf(i, p, x) /\ apps[i].status = "screened_pass"
  /\ \A i \in DOMAIN apps : RowOf(i, p, x) => apps[i].status # "screened_reject"

(* What may still be screened, or marked and then screened, has no row yet;  *)
(* what may still be submitted, and what was, passed.                        *)
RowsSeen ==
  /\ \A i \in DOMAIN apps : KeyOf[apps[i].posting] \in seen
  /\ \A p \in Pipes : stage[p] = "submitted" => KeyOf[cur[p]] \in seen
FreshHasNoRow ==
  \A p \in Pipes, i \in DOMAIN apps :
    /\ \A x \in fresh[p] : ~RowOf(i, p, x)
    /\ stage[p] = "marking" => ~RowOf(i, p, cur[p])
HeldPassed ==
  \A p \in Pipes : /\ \A x \in passing[p] : Passed(p, x)
                   /\ stage[p] = "filling" => Passed(p, cur[p])
SentPassed == \A i \in DOMAIN site : Passed(site[i].by, site[i].posting)

RowInv ==
  TypeOK /\ RowsSeen /\ FreshHasNoRow /\ HeldPassed /\ SentPassed /\ NothingDropped

LEMMA InitRows == ASSUME Init PROVE RowInv
<1> USE DEF Init
<1>1. TypeOK
  <2>1. (CHOOSE x \in Postings : TRUE) \in Postings
    BY Bounds
  <2>2. overlapped \in BOOLEAN
    OBVIOUS
  <2>3. apps \in Seq(Row) /\ site \in Seq(Submission) /\ clock \in 0 .. MaxClock
        /\ aborts \in 0 .. MaxAborts
    BY Bounds
  <2> QED
    BY <2>1, <2>2, <2>3 DEF TypeOK, Stages
<1> QED
  BY <1>1 DEF RowInv, RowsSeen, FreshHasNoRow, HeldPassed, SentPassed, NothingDropped

(* A step that records nothing.                                              *)
LEMMA SameRows ==
  ASSUME UNCHANGED apps
  PROVE  /\ \A p, x : Passed(p, x)' <=> Passed(p, x)
         /\ \A i, p, x : RowOf(i, p, x)' <=> RowOf(i, p, x)
         /\ \A k, S : HasRow(k, S)' <=> HasRow(k, S)
BY DEF Passed, RowOf, HasRow

(* A step that records one row.                                              *)
LEMMA OneRow ==
  ASSUME TypeOK, NEW p \in Pipes, NEW x \in Postings, NEW status \in Screenings \cup Applications,
         Recorded(p, x, status)
  PROVE  /\ apps' \in Seq(Row) /\ DOMAIN apps' = DOMAIN apps \cup {Len(apps) + 1}
         /\ Len(apps) + 1 \notin DOMAIN apps
         /\ \A i \in DOMAIN apps : apps'[i] = apps[i]
         /\ apps'[Len(apps) + 1].posting = x /\ apps'[Len(apps) + 1].status = status
         /\ apps'[Len(apps) + 1].by = p /\ apps'[Len(apps) + 1].at = clock
<1> DEFINE row == [posting |-> x, status |-> status, at |-> clock, by |-> p]
<1>1. row \in Row
  BY Bounds DEF Row, TypeOK
<1>2. apps \in Seq(Row) /\ apps' = Append(apps, row)
  BY DEF TypeOK, Recorded
<1>3. apps' \in Seq(Row) /\ Len(apps') = Len(apps) + 1 /\ apps'[Len(apps) + 1] = row
      /\ \A i \in DOMAIN apps : apps'[i] = apps[i]
  BY <1>1, <1>2
<1>4. DOMAIN apps' = DOMAIN apps \cup {Len(apps) + 1} /\ Len(apps) + 1 \notin DOMAIN apps
  BY <1>2, <1>3
<1> QED
  BY <1>3, <1>4

LEMMA RowsGrow ==
  ASSUME TypeOK, NEW p \in Pipes, NEW x \in Postings, NEW status \in Screenings \cup Applications,
         Recorded(p, x, status)
  PROVE  /\ \A q, y : Passed(q, y) /\ (q # p \/ y # x \/ status # "screened_reject") => Passed(q, y)'
         /\ \A k, S : HasRow(k, S) => HasRow(k, S)'
         /\ status \in Screenings => HasRow(KeyOf[x], Screenings)'
<1>1. /\ DOMAIN apps' = DOMAIN apps \cup {Len(apps) + 1}
      /\ \A i \in DOMAIN apps : apps'[i] = apps[i]
      /\ apps'[Len(apps) + 1].posting = x /\ apps'[Len(apps) + 1].status = status
      /\ apps'[Len(apps) + 1].by = p
  BY OneRow
<1> QED
  BY <1>1 DEF Passed, RowOf, HasRow

(* The rows of a step that records one, for what it is not about.            *)
LEMMA RecordedInv ==
  ASSUME Inv, RowInv, NEW p \in Pipes, NEW x \in Postings,
         NEW status \in Screenings \cup Applications, Recorded(p, x, status),
         UNCHANGED <<seen, site>>, KeyOf[x] \in seen,
         \A q \in Pipes : fresh'[q] \subseteq fresh[q],
         x \notin fresh'[p], stage'[p] # "marking",
         \A q \in Pipes : stage'[q] = "marking" => stage[q] = "marking" /\ cur'[q] = cur[q],
         \A q \in Pipes : stage'[q] = "submitted" => stage[q] = "submitted" /\ cur'[q] = cur[q],
         status = "screened_reject" => x \in fresh[p]
  PROVE  /\ RowsSeen' /\ FreshHasNoRow' /\ SentPassed'
         /\ \A q, y : Passed(q, y) => Passed(q, y)'
<1>1. /\ DOMAIN apps' = DOMAIN apps \cup {Len(apps) + 1}
      /\ \A i \in DOMAIN apps : apps'[i] = apps[i]
      /\ apps'[Len(apps) + 1].posting = x /\ apps'[Len(apps) + 1].status = status
      /\ apps'[Len(apps) + 1].by = p
  BY OneRow DEF RowInv
<1>2. \A q, y : Passed(q, y) => Passed(q, y)'
  <2>1. status = "screened_reject" => ~Passed(p, x)
    BY DEF RowInv, FreshHasNoRow, Passed
  <2> QED
    BY <2>1, RowsGrow DEF RowInv
<1>3. RowsSeen'
  BY <1>1 DEF RowInv, RowsSeen
<1>4. FreshHasNoRow'
  BY <1>1 DEF RowInv, FreshHasNoRow, RowOf
<1>5. SentPassed'
  BY <1>2 DEF RowInv, SentPassed
<1> QED
  BY <1>2, <1>3, <1>4, <1>5

LEMMA RowTypes == ASSUME TypeOK, [Next]_vars PROVE TypeOK'
<1> USE DEF TypeOK, Stages, history
<1>1. ASSUME NEW p \in Pipes, NEW x \in Postings, NEW status \in Screenings \cup Applications,
             Recorded(p, x, status)
      PROVE  apps' \in Seq(Row)
  BY <1>1, OneRow
<1>2. ASSUME NEW p \in Pipes, Submit(p) PROVE TypeOK'
  <2>1. [posting |-> cur[p], at |-> clock, by |-> p] \in Submission
    BY Bounds DEF Submission
  <2> QED
    BY <1>2, <2>1 DEF Submit
<1>3. ASSUME NEW p \in Pipes, NEW x \in Postings, NEW verdict \in Screenings, Screen(p, x, verdict)
      PROVE  TypeOK'
  <2>1. apps' \in Seq(Row)
    BY <1>1, <1>3 DEF Screen
  <2> QED
    BY <1>3, <2>1 DEF Screen
<1>4. ASSUME NEW p \in Pipes, NEW x \in Postings, RefuseApply(p, x) PROVE TypeOK'
  <2>1. apps' \in Seq(Row)
    BY <1>1, <1>4 DEF RefuseApply, Applications
  <2> QED
    BY <1>4, <2>1 DEF RefuseApply
<1>5. ASSUME NEW p \in Pipes, NEW status \in {"applied", "apply_failed"}, RecordOutcome(p, status)
      PROVE  TypeOK'
  <2>1. apps' \in Seq(Row)
    BY <1>1, <1>5 DEF RecordOutcome, Applications
  <2> QED
    BY <1>5, <2>1 DEF RecordOutcome
<1>6. ASSUME NEW p \in Pipes, MarkSeen(p) PROVE TypeOK'
  BY <1>6 DEF MarkSeen, Keys
<1>7. ASSUME NEW p \in Pipes, NEW found \in SUBSET Postings, Poll(p, found) PROVE TypeOK'
  <2>1. overlapped' \in BOOLEAN
    BY <1>7 DEF Poll
  <2> QED
    BY <1>7, <2>1 DEF Poll
<1>8. ASSUME NEW p \in Pipes, NEW x \in Postings, SkipSeen(p, x) \/ FindNew(p, x) \/ StartApply(p, x)
      PROVE  TypeOK'
  BY <1>8 DEF SkipSeen, FindNew, StartApply
<1>9. ASSUME NEW p \in Pipes, StartScreening(p) \/ StartApplying(p) \/ Finish(p) PROVE TypeOK'
  BY <1>9 DEF StartScreening, StartApplying, Finish
<1>10. ASSUME NEW p \in Pipes, Abort(p) PROVE TypeOK'
  <2>1. aborts' \in 0 .. MaxAborts
    BY <1>10, Bounds DEF Abort
  <2> QED
    BY <1>10, <2>1 DEF Abort
<1>11. ASSUME Tick \/ UNCHANGED vars PROVE TypeOK'
  BY <1>11, Bounds DEF Tick, vars
<1> QED
  BY <1>2, <1>3, <1>4, <1>5, <1>6, <1>7, <1>8, <1>9, <1>10, <1>11
     DEF Next, Discover, ScreenStep, ApplyStep

(* What NothingDropped says of one key and of one row.                       *)
KeyAccounted(k) == HasRow(k, Screenings) \/ \E p \in Pipes : \E x \in fresh[p] : KeyOf[x] = k
InHand(p, x) == x \in passing[p] \/ (stage[p] \in {"filling", "submitted"} /\ cur[p] = x)
HasOutcome(p, x) == \E j \in DOMAIN apps : RowOf(j, p, x) /\ apps[j].status \in Applications
AllAccounted ==
  /\ \A k \in seen : KeyAccounted(k)
  /\ \A i \in DOMAIN apps : apps[i].status = "screened_pass" =>
       InHand(apps[i].by, apps[i].posting) \/ HasOutcome(apps[i].by, apps[i].posting)

LEMMA Accounting == NothingDropped <=> (aborts = 0 => AllAccounted)
BY DEF NothingDropped, AllAccounted, KeyAccounted, InHand, HasOutcome, RowOf

LEMMA RowStep ==
  ASSUME Inv, RowInv, [Next]_vars
  PROVE  RowInv'
<1>t. TypeOK'
  BY RowTypes DEF RowInv
<1>y. /\ stage \in [Pipes -> Stages] /\ cur \in [Pipes -> Postings]
      /\ fresh \in [Pipes -> SUBSET Postings] /\ passing \in [Pipes -> SUBSET Postings]
      /\ TypeOK
  BY DEF RowInv, TypeOK
<1>n. aborts = 0 => AllAccounted
  BY Accounting DEF RowInv
<1>w. \A i \in DOMAIN apps : apps[i].by \in Pipes /\ apps[i].posting \in Postings
  <2>1. \A i \in DOMAIN apps : apps[i] \in Row
    BY DEF RowInv, TypeOK
  <2> QED
    BY <2>1 DEF Row
<1>1. ASSUME NEW p \in Pipes,
             \/ \E found \in SUBSET Postings : Poll(p, found)
             \/ \E x \in Postings : SkipSeen(p, x)
             \/ StartScreening(p) \/ StartApplying(p) \/ Finish(p)
      PROVE  RowInv'
  <2>1. /\ UNCHANGED <<seen, apps, site, fresh, passing, cur, aborts>>
        /\ \A q \in Pipes : stage'[q] = stage[q]
             \/ (stage[q] \notin {"filling", "submitted"}
                 /\ stage'[q] \notin {"marking", "filling", "submitted"})
    BY <1>1, <1>y DEF Poll, SkipSeen, StartScreening, StartApplying, Finish, history
  <2>2. RowsSeen' /\ FreshHasNoRow' /\ HeldPassed' /\ SentPassed'
    BY <2>1, SameRows DEF RowInv, RowsSeen, FreshHasNoRow, HeldPassed, SentPassed
  <2>3. aborts' = 0 => AllAccounted'
    BY <1>n, <1>w, <2>1, SameRows DEF AllAccounted, KeyAccounted, InHand, HasOutcome, RowOf
  <2> QED
    BY <1>t, <2>2, <2>3, Accounting DEF RowInv, NothingDropped, AllAccounted, KeyAccounted,
       InHand, HasOutcome, RowOf
<1>2. ASSUME NEW p \in Pipes, NEW x \in Postings, FindNew(p, x) PROVE RowInv'
  <2>1. /\ UNCHANGED <<seen, apps, site, fresh, passing, aborts>> /\ KeyOf[x] \notin seen
        /\ stage[p] = "checking" /\ stage'[p] = "marking" /\ cur'[p] = x
        /\ \A q \in Pipes : q # p => stage'[q] = stage[q] /\ cur'[q] = cur[q]
    BY <1>2, <1>y DEF FindNew, history
  <2>2. RowsSeen' /\ HeldPassed' /\ SentPassed'
    BY <2>1, SameRows DEF RowInv, RowsSeen, HeldPassed, SentPassed
  <2>3. FreshHasNoRow'
    BY <2>1 DEF RowInv, RowsSeen, FreshHasNoRow, RowOf
  <2>4. aborts' = 0 => AllAccounted'
    BY <1>n, <1>w, <2>1 DEF AllAccounted, KeyAccounted, HasRow, InHand, HasOutcome, RowOf
  <2> QED
    BY <1>t, <2>2, <2>3, <2>4 DEF RowInv, NothingDropped, AllAccounted, KeyAccounted,
       InHand, HasOutcome, RowOf
<1>3. ASSUME NEW p \in Pipes, MarkSeen(p) PROVE RowInv'
  <2>1. /\ UNCHANGED <<apps, site, passing, cur, aborts>> /\ seen' = seen \cup {KeyOf[cur[p]]}
        /\ stage[p] = "marking" /\ stage'[p] = "checking" /\ fresh'[p] = fresh[p] \cup {cur[p]}
        /\ \A q \in Pipes : q # p => stage'[q] = stage[q] /\ fresh'[q] = fresh[q]
    BY <1>3, <1>y DEF MarkSeen, history
  <2>2. RowsSeen' /\ HeldPassed' /\ SentPassed'
    BY <2>1, SameRows DEF RowInv, RowsSeen, HeldPassed, SentPassed
  <2>3. FreshHasNoRow'
    BY <2>1 DEF RowInv, FreshHasNoRow, RowOf
  <2>4. aborts' = 0 => AllAccounted'
    BY <1>n, <1>w, <2>1 DEF AllAccounted, KeyAccounted, HasRow, InHand, HasOutcome, RowOf
  <2> QED
    BY <1>t, <2>2, <2>3, <2>4 DEF RowInv, NothingDropped, AllAccounted, KeyAccounted,
       InHand, HasOutcome, RowOf
<1>4. ASSUME NEW p \in Pipes, NEW x \in Postings, NEW verdict \in Screenings, Screen(p, x, verdict)
      PROVE  RowInv'
  <2>1. /\ Recorded(p, x, verdict) /\ x \in fresh[p] /\ stage[p] = "screening"
        /\ UNCHANGED <<seen, site, stage, cur, aborts>>
        /\ fresh'[p] = fresh[p] \ {x} /\ passing'[p] \subseteq passing[p] \cup {x}
        /\ passing[p] \subseteq passing'[p]
        /\ x \in passing'[p] \ passing[p] => verdict = "screened_pass"
        /\ verdict = "screened_pass" => x \in passing'[p]
        /\ \A q \in Pipes : q # p => fresh'[q] = fresh[q] /\ passing'[q] = passing[q]
    BY <1>4, <1>y DEF Screen, history
  <2>2. KeyOf[x] \in seen
    BY <2>1 DEF Inv, HeldSeen, Held
  <2>3. /\ RowsSeen' /\ FreshHasNoRow' /\ SentPassed'
        /\ \A q, y : Passed(q, y) => Passed(q, y)'
    <3>1. \A q \in Pipes : fresh'[q] \subseteq fresh[q]
      BY <2>1
    <3> QED
      BY <2>1, <2>2, <3>1, RecordedInv
  <2>4. /\ DOMAIN apps' = DOMAIN apps \cup {Len(apps) + 1}
        /\ \A i \in DOMAIN apps : apps'[i] = apps[i]
        /\ apps'[Len(apps) + 1].posting = x /\ apps'[Len(apps) + 1].status = verdict
        /\ apps'[Len(apps) + 1].by = p
    BY <1>y, <2>1, OneRow
  <2>5. verdict = "screened_pass" => Passed(p, x)'
    BY <2>1, <2>4 DEF RowInv, FreshHasNoRow, Passed, RowOf
  <2>6. HeldPassed'
    BY <2>1, <2>3, <2>5 DEF RowInv, HeldPassed
  <2>7. \A k \in seen : KeyAccounted(k) => KeyAccounted(k)'
    <3>1. HasRow(KeyOf[x], Screenings)' /\ \A k : HasRow(k, Screenings) => HasRow(k, Screenings)'
      BY <1>y, <2>1, RowsGrow
    <3> QED
      BY <2>1, <3>1 DEF KeyAccounted
  <2>8. aborts' = 0 => AllAccounted'
    BY <1>n, <1>w, <2>1, <2>4, <2>7 DEF AllAccounted, InHand, HasOutcome, RowOf
  <2> QED
    BY <1>t, <2>3, <2>6, <2>8 DEF RowInv, NothingDropped, AllAccounted, KeyAccounted,
       InHand, HasOutcome, RowOf
<1>5. ASSUME NEW p \in Pipes, NEW x \in Postings, RefuseApply(p, x) PROVE RowInv'
  <2>1. /\ Recorded(p, x, "rate_limited") /\ x \in passing[p] /\ stage[p] = "applying"
        /\ UNCHANGED <<seen, site, stage, fresh, cur, aborts>>
        /\ passing'[p] = passing[p] \ {x} /\ \A q \in Pipes : q # p => passing'[q] = passing[q]
    BY <1>5, <1>y DEF RefuseApply, history
  <2>2. KeyOf[x] \in seen /\ x \notin fresh[p]
    BY <2>1 DEF Inv, HeldSeen, HeldOnce, Held
  <2>3. /\ RowsSeen' /\ FreshHasNoRow' /\ SentPassed'
        /\ \A q, y : Passed(q, y) => Passed(q, y)'
    BY <2>1, <2>2, RecordedInv DEF Applications
  <2>4. /\ DOMAIN apps' = DOMAIN apps \cup {Len(apps) + 1}
        /\ \A i \in DOMAIN apps : apps'[i] = apps[i]
        /\ apps'[Len(apps) + 1].posting = x /\ apps'[Len(apps) + 1].status = "rate_limited"
        /\ apps'[Len(apps) + 1].by = p
    BY <1>y, <2>1, OneRow DEF Applications
  <2>5. HeldPassed'
    BY <2>1, <2>3 DEF RowInv, HeldPassed
  <2>6. \A k : HasRow(k, Screenings) => HasRow(k, Screenings)'
    BY <2>4 DEF HasRow
  <2>7. aborts' = 0 => AllAccounted'
    BY <1>n, <1>w, <2>1, <2>4, <2>6 DEF AllAccounted, KeyAccounted, InHand, HasOutcome, RowOf, Applications
  <2> QED
    BY <1>t, <2>3, <2>5, <2>7 DEF RowInv, NothingDropped, AllAccounted, KeyAccounted,
       InHand, HasOutcome, RowOf
<1>6. ASSUME NEW p \in Pipes, NEW x \in Postings, StartApply(p, x) PROVE RowInv'
  <2>1. /\ x \in passing[p] /\ stage[p] = "applying" /\ stage'[p] = "filling" /\ cur'[p] = x
        /\ UNCHANGED <<seen, apps, site, fresh, aborts>> /\ passing'[p] = passing[p] \ {x}
        /\ \A q \in Pipes : q # p => /\ passing'[q] = passing[q] /\ stage'[q] = stage[q]
                                     /\ cur'[q] = cur[q]
    BY <1>6, <1>y DEF StartApply, history
  <2>2. RowsSeen' /\ FreshHasNoRow' /\ SentPassed' /\ HeldPassed'
    BY <2>1, SameRows DEF RowInv, RowsSeen, FreshHasNoRow, HeldPassed, SentPassed, RowOf
  <2>3. aborts' = 0 => AllAccounted'
    BY <1>n, <1>w, <2>1 DEF AllAccounted, KeyAccounted, HasRow, InHand, HasOutcome, RowOf
  <2> QED
    BY <1>t, <2>2, <2>3 DEF RowInv, NothingDropped, AllAccounted, KeyAccounted,
       InHand, HasOutcome, RowOf
<1>7. ASSUME NEW p \in Pipes, Submit(p) PROVE RowInv'
  <2> DEFINE sent == [posting |-> cur[p], at |-> clock, by |-> p]
  <2>1. /\ stage[p] = "filling" /\ stage'[p] = "submitted" /\ site' = Append(site, sent)
        /\ UNCHANGED <<seen, apps, fresh, passing, cur, aborts>>
        /\ \A q \in Pipes : q # p => stage'[q] = stage[q]
    BY <1>7, <1>y DEF Submit, history
  <2>2. /\ site'[Len(site) + 1] = sent /\ \A i \in DOMAIN site : site'[i] = site[i]
        /\ DOMAIN site' = DOMAIN site \cup {Len(site) + 1}
    <3>1. site \in Seq(Submission) /\ sent \in Submission
      BY <1>y, Bounds DEF TypeOK, Submission
    <3> QED
      BY <2>1, <3>1
  <2>3. SentPassed'
    BY <2>1, <2>2, SameRows DEF RowInv, SentPassed, HeldPassed
  <2>4. KeyOf[cur[p]] \in seen
    BY <2>1 DEF Inv, HeldSeen, Held
  <2>5. RowsSeen' /\ FreshHasNoRow' /\ HeldPassed'
    BY <2>1, <2>4, SameRows DEF RowInv, RowsSeen, FreshHasNoRow, HeldPassed, RowOf
  <2>6. aborts' = 0 => AllAccounted'
    BY <1>n, <1>w, <2>1 DEF AllAccounted, KeyAccounted, HasRow, InHand, HasOutcome, RowOf
  <2> QED
    BY <1>t, <2>3, <2>5, <2>6 DEF RowInv, NothingDropped, AllAccounted, KeyAccounted,
       InHand, HasOutcome, RowOf
<1>8. ASSUME NEW p \in Pipes, NEW status \in {"applied", "apply_failed"}, RecordOutcome(p, status)
      PROVE  RowInv'
  <2>1. /\ Recorded(p, cur[p], status) /\ stage[p] \in {"filling", "submitted"}
        /\ UNCHANGED <<seen, site, fresh, passing, cur, aborts>> /\ stage'[p] = "applying"
        /\ \A q \in Pipes : q # p => stage'[q] = stage[q]
    BY <1>8, <1>y DEF RecordOutcome, history
  <2>2. KeyOf[cur[p]] \in seen /\ cur[p] \notin fresh[p] /\ cur[p] \in Postings
    BY <1>y, <2>1 DEF Inv, HeldSeen, Held, IdleHoldsNothing, RowInv, RowsSeen
  <2>3. /\ RowsSeen' /\ FreshHasNoRow' /\ SentPassed'
        /\ \A q, y : Passed(q, y) => Passed(q, y)'
    BY <2>1, <2>2, RecordedInv DEF Applications
  <2>4. /\ DOMAIN apps' = DOMAIN apps \cup {Len(apps) + 1}
        /\ \A i \in DOMAIN apps : apps'[i] = apps[i]
        /\ apps'[Len(apps) + 1].posting = cur[p] /\ apps'[Len(apps) + 1].status = status
        /\ apps'[Len(apps) + 1].by = p
    BY <1>y, <2>1, <2>2, OneRow DEF Applications
  <2>5. HeldPassed'
    BY <2>1, <2>3 DEF RowInv, HeldPassed
  <2>6. \A k : HasRow(k, Screenings) => HasRow(k, Screenings)'
    BY <2>4 DEF HasRow
  <2>7. aborts' = 0 => AllAccounted'
    BY <1>n, <1>w, <2>1, <2>4, <2>6 DEF AllAccounted, KeyAccounted, InHand, HasOutcome, RowOf, Applications
  <2> QED
    BY <1>t, <2>3, <2>5, <2>7 DEF RowInv, NothingDropped, AllAccounted, KeyAccounted,
       InHand, HasOutcome, RowOf
<1>9. ASSUME NEW p \in Pipes, Abort(p) PROVE RowInv'
  <2>1. /\ UNCHANGED <<seen, apps, site, cur>> /\ aborts' # 0
        /\ stage'[p] = "idle" /\ fresh'[p] = {} /\ passing'[p] = {}
        /\ \A q \in Pipes : q # p => /\ stage'[q] = stage[q] /\ fresh'[q] = fresh[q]
                                     /\ passing'[q] = passing[q]
    BY <1>9, <1>y, Bounds DEF Abort, TypeOK
  <2>2. RowsSeen' /\ FreshHasNoRow' /\ SentPassed' /\ HeldPassed'
    BY <2>1, SameRows DEF RowInv, RowsSeen, FreshHasNoRow, HeldPassed, SentPassed, RowOf
  <2> QED
    BY <1>t, <2>1, <2>2 DEF RowInv, NothingDropped
<1>10. ASSUME Tick \/ UNCHANGED vars PROVE RowInv'
  <2>1. UNCHANGED <<seen, apps, site, stage, fresh, passing, cur, aborts>>
    BY <1>10 DEF Tick, vars, history
  <2>2. RowsSeen' /\ FreshHasNoRow' /\ SentPassed' /\ HeldPassed'
    BY <2>1, SameRows DEF RowInv, RowsSeen, FreshHasNoRow, HeldPassed, SentPassed, RowOf
  <2> QED
    BY <1>t, <2>1, <2>2 DEF RowInv, NothingDropped, HasRow
<1> QED
  BY <1>1, <1>2, <1>3, <1>4, <1>5, <1>6, <1>7, <1>8, <1>9, <1>10
     DEF Next, Discover, ScreenStep, ApplyStep

THEOREM RowsAreInvariant == Spec => []RowInv
<1>1. Init => Inv /\ RowInv
  BY InitInv, InitRows
<1>2. Inv /\ RowInv /\ [Next]_vars => Inv' /\ RowInv'
  BY StepInv, RowStep
<1> QED
  BY <1>1, <1>2, PTL DEF Spec

(* A form is only submitted by a process that recorded the posting as        *)
(* passing, and never recorded it as rejected.                               *)
THEOREM SubmittedOnlyIfPassedHolds == Spec => []SubmittedOnlyIfPassed
<1>1. RowInv => SubmittedOnlyIfPassed
  BY DEF RowInv, SentPassed, SubmittedOnlyIfPassed, Passed, RowOf, Screenings
<1> QED
  BY <1>1, RowsAreInvariant, PTL

(* Until a run is cut short every key marked seen is screened or about to    *)
(* be, and every posting that passed has an outcome or is about to.          *)
THEOREM NothingDroppedHolds == Spec => []NothingDropped
<1>1. RowInv => NothingDropped
  BY DEF RowInv
<1> QED
  BY <1>1, RowsAreInvariant, PTL

------------------------------------------------------------------------------
(* The rate limit.                                                           *)

Applied(j, x) == apps[j].status = "applied" /\ apps[j].posting = x

Timed ==
  /\ \A j \in DOMAIN apps : apps[j].at <= clock
  /\ \A i \in DOMAIN site : site[i].at <= clock

(* What a run still holds has no outcome yet, and what is submitted is at    *)
(* the site.                                                                 *)
HeldUnapplied ==
  \A p \in Pipes, j \in DOMAIN apps :
    apps[j].status \in Applications /\ (apps[j].by = p \/ ~overlapped) =>
      /\ \A x \in Held(p) : ~SameKey(x, apps[j].posting)
      /\ stage[p] = "marking" => ~SameKey(cur[p], apps[j].posting)
SubmittedIsSent ==
  \A p \in Pipes : stage[p] = "submitted" =>
    \E i \in DOMAIN site : site[i].by = p /\ site[i].posting = cur[p]

(* The row that accounts for a form is written after it was sent.            *)
RowAfterForm ==
  ~overlapped => \A i \in DOMAIN site, j \in DOMAIN apps :
    Applied(j, site[i].posting) => site[i].at <= apps[j].at

(* The limit that was checked still allows one more when the form is sent    *)
(* and when it is recorded.                                                  *)
BelowCap ==
  ~overlapped => \A p \in Pipes : stage[p] \in {"filling", "submitted"} =>
    Cardinality(RecentApplied(DomainOf[cur[p]])) < RateCap[DomainOf[cur[p]]]

(* The forms a row accounts for, or will.                                    *)
Counted(i) ==
  \/ \E j \in DOMAIN apps : Applied(j, site[i].posting)
  \/ \E p \in Pipes : stage[p] = "submitted" /\ cur[p] = site[i].posting
CountedInHour(d, t) ==
  {i \in DOMAIN site : DomainOf[site[i].posting] = d /\ site[i].at \in (t - Hour) .. t /\ Counted(i)}
FormsCap ==
  ~overlapped => \A d \in Domains, t \in 0 .. clock : Cardinality(CountedInHour(d, t)) <= RateCap[d]

RateInv ==
  Timed /\ HeldUnapplied /\ SubmittedIsSent /\ RowAfterForm /\ BelowCap /\ RecordedRateCap /\ FormsCap

LEMMA InitRate == ASSUME Init PROVE RateInv
<1> USE DEF Init
<1>1. Timed /\ HeldUnapplied /\ SubmittedIsSent /\ RowAfterForm /\ BelowCap
  BY DEF Timed, HeldUnapplied, SubmittedIsSent, RowAfterForm, BelowCap
<1>2. \A d, t : RowsInHour(d, t) = {} /\ CountedInHour(d, t) = {}
  BY DEF RowsInHour, CountedInHour
<1>3. \A d \in Domains : 0 <= RateCap[d]
  BY Bounds
<1>4. RecordedRateCap /\ FormsCap
  BY <1>2, <1>3, FS_EmptySet DEF RecordedRateCap, FormsCap
<1> QED
  BY <1>1, <1>4 DEF RateInv

LEMMA Fewer ==
  ASSUME NEW n \in Nat, NEW T, T \subseteq 1 .. n, NEW S, S \subseteq T
  PROVE  /\ IsFiniteSet(S) /\ IsFiniteSet(T) /\ Cardinality(S) \in Nat /\ Cardinality(T) \in Nat
         /\ Cardinality(S) <= Cardinality(T)
<1>1. IsFiniteSet(1 .. n)
  BY FS_Interval
<1>2. IsFiniteSet(T)
  BY <1>1, FS_Subset
<1> QED
  BY <1>2, FS_Subset, FS_CardinalityType

LEMMA OneMoreElement ==
  ASSUME NEW n \in Nat, NEW T, T \subseteq 1 .. n, NEW m, NEW S, S \subseteq T \cup {m}, NEW cap \in Nat,
         Cardinality(T) < cap
  PROVE  Cardinality(S) <= cap
<1>1. IsFiniteSet(T) /\ Cardinality(T) \in Nat
  BY Fewer
<1>2. IsFiniteSet(T \cup {m}) /\ Cardinality(T \cup {m}) <= Cardinality(T) + 1
                              /\ Cardinality(T \cup {m}) \in Nat
  <2>1. IsFiniteSet(T \cup {m}) /\ (m \notin T => Cardinality(T \cup {m}) = Cardinality(T) + 1)
    BY <1>1, FS_AddElement
  <2>2. CASE m \in T
    <3>1. T \cup {m} = T
      BY <2>2
    <3> QED
      BY <1>1, <3>1
  <2>3. CASE m \notin T
    BY <1>1, <2>1, <2>3
  <2> QED
    BY <2>2, <2>3
<1>3. Cardinality(S) <= Cardinality(T \cup {m}) /\ Cardinality(S) \in Nat
  BY <1>2, FS_Subset, FS_CardinalityType
<1> QED
  BY <1>1, <1>2, <1>3

(* What a step that records a row does to it, and what else it may do.       *)
LEMMA Recording ==
  ASSUME Inv, RowInv, RateInv, [Next]_vars, apps' # apps
  PROVE  \E p \in Pipes, x \in Postings, status \in Screenings \cup Applications :
           /\ Recorded(p, x, status) /\ UNCHANGED <<site, clock, overlapped, cur>>
           /\ \/ status \in Screenings /\ UNCHANGED stage /\ x \in fresh[p]
                 /\ \A q \in Pipes : Held(q)' \subseteq Held(q)
              \/ status = "rate_limited" /\ UNCHANGED stage /\ x \in passing[p]
                 /\ stage[p] = "applying"
                 /\ \A q \in Pipes : Held(q)' \subseteq Held(q) /\ (q = p => x \notin Held(q)')
              \/ status \in {"applied", "apply_failed"} /\ x = cur[p]
                 /\ stage[p] \in {"filling", "submitted"} /\ stage'[p] = "applying"
                 /\ (\A q \in Pipes : q # p => stage'[q] = stage[q])
                 /\ \A q \in Pipes : Held(q)' \subseteq Held(q) /\ (q = p => x \notin Held(q)')
<1>y. /\ stage \in [Pipes -> Stages] /\ cur \in [Pipes -> Postings]
      /\ fresh \in [Pipes -> SUBSET Postings] /\ passing \in [Pipes -> SUBSET Postings]
  BY DEF RowInv, TypeOK
<1>1. ASSUME NEW p \in Pipes, NEW x \in Postings, NEW verdict \in Screenings, Screen(p, x, verdict)
      PROVE  /\ Recorded(p, x, verdict) /\ UNCHANGED <<site, clock, overlapped, cur, stage>>
             /\ x \in fresh[p] /\ \A q \in Pipes : Held(q)' \subseteq Held(q)
  BY <1>1, <1>y DEF Screen, history, Held
<1>2. ASSUME NEW p \in Pipes, NEW x \in Postings, RefuseApply(p, x)
      PROVE  /\ Recorded(p, x, "rate_limited") /\ UNCHANGED <<site, clock, overlapped, cur, stage>>
             /\ x \in passing[p] /\ stage[p] = "applying"
             /\ \A q \in Pipes : Held(q)' \subseteq Held(q) /\ (q = p => x \notin Held(q)')
  BY <1>2, <1>y DEF RefuseApply, history, Held, Inv, HeldOnce
<1>3. ASSUME NEW p \in Pipes, NEW status \in {"applied", "apply_failed"}, RecordOutcome(p, status)
      PROVE  /\ Recorded(p, cur[p], status) /\ UNCHANGED <<site, clock, overlapped, cur>>
             /\ stage[p] \in {"filling", "submitted"} /\ stage'[p] = "applying"
             /\ \A q \in Pipes : q # p => stage'[q] = stage[q]
             /\ \A q \in Pipes : Held(q)' \subseteq Held(q) /\ (q = p => cur[p] \notin Held(q)')
  <2>1. /\ Recorded(p, cur[p], status) /\ UNCHANGED <<site, clock, overlapped, cur, fresh, passing>>
        /\ stage[p] \in {"filling", "submitted"} /\ stage'[p] = "applying"
        /\ \A q \in Pipes : q # p => stage'[q] = stage[q]
    BY <1>3, <1>y DEF RecordOutcome, history
  <2>2. cur[p] \notin fresh[p] \cup passing[p]
    <3>1. CASE stage[p] = "filling"
      BY <3>1 DEF Inv, HeldOnce
    <3>2. CASE stage[p] = "submitted"
      BY <3>2 DEF RateInv, SubmittedIsSent, Inv, HeldUnsent, Held, SameKey
    <3> QED
      BY <2>1, <3>1, <3>2
  <2> QED
    BY <2>1, <2>2 DEF Held
<1>4. \/ \E p \in Pipes, x \in Postings, verdict \in Screenings : Screen(p, x, verdict)
      \/ \E p \in Pipes, x \in Postings : RefuseApply(p, x)
      \/ \E p \in Pipes, status \in {"applied", "apply_failed"} : RecordOutcome(p, status)
  BY DEF Next, Discover, ScreenStep, ApplyStep, Poll, SkipSeen, FindNew, MarkSeen, StartScreening,
     StartApplying, StartApply, Submit, Finish, Abort, Tick, vars
<1>5. CASE \E p \in Pipes, x \in Postings, verdict \in Screenings : Screen(p, x, verdict)
  BY <1>1, <1>5
<1>6. CASE \E p \in Pipes, x \in Postings : RefuseApply(p, x)
  <2>1. PICK p \in Pipes, x \in Postings : RefuseApply(p, x)
    BY <1>6
  <2>2. "rate_limited" \in Screenings \cup Applications
    BY DEF Applications
  <2> QED
    BY <1>2, <2>1, <2>2
<1>7. CASE \E p \in Pipes, status \in {"applied", "apply_failed"} : RecordOutcome(p, status)
  <2>1. PICK p \in Pipes, status \in {"applied", "apply_failed"} : RecordOutcome(p, status)
    BY <1>7
  <2>2. status \in Screenings \cup Applications /\ cur[p] \in Postings
    BY <1>y DEF Applications
  <2> QED
    BY <1>3, <2>1, <2>2
<1> QED
  BY <1>4, <1>5, <1>6, <1>7

LEMMA RecordingRate ==
  ASSUME Inv, RowInv, RateInv, [Next]_vars, apps' # apps
  PROVE  RateInv'
<1> USE DEF RateInv
<1>1. PICK p \in Pipes, x \in Postings, status \in Screenings \cup Applications :
        /\ Recorded(p, x, status) /\ UNCHANGED <<site, clock, overlapped, cur>>
        /\ \/ status \in Screenings /\ UNCHANGED stage /\ x \in fresh[p]
              /\ \A q \in Pipes : Held(q)' \subseteq Held(q)
           \/ status = "rate_limited" /\ UNCHANGED stage /\ x \in passing[p]
              /\ stage[p] = "applying"
              /\ \A q \in Pipes : Held(q)' \subseteq Held(q) /\ (q = p => x \notin Held(q)')
           \/ status \in {"applied", "apply_failed"} /\ x = cur[p]
              /\ stage[p] \in {"filling", "submitted"} /\ stage'[p] = "applying"
              /\ (\A q \in Pipes : q # p => stage'[q] = stage[q])
              /\ \A q \in Pipes : Held(q)' \subseteq Held(q) /\ (q = p => x \notin Held(q)')
  BY Recording
<1>2. /\ apps' \in Seq(Row) /\ DOMAIN apps' = DOMAIN apps \cup {Len(apps) + 1}
      /\ Len(apps) + 1 \notin DOMAIN apps
      /\ \A i \in DOMAIN apps : apps'[i] = apps[i]
      /\ apps'[Len(apps) + 1].posting = x /\ apps'[Len(apps) + 1].status = status
      /\ apps'[Len(apps) + 1].by = p /\ apps'[Len(apps) + 1].at = clock
  BY <1>1, OneRow DEF RowInv
<1>3. stage \in [Pipes -> Stages] /\ cur \in [Pipes -> Postings] /\ clock \in Nat
      /\ apps \in Seq(Row) /\ site \in Seq(Submission)
  BY Bounds DEF RowInv, TypeOK
<1>4. stage[p] \notin {"idle"} /\ (~overlapped => \A q \in Pipes : q # p => stage[q] = "idle")
  <2>1. stage[p] # "idle"
    BY <1>1 DEF Inv, IdleHoldsNothing
  <2> QED
    BY <2>1 DEF Inv, OneActive
<1>5. Timed'
  BY <1>1, <1>2, <1>3 DEF Timed
<1>6. SubmittedIsSent'
  BY <1>1, <1>4 DEF SubmittedIsSent
<1>7. RowAfterForm'
  BY <1>1, <1>2 DEF RowAfterForm, Timed, Applied
<1>8. HeldUnapplied'
  <2> SUFFICES ASSUME NEW q \in Pipes, NEW j \in DOMAIN apps', apps'[j].status \in Applications,
                      apps'[j].by = q \/ ~overlapped'
               PROVE  /\ \A y \in Held(q)' : ~SameKey(y, apps'[j].posting)
                      /\ stage'[q] = "marking" => ~SameKey(cur'[q], apps'[j].posting)
    BY DEF HeldUnapplied
  <2>0. stage'[q] = "marking" => stage[q] = "marking"
    BY <1>1
  <2>1. CASE j \in DOMAIN apps
    BY <1>1, <1>2, <2>0, <2>1 DEF HeldUnapplied
  <2>2. CASE j = Len(apps) + 1 /\ q = p
    <3>1. status \in Applications /\ stage'[p] = "applying"
      BY <1>1, <1>2, <2>2 DEF Screenings, Applications
    <3>2. CASE stage[p] = "submitted"
      <4>1. \A y \in Held(p) : ~SameKey(y, x)
        BY <1>1, <3>1, <3>2 DEF SubmittedIsSent, Inv, HeldUnsent, Screenings, Applications
      <4> QED
        BY <1>1, <1>2, <2>2, <3>1, <4>1 DEF Screenings, Applications
    <3>3. CASE stage[p] # "submitted"
      <4>1. x \in Held(p) /\ x \notin Held(p)' /\ Held(p)' \subseteq Held(p)
        BY <1>1, <3>1, <3>3 DEF Held, Screenings, Applications
      <4>2. \A y \in Held(p) : SameKey(y, x) => y = x
        BY <4>1 DEF Inv, HeldOnce
      <4> QED
        BY <1>2, <2>2, <3>1, <4>1, <4>2
    <3> QED
      BY <3>2, <3>3
  <2>3. CASE j = Len(apps) + 1 /\ q # p
    <3>1. stage[q] = "idle"
      BY <1>1, <1>2, <1>4, <2>3
    <3>2. Held(q) = {}
      BY <3>1 DEF Held, Inv, IdleHoldsNothing
    <3> QED
      BY <1>1, <2>0, <3>1, <3>2
  <2> QED
    BY <1>2, <2>1, <2>2, <2>3
<1>9. BelowCap'
  <2> SUFFICES ASSUME ~overlapped', NEW q \in Pipes, stage'[q] \in {"filling", "submitted"} PROVE FALSE
    BY DEF BelowCap
  <2>1. stage[q] = stage'[q]
    BY <1>1
  <2>2. q = p
    BY <1>1, <1>4, <2>1
  <2> QED
    BY <1>1, <2>1, <2>2 DEF Inv, IdleHoldsNothing
<1>10. RecordedRateCap'
  <2> SUFFICES ASSUME ~overlapped, NEW d \in Domains, NEW t \in 0 .. clock
               PROVE  Cardinality(RowsInHour(d, t)') <= RateCap[d]
    BY <1>1 DEF RecordedRateCap
  <2>1. CASE status = "applied" /\ d = DomainOf[x] /\ t = clock
    <3>1. x = cur[p] /\ stage[p] \in {"filling", "submitted"}
      BY <1>1, <2>1 DEF Screenings
    <3>2. Cardinality(RecentApplied(d)) < RateCap[d] /\ RateCap[d] \in Nat
      BY <2>1, <3>1, Bounds DEF BelowCap
    <3>3. RowsInHour(d, t)' \subseteq RecentApplied(d) \cup {Len(apps) + 1}
      BY <1>2, <2>1 DEF RowsInHour, RecentApplied
    <3>4. RecentApplied(d) \subseteq 1 .. Len(apps) /\ Len(apps) \in Nat
      BY <1>3 DEF RecentApplied
    <3> QED
      BY <3>2, <3>3, <3>4, OneMoreElement
  <2>2. CASE ~(status = "applied" /\ d = DomainOf[x] /\ t = clock)
    <3>1. clock \notin (t - Hour) .. t \/ t = clock
      BY <1>3
    <3>2. RowsInHour(d, t)' = RowsInHour(d, t)
      BY <1>2, <2>2, <3>1 DEF RowsInHour
    <3> QED
      BY <3>2 DEF RecordedRateCap
  <2> QED
    BY <2>1, <2>2
<1>11. FormsCap'
  <2> SUFFICES ASSUME ~overlapped, NEW d \in Domains, NEW t \in 0 .. clock
               PROVE  Cardinality(CountedInHour(d, t)') <= RateCap[d]
    BY <1>1 DEF FormsCap
  <2>1. ASSUME NEW i \in DOMAIN site, Counted(i)' PROVE Counted(i)
    <3>1. CASE \E j \in DOMAIN apps : Applied(j, site[i].posting)
      BY <3>1 DEF Counted
    <3>2. CASE status = "applied" /\ site[i].posting = x
      <4>1. x = cur[p] /\ stage[p] \in {"filling", "submitted"}
        BY <1>1, <3>2 DEF Screenings
      <4>2. stage[p] # "filling"
        BY <2>1, <3>2, <4>1 DEF Inv, HeldUnsent, Held, SameKey
      <4> QED
        BY <3>2, <4>1, <4>2 DEF Counted
    <3>3. CASE \E q \in Pipes : stage'[q] = "submitted" /\ cur'[q] = site[i].posting
      BY <1>1, <3>3 DEF Counted
    <3> QED
      BY <1>1, <1>2, <2>1, <3>1, <3>2, <3>3 DEF Counted, Applied
  <2>2. CountedInHour(d, t)' \subseteq CountedInHour(d, t)
    BY <1>1, <2>1 DEF CountedInHour
  <2>3. CountedInHour(d, t) \subseteq 1 .. Len(site) /\ Len(site) \in Nat
    BY <1>3 DEF CountedInHour
  <2>4. Cardinality(CountedInHour(d, t)) <= RateCap[d] /\ RateCap[d] \in Nat
    BY Bounds DEF FormsCap
  <2> QED
    BY <2>2, <2>3, <2>4, Fewer
<1> QED
  BY <1>5, <1>6, <1>7, <1>8, <1>9, <1>10, <1>11

(* The form that is sent is one below the cap: every other one of the hour   *)
(* has a row by now, and the check found those rows.                         *)
LEMMA FormsBelowCap ==
  ASSUME Inv, RowInv, RateInv, ~overlapped, NEW p \in Pipes, stage[p] = "filling"
  PROVE  Cardinality(CountedInHour(DomainOf[cur[p]], clock)) < RateCap[DomainOf[cur[p]]]
<1> USE DEF RateInv
<1> DEFINE d == DomainOf[cur[p]]
           C == CountedInHour(d, clock)
           R == RecentApplied(d)
           row == [i \in C |-> CHOOSE j \in DOMAIN apps : Applied(j, site[i].posting)]
<1>1. apps \in Seq(Row) /\ site \in Seq(Submission) /\ clock \in Nat /\ cur[p] \in Postings
  BY Bounds DEF RowInv, TypeOK
<1>2. \A i \in C : \E j \in DOMAIN apps : Applied(j, site[i].posting)
  <2>1. \A q \in Pipes : stage[q] # "submitted"
    BY DEF Inv, OneActive
  <2> QED
    BY <2>1 DEF CountedInHour, Counted
<1>3. \A i \in C : row[i] \in DOMAIN apps /\ Applied(row[i], site[i].posting)
  BY <1>2
<1>4. \A i \in C : row[i] \in R
  <2> TAKE i \in C
  <2>1. i \in DOMAIN site /\ DomainOf[site[i].posting] = d /\ site[i].at \in (clock - Hour) .. clock
    BY DEF CountedInHour
  <2>2. site[i].at <= apps[row[i]].at
    BY <1>3, <2>1 DEF RowAfterForm
  <2>3. apps[row[i]].at \in Nat /\ Hour \in Nat
    <3>1. \A j \in DOMAIN apps : apps[j] \in Row
      BY <1>1
    <3>2. \A j \in DOMAIN apps : apps[j].at \in Nat
      BY <3>1 DEF Row
    <3> QED
      BY <1>3, <3>2, Bounds
  <2>4. apps[row[i]].at >= clock - Hour
    BY <1>1, <2>1, <2>2, <2>3
  <2> QED
    BY <1>3, <2>1, <2>4 DEF RecentApplied, Applied
<1>5. \A i, k \in C : row[i] = row[k] => i = k
  <2>1. \A i, k \in C : row[i] = row[k] => site[i].posting = site[k].posting
    BY <1>3 DEF Applied
  <2>2. \A i \in C : i \in DOMAIN site
    BY DEF CountedInHour
  <2> QED
    BY <2>1, <2>2 DEF Inv, NoDoubleSubmission, SameKey
<1>6. row \in Injection(C, R)
  BY <1>4, <1>5 DEF Injection, IsInjective
<1>7. R \subseteq 1 .. Len(apps) /\ Len(apps) \in Nat
  BY <1>1 DEF RecentApplied
<1>8. IsFiniteSet(R) /\ Cardinality(R) \in Nat
  BY <1>7, Fewer
<1>9. Cardinality(C) <= Cardinality(R) /\ IsFiniteSet(C)
  BY <1>6, <1>8, FS_Injection
<1>10. Cardinality(R) < RateCap[d] /\ RateCap[d] \in Nat
  BY <1>1, Bounds DEF BelowCap, Domains
<1> QED
  BY <1>8, <1>9, <1>10, FS_CardinalityType

LEMMA SubmitRate ==
  ASSUME Inv, RowInv, RateInv, NEW p \in Pipes, Submit(p)
  PROVE  RateInv'
<1> USE DEF RateInv
<1> DEFINE sent == [posting |-> cur[p], at |-> clock, by |-> p]
<1>1. /\ stage[p] = "filling" /\ stage'[p] = "submitted" /\ site' = Append(site, sent)
      /\ UNCHANGED <<seen, apps, clock, fresh, passing, cur, overlapped>>
      /\ \A q \in Pipes : q # p => stage'[q] = stage[q]
  BY DEF Submit, history, RowInv, TypeOK
<1>2. apps \in Seq(Row) /\ site \in Seq(Submission) /\ clock \in Nat /\ cur[p] \in Postings
      /\ sent \in Submission
  BY Bounds DEF RowInv, TypeOK, Submission
<1>3. /\ site'[Len(site) + 1] = sent /\ \A i \in DOMAIN site : site'[i] = site[i]
      /\ DOMAIN site' = DOMAIN site \cup {Len(site) + 1} /\ Len(site) + 1 \notin DOMAIN site
  BY <1>1, <1>2
<1>4. \A q \in Pipes : Held(q)' \subseteq Held(q)
  BY <1>1 DEF Held
<1>5. cur[p] \in Held(p)
  BY <1>1 DEF Held
<1>6. Timed'
  BY <1>1, <1>2, <1>3 DEF Timed
<1>7. HeldUnapplied'
  BY <1>1, <1>4 DEF HeldUnapplied
<1>8. SubmittedIsSent'
  BY <1>1, <1>3 DEF SubmittedIsSent
<1>9. RowAfterForm'
  <2>1. ~overlapped => \A j \in DOMAIN apps : ~Applied(j, cur[p])
    BY <1>5 DEF HeldUnapplied, Applied, Applications, SameKey
  <2> QED
    BY <1>1, <1>3, <2>1 DEF RowAfterForm, Applied
<1>10. BelowCap'
  BY <1>1 DEF BelowCap, RecentApplied
<1>11. RecordedRateCap'
  BY <1>1 DEF RecordedRateCap, RowsInHour
<1>12. FormsCap'
  <2> SUFFICES ASSUME ~overlapped, NEW d \in Domains, NEW t \in 0 .. clock
               PROVE  Cardinality(CountedInHour(d, t)') <= RateCap[d]
    BY <1>1 DEF FormsCap
  <2>1. ASSUME NEW i \in DOMAIN site, Counted(i)' PROVE Counted(i)
    <3>1. CASE \E j \in DOMAIN apps : Applied(j, site[i].posting)
      BY <3>1 DEF Counted
    <3>2. CASE \E q \in Pipes : stage'[q] = "submitted" /\ cur[q] = site[i].posting
      <4>1. ~SameKey(cur[p], site[i].posting)
        BY <1>5 DEF Inv, HeldUnsent
      <4> QED
        BY <1>1, <3>2, <4>1 DEF Counted, SameKey
    <3> QED
      BY <1>1, <1>3, <2>1, <3>1, <3>2 DEF Counted, Applied
  <2>2. CountedInHour(d, t) \subseteq 1 .. Len(site) /\ Len(site) \in Nat
    BY <1>2 DEF CountedInHour
  <2>3. Cardinality(CountedInHour(d, t)) <= RateCap[d] /\ RateCap[d] \in Nat
    BY Bounds DEF FormsCap
  <2>4. CASE d = DomainOf[cur[p]] /\ t = clock
    <3>1. CountedInHour(d, t)' \subseteq CountedInHour(d, t) \cup {Len(site) + 1}
      BY <1>3, <2>1 DEF CountedInHour
    <3>2. Cardinality(CountedInHour(d, t)) < RateCap[d]
      BY <1>1, <2>4, FormsBelowCap
    <3> QED
      BY <2>2, <2>3, <3>1, <3>2, OneMoreElement
  <2>5. CASE ~(d = DomainOf[cur[p]] /\ t = clock)
    <3>1. clock \notin (t - Hour) .. t \/ t = clock
      BY <1>2
    <3>2. CountedInHour(d, t)' \subseteq CountedInHour(d, t)
      BY <1>3, <2>1, <2>5, <3>1 DEF CountedInHour
    <3> QED
      BY <2>2, <2>3, <3>2, Fewer
  <2> QED
    BY <2>4, <2>5
<1> QED
  BY <1>6, <1>7, <1>8, <1>9, <1>10, <1>11, <1>12

LEMMA TickRate ==
  ASSUME Inv, RowInv, RateInv, Tick
  PROVE  RateInv'
<1> USE DEF RateInv
<1>1. UNCHANGED <<seen, apps, site, stage, fresh, passing, cur, overlapped>> /\ clock' = clock + 1
  BY DEF Tick, history
<1>2. apps \in Seq(Row) /\ site \in Seq(Submission) /\ clock \in Nat /\ Hour \in Nat
      /\ \A d \in Domains : RateCap[d] \in Nat
  BY Bounds DEF RowInv, TypeOK
<1>3. \A j \in DOMAIN apps : apps[j].at \in Nat
  <2>1. \A j \in DOMAIN apps : apps[j] \in Row
    BY <1>2
  <2> QED
    BY <2>1 DEF Row
<1>4. \A i \in DOMAIN site : site[i].at \in Nat
  <2>1. \A i \in DOMAIN site : site[i] \in Submission
    BY <1>2
  <2> QED
    BY <2>1 DEF Submission
<1>5. Timed'
  BY <1>1, <1>2, <1>3, <1>4 DEF Timed
<1>6. HeldUnapplied' /\ SubmittedIsSent' /\ RowAfterForm'
  BY <1>1 DEF HeldUnapplied, Held, SubmittedIsSent, RowAfterForm, Applied
<1>7. BelowCap'
  <2> SUFFICES ASSUME ~overlapped, NEW p \in Pipes, stage[p] \in {"filling", "submitted"}
               PROVE  Cardinality(RecentApplied(DomainOf[cur[p]])') < RateCap[DomainOf[cur[p]]]
    BY <1>1 DEF BelowCap
  <2> DEFINE d == DomainOf[cur[p]]
  <2>1. RecentApplied(d)' \subseteq RecentApplied(d)
    BY <1>1, <1>2, <1>3 DEF RecentApplied
  <2>2. RecentApplied(d) \subseteq 1 .. Len(apps) /\ Len(apps) \in Nat
    BY <1>2 DEF RecentApplied
  <2>3. Cardinality(RecentApplied(d)) < RateCap[d] /\ d \in Domains
    BY DEF BelowCap, Domains, RowInv, TypeOK
  <2>4. /\ Cardinality(RecentApplied(d)') <= Cardinality(RecentApplied(d))
        /\ Cardinality(RecentApplied(d)) \in Nat /\ Cardinality(RecentApplied(d)') \in Nat
    BY <2>1, <2>2, Fewer
  <2> QED
    BY <1>2, <2>3, <2>4
<1>8. RecordedRateCap'
  <2> SUFFICES ASSUME ~overlapped, NEW d \in Domains, NEW t \in 0 .. clock + 1
               PROVE  Cardinality(RowsInHour(d, t)) <= RateCap[d]
    BY <1>1 DEF RecordedRateCap, RowsInHour
  <2>1. CASE t \in 0 .. clock
    BY <2>1 DEF RecordedRateCap
  <2>2. CASE t = clock + 1
    <3>1. RowsInHour(d, t) \subseteq RowsInHour(d, clock)
      BY <1>2, <1>3, <2>2 DEF RowsInHour, Timed
    <3>2. RowsInHour(d, clock) \subseteq 1 .. Len(apps) /\ Len(apps) \in Nat
      BY <1>2 DEF RowsInHour
    <3>3. Cardinality(RowsInHour(d, clock)) <= RateCap[d]
      BY <1>2 DEF RecordedRateCap
    <3> QED
      BY <1>2, <3>1, <3>2, <3>3, Fewer
  <2> QED
    BY <1>2, <2>1, <2>2
<1>9. FormsCap'
  <2> SUFFICES ASSUME ~overlapped, NEW d \in Domains, NEW t \in 0 .. clock + 1
               PROVE  Cardinality(CountedInHour(d, t)) <= RateCap[d]
    BY <1>1 DEF FormsCap, CountedInHour, Counted, Applied
  <2>1. CASE t \in 0 .. clock
    BY <2>1 DEF FormsCap
  <2>2. CASE t = clock + 1
    <3>1. CountedInHour(d, t) \subseteq CountedInHour(d, clock)
      BY <1>2, <1>4, <2>2 DEF CountedInHour, Timed
    <3>2. CountedInHour(d, clock) \subseteq 1 .. Len(site) /\ Len(site) \in Nat
      BY <1>2 DEF CountedInHour
    <3>3. Cardinality(CountedInHour(d, clock)) <= RateCap[d]
      BY <1>2 DEF FormsCap
    <3> QED
      BY <1>2, <3>1, <3>2, <3>3, Fewer
  <2> QED
    BY <1>2, <2>1, <2>2
<1> QED
  BY <1>5, <1>6, <1>7, <1>8, <1>9

(* Any other step of a run: no row, no form, no time passes.                 *)
LEMMA OtherRate ==
  ASSUME Inv, RowInv, RateInv, UNCHANGED <<apps, site, clock>>, overlapped => overlapped',
         \A q \in Pipes : stage'[q] = "submitted" => stage[q] = "submitted" /\ cur'[q] = cur[q],
         \A q \in Pipes : stage'[q] = "filling" =>
           \/ stage[q] = "filling" /\ cur'[q] = cur[q]
           \/ RateLimitAllows(cur'[q]),
         \A q \in Pipes : stage'[q] = "marking" =>
           \/ stage[q] = "marking" /\ cur'[q] = cur[q]
           \/ KeyOf[cur'[q]] \notin seen,
         \A q \in Pipes : Held(q)' \subseteq Held(q) \cup (IF stage[q] = "marking" THEN {cur[q]} ELSE {})
  PROVE  RateInv'
<1> USE DEF RateInv
<1>1. Timed' /\ SubmittedIsSent' /\ RowAfterForm'
  BY DEF Timed, SubmittedIsSent, RowAfterForm, Applied
<1>2. HeldUnapplied'
  BY DEF HeldUnapplied, RowInv, RowsSeen, SameKey
<1>3. BelowCap'
  BY DEF BelowCap, RecentApplied, RateLimitAllows
<1>4. RecordedRateCap'
  BY DEF RecordedRateCap, RowsInHour
<1>5. FormsCap'
  <2> SUFFICES ASSUME ~overlapped, NEW d \in Domains, NEW t \in 0 .. clock
               PROVE  Cardinality(CountedInHour(d, t)') <= RateCap[d]
    BY DEF FormsCap
  <2>1. CountedInHour(d, t)' \subseteq CountedInHour(d, t)
    BY DEF CountedInHour, Counted, Applied
  <2>2. CountedInHour(d, t) \subseteq 1 .. Len(site) /\ Len(site) \in Nat
    BY DEF CountedInHour, RowInv, TypeOK
  <2>3. Cardinality(CountedInHour(d, t)) <= RateCap[d] /\ RateCap[d] \in Nat
    BY Bounds DEF FormsCap
  <2> QED
    BY <2>1, <2>2, <2>3, Fewer
<1> QED
  BY <1>1, <1>2, <1>3, <1>4, <1>5

LEMMA RateStep ==
  ASSUME Inv, RowInv, RateInv, [Next]_vars
  PROVE  RateInv'
<1>y. /\ stage \in [Pipes -> Stages] /\ cur \in [Pipes -> Postings]
      /\ fresh \in [Pipes -> SUBSET Postings] /\ passing \in [Pipes -> SUBSET Postings]
  BY DEF RowInv, TypeOK
<1>1. CASE apps' # apps
  BY <1>1, RecordingRate
<1>2. CASE Tick
  BY <1>2, TickRate
<1>3. ASSUME NEW p \in Pipes, Submit(p) PROVE RateInv'
  BY <1>3, SubmitRate
<1>4. ASSUME NEW p \in Pipes,
             \/ \E found \in SUBSET Postings : Poll(p, found)
             \/ \E x \in Postings : SkipSeen(p, x)
             \/ StartScreening(p) \/ StartApplying(p) \/ Finish(p)
      PROVE  RateInv'
  <2>1. /\ UNCHANGED <<apps, site, clock, fresh, passing, cur>>
        /\ \A q \in Pipes : stage'[q] = stage[q] \/ stage'[q] \notin {"marking", "filling", "submitted"}
    BY <1>4, <1>y DEF Poll, SkipSeen, StartScreening, StartApplying, Finish
  <2>2. \A q \in Pipes : Held(q)' \subseteq Held(q)
    BY <2>1 DEF Held
  <2>3. overlapped => overlapped'
    BY <1>4 DEF Poll, SkipSeen, StartScreening, StartApplying, Finish, history
  <2> QED
    BY <2>1, <2>2, <2>3, OtherRate
<1>5. ASSUME NEW p \in Pipes, NEW x \in Postings, FindNew(p, x) PROVE RateInv'
  <2>1. /\ UNCHANGED <<apps, site, clock, overlapped, fresh, passing>> /\ KeyOf[x] \notin seen
        /\ stage[p] = "checking" /\ stage'[p] = "marking" /\ cur'[p] = x
        /\ \A q \in Pipes : q # p => stage'[q] = stage[q] /\ cur'[q] = cur[q]
    BY <1>5, <1>y DEF FindNew, history
  <2>2. \A q \in Pipes : Held(q)' \subseteq Held(q)
    BY <2>1 DEF Held
  <2> QED
    BY <2>1, <2>2, OtherRate
<1>6. ASSUME NEW p \in Pipes, MarkSeen(p) PROVE RateInv'
  <2>1. /\ UNCHANGED <<apps, site, clock, overlapped, passing, cur>>
        /\ stage[p] = "marking" /\ stage'[p] = "checking" /\ fresh'[p] = fresh[p] \cup {cur[p]}
        /\ \A q \in Pipes : q # p => stage'[q] = stage[q] /\ fresh'[q] = fresh[q]
    BY <1>6, <1>y DEF MarkSeen, history
  <2>2. \A q \in Pipes : Held(q)' \subseteq Held(q) \cup (IF stage[q] = "marking" THEN {cur[q]} ELSE {})
    BY <2>1 DEF Held
  <2> QED
    BY <2>1, <2>2, OtherRate
<1>7. ASSUME NEW p \in Pipes, NEW x \in Postings, StartApply(p, x) PROVE RateInv'
  <2>1. /\ UNCHANGED <<apps, site, clock, overlapped, fresh>> /\ x \in passing[p]
        /\ RateLimitAllows(x) /\ stage[p] = "applying" /\ stage'[p] = "filling" /\ cur'[p] = x
        /\ passing'[p] = passing[p] \ {x}
        /\ \A q \in Pipes : q # p => /\ passing'[q] = passing[q] /\ stage'[q] = stage[q]
                                     /\ cur'[q] = cur[q]
    BY <1>7, <1>y DEF StartApply, history
  <2>2. \A q \in Pipes : Held(q)' \subseteq Held(q)
    BY <2>1 DEF Held
  <2> QED
    BY <2>1, <2>2, OtherRate
<1>8. ASSUME NEW p \in Pipes, Abort(p) PROVE RateInv'
  <2>1. /\ UNCHANGED <<apps, site, clock, overlapped, cur>>
        /\ stage'[p] = "idle" /\ fresh'[p] = {} /\ passing'[p] = {}
        /\ \A q \in Pipes : q # p => /\ stage'[q] = stage[q] /\ fresh'[q] = fresh[q]
                                     /\ passing'[q] = passing[q]
    BY <1>8, <1>y DEF Abort
  <2>2. \A q \in Pipes : Held(q)' \subseteq Held(q)
    BY <2>1 DEF Held
  <2> QED
    BY <2>1, <2>2, OtherRate
<1>9. CASE UNCHANGED vars
  BY <1>9 DEF vars, history, RateInv, Timed, HeldUnapplied, Held, SubmittedIsSent, RowAfterForm, Applied,
     BelowCap, RecentApplied, RecordedRateCap, RowsInHour, FormsCap, CountedInHour, Counted
<1>10. ASSUME NEW p \in Pipes,
              \/ \E x \in Postings, verdict \in Screenings : Screen(p, x, verdict)
              \/ \E x \in Postings : RefuseApply(p, x)
              \/ \E status \in {"applied", "apply_failed"} : RecordOutcome(p, status)
       PROVE  apps' # apps
  <2>1. apps \in Seq(Row)
    BY DEF RowInv, TypeOK
  <2>2. ASSUME NEW row, apps' = Append(apps, row) PROVE Len(apps') = Len(apps) + 1 /\ Len(apps) \in Nat
    BY <2>1, <2>2
  <2>3. \E row : apps' = Append(apps, row)
    BY <1>10 DEF Screen, RefuseApply, RecordOutcome, Recorded
  <2> QED
    BY <2>2, <2>3
<1> QED
  BY <1>1, <1>2, <1>3, <1>4, <1>5, <1>6, <1>7, <1>8, <1>9, <1>10
     DEF Next, Discover, ScreenStep, ApplyStep

(* Unless processes overlapped, no hour has more rows that say applied than  *)
(* the cap of a domain, nor more forms really sent that a row accounts for.  *)
THEOREM RateLimitedHolds == Spec => []RateLimited
<1>1. Init => Inv /\ RowInv /\ RateInv
  BY InitInv, InitRows, InitRate
<1>2. Inv /\ RowInv /\ RateInv /\ [Next]_vars => Inv' /\ RowInv' /\ RateInv'
  BY StepInv, RowStep, RateStep
<1>3. Inv /\ RowInv /\ RateInv => RateLimited
  <2> SUFFICES ASSUME Inv, RowInv, RateInv PROVE AccountedRateCap
    BY DEF RateLimited, RowInv, RateInv
  <2> SUFFICES ASSUME ~overlapped, NEW d \in Domains, NEW t \in 0 .. clock
               PROVE  Cardinality(SentInHour(d, t)) <= RateCap[d]
    BY DEF AccountedRateCap
  <2>1. SentInHour(d, t) \subseteq CountedInHour(d, t)
    BY DEF SentInHour, CountedInHour, Counted, Applied
  <2>2. CountedInHour(d, t) \subseteq 1 .. Len(site) /\ Len(site) \in Nat
    BY DEF CountedInHour, RowInv, TypeOK
  <2>3. Cardinality(CountedInHour(d, t)) <= RateCap[d] /\ RateCap[d] \in Nat
    BY Bounds DEF RateInv, FormsCap
  <2> QED
    BY <2>1, <2>2, <2>3, Fewer
<1> QED
  BY <1>1, <1>2, <1>3, PTL DEF Spec
==============================================================================
