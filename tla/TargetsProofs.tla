----------------------------- MODULE TargetsProofs -----------------------------
(***************************************************************************)
(* Proofs about module Targets, for any numbers of targets, iframes, second *)
(* sessions and recovery tasks.                                             *)
(***************************************************************************)
EXTENDS Targets, FiniteSetTheorems, WellFoundedInduction, TLAPS

(* The tab recovery turns to exists: of the sets of pages ranked above some  *)
(* page, one is minimal.                                                     *)
LEMMA NewestIsPage ==
  ASSUME rank \in [Targets -> Nat], Pages # {}
  PROVE  Newest \in Pages
<1> DEFINE Above(t) == {u \in Pages : rank[u] > rank[t]}
           T == {Above(t) : t \in Pages}
<1>1. IsFiniteSet(Pages) /\ Pages \subseteq Targets
  <2>1. IsFiniteSet(Targets)
    BY Bounds, FS_Interval DEF Targets
  <2> QED
    BY <2>1, FS_Subset DEF Pages
<1>2. T \subseteq FiniteSubsetsOf(Pages) /\ T # {}
  <2>1. \A t \in Pages : Above(t) \subseteq Pages /\ IsFiniteSet(Above(t))
    BY <1>1, FS_Subset
  <2> QED
    BY <2>1 DEF FiniteSubsetsOf
<1>3. PICK x \in T : \A y \in T : <<y, x>> \notin StrictSubsetOrdering(Pages)
  <2> HIDE DEF T
  <2> QED
    BY <1>2, WFMin, FS_StrictSubsetOrderingWellFounded, Zenon
<1>4. PICK t \in Pages : x = Above(t)
  BY <1>3
<1>5. ASSUME NEW u \in Pages, rank[u] > rank[t] PROVE FALSE
  <2>1. u \in Above(t) /\ u \notin Above(u)
    BY <1>1, <1>5
  <2>2. \A w \in Pages : rank[w] > rank[u] => rank[w] > rank[t]
    BY <1>1, <1>5
  <2>3. Above(u) \subseteq Above(t) /\ Above(u) # Above(t)
    BY <2>1, <2>2
  <2>4. <<Above(u), Above(t)>> \in StrictSubsetOrdering(Pages)
    BY <2>3, <1>2 DEF StrictSubsetOrdering
  <2> QED
    BY <2>4, <1>3, <1>4
<1>6. \A u \in Pages : rank[u] <= rank[t]
  BY <1>1, <1>5
<1> QED
  BY <1>6 DEF Newest

LEMMA SessionTarget == \A s \in Sessions : s[1] \in Targets
BY DEF Sessions

(* What the pool lists, what a recovery is after and what a handler waits    *)
(* for is a target the browser has made, so it can no longer turn out to be  *)
(* an iframe; and a recovery is only ever after a page.                      *)
Born ==
  /\ \A s \in sessions \cup attaching : tab[s[1]] # "none"
  /\ \A t \in iframes : tab[t] # "none"
AfterPages ==
  \A i \in Tasks : rec[i].at \in {"polling", "awaiting", "activating", "emergency"} =>
    rec[i].goal \in Targets \ iframes /\ tab[rec[i].goal] # "none"
SeeksTarget == seeking = NoSeek \/ seeking.target \in Targets

(* Unless a waiting recovery has given up, one recovery works and says so,   *)
(* and those that were released wait for no other.                           *)
OneWorks ==
  "overran" \notin excused =>
    /\ \A i \in Tasks : rec[i].at \in Working => in_progress
    /\ \A i, j \in Tasks : rec[i].at \in Working /\ rec[j].at \in Working => i = j
    /\ \A i \in Tasks : rec[i].at = "released" => ~in_progress

Inv ==
  /\ TypeOK /\ PoolAgrees /\ Born /\ AfterPages /\ SeeksTarget
  /\ FocusTracked /\ WaitersHeld /\ OneWorks

LEMMA InitInv == ASSUME Init PROVE Inv
<1> USE DEF Init
<1>1. 1 \in Targets /\ <<1, 1>> \in Sessions
  BY Bounds DEF Targets, Sessions
<1>2. TypeOK
  <2>1. /\ tab \in [Targets -> {"none", "open", "closed"}]
        /\ link \in [Sessions -> {"none", "attached", "detached"}]
        /\ target_sessions \in [Targets -> SUBSET Sessions]
        /\ rank \in [Targets -> Nat]
    BY <1>1
  <2>2. NoTask \in [at : TaskPlaces, lost : 0 .. MaxTargets, goal : 0 .. MaxTargets]
        /\ NoSeek \in [target : 0 .. MaxTargets, by : Handlers]
    BY Bounds DEF NoTask, NoSeek, TaskPlaces, Handlers
  <2>3. in_progress \in BOOLEAN
    OBVIOUS
  <2>4. focus \in 0 .. MaxTargets /\ closing \in 0 .. MaxTargets
    BY Bounds
  <2> QED
    BY <1>1, <2>1, <2>2, <2>3, <2>4 DEF TypeOK
<1>3. PoolAgrees
  BY <1>1 DEF PoolAgrees, Tracked, Sessions
<1>4. Born /\ SeeksTarget
  BY <1>1 DEF Born, SeeksTarget
<1>5. AfterPages /\ WaitersHeld /\ OneWorks
  BY DEF AfterPages, WaitersHeld, OneWorks, NoTask, Working
<1>6. FocusTracked
  BY <1>1 DEF FocusTracked, Tracked
<1> QED
  BY <1>2, <1>3, <1>4, <1>5, <1>6 DEF Inv

(* Steps of the browser and of the handlers of its events leave the          *)
(* recoveries alone, but for the one a detached event spawns.                *)
LEMMA BrowserStep ==
  ASSUME Inv, NEW t \in Targets, NewTab(t) \/ NewIframe(t) \/ TargetCloses(t)
  PROVE  Inv'
<1> USE DEF Inv
<1>1. /\ UNCHANGED <<link, attaching, target_sessions, sessions, rank, clock, focus,
                     in_progress, rec, seeking, pending, closing, asked, excused>>
      /\ tab' = [tab EXCEPT ![t] = "open"] \/ tab' = [tab EXCEPT ![t] = "closed"]
      /\ iframes' = iframes \/ (iframes' = iframes \cup {t} /\ tab[t] = "none")
  BY DEF NewTab, NewIframe, TargetCloses, Opens, Closes, Unborn, poolVars, busVars
<1>2. \A u \in Targets : tab'[u] # tab[u] => u = t /\ tab'[u] # "none"
  BY <1>1 DEF TypeOK
<1>3. TypeOK'
  BY <1>1 DEF TypeOK
<1>4. PoolAgrees' /\ SeeksTarget' /\ WaitersHeld' /\ OneWorks'
  BY <1>1 DEF PoolAgrees, SeeksTarget, WaitersHeld, OneWorks, Tracked
<1>5. Born'
  <2>1. \A s \in sessions \cup attaching : s[1] \in Targets
    BY SessionTarget DEF TypeOK
  <2>2. tab'[t] # "none"
    BY <1>1 DEF TypeOK
  <2> QED
    BY <1>1, <1>2, <2>1, <2>2 DEF Born, TypeOK
<1>6. AfterPages'
  BY <1>1, <1>2 DEF AfterPages
<1>7. FocusTracked'
  <2>1. ASSUME focus # 0 PROVE tab[focus] # "none"
    <3>1. PICK s \in target_sessions[focus] : TRUE
      BY <2>1 DEF FocusTracked, Tracked
    <3>2. focus \in Targets
      BY <2>1, Bounds DEF TypeOK, Targets
    <3>3. s \in Sessions /\ s[1] = focus /\ s \in sessions
      BY <3>1, <3>2 DEF TypeOK, PoolAgrees
    <3> QED
      BY <3>3 DEF Born
  <2> QED
    BY <1>1, <2>1 DEF FocusTracked, Tracked
<1> QED
  BY <1>3, <1>4, <1>5, <1>6, <1>7

LEMMA AttachStep ==
  ASSUME Inv, NEW s \in Sessions, Attached(s) \/ Registered(s)
  PROVE  Inv'
<1> USE DEF Inv
<1>0. s[1] \in Targets
  BY SessionTarget
<1>1. ASSUME Attached(s) PROVE Inv'
  <2>1. /\ UNCHANGED <<tab, iframes, target_sessions, sessions, rank, clock, focus,
                       in_progress, rec, seeking, pending, closing, asked, excused>>
        /\ link' = [link EXCEPT ![s] = "attached"] /\ attaching' = attaching \cup {s}
        /\ tab[s[1]] # "none"
    BY <1>1 DEF Attached, tabVars, poolVars, busVars
  <2>2. TypeOK'
    BY <2>1 DEF TypeOK
  <2> QED
    BY <2>1, <2>2 DEF PoolAgrees, Born, AfterPages, SeeksTarget, FocusTracked,
       WaitersHeld, OneWorks, Tracked
<1>2. ASSUME Registered(s) PROVE Inv'
  <2>1. /\ UNCHANGED <<tab, iframes, link, focus, in_progress, rec, seeking, pending,
                       closing, asked, excused>>
        /\ s \in attaching /\ attaching' = attaching \ {s}
        /\ target_sessions' = [target_sessions EXCEPT ![s[1]] = @ \cup {s}]
        /\ sessions' = sessions \cup {s}
    BY <1>2 DEF Registered, browserVars, tabVars, busVars
  <2>2. /\ rank' \in [Targets -> Nat] /\ clock' \in Nat
        /\ rank'[s[1]] # 0 /\ \A t \in Targets \ {s[1]} : rank'[t] = rank[t]
    <3>1. CASE rank[s[1]] = 0
      BY <1>0, <1>2, <3>1 DEF Registered, TypeOK
    <3>2. CASE rank[s[1]] # 0
      BY <1>0, <1>2, <3>2 DEF Registered, TypeOK
    <3> QED
      BY <3>1, <3>2
  <2>3. TypeOK'
    BY <1>0, <2>1, <2>2 DEF TypeOK
  <2>4. PoolAgrees'
    <3>1. \A t \in Targets : target_sessions'[t] =
            IF t = s[1] THEN target_sessions[t] \cup {s} ELSE target_sessions[t]
      BY <1>0, <2>1 DEF TypeOK
    <3>2. ASSUME NEW r \in Sessions PROVE r \in sessions' <=> r \in target_sessions'[r[1]]
      <4>1. r[1] \in Targets /\ (r \in sessions <=> r \in target_sessions[r[1]])
        BY SessionTarget DEF PoolAgrees
      <4>2. CASE r = s
        BY <1>0, <2>1, <3>1, <4>2
      <4>3. CASE r # s
        BY <2>1, <3>1, <4>1, <4>3
      <4> QED
        BY <4>2, <4>3
    <3>3. ASSUME NEW t \in Targets, NEW r \in target_sessions'[t] PROVE r[1] = t
      <4>1. r \in target_sessions[t] \/ (t = s[1] /\ r = s)
        BY <3>1
      <4>2. \A q \in target_sessions[t] : q[1] = t
        BY DEF PoolAgrees
      <4> QED
        BY <4>1, <4>2
    <3>4. \A t \in Targets : rank'[t] # 0 <=> target_sessions'[t] # {}
      BY <1>0, <2>2, <3>1 DEF PoolAgrees, Tracked
    <3> QED
      BY <3>2, <3>3, <3>4 DEF PoolAgrees, Tracked
  <2>5. Born'
    BY <2>1 DEF Born
  <2>6. FocusTracked'
    BY <1>0, <2>1, Bounds DEF FocusTracked, Tracked, TypeOK, Targets
  <2> QED
    BY <2>1, <2>3, <2>4, <2>5, <2>6 DEF AfterPages, SeeksTarget, WaitersHeld, OneWorks
<1> QED
  BY <1>1, <1>2

(* The tasks of a detached event: at most one more, which only waits.        *)
LEMMA SpawnOnly ==
  ASSUME TypeOK, NEW t \in Targets, Spawn(t) \/ UNCHANGED rec
  PROVE  /\ rec' \in [Tasks -> [at : TaskPlaces, lost : 0 .. MaxTargets, goal : 0 .. MaxTargets]]
         /\ \A i \in Tasks : rec'[i] = rec[i] \/ rec'[i].at = "queued"
<1>1. CASE UNCHANGED rec
  BY <1>1 DEF TypeOK
<1>2. CASE Spawn(t)
  <2>1. PICK i \in Tasks : rec' = [rec EXCEPT ![i] = [at |-> "queued", lost |-> t, goal |-> 0]]
    BY <1>2 DEF Spawn
  <2>2. [at |-> "queued", lost |-> t, goal |-> 0]
          \in [at : TaskPlaces, lost : 0 .. MaxTargets, goal : 0 .. MaxTargets]
    BY Bounds DEF TaskPlaces, Targets
  <2> QED
    BY <2>1, <2>2 DEF TypeOK
<1> QED
  BY <1>1, <1>2

LEMMA DetachStep ==
  ASSUME Inv, NEW s \in Sessions, Detached(s)
  PROVE  Inv'
<1> USE DEF Inv
<1>0. s[1] \in Targets
  BY SessionTarget
<1> DEFINE lost == LastOf(s) /\ focus = s[1]
<1>1. /\ UNCHANGED <<tab, iframes, attaching, in_progress, seeking, closing, asked>>
      /\ link' = [link EXCEPT ![s] = "detached"]
      /\ Drops(s)
      /\ focus' = IF lost THEN 0 ELSE focus
      /\ pending' = pending \/ pending' = pending \cup {<<"closed", s[1]>>}
      /\ Spawn(s[1]) \/ UNCHANGED rec
      /\ excused' = excused \/ excused' = excused \cup Missed
  BY DEF Detached, tabVars
<1>2. /\ target_sessions' = [target_sessions EXCEPT ![s[1]] = @ \ {s}]
      /\ sessions' = sessions \ {s}
      /\ rank' = IF LastOf(s) THEN [rank EXCEPT ![s[1]] = 0] ELSE rank
      /\ clock' = clock
  BY <1>1 DEF Drops
<1>3. /\ rec' \in [Tasks -> [at : TaskPlaces, lost : 0 .. MaxTargets, goal : 0 .. MaxTargets]]
      /\ \A i \in Tasks : rec'[i] = rec[i] \/ rec'[i].at = "queued"
  BY <1>0, <1>1, SpawnOnly
<1>4. Missed \in SUBSET {"missed"}
  BY DEF Missed
<1>5. TypeOK'
  <2>1. rank' \in [Targets -> Nat]
    BY <1>0, <1>2 DEF TypeOK
  <2>2. focus' \in 0 .. MaxTargets
    BY <1>1, Bounds DEF TypeOK
  <2>3. pending' \subseteq {"focus", "closed"} \X Targets
    <3>1. <<"closed", s[1]>> \in {"focus", "closed"} \X Targets
      BY <1>0
    <3> QED
      BY <1>1, <3>1 DEF TypeOK
  <2>4. excused' \subseteq {"missed", "failed", "overran"}
    BY <1>1, <1>4 DEF TypeOK
  <2> QED
    BY <1>0, <1>1, <1>2, <1>3, <2>1, <2>2, <2>3, <2>4 DEF TypeOK
<1>6. PoolAgrees'
  <2>1. \A t \in Targets : target_sessions'[t] =
          IF t = s[1] THEN target_sessions[t] \ {s} ELSE target_sessions[t]
    BY <1>0, <1>2 DEF TypeOK
  <2>2. \A r \in Sessions : r \in sessions' <=> r \in target_sessions'[r[1]]
    BY <1>2, <2>1, SessionTarget DEF PoolAgrees
  <2>3. \A t \in Targets : \A r \in target_sessions'[t] : r[1] = t
    BY <2>1 DEF PoolAgrees
  <2>4. \A t \in Targets : rank'[t] # 0 <=> target_sessions'[t] # {}
    <3>1. CASE LastOf(s)
      BY <1>0, <1>2, <2>1, <3>1 DEF PoolAgrees, Tracked, LastOf, TypeOK
    <3>2. CASE ~LastOf(s)
      <4>1. target_sessions'[s[1]] # {} <=> target_sessions[s[1]] # {}
        BY <1>0, <2>1, <3>2 DEF LastOf
      <4> QED
        BY <1>2, <2>1, <3>2, <4>1 DEF PoolAgrees, Tracked
    <3> QED
      BY <3>1, <3>2
  <2> QED
    BY <2>2, <2>3, <2>4 DEF PoolAgrees, Tracked
<1>7. Born' /\ SeeksTarget'
  BY <1>1, <1>2 DEF Born, SeeksTarget
<1>8. AfterPages'
  BY <1>1, <1>3 DEF AfterPages
<1>9. FocusTracked'
  <2>1. ASSUME focus' # 0 PROVE focus' \notin iframes' /\ target_sessions'[focus'] # {}
    <3>1. focus' = focus /\ ~lost /\ focus \in Targets
      BY <1>1, <2>1, Bounds DEF TypeOK, Targets
    <3>2. target_sessions[focus] # {} /\ focus \notin iframes
      BY <2>1, <3>1 DEF FocusTracked, Tracked
    <3>3. CASE focus = s[1]
      BY <1>0, <1>1, <1>2, <3>1, <3>2, <3>3 DEF LastOf, TypeOK
    <3>4. CASE focus # s[1]
      BY <1>0, <1>1, <1>2, <3>1, <3>2, <3>4 DEF TypeOK
    <3> QED
      BY <3>3, <3>4
  <2> QED
    BY <2>1 DEF FocusTracked, Tracked
<1>10. WaitersHeld' /\ OneWorks'
  BY <1>1, <1>3 DEF WaitersHeld, OneWorks, Working
<1> QED
  BY <1>5, <1>6, <1>7, <1>8, <1>9, <1>10

(* What the finally block of task i leaves of the tasks: itself ended, every *)
(* waiter released.                                                          *)
LEMMA FinishFacts ==
  ASSUME TypeOK, NEW i \in Tasks, Finish(i)
  PROVE  /\ in_progress' = FALSE
         /\ asked' \in {"no", "released"}
         /\ rec' \in [Tasks -> [at : TaskPlaces, lost : 0 .. MaxTargets, goal : 0 .. MaxTargets]]
         /\ \A j \in Tasks : /\ rec'[j].at # "waiting"
                             /\ rec'[j].at \in Working => j # i /\ rec'[j] = rec[j]
<1>1. /\ in_progress' = FALSE
      /\ rec' = [j \in Tasks |-> IF j = i THEN NoTask
                                ELSE IF rec[j].at = "waiting" THEN [rec[j] EXCEPT !.at = "released"]
                                ELSE rec[j]]
      /\ asked' = IF asked = "waiting" THEN "released" ELSE asked
  BY DEF Finish
<1>2. \A j \in Tasks :
        /\ rec'[j] \in [at : TaskPlaces, lost : 0 .. MaxTargets, goal : 0 .. MaxTargets]
        /\ rec'[j].at # "waiting"
        /\ rec'[j].at \in Working => j # i /\ rec'[j] = rec[j]
  <2> SUFFICES ASSUME NEW j \in Tasks
               PROVE  /\ rec'[j] \in [at : TaskPlaces, lost : 0 .. MaxTargets, goal : 0 .. MaxTargets]
                      /\ rec'[j].at # "waiting"
                      /\ rec'[j].at \in Working => j # i /\ rec'[j] = rec[j]
    OBVIOUS
  <2>1. CASE j = i
    BY <1>1, <2>1, Bounds DEF NoTask, TaskPlaces, Working
  <2>2. CASE j # i /\ rec[j].at = "waiting"
    <3>1. rec'[j] = [rec[j] EXCEPT !.at = "released"]
      BY <1>1, <2>2
    <3>2. rec[j] \in [at : TaskPlaces, lost : 0 .. MaxTargets, goal : 0 .. MaxTargets]
      BY DEF TypeOK
    <3> QED
      BY <3>1, <3>2 DEF TaskPlaces, Working
  <2>3. CASE j # i /\ rec[j].at # "waiting"
    BY <1>1, <2>3 DEF TypeOK
  <2> QED
    BY <2>1, <2>2, <2>3
<1>3. rec' \in [Tasks -> [at : TaskPlaces, lost : 0 .. MaxTargets, goal : 0 .. MaxTargets]]
  BY <1>1, <1>2
<1> QED
  BY <1>1, <1>2, <1>3 DEF TypeOK

(* A task may end when it works, when none does, or when it overran.         *)
LEMMA FinishKeeps ==
  ASSUME Inv, NEW i \in Tasks, Finish(i), excused \subseteq excused',
         rec[i].at \in Working \/ ~in_progress \/ "overran" \in excused',
         tab' = tab, iframes' = iframes
  PROVE  AfterPages' /\ WaitersHeld' /\ OneWorks'
<1>1. /\ in_progress' = FALSE
      /\ asked' # "waiting"
      /\ \A j \in Tasks : /\ rec'[j].at # "waiting"
                          /\ rec'[j].at \in Working => j # i /\ rec'[j] = rec[j]
  BY FinishFacts DEF Inv
<1>2. AfterPages'
  BY <1>1 DEF Inv, AfterPages, Working
<1>3. WaitersHeld'
  BY <1>1 DEF WaitersHeld
<1>4. OneWorks'
  BY <1>1 DEF Inv, OneWorks
<1> QED
  BY <1>2, <1>3, <1>4

LEMMA GoesFacts ==
  ASSUME TypeOK, NEW i \in Tasks, NEW place \in TaskPlaces, NEW goal \in 0 .. MaxTargets,
         Goes(i, place, goal)
  PROVE  /\ rec' \in [Tasks -> [at : TaskPlaces, lost : 0 .. MaxTargets, goal : 0 .. MaxTargets]]
         /\ rec'[i].at = place /\ rec'[i].goal = goal
         /\ \A j \in Tasks \ {i} : rec'[j] = rec[j]
BY DEF Goes, TypeOK

LEMMA StartsStep ==
  ASSUME Inv, NEW i \in Tasks, RecoveryStarts(i)
  PROVE  Inv'
<1> USE DEF Inv
<1>1. /\ rec[i].at = "queued" /\ ~LockHeld
      /\ UNCHANGED <<tab, iframes, link, attaching, target_sessions, sessions, rank, clock,
                     focus, seeking, pending, closing, excused>>
  BY DEF RecoveryStarts, browserVars, tabVars, poolVars, busVars
<1>2. PoolAgrees' /\ Born' /\ SeeksTarget' /\ FocusTracked'
  BY <1>1 DEF PoolAgrees, Born, SeeksTarget, FocusTracked, Tracked
<1>3. CASE in_progress
  <2>1. Goes(i, "waiting", 0) /\ UNCHANGED <<in_progress, asked>>
    BY <1>3 DEF RecoveryStarts
  <2>2. /\ rec' \in [Tasks -> [at : TaskPlaces, lost : 0 .. MaxTargets, goal : 0 .. MaxTargets]]
        /\ rec'[i].at = "waiting"
        /\ \A j \in Tasks \ {i} : rec'[j] = rec[j]
    BY <2>1, GoesFacts, Bounds DEF TaskPlaces
  <2>3. TypeOK'
    BY <1>1, <2>1, <2>2 DEF TypeOK
  <2>4. AfterPages'
    BY <1>1, <2>2 DEF AfterPages
  <2>5. WaitersHeld' /\ OneWorks'
    BY <1>1, <1>3, <2>1, <2>2 DEF WaitersHeld, OneWorks, Working
  <2> QED
    BY <1>2, <2>3, <2>4, <2>5
<1>4. CASE ~in_progress /\ Finish(i)
  <2>1. TypeOK'
    BY <1>1, <1>4, FinishFacts DEF TypeOK
  <2> QED
    BY <1>1, <1>2, <1>4, <2>1, FinishKeeps
<1>5. CASE ~in_progress /\ ~Finish(i)
  <2>1. /\ in_progress' = TRUE /\ asked' = asked
        /\ IF Pages # {} THEN Goes(i, "polling", Newest) ELSE Goes(i, "creating", 0)
    BY <1>5 DEF RecoveryStarts
  <2>2. /\ rec' \in [Tasks -> [at : TaskPlaces, lost : 0 .. MaxTargets, goal : 0 .. MaxTargets]]
        /\ \A j \in Tasks \ {i} : rec'[j] = rec[j]
        /\ \/ rec'[i].at = "polling" /\ rec'[i].goal \in Pages
           \/ rec'[i].at = "creating"
    <3>1. CASE Pages # {}
      <4>1. Newest \in Pages
        BY <3>1, NewestIsPage DEF TypeOK
      <4>2. Newest \in 0 .. MaxTargets
        BY <4>1, Bounds DEF Pages, Targets
      <4> QED
        BY <2>1, <3>1, <4>1, <4>2, GoesFacts DEF TaskPlaces
    <3>2. CASE Pages = {}
      BY <2>1, <3>2, GoesFacts, Bounds DEF TaskPlaces
    <3> QED
      BY <3>1, <3>2
  <2>3. TypeOK'
    BY <1>1, <2>1, <2>2 DEF TypeOK
  <2>4. AfterPages'
    <3>1. \A t \in Pages : t \in Targets \ iframes /\ tab[t] # "none"
      <4>1. ASSUME NEW t \in Pages PROVE tab[t] # "none"
        <5>1. t \in Targets /\ target_sessions[t] # {}
          BY DEF Pages, PoolAgrees, Tracked
        <5>2. PICK s \in target_sessions[t] : s \in Sessions /\ s[1] = t
          BY <5>1 DEF PoolAgrees, TypeOK
        <5> QED
          BY <5>2 DEF PoolAgrees, Born
      <4> QED
        BY <4>1 DEF Pages
    <3> QED
      BY <1>1, <2>2, <3>1 DEF AfterPages
  <2>5. WaitersHeld'
    BY <2>1 DEF WaitersHeld
  <2>6. OneWorks'
    BY <1>1, <1>5, <2>1, <2>2 DEF OneWorks, LockHeld, Working
  <2> QED
    BY <1>2, <2>3, <2>4, <2>5, <2>6
<1> QED
  BY <1>3, <1>4, <1>5

(* A task that ends without having touched anything but the focus and the    *)
(* pending events.                                                           *)
LEMMA EndsStep ==
  ASSUME Inv, NEW i \in Tasks, WaiterReturns(i) \/ RecoveryFails(i) \/ RecoveryActivated(i)
  PROVE  Inv'
<1> USE DEF Inv
<1>1. /\ Finish(i)
      /\ UNCHANGED <<tab, iframes, link, attaching, target_sessions, sessions, rank, clock,
                     focus, seeking, closing>>
  BY DEF WaiterReturns, RecoveryFails, RecoveryActivated, browserVars, tabVars, poolVars, busVars
<1>2. /\ excused \subseteq excused' /\ excused' \subseteq {"missed", "failed", "overran"}
      /\ rec[i].at \in Working \/ ~in_progress \/ "overran" \in excused'
  <2>1. CASE WaiterReturns(i)
    BY <2>1 DEF WaiterReturns, OneWorks, TypeOK
  <2>2. CASE RecoveryFails(i)
    BY <2>2 DEF RecoveryFails, Working, TypeOK
  <2>3. CASE RecoveryActivated(i)
    BY <2>3 DEF RecoveryActivated, Working, TypeOK
  <2> QED
    BY <2>1, <2>2, <2>3
<1>3. pending' \subseteq {"focus", "closed"} \X Targets
  <2>1. CASE RecoveryActivated(i)
    <3>1. <<"focus", rec[i].goal>> \in {"focus", "closed"} \X Targets
      BY <2>1 DEF RecoveryActivated, AfterPages
    <3> QED
      BY <2>1, <3>1 DEF RecoveryActivated, TypeOK
  <2>2. CASE ~RecoveryActivated(i)
    BY <2>2 DEF WaiterReturns, RecoveryFails, busVars, TypeOK
  <2> QED
    BY <2>1, <2>2
<1>4. TypeOK'
  BY <1>1, <1>2, <1>3, FinishFacts DEF TypeOK
<1>5. PoolAgrees' /\ Born' /\ SeeksTarget' /\ FocusTracked'
  BY <1>1 DEF PoolAgrees, Born, SeeksTarget, FocusTracked, Tracked
<1> QED
  BY <1>1, <1>2, <1>4, <1>5, FinishKeeps

LEMMA CreatesStep ==
  ASSUME Inv, NEW i \in Tasks, RecoveryCreates(i)
  PROVE  Inv'
<1> USE DEF Inv
<1>1. PICK t \in Unborn :
        /\ tab[t] = "none" /\ tab' = [tab EXCEPT ![t] = "open"] /\ t \in Targets
        /\ Goes(i, IF rec[i].at = "creating" THEN "awaiting" ELSE "emergency", t)
  BY DEF RecoveryCreates, Opens, Unborn
<1>2. /\ UNCHANGED <<iframes, link, attaching, target_sessions, sessions, rank, clock, focus,
                     in_progress, seeking, pending, closing, asked, excused>>
      /\ rec[i].at \in {"creating", "fallback"}
  BY DEF RecoveryCreates, poolVars, busVars
<1>3. /\ rec' \in [Tasks -> [at : TaskPlaces, lost : 0 .. MaxTargets, goal : 0 .. MaxTargets]]
      /\ rec'[i].at \in {"awaiting", "emergency"} /\ rec'[i].goal = t
      /\ \A j \in Tasks \ {i} : rec'[j] = rec[j]
  <2>1. t \in 0 .. MaxTargets
    BY <1>1, Bounds DEF Targets
  <2>2. CASE rec[i].at = "creating"
    BY <1>1, <2>1, <2>2, GoesFacts DEF TaskPlaces
  <2>3. CASE rec[i].at # "creating"
    BY <1>1, <2>1, <2>3, GoesFacts DEF TaskPlaces
  <2> QED
    BY <2>2, <2>3
<1>4. TypeOK'
  BY <1>1, <1>2, <1>3 DEF TypeOK
<1>5. PoolAgrees' /\ SeeksTarget' /\ FocusTracked'
  BY <1>2 DEF PoolAgrees, SeeksTarget, FocusTracked, Tracked
<1>6. \A u \in Targets : tab[u] # "none" => tab'[u] # "none"
  BY <1>1 DEF TypeOK
<1>7. t \notin iframes /\ tab'[t] # "none"
  BY <1>1 DEF Born, TypeOK
<1>8. Born'
  <2>1. \A s \in sessions \cup attaching : s[1] \in Targets
    BY SessionTarget DEF TypeOK
  <2> QED
    BY <1>2, <1>6, <2>1 DEF Born, TypeOK
<1>9. AfterPages'
  BY <1>1, <1>2, <1>3, <1>6, <1>7 DEF AfterPages
<1>10. WaitersHeld' /\ OneWorks'
  BY <1>2, <1>3 DEF WaitersHeld, OneWorks, Working
<1> QED
  BY <1>4, <1>5, <1>8, <1>9, <1>10

LEMMA FindsStep ==
  ASSUME Inv, NEW i \in Tasks, RecoveryFinds(i)
  PROVE  Inv'
<1> USE DEF Inv
<1> DEFINE goal == rec[i].goal
<1>1. /\ UNCHANGED <<tab, iframes, link, attaching, target_sessions, sessions, rank, clock,
                     seeking, closing, excused>>
      /\ rec[i].at \in {"polling", "awaiting", "emergency"} /\ Tracked(goal)
      /\ focus' = goal
  BY DEF RecoveryFinds, browserVars, tabVars, poolVars
<1>2. goal \in Targets \ iframes /\ tab[goal] # "none" /\ goal \in 0 .. MaxTargets
  BY <1>1, Bounds DEF AfterPages, Targets
<1>3. PoolAgrees' /\ Born' /\ SeeksTarget' /\ FocusTracked'
  BY <1>1, <1>2 DEF PoolAgrees, Born, SeeksTarget, FocusTracked, Tracked
<1>4. CASE rec[i].at = "polling"
  <2>1. Goes(i, "activating", goal) /\ UNCHANGED <<in_progress, asked, pending>>
    BY <1>4 DEF RecoveryFinds
  <2>2. /\ rec' \in [Tasks -> [at : TaskPlaces, lost : 0 .. MaxTargets, goal : 0 .. MaxTargets]]
        /\ rec'[i].at = "activating" /\ rec'[i].goal = goal
        /\ \A j \in Tasks \ {i} : rec'[j] = rec[j]
    BY <1>2, <2>1, GoesFacts DEF TaskPlaces
  <2>3. TypeOK'
    BY <1>1, <1>2, <2>1, <2>2 DEF TypeOK
  <2>4. AfterPages'
    BY <1>1, <1>2, <2>2 DEF AfterPages
  <2>5. WaitersHeld' /\ OneWorks'
    BY <1>1, <2>1, <2>2 DEF WaitersHeld, OneWorks, Working
  <2> QED
    BY <1>3, <2>3, <2>4, <2>5
<1>5. CASE rec[i].at # "polling"
  <2>1. Finish(i) /\ pending' = pending \cup {<<"focus", goal>>}
    BY <1>5 DEF RecoveryFinds
  <2>2. pending' \subseteq {"focus", "closed"} \X Targets
    <3>1. <<"focus", goal>> \in {"focus", "closed"} \X Targets
      BY <1>2
    <3> QED
      BY <2>1, <3>1 DEF TypeOK
  <2>3. TypeOK'
    BY <1>1, <1>2, <2>1, <2>2, FinishFacts DEF TypeOK
  <2>4. rec[i].at \in Working
    BY <1>1 DEF Working
  <2> QED
    BY <1>1, <1>3, <2>1, <2>3, <2>4, FinishKeeps
<1> QED
  BY <1>4, <1>5

LEMMA PollsStep ==
  ASSUME Inv, NEW i \in Tasks, RecoveryPollsInVain(i)
  PROVE  Inv'
<1> USE DEF Inv
<1>1. /\ UNCHANGED <<tab, iframes, link, attaching, target_sessions, sessions, rank, clock,
                     focus, in_progress, seeking, pending, closing, asked, excused>>
      /\ rec[i].at \in {"polling", "awaiting"} /\ Goes(i, "fallback", 0)
  BY DEF RecoveryPollsInVain, browserVars, tabVars, poolVars, busVars
<1>2. /\ rec' \in [Tasks -> [at : TaskPlaces, lost : 0 .. MaxTargets, goal : 0 .. MaxTargets]]
      /\ rec'[i].at = "fallback"
      /\ \A j \in Tasks \ {i} : rec'[j] = rec[j]
  BY <1>1, GoesFacts, Bounds DEF TaskPlaces
<1>3. TypeOK'
  BY <1>1, <1>2 DEF TypeOK
<1>4. PoolAgrees' /\ Born' /\ SeeksTarget' /\ FocusTracked'
  BY <1>1 DEF PoolAgrees, Born, SeeksTarget, FocusTracked, Tracked
<1>5. AfterPages' /\ WaitersHeld' /\ OneWorks'
  BY <1>1, <1>2 DEF AfterPages, WaitersHeld, OneWorks, Working
<1> QED
  BY <1>3, <1>4, <1>5

(* The handlers of the bus touch neither the pool nor the recoveries; they   *)
(* may open or close a tab, and move the focus to a page with a session.     *)
LEMMA BusKeeps ==
  ASSUME Inv, UNCHANGED <<iframes, link, attaching, target_sessions, sessions, rank, clock,
                          in_progress, rec, excused>>,
         tab' \in [Targets -> {"none", "open", "closed"}],
         \A t \in Targets : tab[t] # "none" => tab'[t] # "none",
         seeking' = NoSeek \/ (seeking'.target \in Targets /\ seeking' \in [target : 0 .. MaxTargets, by : Handlers]),
         pending' \subseteq {"focus", "closed"} \X Targets,
         closing' \in 0 .. MaxTargets,
         asked' \in {"no", "released", asked} \/ (asked' = "waiting" /\ in_progress),
         focus' = focus \/ (focus' \in Targets \ iframes /\ Tracked(focus'))
  PROVE  Inv'
<1> USE DEF Inv
<1>1. TypeOK'
  <2>1. seeking' \in [target : 0 .. MaxTargets, by : Handlers]
    BY Bounds DEF NoSeek, Handlers
  <2>2. focus' \in 0 .. MaxTargets /\ asked' \in {"no", "waiting", "released"}
    BY Bounds DEF TypeOK, Targets
  <2> QED
    BY <2>1, <2>2 DEF TypeOK
<1>2. PoolAgrees' /\ SeeksTarget' /\ FocusTracked' /\ WaitersHeld' /\ OneWorks'
  BY DEF PoolAgrees, SeeksTarget, FocusTracked, WaitersHeld, OneWorks, Tracked
<1>3. Born' /\ AfterPages'
  <2>1. \A s \in sessions \cup attaching : s[1] \in Targets
    BY SessionTarget DEF TypeOK
  <2> QED
    BY <2>1 DEF Born, AfterPages, TypeOK
<1> QED
  BY <1>1, <1>2, <1>3

LEMMA SeekFacts ==
  ASSUME NEW t \in Targets, NEW h \in Handlers, Seek(t, h)
  PROVE  seeking'.target \in Targets /\ seeking' \in [target : 0 .. MaxTargets, by : Handlers]
BY Bounds DEF Seek, Targets

LEMMA SeekNewestFacts ==
  ASSUME Inv, SeekNewest
  PROVE  seeking' = seeking \/ (seeking'.target \in Targets /\ seeking' \in [target : 0 .. MaxTargets, by : Handlers])
<1>1. CASE focus = 0
  BY <1>1 DEF SeekNewest
<1>2. CASE focus # 0
  <2>1. focus \in Targets
    BY <1>2, Bounds DEF Inv, TypeOK, Targets
  <2>2. focus \in Pages
    BY <1>2, <2>1 DEF Inv, FocusTracked, PoolAgrees, Pages
  <2>3. Newest \in Targets
    BY <2>2, NewestIsPage DEF Inv, TypeOK, Pages
  <2> QED
    BY <1>2, <2>3, SeekFacts DEF SeekNewest, Handlers
<1> QED
  BY <1>1, <1>2

LEMMA CommandStep ==
  ASSUME Inv, NEW t \in Targets, SwitchTab(t) \/ CloseTab(t) \/ NavigateNewTab
  PROVE  Inv'
<1> USE DEF Inv
<1>0. t \in 0 .. MaxTargets /\ "switch" \in Handlers /\ "navigate" \in Handlers
  BY Bounds DEF Targets, Handlers
<1>1. /\ UNCHANGED <<iframes, link, attaching, target_sessions, sessions, rank, clock, focus,
                     in_progress, rec, pending, asked, excused>>
      /\ closing' \in {closing, t}
  BY DEF SwitchTab, CloseTab, NavigateNewTab, browserVars, tabVars, poolVars
<1>2. /\ seeking' = seeking \/ (seeking'.target \in Targets /\ seeking' \in [target : 0 .. MaxTargets, by : Handlers])
      /\ tab' \in [Targets -> {"none", "open", "closed"}]
      /\ \A u \in Targets : tab[u] # "none" => tab'[u] # "none"
  <2>1. CASE SwitchTab(t)
    BY <1>0, <2>1, SeekFacts DEF SwitchTab, browserVars, tabVars, TypeOK
  <2>2. CASE CloseTab(t)
    BY <2>2, SeekNewestFacts DEF CloseTab, browserVars, tabVars, TypeOK
  <2>3. CASE NavigateNewTab
    <3>1. PICK u \in Targets : Seek(u, "navigate") /\ (tab' = tab \/ tab' = [tab EXCEPT ![u] = "open"])
      BY <2>3 DEF NavigateNewTab, Pages, Unborn, Opens
    <3> QED
      BY <1>0, <3>1, SeekFacts DEF TypeOK
  <2> QED
    BY <2>1, <2>2, <2>3
<1>3. seeking' = NoSeek \/ (seeking'.target \in Targets /\ seeking' \in [target : 0 .. MaxTargets, by : Handlers])
  BY <1>2 DEF SeeksTarget, TypeOK
<1>4. pending' \subseteq {"focus", "closed"} \X Targets /\ closing' \in 0 .. MaxTargets
  BY <1>0, <1>1 DEF TypeOK
<1>5. asked' \in {"no", "released", asked} /\ focus' = focus
  BY <1>1
<1> QED
  BY <1>1, <1>2, <1>3, <1>4, <1>5, BusKeeps

LEMMA EventStep ==
  ASSUME Inv, NEW t \in Targets, FocusChanged(t) \/ TabClosed(t)
  PROVE  Inv'
<1> USE DEF Inv
<1>1. /\ UNCHANGED <<tab, iframes, link, attaching, target_sessions, sessions, rank, clock, focus,
                     in_progress, rec, closing, asked, excused>>
      /\ pending' \subseteq pending
  BY DEF FocusChanged, TabClosed, browserVars, tabVars, poolVars
<1>2. seeking' = seeking \/ (seeking'.target \in Targets /\ seeking' \in [target : 0 .. MaxTargets, by : Handlers])
  <2>1. CASE FocusChanged(t)
    BY <2>1, SeekFacts DEF FocusChanged, Handlers
  <2>2. CASE TabClosed(t)
    BY <2>2, SeekNewestFacts DEF TabClosed
  <2> QED
    BY <2>1, <2>2
<1>3. seeking' = NoSeek \/ (seeking'.target \in Targets /\ seeking' \in [target : 0 .. MaxTargets, by : Handlers])
  BY <1>2 DEF SeeksTarget, TypeOK
<1>4. /\ pending' \subseteq {"focus", "closed"} \X Targets /\ closing' \in 0 .. MaxTargets
      /\ tab' \in [Targets -> {"none", "open", "closed"}]
      /\ \A u \in Targets : tab[u] # "none" => tab'[u] # "none"
  BY <1>1 DEF TypeOK
<1>5. asked' \in {"no", "released", asked} /\ focus' = focus
  BY <1>1
<1> QED
  BY <1>1, <1>3, <1>4, <1>5, BusKeeps

LEMMA SoughtStep ==
  ASSUME Inv, SessionFound \/ SessionNotFound
  PROVE  Inv'
<1> USE DEF Inv
<1>1. /\ UNCHANGED <<tab, iframes, link, attaching, target_sessions, sessions, rank, clock,
                     in_progress, rec, closing, asked, excused>>
      /\ ~Idle /\ seeking' = NoSeek
      /\ pending' \in {pending, pending \cup {<<"focus", seeking.target>>}}
  BY DEF SessionFound, SessionNotFound, browserVars, tabVars, poolVars
<1>2. seeking.target \in Targets
  BY <1>1 DEF Idle, SeeksTarget
<1>3. pending' \subseteq {"focus", "closed"} \X Targets
  <2>1. <<"focus", seeking.target>> \in {"focus", "closed"} \X Targets
    BY <1>2
  <2> QED
    BY <1>1, <2>1 DEF TypeOK
<1>4. focus' = focus \/ (focus' \in Targets \ iframes /\ Tracked(focus'))
  BY <1>2 DEF SessionFound, SessionNotFound
<1>5. /\ closing' \in 0 .. MaxTargets /\ asked' \in {"no", "released", asked}
      /\ tab' \in [Targets -> {"none", "open", "closed"}]
      /\ \A u \in Targets : tab[u] # "none" => tab'[u] # "none"
  BY <1>1 DEF TypeOK
<1> QED
  BY <1>1, <1>3, <1>4, <1>5, BusKeeps

LEMMA CloseStep ==
  ASSUME Inv, EnsureValidFocus \/ FocusAwaited \/ FocusTimedOut
  PROVE  Inv'
<1> USE DEF Inv
<1>1. UNCHANGED <<link, attaching, target_sessions, sessions, rank, clock, focus,
                  in_progress, rec, seeking, pending, excused>>
  BY DEF EnsureValidFocus, FocusAwaited, FocusTimedOut, browserVars, poolVars
<1>2. /\ iframes' = iframes
      /\ tab' = tab \/ tab' = [tab EXCEPT ![closing] = "closed"]
      /\ closing' \in {closing, 0}
  BY DEF EnsureValidFocus, FocusAwaited, FocusTimedOut, SendClose, Closes, browserVars, tabVars
<1>3. asked' \in {"no", "released", asked} \/ (asked' = "waiting" /\ in_progress)
  BY DEF EnsureValidFocus, FocusAwaited, FocusTimedOut
<1>4. /\ closing' \in 0 .. MaxTargets
      /\ tab' \in [Targets -> {"none", "open", "closed"}]
      /\ \A u \in Targets : tab[u] # "none" => tab'[u] # "none"
      /\ pending' \subseteq {"focus", "closed"} \X Targets
  BY <1>1, <1>2, Bounds DEF TypeOK
<1>5. seeking' = NoSeek \/ (seeking'.target \in Targets /\ seeking' \in [target : 0 .. MaxTargets, by : Handlers])
  BY <1>1 DEF SeeksTarget, TypeOK
<1> QED
  BY <1>1, <1>2, <1>3, <1>4, <1>5, BusKeeps

LEMMA StepInv == ASSUME Inv, [Next]_vars PROVE Inv'
<1>1. CASE UNCHANGED vars
  BY <1>1 DEF vars, browserVars, tabVars, poolVars, busVars, Inv, TypeOK, PoolAgrees, Born,
     AfterPages, SeeksTarget, FocusTracked, WaitersHeld, OneWorks, Tracked
<1>2. ASSUME NEW i \in Tasks, RecoveryStep(i) PROVE Inv'
  BY <1>2, StartsStep, EndsStep, CreatesStep, FindsStep, PollsStep DEF RecoveryStep
<1>3. CASE BusStep
  <2>1. 1 \in Targets
    BY Bounds DEF Targets
  <2> QED
    BY <1>3, <2>1, CommandStep, EventStep, SoughtStep, CloseStep DEF BusStep
<1> QED
  BY <1>1, <1>2, <1>3, BrowserStep, AttachStep, DetachStep DEF Next

(* The maps of the session pool agree, whatever order targets and sessions   *)
(* come and go in, and nobody waits for a recovery that is over.             *)
THEOREM ConsistentHolds == Spec => []Consistent
<1>1. Inv => Consistent
  BY DEF Inv, Consistent
<1> QED
  BY <1>1, InitInv, StepInv, PTL DEF Spec

(* The agent's focus is on no page or on one with a session, and never on an *)
(* iframe, through any interleaving of events, handlers and recoveries.      *)
THEOREM FocusTrackedHolds == Spec => []FocusTracked
<1>1. Inv => FocusTracked
  BY DEF Inv
<1> QED
  BY <1>1, InitInv, StepInv, PTL DEF Spec

(* One recovery works at a time, unless one that waited behind it gave up.   *)
THEOREM OneRecoveryHolds == Spec => []OneRecovery
<1>1. Inv => OneRecovery
  <2> SUFFICES ASSUME Inv, "overran" \notin excused
               PROVE  Cardinality({i \in Tasks : rec[i].at \in Working}) <= 1
    BY DEF OneRecovery
  <2> DEFINE W == {i \in Tasks : rec[i].at \in Working}
  <2>1. CASE W = {}
    BY <2>1, FS_EmptySet
  <2>2. ASSUME NEW i \in W PROVE Cardinality(W) <= 1
    <3>1. W = {i}
      BY DEF Inv, OneWorks
    <3>2. Cardinality({i}) = 1
      BY FS_Singleton
    <3> QED
      BY <3>1, <3>2
  <2> QED
    BY <2>1, <2>2
<1> QED
  BY <1>1, InitInv, StepInv, PTL DEF Spec

-----------------------------------------------------------------------------
(* Who brings a lost focus back                                              *)

Searching == {"polling", "creating", "awaiting", "fallback", "emergency"}

(* Unless a reason is named, a lost focus has a task that has yet to find a  *)
(* page or is about to begin; the flag is up only while one works; and the   *)
(* page a task activates is still the focus.                                 *)
FocusSought ==
  excused = {} =>
    /\ focus = 0 => \E i \in Tasks : rec[i].at \in Searching \cup {"queued"}
    /\ in_progress => \E i \in Tasks : rec[i].at \in Working
    /\ \A i \in Tasks : rec[i].at = "activating" => focus # 0

LEMMA SoughtIfUnmoved ==
  ASSUME FocusSought, UNCHANGED <<in_progress, rec, excused>>, focus' = focus \/ focus' # 0
  PROVE  FocusSought'
BY DEF FocusSought

LEMMA SoughtDetach ==
  ASSUME Inv, FocusSought, NEW s \in Sessions, Detached(s)
  PROVE  FocusSought'
<1> SUFFICES ASSUME excused' = {} PROVE FocusSought'
  BY DEF FocusSought
<1> DEFINE lost == LastOf(s) /\ focus = s[1]
<1>1. /\ UNCHANGED in_progress
      /\ focus' = IF lost THEN 0 ELSE focus
      /\ IF lost /\ ~in_progress THEN Spawn(s[1]) ELSE UNCHANGED rec
      /\ excused' = IF lost THEN excused \cup Missed ELSE excused
  BY DEF Detached
<1>2. excused = {}
  BY <1>1
<1>3. CASE ~lost
  BY <1>1, <1>3, SoughtIfUnmoved
<1>4. CASE lost
  <2>1. Missed = {} /\ focus' = 0
    BY <1>1, <1>4
  <2>2. \A i \in Tasks : rec[i].at # "activating"
    BY <2>1 DEF Missed
  <2>3. CASE in_progress
    BY <1>1, <1>2, <1>4, <2>1, <2>2, <2>3 DEF FocusSought, Working, Searching
  <2>4. CASE ~in_progress
    <3>1. PICK i \in Tasks : rec' = [rec EXCEPT ![i] = [at |-> "queued", lost |-> s[1], goal |-> 0]]
      BY <1>1, <1>4, <2>4 DEF Spawn
    <3>2. rec'[i].at = "queued" /\ \A j \in Tasks : rec'[j].at # "activating"
      BY <2>2, <3>1 DEF Inv, TypeOK
    <3> QED
      BY <1>1, <2>4, <3>2 DEF FocusSought
  <2> QED
    BY <2>3, <2>4
<1> QED
  BY <1>3, <1>4

LEMMA SoughtRecovery ==
  ASSUME Inv, FocusSought, NEW i \in Tasks, RecoveryStep(i)
  PROVE  FocusSought'
<1> SUFFICES ASSUME excused' = {} PROVE FocusSought'
  BY DEF FocusSought
<1>t. TypeOK /\ TaskPlaces = Working \cup {"none", "queued", "waiting", "released"}
  BY DEF Inv, TaskPlaces, Working
<1>0. excused = {}
  BY DEF RecoveryStep, RecoveryStarts, WaiterReturns, RecoveryCreates, RecoveryFails,
     RecoveryFinds, RecoveryPollsInVain, RecoveryActivated
<1>1. /\ focus = 0 => \E j \in Tasks : rec[j].at \in Searching \cup {"queued"}
      /\ in_progress => \E j \in Tasks : rec[j].at \in Working
      /\ \A j \in Tasks : rec[j].at = "activating" => focus # 0
  BY <1>0 DEF FocusSought
\* a task that goes on searching is the one looked for
<1>2. ASSUME NEW place \in Searching, NEW goal \in 0 .. MaxTargets, Goes(i, place, goal), focus' = focus
      PROVE  FocusSought'
  <2>1. rec'[i].at = place /\ \A j \in Tasks \ {i} : rec'[j] = rec[j]
    BY <1>t, <1>2, GoesFacts DEF Searching, TaskPlaces
  <2> QED
    BY <1>1, <1>2, <2>1 DEF FocusSought, Searching, Working
\* a task that ends with the focus in place, or leaves those that search as they are
<1>3. ASSUME Finish(i),
             \/ focus' # 0
             \/ focus' = focus /\ rec[i].at \notin Searching \cup {"queued"}
      PROVE  FocusSought'
  <2>1. in_progress' = FALSE
    BY <1>3 DEF Finish
  <2>2. \A j \in Tasks : rec'[j].at = "activating" => rec[j].at = "activating"
    BY <1>t, <1>3, FinishFacts DEF Working
  <2>3. \A j \in Tasks : j # i /\ rec[j].at # "waiting" => rec'[j] = rec[j]
    BY <1>3 DEF Finish
  <2>4. CASE focus' # 0
    BY <2>1, <2>4 DEF FocusSought
  <2>5. CASE focus' = focus /\ rec[i].at \notin Searching \cup {"queued"}
    BY <1>1, <2>1, <2>2, <2>3, <2>5 DEF FocusSought, Searching
  <2> QED
    BY <1>3, <2>4, <2>5
<1>4. CASE RecoveryStarts(i)
  <2>1. rec[i].at = "queued" /\ focus' = focus
    BY <1>4 DEF RecoveryStarts
  <2>2. CASE in_progress
    <3>1. /\ rec'[i].at = "waiting" /\ in_progress'
          /\ \A j \in Tasks \ {i} : rec'[j] = rec[j]
      BY <1>t, <1>4, <2>2, GoesFacts, Bounds DEF RecoveryStarts, TaskPlaces
    <3>2. PICK j \in Tasks : rec[j].at \in Working
      BY <1>1, <2>2
    <3>3. j # i /\ (focus = 0 => rec[j].at \in Searching)
      BY <1>1, <2>1, <3>2 DEF Working, Searching
    <3> QED
      BY <1>1, <2>1, <3>1, <3>2, <3>3 DEF FocusSought
  <2>3. CASE ~in_progress /\ focus \notin {0, rec[i].lost}
    BY <1>3, <1>4, <2>1, <2>3 DEF RecoveryStarts
  <2>4. CASE ~in_progress /\ focus \in {0, rec[i].lost}
    <3>1. Pages # {} => Newest \in 0 .. MaxTargets
      BY <1>t, NewestIsPage, Bounds DEF TypeOK, Pages, Targets
    <3>2. \/ Goes(i, "polling", Newest) /\ Newest \in 0 .. MaxTargets
          \/ Goes(i, "creating", 0) /\ 0 \in 0 .. MaxTargets
      BY <1>4, <2>4, <3>1, Bounds DEF RecoveryStarts
    <3> QED
      BY <1>2, <2>1, <3>2 DEF Searching
  <2> QED
    BY <2>2, <2>3, <2>4
<1>5. CASE WaiterReturns(i)
  <2>1. Finish(i) /\ focus' = focus /\ rec[i].at = "released"
    BY <1>5 DEF WaiterReturns
  <2> QED
    BY <1>3, <2>1 DEF Searching
<1>6. CASE RecoveryCreates(i)
  <2>1. PICK t \in Targets : Goes(i, "awaiting", t) \/ Goes(i, "emergency", t)
    BY <1>6 DEF RecoveryCreates, Unborn
  <2>2. t \in 0 .. MaxTargets /\ focus' = focus
    BY <1>6, Bounds DEF RecoveryCreates, Targets
  <2> QED
    BY <1>2, <2>1, <2>2 DEF Searching
<1>7. CASE RecoveryFails(i)
  BY <1>7 DEF RecoveryFails
<1>8. CASE RecoveryFinds(i)
  <2>1. focus' = rec[i].goal /\ rec[i].goal \in Targets /\ focus' # 0
    BY <1>8, Bounds DEF RecoveryFinds, Inv, AfterPages, Targets
  <2>2. CASE rec[i].at = "polling"
    <3>1. rec[i].goal \in 0 .. MaxTargets
      BY <2>1, Bounds DEF Targets
    <3>2. rec'[i].at = "activating"
      BY <1>t, <1>8, <2>2, <3>1, GoesFacts DEF RecoveryFinds, TaskPlaces
    <3> QED
      BY <2>1, <3>2 DEF FocusSought, Working
  <2>3. CASE rec[i].at # "polling"
    BY <1>3, <1>8, <2>1, <2>3 DEF RecoveryFinds
  <2> QED
    BY <2>2, <2>3
<1>9. CASE RecoveryPollsInVain(i)
  <2>1. Goes(i, "fallback", 0) /\ focus' = focus /\ 0 \in 0 .. MaxTargets
    BY <1>9, Bounds DEF RecoveryPollsInVain
  <2> QED
    BY <1>2, <2>1 DEF Searching
<1>10. CASE RecoveryActivated(i)
  <2>1. Finish(i) /\ rec[i].at = "activating" /\ focus' = focus
    BY <1>10 DEF RecoveryActivated
  <2> QED
    BY <1>3, <2>1 DEF Searching
<1> QED
  BY <1>4, <1>5, <1>6, <1>7, <1>8, <1>9, <1>10 DEF RecoveryStep

LEMMA FocusSoughtStep == ASSUME Inv, FocusSought, [Next]_vars PROVE FocusSought'
<1>1. CASE UNCHANGED vars
  BY <1>1, SoughtIfUnmoved DEF vars
<1>2. ASSUME NEW t \in Targets, NewTab(t) \/ NewIframe(t) \/ TargetCloses(t) PROVE FocusSought'
  BY <1>2, SoughtIfUnmoved DEF NewTab, NewIframe, TargetCloses
<1>3. ASSUME NEW s \in Sessions, Attached(s) \/ Registered(s) PROVE FocusSought'
  BY <1>3, SoughtIfUnmoved DEF Attached, Registered
<1>4. ASSUME NEW t \in Targets, SwitchTab(t) \/ FocusChanged(t) \/ TabClosed(t) \/ CloseTab(t)
      PROVE  FocusSought'
  BY <1>4, SoughtIfUnmoved DEF SwitchTab, FocusChanged, TabClosed, CloseTab
<1>5. CASE SessionFound
  <2>1. focus' = focus \/ focus' # 0
    <3>1. seeking.target \in Targets
      BY <1>5 DEF SessionFound, Idle, Inv, SeeksTarget
    <3> QED
      BY <1>5, <3>1, Bounds DEF SessionFound, Targets
  <2> QED
    BY <1>5, <2>1, SoughtIfUnmoved DEF SessionFound
<1>6. CASE NavigateNewTab \/ SessionNotFound \/ EnsureValidFocus \/ FocusAwaited \/ FocusTimedOut
  BY <1>6, SoughtIfUnmoved
     DEF NavigateNewTab, SessionNotFound, EnsureValidFocus, FocusAwaited, FocusTimedOut
<1> QED
  BY <1>1, <1>2, <1>3, <1>4, <1>5, <1>6, SoughtDetach, SoughtRecovery DEF Next, BusStep

(* Unless the browser refused a tab, a waiting recovery overran or the page  *)
(* just chosen went away, a lost focus always has a recovery task that has   *)
(* not looked for a page yet, however many detached events came while others *)
(* worked or waited (_handle_target_detached spawns none during a recovery). *)
THEOREM FocusSoughtHolds == Spec => []FocusSought
<1>1. Init => FocusSought
  BY DEF Init, FocusSought, NoTask, Working
<1>2. Inv /\ FocusSought /\ [Next]_vars => Inv' /\ FocusSought'
  BY StepInv, FocusSoughtStep
<1> QED
  BY <1>1, <1>2, InitInv, PTL DEF Spec
==============================================================================
