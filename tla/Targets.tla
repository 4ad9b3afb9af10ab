------------------------------- MODULE Targets -------------------------------
(***************************************************************************)
(* Which tabs a BrowserSession knows and which one the agent works in:      *)
(* browser_use/browser/session_manager.py (the pool kept by the attached    *)
(* and detached events, and the recovery of a lost focus) with the handlers *)
(* of browser_use/browser/session.py that move the focus.  One connection,  *)
(* from the moment connect() has focused a page.                            *)
(*                                                                         *)
(* The events become tasks that asyncio runs in their order of arrival, so  *)
(* a handler runs up to its first await at once; its locked sections hold   *)
(* no await, so the lock is never contended.  Sessions are <<target, n>>;   *)
(* pending events of the bus are a set: their order is not kept.            *)
(***************************************************************************)
EXTENDS Naturals, FiniteSets

CONSTANTS
  MaxTargets,     \* bound: targets the browser creates, target 1 the first page
  Doubled,        \* bound: targets a second session may attach to
  MaxIframes,     \* bound: iframes among the targets
  MaxTasks,       \* bound: recovery tasks alive at once
  MaxPending      \* bound: a command comes while fewer events than this wait

Targets == 1 .. MaxTargets
Sessions == {s \in Targets \X {1, 2} : s[2] = 1 \/ s[1] \in Doubled}
Tasks == 1 .. MaxTasks

ASSUME Bounds ==
  /\ MaxTargets \in Nat \ {0} /\ MaxIframes \in Nat /\ MaxTasks \in Nat \ {0}
  /\ MaxPending \in Nat
  /\ Doubled \subseteq Targets

VARIABLES
  tab,             \* the browser's own targets
  iframes,         \* those that are no pages
  link,            \* the browser's own sessions
  attaching,       \* sessions whose attached handler awaits setAutoAttach
  target_sessions, \* _target_sessions; {} for a target that is not tracked
  sessions,        \* keys of _sessions and of _session_to_target
  rank, clock,     \* when a target entered _targets (0: it is not there)
  focus,           \* agent_focus_target_id, 0 for None
  in_progress,     \* _recovery_in_progress
  rec,             \* the recovery tasks
  seeking,         \* the target a handler of the bus waits for, and which handler
  pending,         \* TabClosedEvents and AgentFocusChangedEvents not handled yet
  closing,         \* the target a CloseTabEvent is about
  asked,           \* ensure_valid_focus of that handler
  excused          \* ghost: why a lost focus may stay lost

tabVars == <<tab, iframes>>
browserVars == <<tabVars, link>>
poolVars == <<target_sessions, sessions, rank, clock>>
busVars == <<seeking, pending, closing>>
vars == <<browserVars, attaching, poolVars, focus, in_progress, rec, busVars, asked, excused>>

TaskPlaces == {"none", "queued", "waiting", "released", "polling", "creating",
               "awaiting", "activating", "fallback", "emergency"}
Working == {"polling", "creating", "awaiting", "activating", "fallback", "emergency"}
Handlers == {"none", "switch", "navigate", "event"}

NoTask == [at |-> "none", lost |-> 0, goal |-> 0]
NoSeek == [target |-> 0, by |-> "none"]
Idle == seeking = NoSeek

Tracked(t) == target_sessions[t] # {}
Pages == {t \in Targets : rank[t] # 0} \ iframes
Newest == CHOOSE t \in Pages : \A u \in Pages : rank[u] <= rank[t]
Unborn == {t \in Targets : tab[t] = "none"}

Init ==
  /\ tab = [t \in Targets |-> IF t = 1 THEN "open" ELSE "none"]
  /\ iframes = {}
  /\ link = [s \in Sessions |-> IF s = <<1, 1>> THEN "attached" ELSE "none"]
  /\ attaching = {} /\ sessions = {<<1, 1>>} /\ clock = 1
  /\ target_sessions = [t \in Targets |-> IF t = 1 THEN {<<1, 1>>} ELSE {}]
  /\ rank = [t \in Targets |-> IF t = 1 THEN 1 ELSE 0]
  /\ focus = 1 /\ in_progress = FALSE /\ rec = [i \in Tasks |-> NoTask]
  /\ seeking = NoSeek /\ pending = {} /\ closing = 0 /\ asked = "no" /\ excused = {}

-----------------------------------------------------------------------------
(* The browser, and the events it sends                                      *)

Opens(t) == t \in Unborn /\ tab' = [tab EXCEPT ![t] = "open"]

NewTab(t) ==
  /\ Opens(t)
  /\ UNCHANGED <<iframes, link, attaching, poolVars, focus, in_progress, rec, busVars, asked, excused>>

NewIframe(t) ==
  /\ Opens(t) /\ Cardinality(iframes) < MaxIframes /\ iframes' = iframes \cup {t}
  /\ UNCHANGED <<link, attaching, poolVars, focus, in_progress, rec, busVars, asked, excused>>

Closes(t) == UNCHANGED iframes /\ tab' = [tab EXCEPT ![t] = "closed"]

TargetCloses(t) ==
  /\ tab[t] = "open" /\ Closes(t)
  /\ UNCHANGED <<link, attaching, poolVars, focus, in_progress, rec, busVars, asked, excused>>

\* Target.attachedToTarget: its handler asks the new session to attach its children
Attached(s) ==
  /\ tab[s[1]] = "open" /\ link[s] = "none"
  /\ link' = [link EXCEPT ![s] = "attached"] /\ attaching' = attaching \cup {s}
  /\ UNCHANGED <<tabVars, poolVars, focus, in_progress, rec, busVars, asked, excused>>

\* answered or refused, the handler goes on: the session and its target are tracked
Registered(s) ==
  /\ s \in attaching /\ attaching' = attaching \ {s}
  /\ target_sessions' = [target_sessions EXCEPT ![s[1]] = @ \cup {s}]
  /\ sessions' = sessions \cup {s}
  /\ IF rank[s[1]] = 0 THEN clock' = clock + 1 /\ rank' = [rank EXCEPT ![s[1]] = clock']
                       ELSE UNCHANGED <<rank, clock>>
  /\ UNCHANGED <<browserVars, focus, in_progress, rec, busVars, asked, excused>>

Spawn(t) ==
  \E i \in Tasks : /\ rec[i].at = "none"
                   /\ rec' = [rec EXCEPT ![i] = [at |-> "queued", lost |-> t, goal |-> 0]]

\* the recovery that is running has chosen its target, it will not look again
Missed == IF \E i \in Tasks : rec[i].at = "activating" THEN {"missed"} ELSE {}

LastOf(s) == target_sessions[s[1]] = {s}

\* Variant: the target stays listed after its last session.
DropsSessionOnly(s) ==
  /\ target_sessions' = [target_sessions EXCEPT ![s[1]] = @ \ {s}]
  /\ sessions' = sessions \ {s}
  /\ UNCHANGED <<rank, clock>>

\* the last session of a target takes it along
Drops(s) ==
  /\ target_sessions' = [target_sessions EXCEPT ![s[1]] = @ \ {s}]
  /\ sessions' = sessions \ {s}
  /\ rank' = IF LastOf(s) THEN [rank EXCEPT ![s[1]] = 0] ELSE rank
  /\ UNCHANGED clock

\* Target.detachedFromTarget: with its target the focus may be lost
Detached(s) ==
  LET t == s[1]
      removed == LastOf(s)
      lost == removed /\ focus = t
  IN /\ link[s] = "attached"
     /\ tab[t] = "closed" \/ \E r \in Sessions \ {s} : r[1] = t /\ link[r] = "attached"
     /\ link' = [link EXCEPT ![s] = "detached"]
     /\ Drops(s)
     /\ focus' = IF lost THEN 0 ELSE focus
     /\ pending' = IF removed /\ t \notin iframes THEN pending \cup {<<"closed", t>>} ELSE pending
     /\ IF lost /\ ~in_progress THEN Spawn(t) ELSE UNCHANGED rec
     /\ excused' = IF lost THEN excused \cup Missed ELSE excused
     /\ UNCHANGED <<tabVars, attaching, in_progress, seeking, closing, asked>>

-----------------------------------------------------------------------------
(* _recover_agent_focus                                                      *)

\* a task that waits for another one holds _recovery_lock meanwhile
LockHeld == \E i \in Tasks : rec[i].at \in {"waiting", "released"}

\* Variant: the flag is not reset.
FinishKeepingFlag(i) ==
  /\ rec' = [j \in Tasks |-> IF j = i THEN NoTask
                             ELSE IF rec[j].at = "waiting" THEN [rec[j] EXCEPT !.at = "released"]
                             ELSE rec[j]]
  /\ asked' = IF asked = "waiting" THEN "released" ELSE asked
  /\ UNCHANGED in_progress

\* the finally block, of whichever task: every waiter of the event is released
Finish(i) ==
  /\ in_progress' = FALSE
  /\ rec' = [j \in Tasks |-> IF j = i THEN NoTask
                             ELSE IF rec[j].at = "waiting" THEN [rec[j] EXCEPT !.at = "released"]
                             ELSE rec[j]]
  /\ asked' = IF asked = "waiting" THEN "released" ELSE asked

Goes(i, place, goal) == rec' = [rec EXCEPT ![i].at = place, ![i].goal = goal]

\* Variant: without the lock and the check of _recovery_in_progress.
RecoveryStartsAnyway(i) ==
  /\ rec[i].at = "queued"
  /\ in_progress' = TRUE /\ UNCHANGED asked
  /\ IF Pages # {} THEN Goes(i, "polling", Newest) ELSE Goes(i, "creating", 0)
  /\ UNCHANGED <<browserVars, attaching, poolVars, focus, busVars, excused>>

\* the most recent page, or a new one; nothing to do if the focus has moved on
RecoveryStarts(i) ==
  /\ rec[i].at = "queued" /\ ~LockHeld
  /\ IF in_progress THEN Goes(i, "waiting", 0) /\ UNCHANGED <<in_progress, asked>>
     ELSE IF focus \notin {0, rec[i].lost} THEN Finish(i)
     ELSE /\ in_progress' = TRUE /\ UNCHANGED asked
          /\ IF Pages # {} THEN Goes(i, "polling", Newest) ELSE Goes(i, "creating", 0)
  /\ UNCHANGED <<browserVars, attaching, poolVars, focus, busVars, excused>>

\* the other recovery is over, or five seconds have passed
WaiterReturns(i) ==
  /\ rec[i].at \in {"waiting", "released"} /\ Finish(i)
  /\ excused' = IF rec[i].at = "waiting" THEN excused \cup {"overran"} ELSE excused
  /\ UNCHANGED <<browserVars, attaching, poolVars, focus, busVars>>

RecoveryCreates(i) ==
  /\ rec[i].at \in {"creating", "fallback"}
  /\ \E t \in Unborn :
       Opens(t) /\ Goes(i, IF rec[i].at = "creating" THEN "awaiting" ELSE "emergency", t)
  /\ UNCHANGED <<iframes, link, attaching, poolVars, focus, in_progress, busVars, asked, excused>>

\* createTarget raises, or not even the emergency tab gets a session
RecoveryFails(i) ==
  /\ \/ rec[i].at \in {"creating", "fallback"}
     \/ rec[i].at = "emergency" /\ ~Tracked(rec[i].goal)
  /\ Finish(i) /\ excused' = excused \cup {"failed"}
  /\ UNCHANGED <<browserVars, attaching, poolVars, focus, busVars>>

\* a page found in the pool is also activated, which awaits the browser
RecoveryFinds(i) ==
  /\ rec[i].at \in {"polling", "awaiting", "emergency"} /\ Tracked(rec[i].goal)
  /\ focus' = rec[i].goal
  /\ IF rec[i].at = "polling"
     THEN Goes(i, "activating", rec[i].goal) /\ UNCHANGED <<in_progress, asked, pending>>
     ELSE Finish(i) /\ pending' = pending \cup {<<"focus", rec[i].goal>>}
  /\ UNCHANGED <<browserVars, attaching, poolVars, seeking, closing, excused>>

\* twenty polls in vain
RecoveryPollsInVain(i) ==
  /\ rec[i].at \in {"polling", "awaiting"} /\ ~Tracked(rec[i].goal)
  /\ Goes(i, "fallback", 0)
  /\ UNCHANGED <<browserVars, attaching, poolVars, focus, in_progress, busVars, asked, excused>>

RecoveryActivated(i) ==
  /\ rec[i].at = "activating" /\ Finish(i)
  /\ pending' = pending \cup {<<"focus", rec[i].goal>>}
  /\ UNCHANGED <<browserVars, attaching, poolVars, focus, seeking, closing, excused>>

-----------------------------------------------------------------------------
(* Handlers of the event bus, one at a time: get_or_create_cdp_session(t)     *)

Seek(t, handler) == seeking' = [target |-> t, by |-> handler]

\* Pages is never empty here: the focused page is one
SeekNewest == IF focus # 0 THEN Seek(Newest, "switch") ELSE UNCHANGED seeking

\* the agent's next command, which awaits what the one before it started
Command == Idle /\ closing = 0 /\ Cardinality(pending) < MaxPending

SwitchTab(t) ==
  /\ Command /\ focus # 0 /\ tab[t] # "none" /\ Seek(t, "switch")
  /\ UNCHANGED <<browserVars, attaching, poolVars, focus, in_progress, rec, pending,
                 closing, asked, excused>>

\* NavigateToUrlEvent(new_tab): another blank page, or a new one
NavigateNewTab ==
  /\ Command /\ focus # 0
  /\ \/ \E t \in Pages \ {focus} : Seek(t, "navigate") /\ UNCHANGED tab
     \/ \E t \in Unborn : Opens(t) /\ Seek(t, "navigate")
  /\ UNCHANGED <<iframes, link, attaching, poolVars, focus, in_progress, rec, pending,
                 closing, asked, excused>>

FocusChanged(t) ==
  /\ Idle /\ <<"focus", t>> \in pending
  /\ pending' = pending \ {<<"focus", t>>} /\ Seek(t, "event")
  /\ UNCHANGED <<browserVars, attaching, poolVars, focus, in_progress, rec, closing, asked, excused>>

TabClosed(t) ==
  /\ Idle /\ <<"closed", t>> \in pending
  /\ pending' = pending \ {<<"closed", t>>}
  /\ IF focus = t THEN SeekNewest ELSE UNCHANGED seeking
  /\ UNCHANGED <<browserVars, attaching, poolVars, focus, in_progress, rec, closing, asked, excused>>

\* Variant: the type of the target is not looked at.
SessionFoundOfAnyType ==
  /\ ~Idle /\ Tracked(seeking.target) /\ seeking' = NoSeek
  /\ focus' = seeking.target
  /\ pending' = IF seeking.by = "event" THEN pending
                ELSE pending \cup {<<"focus", seeking.target>>}
  /\ UNCHANGED <<browserVars, attaching, poolVars, in_progress, rec, closing, asked, excused>>

\* the session is there: only a page gets the focus; a switch is announced
SessionFound ==
  /\ ~Idle /\ Tracked(seeking.target) /\ seeking' = NoSeek
  /\ focus' = IF seeking.target \in iframes THEN focus ELSE seeking.target
  /\ pending' = IF seeking.by = "event" THEN pending
                ELSE pending \cup {<<"focus", seeking.target>>}
  /\ UNCHANGED <<browserVars, attaching, poolVars, in_progress, rec, closing, asked, excused>>

\* two seconds in vain; a failed navigation is announced all the same
SessionNotFound ==
  /\ ~Idle /\ ~Tracked(seeking.target) /\ seeking' = NoSeek
  /\ pending' = IF seeking.by = "navigate" THEN pending \cup {<<"focus", seeking.target>>}
                ELSE pending
  /\ UNCHANGED <<browserVars, attaching, poolVars, focus, in_progress, rec, closing, asked, excused>>

\* CloseTabEvent: the TabClosedEvent first, which may refocus the page being closed
CloseTab(t) ==
  /\ Command /\ tab[t] # "none" /\ closing' = t
  /\ IF focus = t THEN SeekNewest ELSE UNCHANGED seeking
  /\ UNCHANGED <<browserVars, attaching, poolVars, focus, in_progress, rec, pending, asked, excused>>

\* closeTarget needs a session of the focused target: ensure_valid_focus
SendClose ==
  /\ closing' = 0
  /\ IF focus # 0 /\ tab[closing] = "open" THEN Closes(closing) ELSE UNCHANGED tabVars

EnsureValidFocus ==
  /\ closing # 0 /\ Idle /\ asked = "no"
  /\ IF focus = 0 /\ in_progress
     THEN asked' = "waiting" /\ UNCHANGED <<tabVars, closing>>
     ELSE SendClose /\ UNCHANGED asked
  /\ UNCHANGED <<link, attaching, poolVars, focus, in_progress, rec, seeking, pending, excused>>

FocusAwaited ==
  /\ asked = "released" /\ asked' = "no" /\ SendClose
  /\ UNCHANGED <<link, attaching, poolVars, focus, in_progress, rec, seeking, pending, excused>>

FocusTimedOut ==
  /\ asked = "waiting" /\ asked' = "no" /\ closing' = 0
  /\ UNCHANGED <<browserVars, attaching, poolVars, focus, in_progress, rec, seeking, pending, excused>>

RecoveryStep(i) ==
  \/ RecoveryStarts(i) \/ WaiterReturns(i) \/ RecoveryCreates(i) \/ RecoveryFails(i)
  \/ RecoveryFinds(i) \/ RecoveryPollsInVain(i) \/ RecoveryActivated(i)

BusStep ==
  \/ \E t \in Targets : SwitchTab(t) \/ FocusChanged(t) \/ TabClosed(t) \/ CloseTab(t)
  \/ NavigateNewTab \/ SessionFound \/ SessionNotFound
  \/ EnsureValidFocus \/ FocusAwaited \/ FocusTimedOut

Next ==
  \/ \E t \in Targets : NewTab(t) \/ NewIframe(t) \/ TargetCloses(t)
  \/ \E s \in Sessions : Attached(s) \/ Registered(s) \/ Detached(s)
  \/ \E i \in Tasks : RecoveryStep(i)
  \/ BusStep

Spec == Init /\ [][Next]_vars

\* the browser attaches what it opens, and the event loop runs every task
FairSpec ==
  /\ Spec
  /\ \A i \in Tasks : WF_vars(RecoveryStep(i))
  /\ \A s \in Sessions : WF_vars(Registered(s)) /\ WF_vars(Attached(s))

-----------------------------------------------------------------------------
TypeOK ==
  /\ tab \in [Targets -> {"none", "open", "closed"}]
  /\ iframes \subseteq Targets
  /\ link \in [Sessions -> {"none", "attached", "detached"}]
  /\ attaching \subseteq Sessions /\ sessions \subseteq Sessions
  /\ target_sessions \in [Targets -> SUBSET Sessions]
  /\ rank \in [Targets -> Nat] /\ clock \in Nat
  /\ focus \in 0 .. MaxTargets /\ in_progress \in BOOLEAN
  /\ rec \in [Tasks -> [at : TaskPlaces, lost : 0 .. MaxTargets, goal : 0 .. MaxTargets]]
  /\ seeking \in [target : 0 .. MaxTargets, by : Handlers]
  /\ pending \subseteq ({"focus", "closed"} \X Targets)
  /\ closing \in 0 .. MaxTargets /\ asked \in {"no", "waiting", "released"}
  /\ excused \subseteq {"missed", "failed", "overran"}

\* The maps of the pool agree: a session belongs to its own target, and a target is
\* listed exactly as long as it has a session.
PoolAgrees ==
  /\ \A s \in Sessions : s \in sessions <=> s \in target_sessions[s[1]]
  /\ \A t \in Targets : /\ \A s \in target_sessions[t] : s[1] = t
                        /\ rank[t] # 0 <=> Tracked(t)

\* The focus is on a page with a session, whoever moved it last: a handler, a recovery,
\* or the detached event that took the page away.
FocusTracked == focus # 0 => focus \notin iframes /\ Tracked(focus)

\* A caller that waits in ensure_valid_focus, or behind another recovery, is held only
\* while a recovery is running, so the event it waits for is still to be set.
WaitersHeld ==
  asked = "waiting" \/ (\E i \in Tasks : rec[i].at = "waiting") => in_progress

\* Types, the maps of the pool, and the waits for a recovery.
Consistent == TypeOK /\ PoolAgrees /\ WaitersHeld

\* "prevent concurrent recovery attempts from creating multiple emergency tabs": one
\* recovery works at a time, unless one that waited behind it gave up after 5 s.
OneRecovery ==
  "overran" \notin excused => Cardinality({i \in Tasks : rec[i].at \in Working}) <= 1

\* A lost focus comes back, except where the browser refuses a tab, a waiting recovery
\* overran, or the page just chosen goes away while it is activated.
FocusRecovered == focus = 0 ~> focus # 0 \/ excused # {} \/ Unborn = {}

\* "No stale sessions - pool always reflects browser reality": a session in the pool
\* is one the browser has not detached.
NoStaleSessions == \A s \in sessions : link[s] # "detached"
==============================================================================
