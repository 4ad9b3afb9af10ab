----------------------------- MODULE JobPipeline -----------------------------
(***************************************************************************)
(* pipeline.run: discovery (discovery/search_agent.py), screening          *)
(* (pipeline.screen_new_postings), applying (apply_agent.py), against the  *)
(* tables seen_jobs and applications (db.py) that outlive every run.       *)
(*                                                                         *)
(* Each process that can run a pipeline (the API server, a command line)   *)
(* is a member of Pipes; inside one process runs follow one another        *)
(* (SingleFlight of module Runs).  Every commit to the database, every     *)
(* read of it that decides something, and the click that submits a form    *)
(* are steps of their own.  The lists a run walks through are sets here:   *)
(* the boards decide their order.                                          *)
(***************************************************************************)
EXTENDS Integers, Sequences, FiniteSets

CONSTANTS
  Pipes,          \* processes that run the pipeline
  Postings,       \* what the boards list and the keyword filter keeps
  KeyOf,          \* dedup_key: the URL without query and trailing slash
  DomainOf,       \* netloc of the URL
  RateCap,        \* config.RATE_LIMITS, looked up by exact netloc
  Hour,           \* ticks of the clock that make an hour
  MaxClock,       \* bound: the clock
  MaxAborts       \* bound: runs cut short by an exception or a crash

Keys == {KeyOf[x] : x \in Postings}
Domains == {DomainOf[x] : x \in Postings}

ASSUME Bounds ==
  /\ Postings # {}
  /\ KeyOf \in [Postings -> Keys] /\ DomainOf \in [Postings -> Domains]
  /\ RateCap \in [Domains -> Nat]
  /\ Hour \in Nat /\ MaxClock \in Nat /\ MaxAborts \in Nat

Stages == {"idle", "checking", "marking", "screening", "applying", "filling", "submitted"}
Screenings == {"screened_pass", "screened_reject"}
Applications == {"applied", "apply_failed", "rate_limited"}

VARIABLES
  seen,         \* seen_jobs: the dedup keys recorded so far
  apps,         \* applications: the rows in order, with the process that wrote each
  site,         \* the forms really submitted, in order (what the employers have)
  clock,        \* the time, in ticks
  stage,        \* stage[p]: where the run of process p stands
  todo,         \* todo[p]: polled postings find_new_postings has not looked at yet
  fresh,        \* fresh[p]: new_postings, less those screened
  passing,      \* passing[p]: postings that passed, less those applied to
  cur,          \* cur[p]: the posting in hand while marking, filling, submitted
  aborts,       \* runs cut short so far
  overlapped    \* history: have two processes run pipelines at the same time?

vars == <<seen, apps, site, clock, stage, todo, fresh, passing, cur, aborts, overlapped>>
history == <<aborts, overlapped>>

Row == [posting : Postings, status : Screenings \cup Applications, at : Nat, by : Pipes]
Submission == [posting : Postings, at : Nat, by : Pipes]

TypeOK ==
  /\ seen \subseteq Keys
  /\ apps \in Seq(Row) /\ site \in Seq(Submission)
  /\ clock \in 0 .. MaxClock
  /\ stage \in [Pipes -> Stages]
  /\ todo \in [Pipes -> SUBSET Postings]
  /\ fresh \in [Pipes -> SUBSET Postings]
  /\ passing \in [Pipes -> SUBSET Postings]
  /\ cur \in [Pipes -> Postings]
  /\ aborts \in 0 .. MaxAborts
  /\ overlapped \in BOOLEAN

Init ==
  /\ seen = {} /\ apps = << >> /\ site = << >> /\ clock = 0
  /\ stage = [p \in Pipes |-> "idle"]
  /\ todo = [p \in Pipes |-> {}]
  /\ fresh = [p \in Pipes |-> {}]
  /\ passing = [p \in Pipes |-> {}]
  /\ cur = [p \in Pipes |-> CHOOSE x \in Postings : TRUE]
  /\ aborts = 0 /\ overlapped = FALSE

Recorded(p, x, status) ==
  apps' = Append(apps, [posting |-> x, status |-> status, at |-> clock, by |-> p])

------------------------------------------------------------------------------
(* The resumes load, every adapter answers, and the keyword filter keeps     *)
(* what matches.                                                             *)
Poll(p, found) ==
  /\ stage[p] = "idle"
  /\ todo' = [todo EXCEPT ![p] = found]
  /\ stage' = [stage EXCEPT ![p] = "checking"]
  /\ overlapped' = (overlapped \/ \E q \in Pipes : q # p /\ stage[q] # "idle")
  /\ UNCHANGED <<seen, apps, site, clock, fresh, passing, cur, aborts>>

(* db.is_seen answers True: continue.                                        *)
SkipSeen(p, x) ==
  /\ stage[p] = "checking" /\ x \in todo[p]
  /\ KeyOf[x] \in seen
  /\ todo' = [todo EXCEPT ![p] = @ \ {x}]
  /\ UNCHANGED <<seen, apps, site, clock, stage, fresh, passing, cur, history>>

(* Variant for mutation checks: is_seen is never asked.                      *)
FindAny(p, x) ==
  /\ stage[p] = "checking" /\ x \in todo[p]
  /\ todo' = [todo EXCEPT ![p] = @ \ {x}]
  /\ cur' = [cur EXCEPT ![p] = x]
  /\ stage' = [stage EXCEPT ![p] = "marking"]
  /\ UNCHANGED <<seen, apps, site, clock, fresh, passing, history>>

(* db.is_seen answers False.                                                 *)
FindNew(p, x) ==
  /\ stage[p] = "checking" /\ x \in todo[p]
  /\ KeyOf[x] \notin seen
  /\ todo' = [todo EXCEPT ![p] = @ \ {x}]
  /\ cur' = [cur EXCEPT ![p] = x]
  /\ stage' = [stage EXCEPT ![p] = "marking"]
  /\ UNCHANGED <<seen, apps, site, clock, fresh, passing, history>>

(* db.mark_seen: INSERT OR IGNORE, then new_postings.append, whoever may     *)
(* have marked the key since it was checked.                                 *)
MarkSeen(p) ==
  /\ stage[p] = "marking"
  /\ seen' = seen \cup {KeyOf[cur[p]]}
  /\ fresh' = [fresh EXCEPT ![p] = @ \cup {cur[p]}]
  /\ stage' = [stage EXCEPT ![p] = "checking"]
  /\ UNCHANGED <<apps, site, clock, todo, passing, cur, history>>

StartScreening(p) ==
  /\ stage[p] = "checking" /\ todo[p] = {}
  /\ stage' = [stage EXCEPT ![p] = "screening"]
  /\ UNCHANGED <<seen, apps, site, clock, todo, fresh, passing, cur, history>>

(* Variant: the verdict is not looked at.                                    *)
ScreenPassingAll(p, x, verdict) ==
  /\ stage[p] = "screening" /\ x \in fresh[p]
  /\ Recorded(p, x, verdict)
  /\ fresh' = [fresh EXCEPT ![p] = @ \ {x}]
  /\ passing' = [passing EXCEPT ![p] = @ \cup {x}]
  /\ UNCHANGED <<seen, site, clock, stage, todo, cur, history>>

(* route_and_screen answers and db.record_application commits its verdict.   *)
Screen(p, x, verdict) ==
  /\ stage[p] = "screening" /\ x \in fresh[p]
  /\ Recorded(p, x, verdict)
  /\ fresh' = [fresh EXCEPT ![p] = @ \ {x}]
  /\ passing' = IF verdict = "screened_pass"
                THEN [passing EXCEPT ![p] = @ \cup {x}] ELSE passing
  /\ UNCHANGED <<seen, site, clock, stage, todo, cur, history>>

(* Variant: applying starts before everything is screened.                   *)
StartApplyingEarly(p) ==
  /\ stage[p] = "screening"
  /\ stage' = [stage EXCEPT ![p] = "applying"]
  /\ UNCHANGED <<seen, apps, site, clock, todo, fresh, passing, cur, history>>

StartApplying(p) ==
  /\ stage[p] = "screening" /\ fresh[p] = {}
  /\ stage' = [stage EXCEPT ![p] = "applying"]
  /\ UNCHANGED <<seen, apps, site, clock, todo, fresh, passing, cur, history>>

------------------------------------------------------------------------------
(* Variant: the rows of exactly one hour ago are left out.                   *)
RecentAppliedOpen(d) ==
  {i \in DOMAIN apps : /\ apps[i].status = "applied"
                       /\ apps[i].at > clock - Hour
                       /\ DomainOf[apps[i].posting] = d}

(* db.get_recent_applied_urls(one hour ago), restricted to one domain.       *)
RecentApplied(d) ==
  {i \in DOMAIN apps : /\ apps[i].status = "applied"
                       /\ apps[i].at >= clock - Hour
                       /\ DomainOf[apps[i].posting] = d}

RateLimitAllows(x) == Cardinality(RecentApplied(DomainOf[x])) < RateCap[DomainOf[x]]

(* Variant: a refused posting leaves no row.                                 *)
RefuseSilently(p, x) ==
  /\ stage[p] = "applying" /\ x \in passing[p]
  /\ ~RateLimitAllows(x)
  /\ passing' = [passing EXCEPT ![p] = @ \ {x}]
  /\ UNCHANGED <<seen, apps, site, clock, stage, todo, fresh, cur, history>>

(* apply_to_posting refuses and records it.                                  *)
RefuseApply(p, x) ==
  /\ stage[p] = "applying" /\ x \in passing[p]
  /\ ~RateLimitAllows(x)
  /\ Recorded(p, x, "rate_limited")
  /\ passing' = [passing EXCEPT ![p] = @ \ {x}]
  /\ UNCHANGED <<seen, site, clock, stage, todo, fresh, cur, history>>

(* apply_to_posting goes on: the resume is tailored, a browser starts.       *)
StartApply(p, x) ==
  /\ stage[p] = "applying" /\ x \in passing[p]
  /\ RateLimitAllows(x)
  /\ passing' = [passing EXCEPT ![p] = @ \ {x}]
  /\ cur' = [cur EXCEPT ![p] = x]
  /\ stage' = [stage EXCEPT ![p] = "filling"]
  /\ UNCHANGED <<seen, apps, site, clock, todo, fresh, history>>

(* The browser agent submits the form.                                       *)
Submit(p) ==
  /\ stage[p] = "filling"
  /\ site' = Append(site, [posting |-> cur[p], at |-> clock, by |-> p])
  /\ stage' = [stage EXCEPT ![p] = "submitted"]
  /\ UNCHANGED <<seen, apps, clock, todo, fresh, passing, cur, history>>

(* The agent is done and its own report is recorded, right or wrong: it may  *)
(* miss a confirmation screen or take one for granted.                       *)
RecordOutcome(p, status) ==
  /\ stage[p] \in {"filling", "submitted"}
  /\ Recorded(p, cur[p], status)
  /\ stage' = [stage EXCEPT ![p] = "applying"]
  /\ UNCHANGED <<seen, site, clock, todo, fresh, passing, cur, history>>

Finish(p) ==
  /\ stage[p] = "applying" /\ passing[p] = {}
  /\ stage' = [stage EXCEPT ![p] = "idle"]
  /\ UNCHANGED <<seen, apps, site, clock, todo, fresh, passing, cur, history>>

(* An LLM call, a board, the renderer or the agent raises, or the process    *)
(* dies: pipeline.run catches nothing, and its lists are gone.               *)
Abort(p) ==
  /\ stage[p] # "idle"
  /\ aborts < MaxAborts
  /\ aborts' = aborts + 1
  /\ stage' = [stage EXCEPT ![p] = "idle"]
  /\ todo' = [todo EXCEPT ![p] = {}]
  /\ fresh' = [fresh EXCEPT ![p] = {}]
  /\ passing' = [passing EXCEPT ![p] = {}]
  /\ UNCHANGED <<seen, apps, site, clock, cur, overlapped>>

Tick ==
  /\ clock < MaxClock
  /\ clock' = clock + 1
  /\ UNCHANGED <<seen, apps, site, stage, todo, fresh, passing, cur, history>>

------------------------------------------------------------------------------
Discover(p) ==
  \/ \E x \in Postings : SkipSeen(p, x) \/ FindNew(p, x)
  \/ MarkSeen(p) \/ StartScreening(p)

ScreenStep(p) ==
  \/ \E x \in Postings, verdict \in Screenings : Screen(p, x, verdict)
  \/ StartApplying(p)

ApplyStep(p) ==
  \/ \E x \in Postings : RefuseApply(p, x) \/ StartApply(p, x)
  \/ Submit(p)
  \/ \E status \in {"applied", "apply_failed"} : RecordOutcome(p, status)
  \/ Finish(p)

Next ==
  \/ \E p \in Pipes :
       \/ \E found \in SUBSET Postings : Poll(p, found)
       \/ Discover(p) \/ ScreenStep(p) \/ ApplyStep(p) \/ Abort(p)
  \/ Tick

Spec == Init /\ [][Next]_vars

(* A run that does not raise goes on: each LLM call, download and browser    *)
(* session is bounded (APPLY_MAX_STEPS).  No run need ever be started.       *)
Fairness == \A p \in Pipes : WF_vars(Discover(p) \/ ScreenStep(p) \/ ApplyStep(p))

FairSpec == Spec /\ Fairness
------------------------------------------------------------------------------
SameKey(x, y) == KeyOf[x] = KeyOf[y]
Idle == \A p \in Pipes : stage[p] = "idle"

(* No employer gets two applications for one posting: not after crashes and  *)
(* restarts at any point, not through reports that were wrong.  Only two     *)
(* processes running at the same time can do that, once each.                *)
NoDoubleSubmission ==
  \A i, j \in DOMAIN site :
    i # j /\ SameKey(site[i].posting, site[j].posting) =>
      overlapped /\ site[i].by # site[j].by

(* A form is submitted only after the same process recorded that the posting *)
(* passed, and never for one it rejected.                                    *)
SubmittedOnlyIfPassed ==
  \A i \in DOMAIN site :
    LET verdicts == {apps[j].status : j \in {j \in DOMAIN apps :
                       /\ apps[j].posting = site[i].posting
                       /\ apps[j].by = site[i].by /\ apps[j].status \in Screenings}}
    IN  verdicts = {"screened_pass"}

(* In every hour, a domain sees at most its cap of rows that say applied,    *)
(* unless processes overlapped.                                              *)
RowsInHour(d, t) ==
  {i \in DOMAIN apps : /\ apps[i].status = "applied" /\ DomainOf[apps[i].posting] = d
                       /\ apps[i].at \in (t - Hour) .. t}
RecordedRateCap ==
  overlapped \/ \A d \in Domains, t \in 0 .. clock :
    Cardinality(RowsInHour(d, t)) <= RateCap[d]

(* config.py's "max applications submitted per rolling hour", for the forms   *)
(* really sent.  It cannot hold of those no row accounts for, because the    *)
(* run died before the row or the agent misjudged its work; it holds of all  *)
(* others, although the limit is checked minutes before the form is sent.    *)
SentInHour(d, t) ==
  {i \in DOMAIN site :
     /\ DomainOf[site[i].posting] = d /\ site[i].at \in (t - Hour) .. t
     /\ \E j \in DOMAIN apps : apps[j].status = "applied" /\ apps[j].posting = site[i].posting}
AccountedRateCap ==
  overlapped \/ \A d \in Domains, t \in 0 .. clock :
    Cardinality(SentInHour(d, t)) <= RateCap[d]

(* Types, and the rate limit of config.py in both senses: of the rows that   *)
(* say applied, and of the forms sent that a row accounts for.               *)
RateLimited == TypeOK /\ RecordedRateCap /\ AccountedRateCap

(* Nothing is dropped while no run was cut short: a key marked seen has been *)
(* screened, or the run that marked it still has it to screen; and what      *)
(* passed has an outcome, or the run that screened it still has it in hand.  *)
HasRow(k, statuses) ==
  \E i \in DOMAIN apps : KeyOf[apps[i].posting] = k /\ apps[i].status \in statuses
NothingDropped ==
  aborts = 0 =>
    /\ \A k \in seen : \/ HasRow(k, Screenings)
                       \/ \E p \in Pipes : \E x \in fresh[p] : KeyOf[x] = k
    /\ \A i \in DOMAIN apps : apps[i].status = "screened_pass" =>
         LET x == apps[i].posting  p == apps[i].by
         IN  \/ x \in passing[p] \/ (stage[p] \in {"filling", "submitted"} /\ cur[p] = x)
             \/ \E j \in DOMAIN apps : /\ apps[j].posting = x /\ apps[j].by = p
                                       /\ apps[j].status \in Applications

(* A posting marked seen is screened in the end, unless a run is cut short   *)
(* (README: it finds new matching postings and screens each one).            *)
SeenIsScreened == \A k \in Keys : k \in seen ~> HasRow(k, Screenings) \/ aborts > 0
==============================================================================
