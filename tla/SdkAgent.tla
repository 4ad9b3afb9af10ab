------------------------------- MODULE SdkAgent ------------------------------
(***************************************************************************)
(* browser_use/beta/service.py: the agent that hands its task to a          *)
(* sdk-server process.  RustSdkClient (start, call, close, the reader of    *)
(* the server's stdout) and Agent.run around it: the checks before a run,   *)
(* _ensure_sdk_client, _run_sdk_agent with the choice between the response  *)
(* and the notifications kept by the client, the cleanup; and stop(), which *)
(* closes the client from a task of its own.                                *)
(*                                                                         *)
(* Client objects and server processes are numbered as they are made.  What *)
(* the server does is external: it answers, notifies, writes rubbish, dies. *)
(***************************************************************************)
EXTENDS Naturals, FiniteSets

CONSTANTS
  MaxTurns,       \* bound: calls of run(), each after add_new_task but the first
  MaxProcs,       \* bound: server processes
  MaxCuts,        \* bound: pauses, and cancellations of a run before its cleanup
  MaxRubbish      \* bound: lines of a server that are no JSON-RPC message

ASSUME Bounds ==
  MaxTurns \in Nat \ {0} /\ MaxProcs \in Nat /\ MaxCuts \in Nat /\ MaxRubbish \in Nat

Procs == 1 .. MaxProcs
Clients == 1 .. MaxTurns

\* where the run is; in the four Calling places it is inside RustSdkClient.call
Calling == {"ping", "run", "agent.close", "browser.close"}
Places == {"idle", "paused", "prefix", "cleanup", "close", "cancelled", "ping_failed"} \cup Calling
Closers == {"stop", "own"}

VARIABLES
  pc,
  io,             \* inside call(): "start", "spawn", "wait", "ok", "error"
  keep,           \* keep_alive of the browser profile
  stopped, paused, awake,  \* AgentState, and _external_pause_event is set
  client,         \* _sdk_client, 0 for None
  agent_id,       \* _sdk_agent_id and _sdk_browser_id are known
  turn,           \* how many tasks were run
  history,        \* the turn whose result self.history tells, 0: none
  process,        \* process[c]: the server client c believes in, 0 for None
  notes,          \* what the notifications of _sdk_client tell of turns: done, or failed
  server,         \* server[p]: "none", "up", "dead" (not reaped) or "exited"
  stdin,          \* servers whose stdin is closed
  reader,         \* reader[p]: the task that reads the stdout of p
  owner,          \* owner[p]: the client that started p
  asked,          \* the server that has the pending request still to answer, 0 for none
  closer,         \* closer[k]: where a close() stands, on which client and process
  deaf,           \* ghost: a request was sent with no reader left to hear the answer
  crossed,        \* ghost: a server was started while a close() of its client was under way
  cuts, rubbish   \* counters of the bounds

flagVars == <<stopped, paused, awake>>
agentVars == <<keep, client, agent_id, turn, history>>
clientVars == <<process, notes>>
serverVars == <<server, stdin, reader, owner, crossed>>
requestVars == <<asked, deaf>>
bounds == <<cuts, rubbish>>
vars == <<pc, io, flagVars, agentVars, clientVars, serverVars, requestVars, closer, bounds>>

NoClose == [at |-> "none", client |-> 0, proc |-> 0]

Init ==
  /\ pc = "idle" /\ io = "none" /\ keep \in BOOLEAN
  /\ stopped = FALSE /\ paused = FALSE /\ awake = TRUE
  /\ client = 0 /\ agent_id = FALSE /\ turn = 0 /\ history = 0
  /\ process = [c \in Clients |-> 0] /\ notes = {}
  /\ server = [p \in Procs |-> "none"] /\ stdin = {}
  /\ reader = [p \in Procs |-> "none"] /\ owner = [p \in Procs |-> 0]
  /\ asked = 0 /\ deaf = FALSE /\ crossed = FALSE
  /\ closer = [k \in Closers |-> NoClose] /\ cuts = 0 /\ rubbish = 0

-----------------------------------------------------------------------------
(* RustSdkClient.call                                                        *)

Calls(c) == process[c] # 0 /\ server[process[c]] # "exited"

\* _fail_all of client c: the one call that may be pending, if it is c's
Fails(c) == io' = IF io = "wait" /\ client = c THEN "error" ELSE io

\* a request to a server that is dying may raise, or vanish
Send(p) ==
  /\ \/ server[p] = "up" /\ p \notin stdin /\ io' = "wait" /\ asked' = p
     \/ (server[p] # "up" \/ p \in stdin) /\ io' \in {"wait", "error"} /\ asked' = 0
  /\ deaf' = (deaf \/ (io' = "wait" /\ reader[p] # "reading"))

CallStarts ==
  /\ io = "start"
  /\ IF Calls(client) THEN Send(process[client]) ELSE io' = "spawn" /\ UNCHANGED requestVars
  /\ UNCHANGED <<pc, flagVars, agentVars, clientVars, serverVars, closer, bounds>>

Spawned ==
  /\ io = "spawn"
  /\ \E p \in Procs :
       /\ server[p] = "none" /\ \A q \in Procs : server[q] = "none" => p <= q
       /\ server' = [server EXCEPT ![p] = "up"] /\ reader' = [reader EXCEPT ![p] = "reading"]
       /\ owner' = [owner EXCEPT ![p] = client] /\ process' = [process EXCEPT ![client] = p]
       /\ io' = "wait" /\ asked' = p
  /\ crossed' = (crossed \/ \E k \in Closers : closer[k].client = client)
  /\ UNCHANGED <<pc, flagVars, agentVars, notes, stdin, deaf, closer, bounds>>

\* the command is missing or not executable
SpawnFails ==
  /\ io = "spawn" /\ io' = "error"
  /\ UNCHANGED <<pc, flagVars, agentVars, clientVars, serverVars, requestVars, closer, bounds>>

\* a response resolves the call that waits for its id, and nothing else
Answers(p) ==
  /\ asked = p /\ reader[p] = "reading" /\ asked' = 0
  /\ io' = IF io = "wait" THEN "ok" ELSE io
  /\ UNCHANGED <<pc, flagVars, agentVars, clientVars, serverVars, deaf, closer, bounds>>

AnswersError(p) ==
  /\ asked = p /\ reader[p] = "reading" /\ asked' = 0
  /\ io' = IF io = "wait" THEN "error" ELSE io
  /\ UNCHANGED <<pc, flagVars, agentVars, clientVars, serverVars, deaf, closer, bounds>>

\* agent.event notifications of a run: its result, or a failure the server reports
Notifies(p, kind) ==
  /\ asked = p /\ reader[p] = "reading" /\ pc = "run"
  /\ notes' = notes \cup {<<turn, kind>>}
  /\ UNCHANGED <<pc, io, flagVars, agentVars, process, serverVars, requestVars, closer, bounds>>

\* a line that is no JSON, or too long, also ends the reader
WritesRubbish(p) ==
  /\ server[p] = "up" /\ reader[p] = "reading" /\ rubbish < MaxRubbish
  /\ rubbish' = rubbish + 1
  /\ reader' \in {reader, [reader EXCEPT ![p] = "ended"]}
  /\ Fails(owner[p])
  /\ UNCHANGED <<pc, flagVars, agentVars, clientVars, server, stdin, owner, crossed, requestVars, closer, cuts>>

Dies(p) ==
  /\ server[p] = "up" /\ server' = [server EXCEPT ![p] = "dead"]
  /\ asked' = IF asked = p THEN 0 ELSE asked
  /\ UNCHANGED <<pc, io, flagVars, agentVars, clientVars, stdin, reader, owner, crossed, deaf,
                 closer, bounds>>

Reaped(p) ==
  /\ server[p] = "dead" /\ server' = [server EXCEPT ![p] = "exited"]
  /\ UNCHANGED <<pc, io, flagVars, agentVars, clientVars, stdin, reader, owner, crossed, requestVars,
                 closer, bounds>>

\* Variant: the pending call is left alone.
ReaderEndsSilently(p) ==
  /\ reader[p] = "reading" /\ server[p] \in {"dead", "exited"}
  /\ reader' = [reader EXCEPT ![p] = "ended"]
  /\ UNCHANGED <<pc, io, flagVars, agentVars, clientVars, server, stdin, owner, crossed,
                 requestVars, closer, bounds>>

\* end of file: whatever the client has pending fails
ReaderEnds(p) ==
  /\ reader[p] = "reading" /\ server[p] \in {"dead", "exited"}
  /\ reader' = [reader EXCEPT ![p] = "ended"] /\ Fails(owner[p])
  /\ UNCHANGED <<pc, flagVars, agentVars, clientVars, server, stdin, owner, crossed, requestVars, closer, bounds>>

-----------------------------------------------------------------------------
(* RustSdkClient.close, from the run itself or from the task of stop()        *)

CloseBegins(k) ==
  /\ closer[k].at = "begin"
  /\ LET c == client  p == IF c = 0 THEN 0 ELSE process[c]
     IN IF p = 0 THEN closer' = [closer EXCEPT ![k] = NoClose] /\ UNCHANGED stdin
        ELSE /\ stdin' = stdin \cup {p}
             /\ closer' = [closer EXCEPT ![k] = [at |-> "draining", client |-> c, proc |-> p]]
  /\ UNCHANGED <<pc, io, flagVars, agentVars, clientVars, server, reader, owner, crossed, requestVars, bounds>>

Terminates(k) ==
  /\ closer[k].at = "draining" /\ closer' = [closer EXCEPT ![k].at = "waiting"]
  /\ LET p == closer[k].proc
     IN /\ server' = IF server[p] = "up" THEN [server EXCEPT ![p] = "dead"] ELSE server
        /\ asked' = IF asked = p THEN 0 ELSE asked
  /\ UNCHANGED <<pc, io, flagVars, agentVars, clientVars, stdin, reader, owner, crossed, deaf, bounds>>

\* the client's latest reader is cancelled, what is pending fails, the process is forgotten
CloseReturns(k) ==
  /\ closer[k].at = "waiting" /\ server[closer[k].proc] = "exited"
  /\ closer' = [closer EXCEPT ![k] = NoClose]
  /\ LET c == closer[k].client  p == process[c]
     IN /\ reader' = IF p = 0 THEN reader ELSE [reader EXCEPT ![p] = "ended"]
        /\ Fails(c) /\ process' = [process EXCEPT ![c] = 0]
  /\ UNCHANGED <<pc, flagVars, agentVars, notes, server, stdin, owner, crossed, requestVars, bounds>>

CloseStep(k) == CloseBegins(k) \/ Terminates(k) \/ CloseReturns(k)

Begin(k) == closer' = [closer EXCEPT ![k].at = "begin"]
Closed(k) == closer[k] = NoClose

-----------------------------------------------------------------------------
(* Agent.run                                                                 *)

\* _should_stop_before_run: a stopped run has an empty history
CheckStop(stop) ==
  IF stop THEN pc' = "cleanup" /\ history' = 0 ELSE pc' = "prefix" /\ UNCHANGED history

\* run(), after add_new_task or again on the same task (rerun_history)
Run ==
  /\ pc = "idle" /\ turn < MaxTurns /\ turn' = turn + 1
  /\ \/ UNCHANGED flagVars
     \/ stopped' = FALSE /\ paused' = FALSE /\ awake' = TRUE
  /\ IF paused' /\ ~awake' /\ ~stopped' THEN pc' = "paused" /\ UNCHANGED history
     ELSE CheckStop(stopped')
  /\ UNCHANGED <<io, keep, client, agent_id, clientVars, serverVars, requestVars, closer, bounds>>

Resumed ==
  /\ pc = "paused" /\ awake /\ CheckStop(stopped)
  /\ UNCHANGED <<io, flagVars, keep, client, agent_id, turn, clientVars, serverVars, requestVars, closer, bounds>>

\* initial actions and on_step_start are over: a living client, or a new one, pinged;
\* only a client that is replaced takes its ids with it
Ensure ==
  /\ pc = "prefix" /\ io' = "start"
  /\ IF client # 0 /\ Calls(client) THEN pc' = "run" /\ UNCHANGED <<client, agent_id, notes>>
     ELSE /\ pc' = "ping" /\ client' = turn /\ notes' = {}
          /\ agent_id' = IF client # 0 THEN FALSE ELSE agent_id
  /\ UNCHANGED <<flagVars, keep, turn, history, process, serverVars, requestVars, closer, bounds>>

PingReturns ==
  /\ pc = "ping" /\ io \in {"ok", "error"}
  /\ \/ io = "ok" /\ pc' = "run" /\ io' = "start" /\ UNCHANGED closer
     \/ pc' = "ping_failed" /\ io' = "none" /\ Begin("own")
  /\ UNCHANGED <<flagVars, agentVars, clientVars, serverVars, requestVars, bounds>>

PingFailed ==
  /\ pc = "ping_failed" /\ Closed("own")
  /\ pc' = "cleanup" /\ client' = 0 /\ notes' = {}
  /\ UNCHANGED <<io, flagVars, keep, agent_id, turn, history, process, serverVars,
                 requestVars, closer, bounds>>

Turns(kind) == {n \in 1 .. turn : <<n, kind>> \in notes}

\* Variant: the first result of all the notifications.
Earliest(S) == CHOOSE n \in S : \A m \in S : n <= m

Latest(S) == CHOOSE n \in S : \A m \in S : m <= n

\* the last result of all the notifications the client has kept, if none tells of a failure
Noted == IF Turns("failed") = {} /\ Turns("done") # {} THEN Latest(Turns("done")) ELSE 0

\* the response, or the notifications where they tell more
RunReturns ==
  /\ pc = "run" /\ io \in {"ok", "error"}
  /\ \/ io = "ok" /\ history' \in {0, turn}
     \/ notes # {} /\ history' = Noted
     \/ io = "error" /\ notes = {} /\ history' = 0
  /\ agent_id' \in IF io = "ok" THEN {agent_id, TRUE} ELSE {agent_id}
  /\ pc' = "cleanup" /\ io' = "none"
  /\ UNCHANGED <<flagVars, keep, client, turn, clientVars, serverVars, requestVars, closer, bounds>>

\* the run is cancelled before it has sent its task
CancelledEarly ==
  /\ pc \in {"paused", "prefix"} \/ (pc = "ping" /\ io = "wait")
  /\ cuts < MaxCuts /\ cuts' = cuts + 1
  /\ pc' = "cleanup" /\ io' = "none" /\ asked' = 0
  /\ UNCHANGED <<flagVars, agentVars, clientVars, serverVars, deaf, closer, rubbish>>

\* the run is cancelled while the server works: history from the notifications
Cancelled ==
  /\ pc = "run" /\ io = "wait" /\ cuts < MaxCuts /\ cuts' = cuts + 1
  /\ history' \in IF notes = {} THEN {history, 0} ELSE {Noted}
  /\ pc' = "cancelled" /\ io' = "none" /\ asked' = 0 /\ Begin("own")
  /\ UNCHANGED <<flagVars, keep, client, agent_id, turn, clientVars, serverVars, deaf, rubbish>>

CancelledClosed ==
  /\ pc = "cancelled" /\ Closed("own") /\ pc' = "cleanup"
  /\ UNCHANGED <<io, flagVars, agentVars, clientVars, serverVars, requestVars, closer, bounds>>

\* what is not kept alive is closed: the agent and the browser of the server, then it
Cleanup ==
  /\ pc = "cleanup"
  /\ IF keep \/ client = 0 THEN pc' = "idle" /\ UNCHANGED <<io, closer>>
     ELSE IF process[client] # 0 /\ agent_id THEN pc' = "agent.close" /\ io' = "start" /\ UNCHANGED closer
     ELSE pc' = "close" /\ Begin("own") /\ UNCHANGED io
  /\ UNCHANGED <<flagVars, agentVars, clientVars, serverVars, requestVars, bounds>>

AgentClosed ==
  /\ pc = "agent.close" /\ io \in {"ok", "error"} /\ pc' = "browser.close" /\ io' = "start"
  /\ UNCHANGED <<flagVars, agentVars, clientVars, serverVars, requestVars, closer, bounds>>

\* Variant: the client is forgotten, not closed.
BrowserClosedOnly ==
  /\ pc = "browser.close" /\ io \in {"ok", "error"}
  /\ agent_id' = FALSE /\ pc' = "close" /\ io' = "none" /\ UNCHANGED closer
  /\ UNCHANGED <<flagVars, keep, client, turn, history, clientVars, serverVars, requestVars, bounds>>

BrowserClosed ==
  /\ pc = "browser.close" /\ io \in {"ok", "error"}
  /\ agent_id' = FALSE /\ pc' = "close" /\ io' = "none" /\ Begin("own")
  /\ UNCHANGED <<flagVars, keep, client, turn, history, clientVars, serverVars, requestVars, bounds>>

ClientClosed ==
  /\ pc = "close" /\ Closed("own") /\ client' = 0 /\ notes' = {} /\ pc' = "idle"
  /\ UNCHANGED <<io, flagVars, keep, agent_id, turn, history, process, serverVars,
                 requestVars, closer, bounds>>

-----------------------------------------------------------------------------
(* The user                                                                  *)

\* the task is only created if there is a client by now
Stop ==
  /\ ~stopped /\ stopped' = TRUE /\ awake' = TRUE /\ Closed("stop")
  /\ IF client # 0 THEN Begin("stop") ELSE UNCHANGED closer
  /\ UNCHANGED <<pc, io, paused, agentVars, clientVars, serverVars, requestVars, bounds>>

\* paused is read before a run only: a later pause is one before the next run
Pause ==
  /\ pc = "idle" /\ cuts < MaxCuts /\ cuts' = cuts + 1 /\ ~paused /\ paused' = TRUE /\ awake' = FALSE
  /\ UNCHANGED <<pc, io, stopped, agentVars, clientVars, serverVars, requestVars, closer, rubbish>>

Resume ==
  /\ paused /\ paused' = FALSE /\ awake' = TRUE
  /\ UNCHANGED <<pc, io, stopped, agentVars, clientVars, serverVars, requestVars, closer, bounds>>

RunStep ==
  \/ CallStarts \/ Spawned \/ SpawnFails
  \/ Resumed \/ Ensure \/ PingReturns \/ PingFailed \/ RunReturns
  \/ CancelledClosed \/ Cleanup \/ AgentClosed \/ BrowserClosed \/ ClientClosed

ServerStep(p) ==
  \/ Answers(p) \/ AnswersError(p) \/ \E kind \in {"done", "failed"} : Notifies(p, kind)
  \/ WritesRubbish(p) \/ Dies(p)

Next ==
  \/ RunStep \/ Run \/ Cancelled \/ CancelledEarly
  \/ Stop \/ Pause \/ Resume
  \/ \E k \in Closers : CloseStep(k)
  \/ \E p \in Procs : ServerStep(p) \/ Reaped(p) \/ ReaderEnds(p)

Spec == Init /\ [][Next]_vars

\* the event loop runs what is ready; a server answers every request or dies
FairSpec ==
  /\ Spec /\ WF_vars(RunStep) /\ \A k \in Closers : WF_vars(CloseStep(k))
  /\ \A p \in Procs : /\ WF_vars(Reaped(p)) /\ WF_vars(ReaderEnds(p))
                      /\ WF_vars(Dies(p) \/ Answers(p) \/ AnswersError(p))

-----------------------------------------------------------------------------
TypeOK ==
  /\ pc \in Places /\ io \in {"none", "start", "spawn", "wait", "ok", "error"}
  /\ {keep, stopped, paused, awake, agent_id, deaf, crossed} \subseteq BOOLEAN
  /\ client \in 0 .. MaxTurns /\ turn \in 0 .. MaxTurns /\ history \in 0 .. MaxTurns
  /\ process \in [Clients -> 0 .. MaxProcs]
  /\ notes \subseteq ((1 .. MaxTurns) \X {"done", "failed"})
  /\ server \in [Procs -> {"none", "up", "dead", "exited"}] /\ stdin \subseteq Procs
  /\ reader \in [Procs -> {"none", "reading", "ended"}] /\ owner \in [Procs -> 0 .. MaxTurns]
  /\ asked \in 0 .. MaxProcs
  /\ closer \in [Closers -> [at : {"none", "begin", "draining", "waiting"},
                             client : 0 .. MaxTurns, proc : 0 .. MaxProcs]]
  /\ cuts \in 0 .. MaxCuts /\ rubbish \in 0 .. MaxRubbish

\* A run returns its own result, or none.  An earlier turn's it returns only from a client
\* kept alive since, and only if the server notified no result of this turn: the
\* notifications of the earlier ones are still there, and may tell more than the response.
ReportsOwnTurn ==
  [][ pc = "run" /\ pc' = "cleanup" =>
        \/ history' \in {0, turn}
        \/ keep /\ client < turn /\ <<turn, "done">> \notin notes ]_vars

\* When a run that keeps nothing alive has returned, no server it started is left, unless
\* one was started under a close() of stop(), which then forgets it (close, process = None).
NoServerLeft ==
  pc = "idle" /\ ~keep /\ Closed("stop") /\ ~crossed => \A p \in Procs : server[p] # "up"

\* Types, and no server left over.
Consistent == TypeOK /\ NoServerLeft

\* A run returns, unless the user paused it: a server that dies, a close() from the
\* task of stop() and a cancellation all end the call in progress.  Only a request sent
\* when its reader had ended is never answered.
RunEnds == pc # "idle" ~> pc \in {"idle", "paused"} \/ deaf
==============================================================================
