--------------------------- MODULE BrowserLifecycle --------------------------
(***************************************************************************)
(* The CDP connection of a BrowserSession (browser_use/browser/session.py): *)
(* start() through on_BrowserStartEvent and connect(), the callback that    *)
(* notices a dropped WebSocket, _auto_reconnect with its attempts, and      *)
(* stop() and kill() with reset(); and the gate before every other handler  *)
(* (watchdog_base.py).  Each client object made on the way is a number; its *)
(* socket may die at any time.  A step ends where the coroutine awaits;     *)
(* handlers of one event bus never overlap.                                 *)
(***************************************************************************)
EXTENDS Naturals, FiniteSets

CONSTANTS
  MaxAttempts,    \* max_attempts of _auto_reconnect
  Overlap,        \* may start() be called while a recovery runs?
  MaxClients,     \* bound: clients made
  MaxStarts       \* bound: calls of start()

ASSUME Bounds ==
  MaxAttempts \in Nat \ {0} /\ Overlap \in BOOLEAN /\ MaxClients \in Nat /\ MaxStarts \in Nat

Clients == 1 .. MaxClients

VARIABLES
  root,           \* _cdp_client_root, 0 for None
  sock,           \* sock[c]: the socket of client c, "none" before it is made
  watched,        \* clients whose message handler has the drop callback
  alarm,          \* watched clients whose handler ended, the callback still to run
  recovery,       \* where _auto_reconnect stands
  attempt, old, new,  \* its attempt, the client it stops, the one it opens
  reconnecting,   \* _reconnecting
  reconnect_event,\* _reconnect_event is set
  intentional,    \* _intentional_stop
  starting,       \* where on_BrowserStartEvent stands
  mine,           \* the client connect() opened
  stopping,       \* where stop() or kill() stands
  bus,            \* the event bus still has the session's handlers
  handler,        \* the event handler the bus is running, if it is none of these
  starts          \* calls of start()

recoveryVars == <<recovery, attempt, old, new, reconnecting, reconnect_event>>
startVars == <<starting, mine, starts>>
stopVars == <<intentional, stopping, bus>>
vars == <<root, sock, watched, alarm, recoveryVars, startVars, stopVars, handler>>

Sockets == {"none", "opening", "open", "dead", "closed"}
Trying == {"closing", "clearing", "opening", "settling", "proxy"}

Made == {c \in Clients : sock[c] # "none"}
Spare == Cardinality(Made) < MaxClients
NextClient == Cardinality(Made) + 1
Connected == root # 0 /\ sock[root] = "open"

\* CDPClient.stop() of client c, if there is one
Closed(c) == IF c = 0 THEN sock ELSE [sock EXCEPT ![c] = "closed"]

Init ==
  /\ root = 0 /\ sock = [c \in Clients |-> "none"] /\ watched = {} /\ alarm = {}
  /\ recovery = "none" /\ attempt = 0 /\ old = 0 /\ new = 0
  /\ reconnecting = FALSE /\ reconnect_event = TRUE /\ intentional = FALSE
  /\ starting = "none" /\ mine = 0 /\ starts = 0
  /\ stopping = "none" /\ bus = TRUE /\ handler = "idle"

-----------------------------------------------------------------------------
(* start()                                                                   *)

\* the bus runs one handler at a time
Idle == starting = "none" /\ handler = "idle"

CanStart ==
  /\ Idle /\ starts < MaxStarts
  /\ Overlap \/ (~reconnecting /\ recovery = "none" /\ alarm = {})

\* already connected, or a bus that lost its handlers: nothing to do
StartReturns ==
  /\ CanStart /\ (root # 0 \/ ~bus)
  /\ starts' = starts + 1
  /\ UNCHANGED <<root, sock, watched, alarm, recoveryVars, starting, mine, stopVars, handler>>

\* the launch of the browser, then the request for its WebSocket URL
StartBegins ==
  /\ CanStart /\ root = 0 /\ bus
  /\ starts' = starts + 1 /\ starting' = "fetching"
  /\ UNCHANGED <<root, sock, watched, alarm, recoveryVars, mine, stopVars, handler>>

StartOpens ==
  /\ starting = "fetching" /\ Spare
  /\ mine' = NextClient /\ root' = mine'
  /\ sock' = [sock EXCEPT ![mine'] = "opening"]
  /\ starting' = "opening"
  /\ UNCHANGED <<watched, alarm, recoveryVars, starts, stopVars, handler>>

StartOpened ==
  /\ starting = "opening"
  /\ sock' = [sock EXCEPT ![mine] = "open"] /\ starting' = "settling"
  /\ UNCHANGED <<root, watched, alarm, recoveryVars, mine, starts, stopVars, handler>>

\* targets found and focused through the root client
StartFocused ==
  /\ starting = "settling" /\ Connected
  /\ starting' = "proxy"
  /\ UNCHANGED <<root, sock, watched, alarm, recoveryVars, mine, starts, stopVars, handler>>

\* the debugger's and the proxy's set-up swallow their errors; a client that died
\* meanwhile is not watched, and start() has succeeded all the same
StartSettled ==
  /\ starting = "proxy"
  /\ watched' = IF Connected THEN watched \cup {root} ELSE watched
  /\ intentional' = FALSE /\ starting' = "none" /\ mine' = 0
  /\ UNCHANGED <<root, sock, alarm, recoveryVars, starts, stopping, bus, handler>>

\* Variant: the client is dropped without its WebSocket being closed.
StartFailsOpen ==
  /\ starting # "none"
  /\ root' = 0 /\ starting' = "none" /\ mine' = 0
  /\ UNCHANGED <<sock, alarm, watched, recoveryVars, starts, stopVars, handler>>

\* an error or the 15 s deadline: connect() or its caller leave no client behind
StartFails ==
  /\ starting # "none"
  /\ sock' = Closed(root) /\ root' = 0
  /\ alarm' = alarm \cup ({root} \cap watched)
  /\ starting' = "none" /\ mine' = 0
  /\ UNCHANGED <<watched, recoveryVars, starts, stopVars, handler>>

-----------------------------------------------------------------------------
(* A dropped WebSocket and its recovery                                      *)

Drop(c) ==
  /\ sock[c] = "open"
  /\ sock' = [sock EXCEPT ![c] = "dead"]
  /\ alarm' = alarm \cup ({c} \cap watched)
  /\ UNCHANGED <<root, watched, recoveryVars, startVars, stopVars, handler>>

\* _on_message_handler_done
Alarm(c) ==
  /\ c \in alarm /\ alarm' = alarm \ {c} /\ watched' = watched \ {c}
  /\ recovery' = IF intentional \/ reconnecting THEN recovery ELSE "created"
  /\ UNCHANGED <<root, sock, attempt, old, new, reconnecting, reconnect_event,
                 startVars, stopVars, handler>>

\* one call of reconnect(), as far as the stop of the old client
Try(n) == attempt' = n /\ recovery' = "closing" /\ old' = root /\ new' = 0

\* Variant: _reconnecting is not set.
RecoveryBeginsUnmarked ==
  /\ recovery = "created" /\ Try(1)
  /\ UNCHANGED <<root, sock, watched, alarm, reconnecting, reconnect_event,
                 startVars, stopVars, handler>>

RecoveryBegins ==
  /\ recovery = "created"
  /\ reconnecting' = TRUE /\ reconnect_event' = FALSE
  /\ Try(1)
  /\ UNCHANGED <<root, sock, watched, alarm, startVars, stopVars, handler>>

OldClosed ==
  /\ recovery = "closing"
  /\ sock' = Closed(old) /\ root' = 0 /\ recovery' = "clearing"
  /\ UNCHANGED <<watched, alarm, attempt, old, new, reconnecting, reconnect_event,
                 startVars, stopVars, handler>>

NewOpens ==
  /\ recovery = "clearing" /\ Spare
  /\ new' = NextClient /\ root' = new'
  /\ sock' = [sock EXCEPT ![new'] = "opening"] /\ recovery' = "opening"
  /\ UNCHANGED <<watched, alarm, attempt, old, reconnecting, reconnect_event,
                 startVars, stopVars, handler>>

NewOpened ==
  /\ recovery = "opening"
  /\ sock' = [sock EXCEPT ![new] = "open"] /\ recovery' = "settling"
  /\ UNCHANGED <<root, watched, alarm, attempt, old, new, reconnecting,
                 reconnect_event, startVars, stopVars, handler>>

\* targets discovered and focus restored through the root client
Settled ==
  /\ recovery = "settling" /\ Connected
  /\ recovery' = "proxy"
  /\ UNCHANGED <<root, sock, watched, alarm, attempt, old, new, reconnecting,
                 reconnect_event, startVars, stopVars, handler>>

\* the finally block of _auto_reconnect
Finish == recovery' = "none" /\ reconnecting' = FALSE /\ reconnect_event' = TRUE

\* the same set-up, with the same end
RecoveryDone ==
  /\ recovery = "proxy"
  /\ watched' = IF Connected THEN watched \cup {root} ELSE watched
  /\ Finish
  /\ UNCHANGED <<root, sock, alarm, attempt, old, new, startVars, stopVars, handler>>

\* Variant: it gives up without the finally block.
TryFailsSilently ==
  /\ recovery \in Trying
  /\ sock' = IF recovery = "opening" THEN [sock EXCEPT ![new] = "dead"] ELSE sock
  /\ recovery' = IF attempt < MaxAttempts THEN "backoff" ELSE "none"
  /\ UNCHANGED <<root, watched, alarm, attempt, old, new, reconnecting, reconnect_event,
                 startVars, stopVars, handler>>

\* an exception or the 15 s deadline of the attempt; the new client is left as it is
TryFails ==
  /\ recovery \in Trying
  /\ sock' = IF recovery = "opening" THEN [sock EXCEPT ![new] = "dead"] ELSE sock
  /\ IF attempt < MaxAttempts
     THEN recovery' = "backoff" /\ UNCHANGED <<reconnecting, reconnect_event>>
     ELSE Finish
  /\ UNCHANGED <<root, watched, alarm, attempt, old, new, startVars, stopVars, handler>>

\* Variant: the attempt is not counted.
TryAgainUncounted ==
  /\ recovery = "backoff" /\ Try(attempt)
  /\ UNCHANGED <<root, sock, watched, alarm, reconnecting, reconnect_event,
                 startVars, stopVars, handler>>

TryAgain ==
  /\ recovery = "backoff" /\ Try(attempt + 1)
  /\ UNCHANGED <<root, sock, watched, alarm, reconnecting, reconnect_event,
                 startVars, stopVars, handler>>

-----------------------------------------------------------------------------
(* stop() and kill()                                                         *)

StopCalled ==
  /\ stopping = "none" /\ bus
  /\ intentional' = TRUE /\ stopping' = "saving"
  /\ UNCHANGED <<root, sock, watched, alarm, recoveryVars, startVars, bus, handler>>

\* Variant: the recovery goes on.
ResetClientOnly ==
  /\ sock' = Closed(root) /\ root' = 0
  /\ alarm' = alarm \ {root} /\ watched' = watched \ {root}
  /\ intentional' = FALSE
  /\ UNCHANGED recoveryVars

\* reset(): the recovery is cancelled, its waiters released, the client stopped
Reset ==
  /\ recovery' = "none" /\ reconnecting' = FALSE /\ reconnect_event' = TRUE
  /\ sock' = Closed(root) /\ root' = 0
  /\ alarm' = alarm \ {root} /\ watched' = watched \ {root}
  /\ intentional' = FALSE
  /\ UNCHANGED <<attempt, old, new>>

\* on_BrowserStopEvent, after every event queued before it
StopHandled ==
  /\ stopping = "saving" /\ Idle
  /\ Reset /\ stopping' = "stopped"
  /\ UNCHANGED <<startVars, bus, handler>>

\* keep_alive without force: the handler leaves everything to the second reset
StopKeepsAlive ==
  /\ stopping = "saving" /\ Idle /\ stopping' = "stopped"
  /\ UNCHANGED <<root, sock, watched, alarm, recoveryVars, startVars, intentional, bus, handler>>

\* the old bus stops, with the handler it is running, and a bare one replaces it
StopReturns ==
  /\ stopping = "stopped"
  /\ Reset /\ stopping' = "none" /\ bus' = FALSE
  /\ starting' = "none" /\ mine' = 0 /\ handler' = "idle"
  /\ UNCHANGED starts

-----------------------------------------------------------------------------
(* The gate before a handler of any other event                              *)

HandlerBegins ==
  /\ Idle /\ bus
  /\ handler' = IF Connected THEN "running"
                ELSE IF reconnecting THEN "waiting" ELSE "skipped"
  /\ UNCHANGED <<root, sock, watched, alarm, recoveryVars, startVars, stopVars>>

HandlerWakes ==
  /\ handler = "waiting" /\ reconnect_event
  /\ handler' = IF Connected THEN "running" ELSE "failed"
  /\ UNCHANGED <<root, sock, watched, alarm, recoveryVars, startVars, stopVars>>

\* RECONNECT_WAIT_TIMEOUT
HandlerTimesOut ==
  /\ handler = "waiting" /\ handler' = "failed"
  /\ UNCHANGED <<root, sock, watched, alarm, recoveryVars, startVars, stopVars>>

HandlerReturns ==
  /\ handler \in {"running", "failed", "skipped"} /\ handler' = "idle"
  /\ UNCHANGED <<root, sock, watched, alarm, recoveryVars, startVars, stopVars>>

StartStep ==
  \/ StartReturns \/ StartBegins \/ StartOpens \/ StartOpened \/ StartFocused
  \/ StartSettled \/ StartFails

RecoveryStep ==
  \/ RecoveryBegins \/ OldClosed \/ NewOpens \/ NewOpened \/ Settled
  \/ RecoveryDone \/ TryFails \/ TryAgain

StopStep == StopCalled \/ StopHandled \/ StopKeepsAlive \/ StopReturns

Next ==
  \/ StartStep \/ RecoveryStep \/ StopStep
  \/ HandlerBegins \/ HandlerWakes \/ HandlerTimesOut \/ HandlerReturns
  \/ \E c \in Clients : Drop(c) \/ Alarm(c)

Spec == Init /\ [][Next]_vars

\* the event loop runs what is ready: the recovery and the connect() whose waits
\* their deadlines bound, the callbacks, and the handlers the bus takes up
FairSpec ==
  /\ Spec
  /\ WF_vars(RecoveryStep) /\ WF_vars(\E c \in Clients : Alarm(c))
  /\ WF_vars(StartOpens \/ StartOpened \/ StartFocused \/ StartSettled \/ StartFails)
  /\ WF_vars(HandlerWakes) /\ WF_vars(HandlerReturns)
  /\ SF_vars(StopHandled \/ StopKeepsAlive) /\ WF_vars(StopReturns)

-----------------------------------------------------------------------------
TypeOK ==
  /\ root \in 0 .. MaxClients /\ sock \in [Clients -> Sockets]
  /\ watched \subseteq Clients /\ alarm \subseteq Clients
  /\ recovery \in Trying \cup {"none", "created", "backoff"}
  /\ attempt \in 0 .. MaxAttempts /\ {old, new, mine} \subseteq 0 .. MaxClients
  /\ {reconnecting, reconnect_event, intentional, bus} \subseteq BOOLEAN
  /\ starting \in {"none", "fetching", "opening", "settling", "proxy"}
  /\ stopping \in {"none", "saving", "stopped"}
  /\ handler \in {"idle", "running", "waiting", "failed", "skipped"}
  /\ starts \in 0 .. MaxStarts

\* Handlers that wait for _reconnect_event are held exactly while a recovery runs.
WaitersHeld == reconnect_event = ~reconnecting

\* A client whose socket is open is the root one: none is forgotten with its WebSocket
\* open, whichever attempt, deadline or reset got in the way.
NoOpenClientForgotten == \A c \in Clients : sock[c] = "open" => c = root

\* Types, and what holds between the client, the recovery and its event in every state.
Consistent == TypeOK /\ WaitersHeld /\ NoOpenClientForgotten

\* A stopped session stays quiet: no client, no recovery, no alarm that starts one.
StoppedIsQuiet == ~bus => root = 0 /\ recovery = "none" /\ alarm = {}

\* A handler that waits for a recovery is released by it, whatever becomes of it.
HandlersReleased == handler = "waiting" ~> handler # "waiting"

\* stop() and kill() return, whatever the bus is busy with when they are called: a
\* connect() in progress, or a handler that waits for a recovery.
StopCompletes == stopping # "none" ~> ~bus

\* The status the rest of the program sees.
Status ==
  IF ~bus THEN "closed"
  ELSE IF reconnecting THEN "recovering"
  ELSE IF root = 0 \/ starting # "none" THEN "down"
  ELSE IF sock[root] = "open" THEN "up" ELSE "lost"

Connection == INSTANCE ConnStatus WITH status <- Status

\* The session keeps the promises of ConnStatus.
ImplementsConnStatus == Connection!Spec
==============================================================================
