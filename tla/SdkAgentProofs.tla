--------------------------- MODULE SdkAgentProofs ---------------------------
(***************************************************************************)
(* Proofs about SdkAgent, for any number of runs, servers, cancellations    *)
(* and rubbish: whose result a run reports, no server outlives a run        *)
(* that keeps nothing alive, and a call that waits is heard.                *)
(***************************************************************************)
EXTENDS SdkAgent, WellFoundedInduction, TLAPS

Ios == {"none", "start", "spawn", "wait", "ok", "error"}
ClosePlaces == {"none", "begin", "draining", "waiting"}
CloserType == [at : ClosePlaces, client : 0 .. MaxTurns, proc : 0 .. MaxProcs]
Kinds == {"done", "failed"}

-----------------------------------------------------------------------------
(* Types                                                                     *)

Flags ==
  /\ keep \in BOOLEAN /\ stopped \in BOOLEAN /\ paused \in BOOLEAN /\ awake \in BOOLEAN
  /\ agent_id \in BOOLEAN /\ deaf \in BOOLEAN /\ crossed \in BOOLEAN

\* where the run is; it has a client while it is inside a call
CallInv ==
  /\ pc # "idle" => turn # 0
  /\ io # "none" => pc \in Calling
  /\ pc \in Calling => client # 0
  /\ io = "spawn" => ~Calls(client)

LEMMA FlagsTyped == TypeOK <=> TypeOK /\ Flags
  BY DEF TypeOK, Flags

LEMMA CallStep == ASSUME TypeOK, CallInv, [Next]_vars PROVE CallInv'
<1> USE DEF CallInv, Calling, Calls
<1>t. client \in 0 .. MaxTurns /\ turn \in 0 .. MaxTurns /\ process \in [Clients -> 0 .. MaxProcs]
      /\ server \in [Procs -> {"none", "up", "dead", "exited"}]
  BY DEF TypeOK
<1>1. ASSUME RunStep PROVE CallInv'
  <2>1. CASE CallStarts
    BY <2>1 DEF CallStarts, Send, agentVars, clientVars, serverVars
  <2>2. CASE Spawned
    BY <2>2 DEF Spawned, agentVars
  <2>3. CASE SpawnFails
    BY <2>3 DEF SpawnFails, agentVars
  <2>4. CASE Resumed \/ CancelledClosed \/ Cleanup \/ AgentClosed
    BY <2>4 DEF Resumed, CheckStop, CancelledClosed, Cleanup, AgentClosed, agentVars
  <2>5. CASE Ensure
    BY <2>5, <1>t DEF Ensure
  <2>6. CASE PingReturns \/ RunReturns \/ BrowserClosed
    BY <2>6 DEF PingReturns, RunReturns, BrowserClosed, agentVars
  <2>7. CASE PingFailed \/ ClientClosed
    BY <2>7 DEF PingFailed, ClientClosed
  <2> QED
    BY <1>1, <2>1, <2>2, <2>3, <2>4, <2>5, <2>6, <2>7 DEF RunStep
<1>2. CASE Run
  BY <1>2, <1>t DEF Run, CheckStop
<1>3. CASE Cancelled \/ CancelledEarly
  BY <1>3 DEF Cancelled, CancelledEarly, agentVars
<1>4. CASE Stop \/ Pause \/ Resume
  BY <1>4 DEF Stop, Pause, Resume, agentVars, clientVars, serverVars
<1>5. ASSUME NEW k \in Closers, CloseStep(k) PROVE CallInv'
  <2>1. CASE CloseBegins(k)
    BY <2>1 DEF CloseBegins, agentVars, clientVars
  <2>2. CASE Terminates(k)
    BY <2>2, <1>t DEF Terminates, agentVars, clientVars
  <2>3. CASE CloseReturns(k)
    BY <2>3, <1>t DEF CloseReturns, Fails, agentVars
  <2> QED
    BY <1>5, <2>1, <2>2, <2>3 DEF CloseStep
<1>s. ASSUME UNCHANGED <<pc, client, turn, process>>,
             UNCHANGED io \/ (io = "wait" /\ io' # "spawn"),
             \A q \in Procs : server[q] = "exited" => server'[q] = "exited"
      PROVE  CallInv'
  BY <1>s, <1>t DEF Clients, Procs
<1>6. ASSUME NEW p \in Procs, ServerStep(p) PROVE CallInv'
  <2>1. CASE Answers(p) \/ AnswersError(p) \/ \E kind \in Kinds : Notifies(p, kind)
    BY <1>s, <2>1 DEF Answers, AnswersError, Notifies, agentVars, clientVars, serverVars
  <2>2. CASE WritesRubbish(p)
    BY <1>s, <2>2 DEF WritesRubbish, Fails, agentVars, clientVars
  <2>3. CASE Dies(p)
    BY <1>s, <1>t, <2>3 DEF Dies, agentVars, clientVars
  <2> QED
    BY <1>6, <2>1, <2>2, <2>3 DEF ServerStep, Kinds
<1>7. ASSUME NEW p \in Procs, Reaped(p) \/ ReaderEnds(p) PROVE CallInv'
  <2>1. CASE Reaped(p)
    BY <1>s, <1>t, <2>1 DEF Reaped, agentVars, clientVars
  <2>2. CASE ReaderEnds(p)
    BY <1>s, <2>2 DEF ReaderEnds, Fails, agentVars, clientVars
  <2> QED
    BY <1>7, <2>1, <2>2
<1>8. CASE UNCHANGED vars
  BY <1>8 DEF vars, agentVars, clientVars, serverVars
<1> QED
  BY <1>1, <1>2, <1>3, <1>4, <1>5, <1>6, <1>7, <1>8 DEF Next

(* Of the turns the notifications tell of, there is a latest.                *)
LEMMA LatestIn ==
  ASSUME NEW S \in SUBSET Nat, S # {}, NEW n \in Nat, \A m \in S : m <= n
  PROVE  Latest(S) \in S /\ \A m \in S : m <= Latest(S)
<1> DEFINE T == {b \in Nat : \A m \in S : m <= b}
<1>1. T \subseteq Nat /\ n \in T
  OBVIOUS
<1>2. PICK b \in T : \A y \in T : <<y, b>> \notin OpToRel(<, Nat)
  <2> HIDE DEF T
  <2> QED
    BY <1>1, WFMin, NatLessThanWellFounded, Zenon
<1>3. \A y \in T : ~(y < b)
  BY <1>1, <1>2 DEF OpToRel
<1>4. b \in S
  <2> SUFFICES ASSUME b \notin S PROVE FALSE
    OBVIOUS
  <2>1. \A m \in S : m <= b - 1 /\ b - 1 \in Nat
    OBVIOUS
  <2>2. b - 1 \in T
    BY <2>1
  <2> QED
    BY <1>3, <2>2
<1> QED
  BY <1>1, <1>4 DEF Latest

LEMMA NotedIn ==
  ASSUME turn \in Nat
  PROVE  \/ Noted = 0
         \/ /\ Noted \in 1 .. turn /\ <<Noted, "done">> \in notes
            /\ \A n \in 1 .. turn : <<n, "done">> \in notes => n <= Noted
<1>1. CASE Turns("done") = {}
  BY <1>1 DEF Noted
<1>2. CASE Turns("done") # {}
  <2>1. Turns("done") \in SUBSET Nat /\ \A m \in Turns("done") : m <= turn
    BY DEF Turns
  <2>2. Latest(Turns("done")) \in Turns("done") /\ \A m \in Turns("done") : m <= Latest(Turns("done"))
    BY <1>2, <2>1, LatestIn
  <2> QED
    BY <2>2 DEF Noted, Turns
<1> QED
  BY <1>1, <1>2

LEMMA TypeStep == ASSUME TypeOK, CallInv, [Next]_vars PROVE TypeOK'
<1> DEFINE Places_ == pc \in Places /\ io \in Ios
           Agent_ == /\ client \in 0 .. MaxTurns /\ turn \in 0 .. MaxTurns
                     /\ history \in 0 .. MaxTurns
           Client_ == /\ process \in [Clients -> 0 .. MaxProcs]
                      /\ notes \subseteq ((1 .. MaxTurns) \X Kinds)
           Server_ == /\ server \in [Procs -> {"none", "up", "dead", "exited"}]
                      /\ stdin \subseteq Procs
                      /\ reader \in [Procs -> {"none", "reading", "ended"}]
                      /\ owner \in [Procs -> 0 .. MaxTurns]
           Rest_ == asked \in 0 .. MaxProcs /\ cuts \in 0 .. MaxCuts /\ rubbish \in 0 .. MaxRubbish
           Closers_ == closer \in [Closers -> CloserType]
<1>t. /\ Places_ /\ Flags /\ Agent_ /\ Client_ /\ Server_ /\ Rest_ /\ Closers_
      /\ MaxTurns \in Nat /\ MaxProcs \in Nat /\ MaxCuts \in Nat /\ MaxRubbish \in Nat
  BY Bounds DEF TypeOK, Flags, Ios, CloserType, ClosePlaces, Kinds
<1>u. SUFFICES Places_' /\ Flags' /\ Agent_' /\ Client_' /\ Server_' /\ Rest_' /\ Closers_'
  BY DEF TypeOK, Flags, Ios, CloserType, ClosePlaces, Kinds
<1>k. \A k \in Closers : closer[k] \in CloserType
  BY <1>t
<1>o. "own" \in Closers /\ "stop" \in Closers
  BY DEF Closers
<1>r. \A k \in Closers, r \in CloserType : closer' = [closer EXCEPT ![k] = r] => Closers_'
  BY <1>t
<1>b. \A k \in Closers :
        closer' = [closer EXCEPT ![k].at = "begin"]
          \/ closer' = [closer EXCEPT ![k].at = "waiting"] => Closers_'
  BY <1>t, <1>k DEF CloserType, ClosePlaces
<1>n. NoClose \in CloserType
  BY <1>t DEF NoClose, CloserType, ClosePlaces
<1> DEFINE Typed == /\ Places_ /\ Flags /\ Agent_ /\ Client_ /\ Server_ /\ Rest_ /\ Closers_
<1> USE DEF Places, Calling, Ios, Flags
<1> USE DEF flagVars, agentVars, clientVars, serverVars, requestVars, bounds
<1>1. CASE CallStarts
  <2>1. deaf' \in BOOLEAN
    BY <1>t, <1>1 DEF CallStarts, Send
  <2>2. Places_' /\ Rest_'
    BY <1>t, <1>1 DEF CallStarts, Send, CallInv, Calls, Clients
  <2>3. UNCHANGED <<flagVars, agentVars, clientVars, serverVars, closer>>
    BY <1>1 DEF CallStarts
  <2> QED
    BY <1>t, <2>1, <2>2, <2>3
<1>2. CASE Spawned
  <2>1. PICK p \in Procs :
          /\ server' = [server EXCEPT ![p] = "up"] /\ reader' = [reader EXCEPT ![p] = "reading"]
          /\ owner' = [owner EXCEPT ![p] = client] /\ process' = [process EXCEPT ![client] = p]
          /\ io' = "wait" /\ asked' = p
    BY <1>2 DEF Spawned
  <2>2. p \in 0 .. MaxProcs
    BY <1>t DEF Procs
  <2>3. crossed' \in BOOLEAN
    BY <1>t, <1>2 DEF Spawned
  <2>4. UNCHANGED <<pc, flagVars, agentVars, notes, stdin, deaf, closer, bounds>>
    BY <1>2 DEF Spawned
  <2>5. Client_' /\ Server_'
    BY <1>t, <2>1, <2>2, <2>4
  <2> QED
    BY <1>t, <2>1, <2>2, <2>3, <2>4, <2>5
<1>3. CASE SpawnFails
  BY <1>t, <1>k, <1>b, <1>3 DEF SpawnFails, CallInv
<1>4. CASE Resumed
  BY <1>t, <1>k, <1>b, <1>4 DEF Resumed, CheckStop, CallInv
<1>5. CASE Ensure
  BY <1>t, <1>k, <1>b, <1>5 DEF Ensure, CallInv
<1>6. CASE PingReturns
  BY <1>t, <1>o, <1>b, <1>6 DEF PingReturns, Begin
<1>7. CASE PingFailed
  BY <1>t, <1>k, <1>b, <1>7 DEF PingFailed, CallInv
<1>8. CASE RunReturns
  <2>1. agent_id' \in BOOLEAN
    BY <1>t, <1>8 DEF RunReturns
  <2>2. Noted \in 0 .. MaxTurns
    BY <1>t, NotedIn
  <2>3. history' \in 0 .. MaxTurns
    BY <1>t, <2>2, <1>8 DEF RunReturns
  <2> QED
    BY <1>t, <2>1, <2>3, <1>8 DEF RunReturns
<1>9. CASE CancelledClosed
  BY <1>t, <1>k, <1>b, <1>9 DEF CancelledClosed, CallInv
<1>10. CASE Cleanup
  BY <1>t, <1>o, <1>b, <1>10 DEF Cleanup, Begin
<1>11. CASE AgentClosed
  BY <1>t, <1>k, <1>b, <1>11 DEF AgentClosed, CallInv
<1>12. CASE BrowserClosed
  BY <1>t, <1>o, <1>b, <1>12 DEF BrowserClosed, Begin
<1>13. CASE ClientClosed
  BY <1>t, <1>k, <1>b, <1>13 DEF ClientClosed, CallInv
<1>14. CASE Run
  <2>1. stopped' \in BOOLEAN /\ paused' \in BOOLEAN /\ awake' \in BOOLEAN
    BY <1>t, <1>14 DEF Run
  <2>2. pc' \in Places /\ history' \in 0 .. MaxTurns
    BY <1>t, <1>14 DEF Run, CheckStop
  <2>3. turn' \in 0 .. MaxTurns
    BY <1>t, <1>14 DEF Run
  <2>4. UNCHANGED <<io, keep, client, agent_id, clientVars, serverVars, requestVars, closer, bounds>>
    BY <1>14 DEF Run
  <2> QED
    BY <1>t, <2>1, <2>2, <2>3, <2>4
<1>15. CASE Cancelled
  <2>1. Noted \in 0 .. MaxTurns
    BY <1>t, NotedIn
  <2>2. Closers_'
    BY <1>o, <1>b, <1>15 DEF Cancelled, Begin
  <2>3. history' \in 0 .. MaxTurns
    BY <1>t, <2>1, <1>15 DEF Cancelled
  <2>4. cuts' \in 0 .. MaxCuts
    BY <1>t, <1>15 DEF Cancelled
  <2> QED
    BY <1>t, <2>2, <2>3, <2>4, <1>15 DEF Cancelled
<1>16. CASE CancelledEarly
  BY <1>t, <1>k, <1>b, <1>16 DEF CancelledEarly, CallInv
<1>17. CASE Stop
  BY <1>t, <1>o, <1>b, <1>17 DEF Stop, Begin
<1>18. CASE Pause
  <2>1. paused' \in BOOLEAN /\ awake' \in BOOLEAN
    BY <1>18 DEF Pause
  <2>2. cuts' \in 0 .. MaxCuts
    BY <1>t, <1>18 DEF Pause
  <2> QED
    BY <1>t, <2>1, <2>2, <1>18 DEF Pause
<1>19. CASE Resume
  BY <1>t, <1>k, <1>b, <1>19 DEF Resume, CallInv
<1>20. ASSUME NEW k \in Closers, CloseBegins(k) PROVE Typed'
  <2> DEFINE p == IF client = 0 THEN 0 ELSE process[client]
  <2>1. p \in 0 .. MaxProcs
    BY <1>t DEF Clients
  <2>2. [at |-> "draining", client |-> client, proc |-> p] \in CloserType
    BY <1>t, <2>1 DEF CloserType, ClosePlaces
  <2>3. Closers_'
    BY <1>n, <1>r, <2>2, <1>20 DEF CloseBegins
  <2>4. p # 0 => p \in Procs
    BY <1>t, <2>1 DEF Procs
  <2>5. stdin' \subseteq Procs
    BY <1>t, <2>4, <1>20 DEF CloseBegins
  <2> QED
    BY <1>t, <2>3, <2>5, <1>20 DEF CloseBegins
<1>21. ASSUME NEW k \in Closers, Terminates(k) PROVE Typed'
  <2>1. Closers_'
    BY <1>b, <1>21 DEF Terminates
  <2>2. server' \in [Procs -> {"none", "up", "dead", "exited"}]
    BY <1>t, <1>21 DEF Terminates
  <2>3. asked' \in 0 .. MaxProcs
    BY <1>t, <1>21 DEF Terminates
  <2> QED
    BY <1>t, <2>1, <2>2, <2>3, <1>21 DEF Terminates
<1>22. ASSUME NEW k \in Closers, CloseReturns(k) PROVE Typed'
  <2>1. Closers_'
    BY <1>n, <1>r, <1>22 DEF CloseReturns
  <2>2. reader' \in [Procs -> {"none", "reading", "ended"}]
    BY <1>t, <1>22 DEF CloseReturns
  <2>3. process' \in [Clients -> 0 .. MaxProcs]
    <3>1. process' = [process EXCEPT ![closer[k].client] = 0]
      BY <1>22 DEF CloseReturns
    <3>2. 0 \in 0 .. MaxProcs
      BY <1>t
    <3> QED
      BY <1>t, <3>1, <3>2
  <2>4. io' \in Ios
    BY <1>t, <1>22 DEF CloseReturns, Fails
  <2> QED
    BY <1>t, <2>1, <2>2, <2>3, <2>4, <1>22 DEF CloseReturns
<1>23. ASSUME NEW p \in Procs, Answers(p) PROVE Typed'
  BY <1>t, <1>23 DEF Answers
<1>24. ASSUME NEW p \in Procs, AnswersError(p) PROVE Typed'
  BY <1>t, <1>24 DEF AnswersError
<1>25. ASSUME NEW p \in Procs, WritesRubbish(p) PROVE Typed'
  <2>1. reader' \in [Procs -> {"none", "reading", "ended"}]
    BY <1>t, <1>25 DEF WritesRubbish
  <2>2. io' \in Ios /\ rubbish' \in 0 .. MaxRubbish
    BY <1>t, <1>25 DEF WritesRubbish, Fails
  <2> QED
    BY <1>t, <2>1, <2>2, <1>25 DEF WritesRubbish
<1>26. ASSUME NEW p \in Procs, Dies(p) PROVE Typed'
  BY <1>t, <1>26 DEF Dies
<1>27. ASSUME NEW p \in Procs, Reaped(p) PROVE Typed'
  BY <1>t, <1>27 DEF Reaped
<1>28. ASSUME NEW p \in Procs, ReaderEnds(p) PROVE Typed'
  BY <1>t, <1>28 DEF ReaderEnds, Fails
<1>29. ASSUME NEW p \in Procs, NEW kind \in Kinds, Notifies(p, kind) PROVE Typed'
  BY <1>t, <1>29 DEF Notifies, CallInv
<1>30. CASE UNCHANGED vars
  BY <1>t, <1>30 DEF vars
<1> QED
  BY <1>1, <1>2, <1>3, <1>4, <1>5, <1>6, <1>7, <1>8, <1>9, <1>10, <1>11, <1>12,
     <1>13, <1>14, <1>15, <1>16, <1>17, <1>18, <1>19, <1>20, <1>21, <1>22, <1>23,
     <1>24, <1>25, <1>26, <1>27, <1>28, <1>29, <1>30
  DEF Next, RunStep, CloseStep, ServerStep, Kinds

LEMMA InitTyped == ASSUME Init PROVE TypeOK /\ CallInv
<1>1. CallInv
  BY DEF Init, CallInv, Calling
<1>2. Flags /\ pc \in Places /\ io \in Ios
  BY DEF Init, Flags, Places, Ios
<1>3. /\ client \in 0 .. MaxTurns /\ turn \in 0 .. MaxTurns /\ history \in 0 .. MaxTurns
      /\ process \in [Clients -> 0 .. MaxProcs] /\ owner \in [Procs -> 0 .. MaxTurns]
      /\ asked \in 0 .. MaxProcs /\ cuts \in 0 .. MaxCuts /\ rubbish \in 0 .. MaxRubbish
  BY Bounds DEF Init
<1>4. closer \in [Closers -> CloserType]
  BY Bounds DEF Init, NoClose, CloserType, ClosePlaces
<1>5. TypeOK
  BY <1>2, <1>3, <1>4 DEF Init, TypeOK, Flags, Ios, CloserType, ClosePlaces
<1> QED
  BY <1>1, <1>5

TypedInv == TypeOK /\ CallInv

LEMMA TypedHolds == Spec => []TypedInv
<1>1. Init => TypedInv
  BY InitTyped DEF TypedInv
<1>2. TypedInv /\ [Next]_vars => TypedInv'
  BY TypeStep, CallStep DEF TypedInv
<1> QED
  BY <1>1, <1>2, PTL DEF Spec

-----------------------------------------------------------------------------
(* What a run reports                                                        *)

\* the client keeps the notifications of the turns since it was made; one that is not
\* kept alive is made by each run that needs it
Fresh ==
  /\ client <= turn
  /\ client = 0 => notes = {}
  /\ \A n \in Nat, kind \in Kinds : <<n, kind>> \in notes => client <= n /\ n <= turn
  /\ ~keep => (pc \in {"idle", "paused", "prefix"} => client = 0) /\ client \in {0, turn}

LEMMA FreshStep == ASSUME TypeOK, CallInv, Fresh, [Next]_vars PROVE Fresh'
<1> USE DEF Fresh
<1>t. client \in Nat /\ turn \in Nat
  BY DEF TypeOK
<1> USE DEF agentVars, clientVars
<1>s. ASSUME UNCHANGED <<keep, client, turn, notes>>,
             pc' \in {"idle", "paused", "prefix"} =>
               keep \/ client = 0 \/ pc \in {"idle", "paused", "prefix"}
      PROVE  Fresh'
  BY <1>s
<1>1. CASE CallStarts \/ Spawned \/ SpawnFails \/ Resumed
  BY <1>s, <1>1 DEF CallStarts, Spawned, SpawnFails, Resumed, CheckStop
<1>2. CASE PingReturns \/ RunReturns \/ CancelledClosed \/ AgentClosed \/ BrowserClosed
  BY <1>s, <1>2 DEF PingReturns, RunReturns, CancelledClosed, AgentClosed, BrowserClosed
<1>3. CASE Cleanup
  BY <1>s, <1>3 DEF Cleanup
<1>4. CASE Ensure
  <2>1. UNCHANGED <<keep, turn>> /\ pc' \in {"run", "ping"} /\ turn # 0
    BY <1>4 DEF Ensure, CallInv
  <2>2. UNCHANGED <<client, notes>> \/ (client' = turn /\ notes' = {})
    BY <1>4 DEF Ensure
  <2> QED
    BY <1>t, <2>1, <2>2
<1>5. CASE PingFailed \/ ClientClosed
  BY <1>t, <1>5 DEF PingFailed, ClientClosed
<1>6. CASE Run
  BY <1>t, <1>6 DEF Run, CheckStop
<1>7. CASE Cancelled \/ CancelledEarly \/ Stop \/ Pause \/ Resume
  BY <1>s, <1>7 DEF Cancelled, CancelledEarly, Stop, Pause, Resume
<1>8. ASSUME NEW k \in Closers, CloseStep(k) PROVE Fresh'
  BY <1>s, <1>8 DEF CloseStep, CloseBegins, Terminates, CloseReturns
<1>9. ASSUME NEW p \in Procs, NEW kind \in Kinds, Notifies(p, kind) PROVE Fresh'
  <2>1. pc = "run" /\ client # 0
    BY <1>9 DEF Notifies, CallInv, Calling
  <2>2. /\ UNCHANGED <<pc, keep, client, turn>>
        /\ notes' = notes \cup {<<turn, kind>>}
    BY <1>9 DEF Notifies
  <2> QED
    BY <1>t, <2>1, <2>2
<1>10. ASSUME NEW p \in Procs,
              \/ Answers(p) \/ AnswersError(p) \/ WritesRubbish(p) \/ Dies(p)
              \/ Reaped(p) \/ ReaderEnds(p)
       PROVE  Fresh'
  BY <1>s, <1>10 DEF Answers, AnswersError, WritesRubbish, Dies, Reaped, ReaderEnds
<1>11. CASE UNCHANGED vars
  BY <1>s, <1>11 DEF vars
<1> QED
  BY <1>1, <1>2, <1>3, <1>4, <1>5, <1>6, <1>7, <1>8, <1>9, <1>10, <1>11
     DEF Next, RunStep, ServerStep, Kinds

(* The run comes back from the server with nothing, with its own result, or  *)
(* with an earlier one its client was kept since.                            *)
LEMMA OwnResult ==
  ASSUME TypeOK, CallInv, Fresh, [Next]_vars, pc = "run", pc' = "cleanup"
  PROVE  \/ history' \in {0, turn}
         \/ keep /\ client < turn /\ <<turn, "done">> \notin notes
<1>1. \/ Noted \in {0, turn}
      \/ keep /\ client < turn /\ <<turn, "done">> \notin notes
  <2>1. turn \in Nat /\ client \in Nat /\ client # 0 /\ turn # 0
    BY DEF TypeOK, CallInv, Calling
  <2> SUFFICES ASSUME Noted \notin {0, turn}
               PROVE  keep /\ client < turn /\ <<turn, "done">> \notin notes
    OBVIOUS
  <2>2. /\ Noted \in 1 .. turn /\ <<Noted, "done">> \in notes
        /\ \A m \in 1 .. turn : <<m, "done">> \in notes => m <= Noted
    BY <2>1, NotedIn
  <2>3. \A n \in 1 .. turn : <<n, "done">> \in notes => client <= n
    <3>1. \A n \in Nat, kind \in Kinds : <<n, kind>> \in notes => client <= n
      BY DEF Fresh
    <3>2. "done" \in Kinds /\ 1 .. turn \subseteq Nat
      BY DEF Kinds
    <3> QED
      BY <3>1, <3>2
  <2>4. client <= Noted /\ Noted < turn
    BY <2>1, <2>2, <2>3
  <2>5. <<turn, "done">> \notin notes
    BY <2>1, <2>2, <2>4
  <2>6. client \notin {0, turn} /\ client < turn
    BY <2>1, <2>2, <2>4
  <2> QED
    BY <2>5, <2>6 DEF Fresh
<1>2. RunReturns
  <2>1. UNCHANGED pc => FALSE
    OBVIOUS
  <2>2. ASSUME NEW p \in Procs, ServerStep(p) \/ Reaped(p) \/ ReaderEnds(p) PROVE UNCHANGED pc
    BY <2>2 DEF ServerStep, Answers, AnswersError, Notifies, WritesRubbish, Dies, Reaped, ReaderEnds
  <2>3. ASSUME NEW k \in Closers, CloseStep(k) PROVE UNCHANGED pc
    BY <2>3 DEF CloseStep, CloseBegins, Terminates, CloseReturns
  <2>4. ASSUME Run \/ Cancelled \/ CancelledEarly \/ Stop \/ Pause \/ Resume PROVE FALSE
    BY <2>4 DEF Run, Cancelled, CancelledEarly, Stop, Pause, Resume
  <2>5. ASSUME RunStep, ~RunReturns PROVE FALSE
    BY <2>5 DEF RunStep, CallStarts, Spawned, SpawnFails, Resumed, Ensure, PingReturns,
                PingFailed, CancelledClosed, Cleanup, AgentClosed, BrowserClosed, ClientClosed
  <2> QED
    BY <2>1, <2>2, <2>3, <2>4, <2>5 DEF Next, vars
<1> QED
  BY <1>1, <1>2 DEF RunReturns

(* A run returns its own result or none, with one exception: a client kept   *)
(* alive since an earlier turn, whose server notified no result of this one  *)
(* (_run_sdk_agent, the choice between the response and the notifications).  *)
THEOREM ReportsOwnTurnHolds == Spec => ReportsOwnTurn
<1>1. Init => Fresh
  BY DEF Init, Fresh
<1>2. TypedInv /\ Fresh /\ [Next]_vars => Fresh'
  BY FreshStep DEF TypedInv
<1>3. TypedInv /\ Fresh /\ [Next]_vars
        => [pc = "run" /\ pc' = "cleanup" =>
              \/ history' \in {0, turn}
              \/ keep /\ client < turn /\ <<turn, "done">> \notin notes]_vars
  BY OwnResult DEF TypedInv
<1> QED
  BY <1>1, <1>2, <1>3, TypedHolds, PTL DEF Spec, ReportsOwnTurn

-----------------------------------------------------------------------------
(* Which servers live                                                        *)

\* only a call starts a server; everything else lets servers go, and clients forget them
Fading ==
  /\ UNCHANGED <<owner, crossed>>
  /\ \A p \in Procs : /\ server[p] = "none" <=> server'[p] = "none"
                      /\ server'[p] = "up" => server[p] = "up"
  /\ \A c \in Clients : process'[c] \in {process[c], 0}

LEMMA Fades == ASSUME TypeOK, [Next]_vars, ~Spawned PROVE Fading
<1> USE DEF agentVars, clientVars, serverVars
<1>t. /\ process \in [Clients -> 0 .. MaxProcs]
      /\ server \in [Procs -> {"none", "up", "dead", "exited"}]
  BY DEF TypeOK
<1>1. ASSUME UNCHANGED <<process, server, owner, crossed>> PROVE Fading
  BY <1>1 DEF Fading
<1>2. ASSUME NEW p \in Procs, Dies(p) \/ Reaped(p) PROVE Fading
  BY <1>2, <1>t DEF Dies, Reaped, Fading
<1>3. ASSUME NEW k \in Closers, Terminates(k) PROVE Fading
  BY <1>3, <1>t DEF Terminates, Fading
<1>4. ASSUME NEW k \in Closers, CloseReturns(k) PROVE Fading
  <2>1. UNCHANGED <<server, owner, crossed>> /\ process' = [process EXCEPT ![closer[k].client] = 0]
    BY <1>4 DEF CloseReturns
  <2> QED
    BY <1>t, <2>1 DEF Fading
<1>5. ASSUME NEW k \in Closers, CloseBegins(k) PROVE Fading
  BY <1>1, <1>5 DEF CloseBegins
<1>6. ASSUME NEW p \in Procs,
             \/ Answers(p) \/ AnswersError(p) \/ WritesRubbish(p) \/ ReaderEnds(p)
             \/ \E kind \in Kinds : Notifies(p, kind)
      PROVE  Fading
  BY <1>1, <1>6 DEF Answers, AnswersError, WritesRubbish, ReaderEnds, Notifies
<1>7. ASSUME RunStep PROVE Fading
  BY <1>1, <1>7 DEF RunStep, CallStarts, SpawnFails, Resumed, Ensure, PingReturns, PingFailed,
     RunReturns, CancelledClosed, Cleanup, AgentClosed, BrowserClosed, ClientClosed
<1>8. ASSUME Run \/ Cancelled \/ CancelledEarly \/ Stop \/ Pause \/ Resume \/ UNCHANGED vars
      PROVE  Fading
  BY <1>1, <1>8 DEF Run, Cancelled, CancelledEarly, Stop, Pause, Resume, vars
<1> QED
  BY <1>2, <1>3, <1>4, <1>5, <1>6, <1>7, <1>8 DEF Next, ServerStep, CloseStep, Kinds

\* a client believes in a server of its own
ProcInv ==
  \A c \in Clients : process[c] # 0 => server[process[c]] # "none" /\ owner[process[c]] = c

LEMMA SpawnedBy ==
  ASSUME TypeOK, CallInv, Spawned
  PROVE  /\ client \in Clients
         /\ \E p \in Procs :
              /\ server[p] = "none" /\ server' = [server EXCEPT ![p] = "up"]
              /\ reader' = [reader EXCEPT ![p] = "reading"] /\ owner' = [owner EXCEPT ![p] = client]
              /\ process' = [process EXCEPT ![client] = p] /\ asked' = p
         /\ UNCHANGED <<pc, client, keep, closer, stdin, deaf>>
<1>1. client \in Clients
  <2>1. client # 0
    BY DEF Spawned, CallInv
  <2>2. client \in 0 .. MaxTurns
    BY DEF TypeOK
  <2> QED
    BY <2>1, <2>2, Bounds DEF Clients
<1> QED
  BY <1>1 DEF Spawned, agentVars

LEMMA ProcStep == ASSUME TypeOK, CallInv, ProcInv, [Next]_vars PROVE ProcInv'
<1>t. /\ process \in [Clients -> 0 .. MaxProcs] /\ owner \in [Procs -> 0 .. MaxTurns]
      /\ server \in [Procs -> {"none", "up", "dead", "exited"}]
  BY DEF TypeOK
<1>p. \A c \in Clients : process[c] # 0 => process[c] \in Procs
  BY <1>t DEF Procs
<1>1. CASE Spawned
  BY <1>1, <1>t, <1>p, SpawnedBy DEF ProcInv
<1>2. CASE ~Spawned
  <2>1. Fading
    BY <1>2, Fades
  <2> QED
    BY <1>p, <2>1 DEF Fading, ProcInv
<1> QED
  BY <1>1, <1>2

Closing == {"ping_failed", "cancelled", "close"}
Draining(p) == \E k \in Closers : closer[k].at = "draining" /\ closer[k].proc = p

\* where a close() stands; while one is under way nobody but itself forgets or replaces
\* the server it closes, unless a start has crossed it
Closer(k) ==
  /\ closer[k].at \in {"none", "begin"} => closer[k].client = 0 /\ closer[k].proc = 0
  /\ closer[k].at \in {"draining", "waiting"} =>
       /\ closer[k].client \in Clients /\ closer[k].proc \in Procs
       /\ server[closer[k].proc] # "none"
       /\ closer[k].at = "waiting" => server[closer[k].proc] # "up"
       /\ ~crossed => process[closer[k].client] \in {0, closer[k].proc}

CloserInv ==
  /\ pc \notin Closing => Closed("own")
  /\ \A k \in Closers : Closer(k)

LEMMA CloserStep == ASSUME TypeOK, CallInv, ProcInv, CloserInv, [Next]_vars PROVE CloserInv'
<1> USE DEF CloserInv
<1> USE DEF agentVars, clientVars, serverVars
<1>t. /\ process \in [Clients -> 0 .. MaxProcs] /\ client \in 0 .. MaxTurns
      /\ server \in [Procs -> {"none", "up", "dead", "exited"}]
      /\ closer \in [Closers -> CloserType]
  BY DEF TypeOK, CloserType, ClosePlaces
<1>o. "own" \in Closers /\ "stop" \in Closers
  BY DEF Closers
<1>p. \A c \in Clients : process[c] # 0 => process[c] \in Procs
  BY <1>t DEF Procs
<1>q. CallInv
  OBVIOUS
\* a close() that does not move stays as described
<1>s. ASSUME NEW k \in Closers, closer'[k] = closer[k] PROVE Closer(k)'
  <2>1. CASE Spawned
    <3>1. closer[k].client = client => crossed'
      BY <1>s, <2>1 DEF Spawned
    <3> QED
      BY <1>s, <1>t, <2>1, <3>1, SpawnedBy DEF Closer, Spawned
  <2>2. CASE ~Spawned
    <3>1. Fading
      BY <2>2, Fades
    <3> QED
      BY <1>s, <1>t, <3>1 DEF Fading, Closer
  <2> QED
    BY <2>1, <2>2
<1>b. ASSUME NEW k \in Closers, Begin(k), Closed(k) PROVE \A l \in Closers : Closer(l)'
  <2>1. Closer(k)'
    BY <1>b, <1>t DEF Begin, Closed, NoClose, Closer
  <2>2. \A l \in Closers : l # k => closer'[l] = closer[l]
    BY <1>b, <1>t DEF Begin
  <2> QED
    BY <1>s, <2>1, <2>2
<1>u. ASSUME UNCHANGED closer, pc' \notin Closing => pc \notin Closing \/ Closed("own")
      PROVE  CloserInv'
  BY <1>s, <1>u DEF Closed
<1>1. CASE CallStarts \/ Spawned \/ SpawnFails \/ Resumed
  BY <1>u, <1>1 DEF CallStarts, Spawned, SpawnFails, Resumed, CheckStop, Closing
<1>2. CASE Ensure \/ PingFailed \/ RunReturns \/ CancelledClosed \/ AgentClosed \/ ClientClosed
  BY <1>u, <1>2 DEF Ensure, PingFailed, RunReturns, CancelledClosed, AgentClosed, ClientClosed, Closing
<1>3. CASE Run \/ CancelledEarly \/ Pause \/ Resume \/ UNCHANGED vars
  BY <1>u, <1>3 DEF Run, CheckStop, CancelledEarly, Pause, Resume, vars, Closing
<1>4. CASE PingReturns \/ Cleanup \/ BrowserClosed \/ Cancelled
  <2>1. Closed("own")
    BY <1>4 DEF PingReturns, Cleanup, BrowserClosed, Cancelled, Closing
  <2>2. CASE UNCHANGED closer
    BY <1>u, <2>1, <2>2
  <2>3. CASE Begin("own") /\ pc' \in Closing
    BY <1>b, <1>o, <2>1, <2>3
  <2> QED
    BY <1>4, <2>2, <2>3 DEF PingReturns, Cleanup, BrowserClosed, Cancelled, Closing
<1>5. CASE Stop
  <2>1. UNCHANGED pc /\ Closed("stop") /\ (Begin("stop") \/ UNCHANGED closer)
    BY <1>5 DEF Stop
  <2>2. CASE UNCHANGED closer
    BY <1>u, <2>1, <2>2
  <2>3. CASE Begin("stop")
    <3>1. closer'["own"] = closer["own"]
      BY <1>t, <1>o, <2>3 DEF Begin
    <3> QED
      BY <1>b, <1>o, <2>1, <2>3, <3>1 DEF Closed
  <2> QED
    BY <2>1, <2>2, <2>3
<1>6. ASSUME NEW k \in Closers, CloseStep(k) PROVE CloserInv'
  <2>1. UNCHANGED <<pc, crossed>> /\ ~Closed(k) /\ \A l \in Closers : l # k => closer'[l] = closer[l]
    BY <1>6, <1>t DEF CloseStep, CloseBegins, Terminates, CloseReturns, Closed, NoClose
  <2>2. Closer(k)'
    <3>1. CASE CloseBegins(k)
      <4> DEFINE p == IF client = 0 THEN 0 ELSE process[client]
      <4>1. CASE p = 0
        <5>1. closer'[k] = NoClose
          BY <1>t, <3>1, <4>1 DEF CloseBegins
        <5> QED
          BY <5>1 DEF Closer, NoClose
      <4>2. CASE p # 0
        <5>1. closer'[k] = [at |-> "draining", client |-> client, proc |-> p]
          BY <1>t, <3>1, <4>2 DEF CloseBegins
        <5>2. UNCHANGED <<server, process>>
          BY <3>1 DEF CloseBegins
        <5>3. client \in Clients /\ p \in Procs /\ p = process[client]
          BY <1>t, <1>p, <4>2 DEF Clients
        <5>4. server[p] # "none"
          BY <4>2, <5>3 DEF ProcInv
        <5> HIDE DEF p
        <5> QED
          BY <5>1, <5>2, <5>3, <5>4 DEF Closer
      <4> QED
        BY <4>1, <4>2
    <3>2. CASE Terminates(k)
      <4>1. /\ closer[k].at = "draining" /\ closer'[k].at = "waiting"
            /\ closer'[k].client = closer[k].client /\ closer'[k].proc = closer[k].proc
        BY <1>t, <3>2 DEF Terminates, CloserType
      <4>2. UNCHANGED <<process, crossed>> /\ closer[k].proc \in Procs
        BY <3>2, <4>1 DEF Terminates, Closer
      <4>3. server'[closer[k].proc] \notin {"none", "up"}
        BY <1>t, <3>2, <4>1, <4>2 DEF Terminates, Closer
      <4> QED
        BY <4>1, <4>2, <4>3 DEF Closer
    <3>3. CASE CloseReturns(k)
      <4>1. closer'[k] = NoClose
        BY <1>t, <3>3 DEF CloseReturns
      <4> QED
        BY <4>1 DEF Closer, NoClose
    <3> QED
      BY <1>6, <3>1, <3>2, <3>3 DEF CloseStep
  <2>3. pc' \notin Closing => Closed("own")'
    BY <1>o, <2>1 DEF Closed
  <2> QED
    BY <1>s, <2>1, <2>2, <2>3
<1>7. ASSUME NEW p \in Procs, ServerStep(p) \/ Reaped(p) \/ ReaderEnds(p) PROVE CloserInv'
  BY <1>u, <1>7 DEF ServerStep, Answers, AnswersError, Notifies, WritesRubbish, Dies, Reaped, ReaderEnds
<1> QED
  BY <1>1, <1>2, <1>3, <1>4, <1>5, <1>6, <1>7 DEF Next, RunStep

\* every server that lives is the one its client believes in, or is being closed
Held(p) == client # 0 /\ process[client] = p
Owned == ~crossed => \A p \in Procs : server[p] = "up" => Held(p) \/ Draining(p)

\* the run lets go of its client only when the server of it is gone
Ending ==
  pc \in {"ping_failed", "close"} /\ ~crossed =>
    \A p \in Procs : server[p] = "up" /\ Held(p) =>
      \/ closer["own"].at = "begin"
      \/ closer["own"].at = "draining" /\ closer["own"].proc = p

ServerInv == ProcInv /\ CloserInv /\ Owned /\ Ending

LEMMA OwnedStep ==
  ASSUME TypeOK, CallInv, ServerInv, [Next]_vars
  PROVE  Owned'
<1> USE DEF agentVars, clientVars, serverVars
<1>t. /\ process \in [Clients -> 0 .. MaxProcs] /\ client \in 0 .. MaxTurns
      /\ server \in [Procs -> {"none", "up", "dead", "exited"}]
      /\ closer \in [Closers -> CloserType]
  BY DEF TypeOK, CloserType, ClosePlaces
<1>o. "own" \in Closers /\ "stop" \in Closers
  BY DEF Closers
<1>1. CASE Spawned
  <2>1. SUFFICES ASSUME ~crossed', NEW q \in Procs, server'[q] = "up"
                 PROVE  Held(q)' \/ Draining(q)'
    BY DEF Owned
  <2>2. ~crossed /\ UNCHANGED <<client, closer>> /\ client \in Clients
    BY <1>1, <2>1, SpawnedBy DEF Spawned
  <2>3. PICK p \in Procs :
          server' = [server EXCEPT ![p] = "up"] /\ process' = [process EXCEPT ![client] = p]
    BY <1>1, SpawnedBy
  <2>4. CASE q = p
    BY <1>t, <2>2, <2>3, <2>4 DEF Held, Clients
  <2>5. CASE q # p
    <3>1. server[q] = "up"
      BY <1>t, <2>1, <2>3, <2>5
    <3>2. ~Held(q)
      BY <1>1, <3>1 DEF Held, CallInv, Calls, Spawned, Procs
    <3> QED
      BY <2>2, <3>1, <3>2 DEF ServerInv, Owned, Draining
  <2> QED
    BY <2>4, <2>5
<1>2. ASSUME ~Spawned, ~crossed, NEW q \in Procs, server'[q] = "up",
             Held(q) => Held(q)' \/ Draining(q)',
             Draining(q) => Draining(q)'
      PROVE  Held(q)' \/ Draining(q)'
  <2>1. server[q] = "up"
    BY <1>2, Fades DEF Fading
  <2> QED
    BY <1>2, <2>1 DEF ServerInv, Owned
<1>3. SUFFICES ASSUME ~Spawned, ~crossed, NEW q \in Procs, server'[q] = "up"
               PROVE  (Held(q) => Held(q)' \/ Draining(q)') /\ (Draining(q) => Draining(q)')
  <2>1. ~Spawned => UNCHANGED crossed
    BY Fades DEF Fading
  <2> QED
    BY <1>1, <1>2, <1>3, <2>1 DEF Owned
<1>4. server[q] = "up" /\ q # 0
  BY <1>3, Fades DEF Fading, Procs
<1>s. UNCHANGED <<client, process, closer>>
        => (Held(q) => Held(q)' \/ Draining(q)') /\ (Draining(q) => Draining(q)')
  BY DEF Held, Draining
<1>b. ASSUME NEW k \in Closers, Begin(k), Closed(k) PROVE Draining(q) => Draining(q)'
  BY <1>b, <1>t DEF Begin, Closed, NoClose, Draining
<1>5. CASE CallStarts \/ SpawnFails \/ Resumed \/ RunReturns \/ CancelledClosed \/ AgentClosed
  BY <1>s, <1>5 DEF CallStarts, SpawnFails, Resumed, RunReturns, CancelledClosed, AgentClosed
<1>6. CASE Run \/ CancelledEarly \/ Pause \/ Resume \/ UNCHANGED vars
  BY <1>s, <1>6 DEF Run, CancelledEarly, Pause, Resume, vars
<1>7. CASE PingReturns \/ Cleanup \/ BrowserClosed \/ Cancelled
  <2>1. Closed("own") /\ UNCHANGED <<client, process>>
    BY <1>7 DEF PingReturns, Cleanup, BrowserClosed, Cancelled, ServerInv, CloserInv, Closing
  <2>2. UNCHANGED closer \/ Begin("own")
    BY <1>7 DEF PingReturns, Cleanup, BrowserClosed, Cancelled
  <2> QED
    BY <1>b, <1>o, <1>s, <2>1, <2>2 DEF Held
<1>8. CASE Stop
  BY <1>b, <1>o, <1>s, <1>8 DEF Stop, Held
<1>9. CASE Ensure
  <2>1. Held(q) => Calls(client) /\ client # 0
    BY <1>4 DEF Held, Calls
  <2> QED
    BY <1>9, <2>1 DEF Ensure, Held, Draining
<1>10. CASE PingFailed \/ ClientClosed
  <2>1. closer["own"].at = "none" /\ pc \in {"ping_failed", "close"} /\ UNCHANGED closer
    BY <1>10 DEF PingFailed, ClientClosed, Closed, NoClose
  <2>2. ~Held(q)
    BY <1>3, <1>4, <2>1 DEF ServerInv, Ending
  <2> QED
    BY <2>1, <2>2 DEF Draining
<1>11. ASSUME NEW k \in Closers, CloseStep(k)
       PROVE  (Held(q) => Held(q)' \/ Draining(q)') /\ (Draining(q) => Draining(q)')
  <2>1. /\ UNCHANGED client /\ \A l \in Closers : l # k => closer'[l] = closer[l]
    BY <1>11, <1>t DEF CloseStep, CloseBegins, Terminates, CloseReturns
  <2>2. closer[k].at # "draining" \/ closer[k].proc # q
    BY <1>3, <1>11, <1>t DEF CloseStep, CloseBegins, Terminates, CloseReturns
  <2>3. Draining(q) => Draining(q)'
    BY <2>1, <2>2 DEF Draining
  <2>4. Held(q) => process'[client] = q
    <3>1. CASE CloseReturns(k)
      <4>1. closer[k].client = client => process[client] \in {0, closer[k].proc}
        BY <1>3, <3>1 DEF CloseReturns, ServerInv, CloserInv, Closer
      <4> QED
        BY <1>4, <1>t, <3>1, <4>1 DEF CloseReturns, Held
    <3>2. CASE CloseBegins(k) \/ Terminates(k)
      BY <3>2 DEF CloseBegins, Terminates, Held
    <3> QED
      BY <1>11, <3>1, <3>2 DEF CloseStep
  <2> QED
    BY <2>1, <2>3, <2>4 DEF Held
<1>12. ASSUME NEW p \in Procs, ServerStep(p) \/ Reaped(p) \/ ReaderEnds(p)
       PROVE  UNCHANGED <<client, process, closer>>
  BY <1>12 DEF ServerStep, Answers, AnswersError, Notifies, WritesRubbish, Dies, Reaped, ReaderEnds
<1> QED
  BY <1>s, <1>3, <1>5, <1>6, <1>7, <1>8, <1>9, <1>10, <1>11, <1>12 DEF Next, RunStep

LEMMA EndingStep ==
  ASSUME TypeOK, CallInv, ServerInv, [Next]_vars
  PROVE  Ending'
<1> USE DEF agentVars, clientVars, serverVars
<1>t. /\ process \in [Clients -> 0 .. MaxProcs] /\ client \in 0 .. MaxTurns
      /\ server \in [Procs -> {"none", "up", "dead", "exited"}]
      /\ closer \in [Closers -> CloserType]
  BY DEF TypeOK, CloserType, ClosePlaces
<1>o. "own" \in Closers /\ "stop" \in Closers
  BY DEF Closers
<1>1. SUFFICES ASSUME pc' \in {"ping_failed", "close"}, ~crossed',
                      NEW q \in Procs, server'[q] = "up", Held(q)'
               PROVE  \/ closer'["own"].at = "begin"
                      \/ closer'["own"].at = "draining" /\ closer'["own"].proc = q
  BY DEF Ending
<1>2. ~Spawned
  BY <1>1 DEF Spawned, CallInv, Calling
<1>3. Fading
  BY <1>2, Fades
<1>4. server[q] = "up" /\ ~crossed /\ q # 0
  BY <1>1, <1>3 DEF Fading, Procs
<1>s. ASSUME UNCHANGED <<pc, client>>, closer'["own"] = closer["own"]
      PROVE  \/ closer'["own"].at = "begin"
             \/ closer'["own"].at = "draining" /\ closer'["own"].proc = q
  <2>1. client \in Clients /\ process'[client] = q
    BY <1>1, <1>s, <1>t, Bounds DEF Held, Clients
  <2>2. Held(q)
    BY <1>3, <1>4, <2>1 DEF Fading, Held, Clients
  <2> QED
    BY <1>1, <1>4, <1>s, <2>2 DEF ServerInv, Ending
<1>5. CASE RunStep
  <2>1. ASSUME Begin("own") PROVE closer'["own"].at = "begin"
    BY <1>o, <1>t, <2>1 DEF Begin, CloserType
  <2>2. CASE CallStarts \/ SpawnFails
    BY <1>1, <2>2 DEF CallStarts, SpawnFails, CallInv, Calling
  <2>3. ASSUME Resumed \/ Ensure \/ PingFailed \/ RunReturns \/ CancelledClosed \/ AgentClosed
               \/ ClientClosed
        PROVE FALSE
    BY <1>1, <2>3 DEF Resumed, CheckStop, Ensure, PingFailed, RunReturns, CancelledClosed,
                      AgentClosed, ClientClosed
  <2>4. CASE PingReturns \/ Cleanup \/ BrowserClosed
    BY <1>1, <2>1, <2>4 DEF PingReturns, Cleanup, BrowserClosed
  <2> QED
    BY <1>2, <1>5, <2>2, <2>3, <2>4 DEF RunStep
<1>6. CASE Run \/ Cancelled \/ CancelledEarly
  BY <1>1, <1>6 DEF Run, CheckStop, Cancelled, CancelledEarly
<1>7. CASE Pause \/ Resume \/ UNCHANGED vars
  BY <1>s, <1>7 DEF Pause, Resume, vars
<1>8. CASE Stop
  <2>1. closer'["own"] = closer["own"]
    BY <1>8, <1>o, <1>t DEF Stop, Begin
  <2> QED
    BY <1>s, <1>8, <2>1 DEF Stop
<1>9. ASSUME CloseStep("stop") PROVE UNCHANGED <<pc, client>> /\ closer'["own"] = closer["own"]
  BY <1>9, <1>o, <1>t DEF CloseStep, CloseBegins, Terminates, CloseReturns
<1>10. CASE CloseStep("own")
  <2>1. UNCHANGED <<pc, client>>
    BY <1>10 DEF CloseStep, CloseBegins, Terminates, CloseReturns
  <2>2. client \in Clients /\ process[client] = q /\ client # 0
    BY <1>1, <1>3, <1>4, <1>t, <2>1, Bounds DEF Fading, Held, Clients
  <2>3. CASE CloseBegins("own")
    BY <1>o, <1>t, <1>4, <2>2, <2>3 DEF CloseBegins
  <2>4. ~Terminates("own") /\ ~CloseReturns("own")
    <3>1. \/ closer["own"].at = "begin"
          \/ closer["own"].at = "draining" /\ closer["own"].proc = q
      BY <1>1, <1>4, <2>1, <2>2 DEF ServerInv, Ending, Held
    <3>2. ~Terminates("own")
      BY <1>1, <1>4, <1>t, <3>1 DEF Terminates
    <3> QED
      BY <3>1, <3>2 DEF CloseReturns
  <2> QED
    BY <1>10, <2>3, <2>4 DEF CloseStep
<1>11. ASSUME NEW p \in Procs, ServerStep(p) \/ Reaped(p) \/ ReaderEnds(p)
       PROVE  UNCHANGED <<pc, client, closer>>
  BY <1>11 DEF ServerStep, Answers, AnswersError, Notifies, WritesRubbish, Dies, Reaped, ReaderEnds
<1> QED
  BY <1>s, <1>5, <1>6, <1>7, <1>8, <1>9, <1>10, <1>11 DEF Next, Closers

SdkInv == TypedInv /\ Fresh /\ ServerInv

LEMMA SdkInvHolds == Spec => []SdkInv
<1>1. Init => Fresh /\ ServerInv
  <2>1. ASSUME Init PROVE ProcInv /\ Owned /\ Ending
    BY <2>1 DEF Init, ProcInv, Owned, Ending
  <2>2. ASSUME Init PROVE CloserInv
    BY <2>2 DEF Init, CloserInv, Closer, Closed, NoClose, Closers
  <2>3. ASSUME Init PROVE Fresh
    BY <2>3 DEF Init, Fresh
  <2> QED
    BY <2>1, <2>2, <2>3 DEF ServerInv
<1>2. TypedInv /\ Fresh /\ ServerInv /\ [Next]_vars => Fresh' /\ ServerInv'
  BY FreshStep, ProcStep, CloserStep, OwnedStep, EndingStep DEF TypedInv, ServerInv
<1> QED
  BY <1>1, <1>2, TypedHolds, PTL DEF Spec, SdkInv

(* When a run that keeps nothing alive has returned, every server it started *)
(* has been closed: also when the ping failed, when it was cancelled, and    *)
(* when stop() closed the client from a task of its own (run, close, stop).  *)
THEOREM SdkConsistentHolds == Spec => []Consistent
<1>1. SdkInv => Consistent
  <2> SUFFICES ASSUME SdkInv, pc = "idle", ~keep, Closed("stop"), ~crossed,
                      NEW p \in Procs, server[p] = "up"
               PROVE  FALSE
    BY DEF Consistent, NoServerLeft, SdkInv, TypedInv
  <2>1. client = 0
    BY DEF SdkInv, Fresh
  <2>2. Closed("own")
    BY DEF SdkInv, ServerInv, CloserInv, Closing
  <2>3. ~Draining(p)
    BY <2>2 DEF Draining, Closed, NoClose, Closers
  <2> QED
    BY <2>1, <2>3 DEF SdkInv, ServerInv, Owned, Held
<1> QED
  BY <1>1, SdkInvHolds, PTL

-----------------------------------------------------------------------------
(* Who ends a call                                                           *)

\* stdin of a living server is closed only on its way down
Drained == \A p \in stdin : p \in Procs /\ server[p] # "none" /\ (server[p] = "up" => Draining(p))

LEMMA DrainedStep == ASSUME SdkInv, Drained, [Next]_vars PROVE Drained'
<1> USE DEF agentVars, clientVars, serverVars
<1>t. /\ process \in [Clients -> 0 .. MaxProcs] /\ client \in 0 .. MaxTurns
      /\ server \in [Procs -> {"none", "up", "dead", "exited"}]
      /\ closer \in [Closers -> CloserType]
  BY DEF SdkInv, TypedInv, TypeOK, CloserType, ClosePlaces
<1>o. "own" \in Closers /\ "stop" \in Closers
  BY DEF Closers
<1>i. TypeOK /\ CallInv /\ ProcInv /\ CloserInv
  BY DEF SdkInv, TypedInv, ServerInv
<1>1. CASE Spawned
  <2>1. UNCHANGED <<stdin, closer>>
    BY <1>1, <1>i, SpawnedBy
  <2>2. PICK p \in Procs : server[p] = "none" /\ server' = [server EXCEPT ![p] = "up"]
    BY <1>1, <1>i, SpawnedBy
  <2> QED
    BY <1>t, <2>1, <2>2 DEF Drained, Draining
<1>2. ASSUME ~Spawned, UNCHANGED stdin,
             \A p \in Procs : server'[p] = "up" /\ Draining(p) => Draining(p)'
      PROVE  Drained'
  <2>1. Fading
    BY <1>2, <1>i, Fades
  <2> QED
    BY <1>2, <2>1 DEF Drained, Fading
<1>3. SUFFICES ASSUME ~Spawned PROVE Drained'
  BY <1>1
<1>u. ASSUME UNCHANGED <<stdin, closer>> PROVE Drained'
  BY <1>2, <1>3, <1>u DEF Draining
<1>b. ASSUME NEW k \in Closers, Begin(k), Closed(k), UNCHANGED stdin PROVE Drained'
  BY <1>2, <1>3, <1>b, <1>t DEF Begin, Closed, NoClose, Draining
<1>4. ASSUME RunStep PROVE Drained'
  <2>1. PingReturns \/ Cleanup \/ BrowserClosed => Closed("own")
    BY <1>i DEF PingReturns, Cleanup, BrowserClosed, CloserInv, Closing
  <2>2. UNCHANGED stdin
    BY <1>3, <1>4 DEF RunStep, CallStarts, SpawnFails, Resumed, Ensure, PingReturns, PingFailed,
       RunReturns, CancelledClosed, Cleanup, AgentClosed, BrowserClosed, ClientClosed
  <2>3. UNCHANGED closer \/ (Begin("own") /\ (PingReturns \/ Cleanup \/ BrowserClosed))
    BY <1>3, <1>4 DEF RunStep, CallStarts, SpawnFails, Resumed, Ensure, PingReturns, PingFailed,
       RunReturns, CancelledClosed, Cleanup, AgentClosed, BrowserClosed, ClientClosed
  <2> QED
    BY <1>b, <1>o, <1>u, <2>1, <2>2, <2>3
<1>5. CASE Cancelled
  <2>1. Closed("own") /\ Begin("own") /\ UNCHANGED stdin
    BY <1>5, <1>i DEF Cancelled, CloserInv, Closing
  <2> QED
    BY <1>b, <1>o, <2>1
<1>6. CASE Stop
  BY <1>b, <1>o, <1>u, <1>6 DEF Stop
<1>7. CASE Run \/ CancelledEarly \/ Pause \/ Resume \/ UNCHANGED vars
  BY <1>u, <1>7 DEF Run, CancelledEarly, Pause, Resume, vars
<1>8. ASSUME NEW k \in Closers, CloseBegins(k) PROVE Drained'
  <2> DEFINE p == IF client = 0 THEN 0 ELSE process[client]
  <2>1. closer[k].at = "begin" /\ UNCHANGED server
    BY <1>8 DEF CloseBegins
  <2>2. CASE p = 0
    <3>1. closer' = [closer EXCEPT ![k] = NoClose] /\ UNCHANGED stdin
      BY <1>8, <2>2 DEF CloseBegins
    <3> QED
      BY <1>2, <1>3, <1>t, <2>1, <3>1 DEF Draining
  <2>3. CASE p # 0
    <3>p. PICK q : q = p
      OBVIOUS
    <3>1. /\ stdin' = stdin \cup {q}
          /\ closer' = [closer EXCEPT ![k] = [at |-> "draining", client |-> client, proc |-> q]]
      BY <1>8, <2>3, <3>p DEF CloseBegins
    <3>2. q \in Procs /\ server[q] # "none"
      BY <1>i, <1>t, <2>3, <3>p DEF ProcInv, Clients, Procs
    <3>3. closer'[k].at = "draining" /\ closer'[k].proc = q
      BY <1>t, <3>1
    <3>4. \A l \in Closers : l # k => closer'[l] = closer[l]
      BY <1>t, <3>1
    <3>5. Draining(q)' /\ \A r \in Procs : Draining(r) => Draining(r)'
      BY <2>1, <3>3, <3>4 DEF Draining
    <3> QED
      BY <2>1, <3>1, <3>2, <3>5 DEF Drained
  <2> QED
    BY <2>2, <2>3
<1>9. ASSUME NEW k \in Closers, Terminates(k) \/ CloseReturns(k) PROVE Drained'
  <2>1. UNCHANGED stdin /\ \A l \in Closers : l # k => closer'[l] = closer[l]
    BY <1>9, <1>t DEF Terminates, CloseReturns
  <2>2. closer[k].at = "draining" => server'[closer[k].proc] # "up"
    <3>1. closer[k].at = "draining" => closer[k].proc \in Procs
      BY <1>i DEF CloserInv, Closer
    <3> QED
      BY <1>9, <1>t, <3>1 DEF Terminates, CloseReturns
  <2> QED
    BY <1>2, <1>3, <2>1, <2>2 DEF Draining
<1>10. ASSUME NEW p \in Procs, ServerStep(p) \/ Reaped(p) \/ ReaderEnds(p)
       PROVE  UNCHANGED <<stdin, closer>>
  BY <1>10 DEF ServerStep, Answers, AnswersError, Notifies, WritesRubbish, Dies, Reaped, ReaderEnds
<1> QED
  BY <1>i, <1>u, <1>4, <1>5, <1>6, <1>7, <1>8, <1>9, <1>10 DEF Next, CloseStep

\* the server that will answer, or is going down, is the client's and its output is read
Heard ==
  io = "wait" /\ ~deaf =>
    \E p \in Procs : /\ reader[p] = "reading" /\ owner[p] = client
                     /\ asked = p \/ server[p] \in {"dead", "exited"} \/ Draining(p)

LEMMA HeardStep == ASSUME SdkInv, Drained, Heard, [Next]_vars PROVE Heard'
<1> USE DEF agentVars, clientVars, serverVars, requestVars
<1>t. /\ process \in [Clients -> 0 .. MaxProcs] /\ client \in 0 .. MaxTurns
      /\ server \in [Procs -> {"none", "up", "dead", "exited"}]
      /\ reader \in [Procs -> {"none", "reading", "ended"}] /\ owner \in [Procs -> 0 .. MaxTurns]
      /\ closer \in [Closers -> CloserType]
  BY DEF SdkInv, TypedInv, TypeOK, CloserType, ClosePlaces
<1>o. "own" \in Closers /\ "stop" \in Closers
  BY DEF Closers
<1>i. TypeOK /\ CallInv /\ ProcInv /\ CloserInv
  BY DEF SdkInv, TypedInv, ServerInv
<1>c. pc \in Calling => client \in Clients
  BY <1>i, <1>t, Bounds DEF CallInv, Clients
<1>p. \A c \in Clients : process[c] # 0 => process[c] \in Procs
  BY <1>t DEF Procs
<1>n. ASSUME io' # "wait" PROVE Heard'
  BY <1>n DEF Heard
\* steps of others leave the reader there, and what its server is up to
<1>s. ASSUME ~Spawned, io' = "wait" => io = "wait", UNCHANGED <<client, deaf>>,
             \A p \in Procs :
               reader[p] = "reading" /\ owner[p] = client /\ io' = "wait" =>
                 /\ reader'[p] = "reading"
                 /\ asked = p => asked' = p \/ server'[p] \in {"dead", "exited"}
                 /\ Draining(p) => Draining(p)' \/ server'[p] # "up"
      PROVE  Heard'
  <2>1. Fading
    BY <1>s, <1>i, Fades
  <2>2. SUFFICES ASSUME io' = "wait", ~deaf'
                 PROVE  \E p \in Procs :
                          /\ reader'[p] = "reading" /\ owner'[p] = client'
                          /\ \/ asked' = p \/ server'[p] \in {"dead", "exited"}
                             \/ Draining(p)'
    BY DEF Heard
  <2>3. PICK p \in Procs :
          /\ reader[p] = "reading" /\ owner[p] = client
          /\ asked = p \/ server[p] \in {"dead", "exited"} \/ Draining(p)
    BY <1>s, <2>2 DEF Heard
  <2>4. server' \in [Procs -> {"none", "up", "dead", "exited"}]
    BY <1>i, TypeStep DEF TypeOK
  <2>5. server[p] \in {"dead", "exited"} => server'[p] \in {"dead", "exited"}
    BY <2>1, <2>4 DEF Fading
  <2>6. Draining(p) => server'[p] # "none"
    BY <1>i, <2>1 DEF Draining, CloserInv, Closer, Fading
  <2>7. server'[p] \in {"none", "up", "dead", "exited"}
    BY <2>4
  <2> QED
    BY <1>s, <2>1, <2>2, <2>3, <2>5, <2>6, <2>7 DEF Fading
<1>u. ASSUME ~Spawned, UNCHANGED <<io, client, reader, asked, deaf, closer>> PROVE Heard'
  BY <1>s, <1>u DEF Draining
<1>b. ASSUME NEW k \in Closers, Begin(k), Closed(k), NEW p, Draining(p) PROVE Draining(p)'
  BY <1>b, <1>t DEF Begin, Closed, NoClose, Draining
<1>1. CASE Spawned
  BY <1>1, <1>i, <1>t, SpawnedBy DEF Heard
<1>2. CASE CallStarts
  <2>1. /\ client \in Clients
        /\ UNCHANGED <<client, clientVars, serverVars, closer>>
    BY <1>2, <1>i, <1>c DEF CallStarts, CallInv
  <2>2. CASE ~Calls(client)
    BY <1>2, <1>n, <2>2 DEF CallStarts
  <2>3. CASE Calls(client)
    <3> DEFINE p == process[client]
    <3>1. /\ p \in Procs /\ owner[p] = client /\ server[p] \in {"up", "dead"}
      BY <1>i, <1>p, <1>t, <2>1, <2>3 DEF Calls, ProcInv
    <3>2. Send(p)
      BY <1>2, <2>3 DEF CallStarts
    <3>3. io' = "wait" /\ ~deaf' => reader[p] = "reading"
      BY <3>2 DEF Send
    <3>4. io' = "wait" => asked' = p \/ server[p] = "dead" \/ Draining(p)
      BY <3>1, <3>2 DEF Send, Drained
    <3>5. Draining(p) => \E k \in Closers : closer'[k].at = "draining" /\ closer'[k].proc = p
      BY <2>1 DEF Draining
    <3> QED
      BY <2>1, <3>1, <3>3, <3>4, <3>5 DEF Heard, Draining
  <2> QED
    BY <2>2, <2>3
<1>3. ASSUME RunStep, ~Spawned, ~CallStarts PROVE Heard'
  <2>1. CASE SpawnFails \/ Ensure \/ PingReturns \/ RunReturns \/ AgentClosed \/ BrowserClosed
    BY <1>n, <2>1 DEF SpawnFails, Ensure, PingReturns, RunReturns, AgentClosed, BrowserClosed
  <2>2. CASE Resumed \/ PingFailed \/ CancelledClosed \/ Cleanup \/ ClientClosed
    BY <1>n, <1>i, <2>2 DEF CallInv, Calling, Resumed, PingFailed, CancelledClosed, Cleanup, ClientClosed
  <2> QED
    BY <1>3, <2>1, <2>2 DEF RunStep
<1>4. CASE Cancelled \/ CancelledEarly
  BY <1>n, <1>4 DEF Cancelled, CancelledEarly
<1>5. CASE Run \/ Pause \/ Resume \/ UNCHANGED vars
  <2>1. pc = "idle" => io # "wait"
    BY <1>i DEF CallInv, Calling
  <2> QED
    BY <1>1, <1>n, <1>u, <1>5, <2>1 DEF Run, Pause, Resume, vars
<1>6. ASSUME Stop, ~Spawned PROVE Heard'
  <2>1. UNCHANGED <<io, client, reader, asked, deaf>>
    BY <1>6 DEF Stop
  <2>2. UNCHANGED closer \/ (Begin("stop") /\ Closed("stop"))
    BY <1>6 DEF Stop
  <2> QED
    BY <1>b, <1>o, <1>s, <1>u, <1>6, <2>1, <2>2
<1>7. ASSUME NEW k \in Closers, CloseStep(k), ~Spawned PROVE Heard'
  <2>t. \A l \in Closers : l # k => closer'[l] = closer[l]
    BY <1>7, <1>t DEF CloseStep, CloseBegins, Terminates, CloseReturns
  <2>1. CASE CloseBegins(k)
    <3>1. \A p : Draining(p) => Draining(p)'
      BY <2>1, <2>t DEF CloseBegins, Draining
    <3>2. UNCHANGED <<io, client, reader, asked, deaf>>
      BY <2>1 DEF CloseBegins
    <3> QED
      BY <1>s, <1>7, <3>1, <3>2
  <2>2. CASE Terminates(k)
    <3>1. closer[k].proc \in Procs /\ server[closer[k].proc] # "none"
      BY <1>i, <2>2 DEF Terminates, CloserInv, Closer
    <3>2. server'[closer[k].proc] \in {"dead", "exited"}
      BY <1>t, <2>2, <3>1 DEF Terminates
    <3>3. \A p : Draining(p) /\ p # closer[k].proc => Draining(p)'
      BY <2>t DEF Draining
    <3>4. UNCHANGED <<io, client, reader, deaf>> /\ (asked # closer[k].proc => asked' = asked)
      BY <2>2 DEF Terminates
    <3> QED
      BY <1>s, <1>7, <3>2, <3>3, <3>4
  <2>3. CASE CloseReturns(k)
    <3> DEFINE c == closer[k].client
    <3>1. c \in Clients /\ closer[k].at = "waiting"
      BY <1>i, <2>3 DEF CloseReturns, CloserInv, Closer
    <3>2. io' = "wait" => io = "wait" /\ client # c
      BY <2>3 DEF CloseReturns, Fails
    <3>3. \A p \in Procs : p # process[c] => reader'[p] = reader[p]
      BY <1>t, <2>3 DEF CloseReturns
    <3>4. \A p \in Procs : p = process[c] => owner[p] = c
      BY <1>i, <3>1 DEF ProcInv, Procs
    <3>5. \A p : Draining(p) => Draining(p)'
      BY <2>t, <3>1 DEF Draining
    <3>6. UNCHANGED <<client, asked, deaf>>
      BY <2>3 DEF CloseReturns
    <3> HIDE DEF c
    <3> QED
      BY <1>s, <1>7, <3>2, <3>3, <3>4, <3>5, <3>6
  <2> QED
    BY <1>7, <2>1, <2>2, <2>3 DEF CloseStep
<1>8. ASSUME NEW p \in Procs, ServerStep(p) \/ Reaped(p) \/ ReaderEnds(p), ~Spawned PROVE Heard'
  <2>1. CASE Answers(p) \/ AnswersError(p)
    BY <1>n, <2>1 DEF Answers, AnswersError
  <2>2. CASE Reaped(p) \/ \E kind \in Kinds : Notifies(p, kind)
    BY <1>u, <1>8, <2>2 DEF Reaped, Notifies
  <2>3. CASE Dies(p)
    <3>1. server'[p] = "dead" /\ (asked # p => asked' = asked)
      BY <1>t, <2>3 DEF Dies
    <3>2. UNCHANGED <<io, client, reader, deaf, closer>>
      BY <2>3 DEF Dies
    <3> QED
      BY <1>s, <1>8, <3>1, <3>2 DEF Draining
  <2>4. CASE WritesRubbish(p) \/ ReaderEnds(p)
    <3>1. io' = "wait" => io = "wait" /\ client # owner[p]
      BY <2>4 DEF WritesRubbish, ReaderEnds, Fails
    <3>2. \A q \in Procs : q # p => reader'[q] = reader[q]
      BY <1>t, <2>4 DEF WritesRubbish, ReaderEnds
    <3>3. UNCHANGED <<client, asked, deaf, closer>>
      BY <2>4 DEF WritesRubbish, ReaderEnds
    <3> QED
      BY <1>s, <1>8, <3>1, <3>2, <3>3 DEF Draining
  <2> QED
    BY <1>8, <2>1, <2>2, <2>3, <2>4 DEF ServerStep, Kinds
<1> QED
  BY <1>1, <1>2, <1>3, <1>4, <1>5, <1>6, <1>7, <1>8 DEF Next

(* A call that waits is never left to itself: somebody reads what its own    *)
(* server writes, and that server has the request to answer or is going      *)
(* down, whatever stop(), cancellations and the server itself did before;    *)
(* only a request sent after the reader had ended is not (call, close,       *)
(* _read_loop, _fail_all).                                                   *)
THEOREM HeardHolds == Spec => []Heard
<1>1. Init => Drained /\ Heard
  BY DEF Init, Drained, Heard
<1>2. SdkInv /\ Drained /\ Heard /\ [Next]_vars => Drained' /\ Heard'
  BY DrainedStep, HeardStep
<1> QED
  BY <1>1, <1>2, SdkInvHolds, PTL DEF Spec

=============================================================================
