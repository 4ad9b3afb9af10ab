------------------------- MODULE BrowserLifecycleProofs -------------------------
(***************************************************************************)
(* Proofs about module BrowserLifecycle, for any numbers of attempts,       *)
(* clients and calls of start(): what holds when none of these comes while  *)
(* a recovery runs, and what holds whenever they come.                      *)
(***************************************************************************)
EXTENDS BrowserLifecycle, FiniteSetTheorems, TLAPS

(* Clients are numbered in the order they are made.                          *)
Numbered == Made = 1 .. Cardinality(Made)

(* Only the root client has a socket that is or may become open.             *)
RootLives ==
  /\ root # 0 => root \in Made /\ sock[root] # "closed"
  /\ \A c \in Clients : sock[c] \in {"open", "opening"} => c = root
  /\ {old, new, mine} \subseteq {0} \cup Made

(* While start() connects, nothing recovers and nothing can start to.        *)
Starts ==
  /\ starting \in {"none", "fetching"} => mine = 0
  /\ starting = "fetching" => root = 0
  /\ starting \in {"opening", "settling", "proxy"} => root = mine /\ mine # 0
  /\ starting # "none" =>
       /\ recovery = "none" /\ alarm = {}
       /\ \A c \in watched : sock[c] = "closed"

(* What a recovery knows of the root client at each of its awaits.           *)
Recovers ==
  /\ reconnecting <=> recovery \notin {"none", "created"}
  /\ recovery = "created" => root # 0 /\ sock[root] = "dead"
  /\ recovery = "closing" => root = old
  /\ recovery = "clearing" => root = 0
  /\ recovery \in {"opening", "settling", "proxy"} => root = new /\ new # 0
  /\ recovery = "backoff" => attempt < MaxAttempts

(* A watched client that died is the root one, or its alarm is due.          *)
Watches ==
  /\ watched \subseteq Made
  /\ \A c \in alarm : c = root /\ sock[c] = "dead"
  /\ \A c \in watched : sock[c] \in {"open", "dead"} => c = root
  /\ recovery # "none" => alarm = {} /\ root \notin watched

Quiet ==
  ~bus => /\ root = 0 /\ recovery = "none" /\ alarm = {}
          /\ starting = "none" /\ stopping = "none"

Inv ==
  /\ TypeOK /\ WaitersHeld /\ Numbered /\ RootLives /\ Starts /\ Recovers /\ Watches /\ Quiet

LEMMA InitInv == ASSUME Init PROVE Inv
<1> USE DEF Init
<1>1. Made = {}
  BY DEF Made
<1>2. Numbered
  BY <1>1, FS_EmptySet DEF Numbered
<1>3. TypeOK
  <2>1. sock \in [Clients -> Sockets] /\ root \in 0 .. MaxClients /\ attempt \in 0 .. MaxAttempts
        /\ {old, new, mine} \subseteq 0 .. MaxClients /\ starts \in 0 .. MaxStarts
    BY Bounds DEF Sockets
  <2>2. {reconnecting, reconnect_event, intentional, bus} \subseteq BOOLEAN
    OBVIOUS
  <2> QED
    BY <2>1, <2>2 DEF TypeOK
<1>4. WaitersHeld
  BY DEF WaitersHeld
<1> QED
  BY <1>1, <1>2, <1>3, <1>4 DEF Inv, RootLives, Starts, Recovers, Watches, Quiet

(* The clients that are made do not change unless one is opened.             *)
LEMMA SameMade ==
  ASSUME NEW d \in Clients \cup {0}, NEW to \in Sockets \ {"none"}, TypeOK, Numbered,
         d # 0 => d \in Made,
         sock' = sock \/ (d # 0 /\ sock' = [sock EXCEPT ![d] = to])
  PROVE  /\ sock' \in [Clients -> Sockets] /\ Made' = Made /\ Numbered'
         /\ \A c \in Clients : sock'[c] = IF sock' # sock /\ c = d THEN to ELSE sock[c]
<1>1. \A c \in Clients : sock'[c] = IF sock' # sock /\ c = d THEN to ELSE sock[c]
  BY DEF TypeOK
<1>2. sock' \in [Clients -> Sockets]
  BY DEF TypeOK
<1>3. Made' = Made
  BY <1>1 DEF Made
<1> QED
  BY <1>1, <1>2, <1>3 DEF Numbered

LEMMA OneMore ==
  ASSUME TypeOK, Numbered, Spare, sock' = [sock EXCEPT ![NextClient] = "opening"]
  PROVE  /\ NextClient \in Clients /\ NextClient \notin Made /\ NextClient # 0
         /\ sock' \in [Clients -> Sockets] /\ Made' = Made \cup {NextClient} /\ Numbered'
         /\ \A c \in Clients : sock'[c] = IF c = NextClient THEN "opening" ELSE sock[c]
<1>1. IsFiniteSet(Made) /\ Cardinality(Made) \in Nat
  <2>1. IsFiniteSet(Clients)
    BY Bounds, FS_Interval DEF Clients
  <2> QED
    BY <2>1, FS_Subset, FS_CardinalityType DEF Made
<1>2. NextClient \in Clients /\ NextClient \notin Made /\ NextClient # 0
  BY <1>1, Bounds DEF Spare, NextClient, Numbered, Clients
<1>3. \A c \in Clients : sock'[c] = IF c = NextClient THEN "opening" ELSE sock[c]
  BY <1>2 DEF TypeOK
<1>4. sock' \in [Clients -> Sockets]
  BY <1>2 DEF TypeOK, Sockets
<1>5. Made' = Made \cup {NextClient}
  BY <1>2, <1>3 DEF Made
<1>6. Cardinality(Made') = Cardinality(Made) + 1
  BY <1>1, <1>2, <1>5, FS_AddElement
<1>7. Numbered'
  <2>1. Made' = 1 .. Cardinality(Made) + 1
    BY <1>1, <1>5 DEF Numbered, NextClient
  <2> QED
    BY <1>6, <2>1 DEF Numbered
<1> QED
  BY <1>2, <1>3, <1>4, <1>5, <1>7

-----------------------------------------------------------------------------
(* The steps of start()                                                      *)

LEMMA StartStepInv ==
  ASSUME Inv, ~Overlap, StartStep
  PROVE  Inv'
<1> USE DEF Inv
<1>0. /\ UNCHANGED <<recovery, attempt, old, new, reconnecting, reconnect_event, stopping, bus, handler>>
      /\ watched' = watched \/ StartSettled
  BY DEF StartStep, StartReturns, StartBegins, StartOpens, StartOpened, StartFocused, StartSettled,
     StartFails, recoveryVars, startVars, stopVars
<1>1. CASE StartReturns
  <2>1. /\ UNCHANGED <<root, sock, alarm, watched, starting, mine, intentional>>
        /\ starts' = starts + 1 /\ starts < MaxStarts
    BY <1>0, <1>1 DEF StartReturns, CanStart, startVars, stopVars
  <2>2. starts' \in 0 .. MaxStarts
    BY <2>1, Bounds DEF TypeOK
  <2>3. TypeOK'
    BY <1>0, <2>1, <2>2 DEF TypeOK
  <2> QED
    BY <1>0, <2>1, <2>3 DEF WaitersHeld, Numbered, Made, RootLives, Starts, Recovers, Watches, Quiet
<1>2. CASE StartBegins
  <2>1. /\ UNCHANGED <<root, sock, alarm, watched, mine, intentional>>
        /\ starting = "none" /\ starting' = "fetching" /\ bus /\ root = 0
        /\ starts' = starts + 1 /\ starts < MaxStarts
        /\ recovery = "none" /\ alarm = {}
    BY <1>0, <1>2 DEF StartBegins, CanStart, Idle, startVars, stopVars
  <2>2. starts' \in 0 .. MaxStarts
    BY <2>1, Bounds DEF TypeOK
  <2>3. TypeOK'
    BY <1>0, <2>1, <2>2 DEF TypeOK
  <2>4. \A c \in watched : sock[c] = "closed"
    BY <2>1 DEF Watches, RootLives, TypeOK, Sockets, Made, Clients
  <2>5. Starts'
    BY <1>0, <2>1, <2>4 DEF Starts
  <2> QED
    BY <1>0, <2>1, <2>3, <2>5 DEF WaitersHeld, Numbered, Made, RootLives, Recovers, Watches, Quiet
<1>3. CASE StartOpens
  <2>1. /\ UNCHANGED <<alarm, watched, starts, intentional>>
        /\ starting = "fetching" /\ Spare /\ root' = NextClient /\ mine' = NextClient
        /\ sock' = [sock EXCEPT ![NextClient] = "opening"]
        /\ starting' = "opening"
    BY <1>0, <1>3 DEF StartOpens, startVars, stopVars
  <2>2. /\ NextClient \in Clients /\ NextClient \notin Made /\ NextClient # 0
        /\ sock' \in [Clients -> Sockets] /\ Made' = Made \cup {NextClient} /\ Numbered'
        /\ \A c \in Clients : sock'[c] = IF c = NextClient THEN "opening" ELSE sock[c]
    BY <2>1, OneMore
  <2>3. TypeOK'
    BY <1>0, <2>1, <2>2 DEF TypeOK, Clients
  <2>4. root = 0
    BY <2>1 DEF Starts
  <2>5. RootLives'
    BY <1>0, <2>1, <2>2, <2>4, Bounds DEF RootLives, Clients
  <2>6. Starts'
    BY <1>0, <2>1, <2>2, Bounds DEF Starts, Watches
  <2>7. Recovers' /\ Watches' /\ Quiet' /\ WaitersHeld'
    BY <1>0, <2>1, <2>2, <2>4, Bounds DEF Recovers, Watches, Starts, Quiet, WaitersHeld, Clients, Made
  <2> QED
    BY <2>2, <2>3, <2>5, <2>6, <2>7
<1>4. CASE StartOpened
  <2>1. /\ UNCHANGED <<root, alarm, watched, mine, starts, intentional>>
        /\ starting = "opening" /\ sock' = [sock EXCEPT ![mine] = "open"]
        /\ starting' = "settling"
    BY <1>0, <1>4 DEF StartOpened, startVars, stopVars
  <2>2. mine \in Made /\ mine # 0 /\ mine \in Clients /\ root = mine
    BY <2>1 DEF Starts, RootLives, Made
  <2>3. /\ sock' \in [Clients -> Sockets] /\ Made' = Made /\ Numbered'
        /\ \A c \in Clients : sock'[c] = IF sock' # sock /\ c = mine THEN "open" ELSE sock[c]
    BY <2>1, <2>2, SameMade DEF Sockets
  <2>4. TypeOK'
    BY <1>0, <2>1, <2>3 DEF TypeOK
  <2>5. RootLives'
    BY <1>0, <2>1, <2>2, <2>3 DEF RootLives
  <2>6. Starts' /\ Watches'
    BY <1>0, <2>1, <2>2, <2>3 DEF Starts, Watches, RootLives, Made
  <2>7. Recovers' /\ Quiet' /\ WaitersHeld'
    BY <1>0, <2>1, <2>2, <2>3 DEF Recovers, Starts, Quiet, WaitersHeld
  <2> QED
    BY <2>3, <2>4, <2>5, <2>6, <2>7
<1>7. CASE StartFocused
  <2>1. /\ UNCHANGED <<root, sock, alarm, watched, mine, starts, intentional>>
        /\ starting = "settling" /\ starting' = "proxy"
    BY <1>0, <1>7 DEF StartFocused, startVars, stopVars
  <2>2. TypeOK'
    BY <1>0, <2>1 DEF TypeOK
  <2> QED
    BY <1>0, <2>1, <2>2 DEF RootLives, Numbered, Made, Starts, Watches, Recovers, Quiet, WaitersHeld
<1>5. CASE StartSettled
  <2>1. /\ UNCHANGED <<root, sock, alarm, starts>>
        /\ starting = "proxy" /\ starting' = "none" /\ mine' = 0
        /\ watched' = watched \/ watched' = watched \cup {root}
        /\ intentional' = FALSE
    BY <1>0, <1>5 DEF StartSettled, startVars, stopVars
  <2>2. root \in Made /\ root \in Clients
    BY <2>1 DEF Starts, RootLives, Made
  <2>3. TypeOK'
    <3>1. watched \subseteq Clients
      BY DEF TypeOK
    <3>2. watched' \subseteq Clients
      BY <2>1, <2>2, <3>1
    <3>3. mine' \in 0 .. MaxClients
      BY <2>1, Bounds
    <3>4. {reconnecting', reconnect_event', intentional', bus'} \subseteq BOOLEAN
      BY <1>0, <2>1 DEF TypeOK
    <3> QED
      BY <1>0, <2>1, <3>2, <3>3, <3>4 DEF TypeOK
  <2>4. RootLives' /\ Numbered'
    BY <1>0, <2>1 DEF RootLives, Numbered, Made
  <2>5. Starts' /\ Watches' /\ Recovers' /\ Quiet' /\ WaitersHeld'
    BY <1>0, <2>1, <2>2 DEF Starts, Watches, Recovers, Quiet, WaitersHeld, Made
  <2> QED
    BY <2>3, <2>4, <2>5
<1>6. CASE StartFails
  <2>1. /\ UNCHANGED <<watched, starts, intentional>>
        /\ starting # "none" /\ starting' = "none" /\ mine' = 0
        /\ sock' = Closed(root) /\ root' = 0
        /\ alarm' = alarm \cup ({root} \cap watched)
    BY <1>0, <1>6 DEF StartFails, startVars, stopVars
  <2>2. root # 0 => root \in Made /\ root \in Clients /\ sock[root] # "closed"
    BY DEF RootLives, Made
  <2>3. alarm' = {} /\ alarm = {}
    <3>1. 0 \notin watched
      BY DEF TypeOK, Clients
    <3> QED
      BY <2>1, <2>2, <3>1 DEF Starts
  <2>4. /\ sock' \in [Clients -> Sockets] /\ Made' = Made /\ Numbered'
        /\ \A c \in Clients : sock'[c] = IF sock' # sock /\ c = root THEN "closed" ELSE sock[c]
    <3>1. sock' = sock \/ (root # 0 /\ sock' = [sock EXCEPT ![root] = "closed"])
      BY <2>1 DEF Closed
    <3>2. root \in Clients \cup {0} /\ "closed" \in Sockets \ {"none"}
      BY <2>2 DEF Sockets
    <3> QED
      BY <2>2, <3>1, <3>2, SameMade
  <2>5. root # 0 => sock'[root] = "closed"
    BY <2>1, <2>2 DEF Closed, TypeOK
  <2>6. TypeOK'
    BY <1>0, <2>1, <2>3, <2>4, Bounds DEF TypeOK
  <2>7. RootLives'
    BY <1>0, <2>1, <2>4, <2>5 DEF RootLives
  <2>8. Starts' /\ Watches' /\ Recovers' /\ Quiet' /\ WaitersHeld'
    BY <1>0, <2>1, <2>2, <2>3, <2>4, <2>5 DEF Starts, Watches, Recovers, Quiet, WaitersHeld, Made
  <2> QED
    BY <2>4, <2>6, <2>7, <2>8
<1> QED
  BY <1>1, <1>2, <1>3, <1>4, <1>5, <1>6, <1>7 DEF StartStep

-----------------------------------------------------------------------------
(* A dropped WebSocket and its recovery                                      *)

LEMMA DropStepInv ==
  ASSUME Inv, NEW c \in Clients, Drop(c)
  PROVE  Inv'
<1> USE DEF Inv
<1>1. /\ UNCHANGED <<root, watched, recovery, attempt, old, new, reconnecting, reconnect_event,
                     starting, mine, starts, intentional, stopping, bus, handler>>
      /\ sock[c] = "open" /\ sock' = [sock EXCEPT ![c] = "dead"]
      /\ alarm' = alarm \cup ({c} \cap watched)
  BY DEF Drop, recoveryVars, startVars, stopVars
<1>2. c = root /\ c \in Made /\ c # 0
  BY <1>1 DEF RootLives, Clients, Made
<1>3. /\ sock' \in [Clients -> Sockets] /\ Made' = Made /\ Numbered'
      /\ \A d \in Clients : sock'[d] = IF sock' # sock /\ d = c THEN "dead" ELSE sock[d]
  BY <1>1, <1>2, SameMade DEF Sockets
<1>4. sock'[c] = "dead"
  BY <1>1 DEF TypeOK
<1>5. TypeOK'
  BY <1>1, <1>3 DEF TypeOK
<1>6. RootLives' /\ WaitersHeld' /\ Recovers'
  BY <1>1, <1>2, <1>3, <1>4 DEF RootLives, WaitersHeld, Recovers
<1>7. Starts'
  <2>1. starting # "none" => c \notin watched
    BY <1>1 DEF Starts
  <2> QED
    BY <1>1, <1>2, <1>3, <2>1 DEF Starts, TypeOK
<1>8. Watches'
  BY <1>1, <1>2, <1>3, <1>4 DEF Watches, TypeOK
<1>9. Quiet'
  BY <1>1, <1>2 DEF Quiet
<1> QED
  BY <1>3, <1>5, <1>6, <1>7, <1>8, <1>9

LEMMA AlarmStepInv ==
  ASSUME Inv, NEW c \in Clients, Alarm(c)
  PROVE  Inv'
<1> USE DEF Inv
<1>1. /\ UNCHANGED <<root, sock, attempt, old, new, reconnecting, reconnect_event,
                     starting, mine, starts, intentional, stopping, bus, handler>>
      /\ c \in alarm /\ alarm' = alarm \ {c} /\ watched' = watched \ {c}
      /\ recovery' = recovery \/ (recovery' = "created" /\ ~reconnecting)
  BY DEF Alarm, startVars, stopVars
<1>2. c = root /\ sock[c] = "dead" /\ c # 0
  BY <1>1 DEF Watches, Clients
<1>3. starting = "none" /\ bus
  BY <1>1 DEF Starts, Quiet, TypeOK
<1>4. TypeOK'
  BY <1>1 DEF TypeOK
<1>5. Numbered' /\ RootLives' /\ WaitersHeld' /\ Starts' /\ Quiet'
  BY <1>1, <1>3 DEF Numbered, Made, RootLives, WaitersHeld, Starts, Quiet
<1>6. Recovers'
  BY <1>1, <1>2 DEF Recovers
<1>7. Watches'
  BY <1>1, <1>2 DEF Watches, Made
<1> QED
  BY <1>4, <1>5, <1>6, <1>7

(* The steps of _auto_reconnect.                                             *)
LEMMA RecoveryStepInv ==
  ASSUME Inv, RecoveryStep
  PROVE  Inv'
<1> USE DEF Inv
<1>0. /\ UNCHANGED <<alarm, starting, mine, starts, intentional, stopping, bus, handler>>
      /\ recovery # "none"
  BY DEF RecoveryStep, RecoveryBegins, OldClosed, NewOpens, NewOpened, Settled, RecoveryDone,
     TryFails, TryAgain, Try, startVars, stopVars, Trying
<1>1. starting = "none" /\ bus
  BY <1>0 DEF Starts, Quiet, TypeOK
<1>2. Starts' /\ Quiet'
  BY <1>0, <1>1 DEF Starts, Quiet
<1>3. CASE RecoveryBegins \/ TryAgain
  <2>1. /\ UNCHANGED <<root, sock, watched>>
        /\ recovery' = "closing" /\ old' = root /\ new' = 0
        /\ \/ recovery = "created" /\ attempt' = 1 /\ reconnecting' = TRUE /\ reconnect_event' = FALSE
           \/ /\ recovery = "backoff" /\ attempt' = attempt + 1
              /\ UNCHANGED <<reconnecting, reconnect_event>>
    BY <1>3 DEF RecoveryBegins, TryAgain, Try
  <2>2. attempt' \in 0 .. MaxAttempts
    BY <2>1, Bounds DEF Recovers, TypeOK
  <2>3. {reconnecting', reconnect_event', intentional', bus'} \subseteq BOOLEAN
    BY <1>0, <2>1 DEF TypeOK
  <2>4. reconnecting' /\ ~reconnect_event'
    BY <2>1 DEF Recovers, WaitersHeld, TypeOK
  <2>5. {old', new', mine'} \subseteq 0 .. MaxClients /\ recovery' \in Trying
    BY <1>0, <2>1, Bounds DEF TypeOK, Trying
  <2>6. TypeOK'
    BY <1>0, <2>1, <2>2, <2>3, <2>5 DEF TypeOK
  <2>7. RootLives' /\ Numbered' /\ WaitersHeld'
    BY <1>0, <2>1, <2>4 DEF RootLives, Numbered, Made, WaitersHeld
  <2>8. Recovers' /\ Watches'
    BY <1>0, <2>1, <2>4 DEF Recovers, Watches, Made
  <2> QED
    BY <1>2, <2>6, <2>7, <2>8
<1>4. CASE OldClosed
  <2>1. /\ UNCHANGED <<watched, attempt, old, new, reconnecting, reconnect_event>>
        /\ recovery = "closing" /\ recovery' = "clearing"
        /\ sock' = Closed(old) /\ root' = 0
    BY <1>4 DEF OldClosed
  <2>2. old = root /\ (old # 0 => old \in Made /\ old \in Clients)
    BY <2>1 DEF Recovers, RootLives, Made
  <2>3. /\ sock' \in [Clients -> Sockets] /\ Made' = Made /\ Numbered'
        /\ \A c \in Clients : sock'[c] = IF sock' # sock /\ c = old THEN "closed" ELSE sock[c]
    <3>1. sock' = sock \/ (old # 0 /\ sock' = [sock EXCEPT ![old] = "closed"])
      BY <2>1 DEF Closed
    <3>2. old \in Clients \cup {0} /\ "closed" \in Sockets \ {"none"}
      BY <2>2 DEF Sockets
    <3> QED
      BY <2>2, <3>1, <3>2, SameMade
  <2>4. old # 0 => sock'[old] = "closed"
    BY <2>1, <2>2 DEF Closed, TypeOK
  <2>5. TypeOK'
    BY <1>0, <2>1, <2>3, Bounds DEF TypeOK, Trying
  <2>6. RootLives' /\ WaitersHeld' /\ Recovers'
    BY <1>0, <2>1, <2>2, <2>3, <2>4 DEF RootLives, WaitersHeld, Recovers
  <2>7. Watches'
    <3>1. watched \subseteq Clients /\ 0 \notin watched
      BY DEF TypeOK, Clients
    <3>2. alarm = {} /\ old \notin watched
      BY <2>1, <2>2 DEF Watches
    <3>3. \A c \in watched : sock'[c] = sock[c] /\ sock[c] \notin {"open", "dead"}
      BY <2>2, <2>3, <3>1, <3>2 DEF Watches
    <3> QED
      BY <1>0, <2>1, <2>3, <3>1, <3>2, <3>3 DEF Watches
  <2> QED
    BY <1>2, <2>3, <2>5, <2>6, <2>7
<1>5. CASE NewOpens
  <2>1. /\ UNCHANGED <<watched, attempt, old, reconnecting, reconnect_event>>
        /\ recovery = "clearing" /\ recovery' = "opening" /\ Spare
        /\ new' = NextClient /\ root' = NextClient
        /\ sock' = [sock EXCEPT ![NextClient] = "opening"]
    BY <1>5 DEF NewOpens
  <2>2. /\ NextClient \in Clients /\ NextClient \notin Made /\ NextClient # 0
        /\ sock' \in [Clients -> Sockets] /\ Made' = Made \cup {NextClient} /\ Numbered'
        /\ \A c \in Clients : sock'[c] = IF c = NextClient THEN "opening" ELSE sock[c]
    BY <2>1, OneMore
  <2>3. TypeOK'
    BY <1>0, <2>1, <2>2 DEF TypeOK, Clients, Trying
  <2>4. root = 0
    BY <2>1 DEF Recovers
  <2>5. RootLives'
    BY <1>0, <2>1, <2>2, <2>4, Bounds DEF RootLives, Clients
  <2>6. WaitersHeld' /\ Recovers' /\ Watches'
    BY <1>0, <2>1, <2>2, <2>4, Bounds DEF WaitersHeld, Recovers, Watches, Clients, Made
  <2> QED
    BY <1>2, <2>2, <2>3, <2>5, <2>6
<1>6. CASE NewOpened
  <2>1. /\ UNCHANGED <<root, watched, attempt, old, new, reconnecting, reconnect_event>>
        /\ recovery = "opening" /\ recovery' = "settling"
        /\ sock' = [sock EXCEPT ![new] = "open"]
    BY <1>6 DEF NewOpened
  <2>2. root = new /\ new \in Made /\ new # 0 /\ new \in Clients
    BY <2>1 DEF Recovers, RootLives, Made
  <2>3. /\ sock' \in [Clients -> Sockets] /\ Made' = Made /\ Numbered'
        /\ \A c \in Clients : sock'[c] = IF sock' # sock /\ c = new THEN "open" ELSE sock[c]
    BY <2>1, <2>2, SameMade DEF Sockets
  <2>4. TypeOK'
    BY <1>0, <2>1, <2>3 DEF TypeOK, Trying
  <2>5. RootLives'
    BY <1>0, <2>1, <2>2, <2>3 DEF RootLives
  <2>6. WaitersHeld' /\ Recovers' /\ Watches'
    BY <1>0, <2>1, <2>2, <2>3 DEF WaitersHeld, Recovers, Watches
  <2> QED
    BY <1>2, <2>3, <2>4, <2>5, <2>6
<1>7. CASE Settled
  <2>1. /\ UNCHANGED <<root, sock, watched, attempt, old, new, reconnecting, reconnect_event>>
        /\ recovery = "settling" /\ recovery' = "proxy"
    BY <1>7 DEF Settled
  <2>2. TypeOK'
    BY <1>0, <2>1 DEF TypeOK, Trying
  <2>3. RootLives' /\ Numbered' /\ WaitersHeld' /\ Recovers' /\ Watches'
    BY <1>0, <2>1 DEF RootLives, Numbered, Made, WaitersHeld, Recovers, Watches
  <2> QED
    BY <1>2, <2>2, <2>3
<1>8. CASE RecoveryDone
  <2>1. /\ UNCHANGED <<root, sock, attempt, old, new>>
        /\ recovery = "proxy" /\ recovery' = "none" /\ reconnecting' = FALSE /\ reconnect_event' = TRUE
        /\ watched' = watched \/ (Connected /\ watched' = watched \cup {root})
    BY <1>8 DEF RecoveryDone, Finish
  <2>2. Connected => root \in Made /\ root \in Clients
    BY DEF Connected, RootLives, Made
  <2>3. {reconnecting', reconnect_event', intentional', bus'} \subseteq BOOLEAN
    BY <1>0, <2>1 DEF TypeOK
  <2>4. watched' \subseteq Clients
    <3>1. watched \subseteq Clients
      BY DEF TypeOK
    <3> QED
      BY <2>1, <2>2, <3>1
  <2>5. TypeOK'
    BY <1>0, <2>1, <2>3, <2>4 DEF TypeOK
  <2>6. RootLives' /\ Numbered' /\ WaitersHeld' /\ Recovers'
    BY <1>0, <2>1 DEF RootLives, Numbered, Made, WaitersHeld, Recovers
  <2>7. Watches'
    BY <1>0, <2>1, <2>2 DEF Watches, Made
  <2> QED
    BY <1>2, <2>5, <2>6, <2>7
<1>9. CASE TryFails
  <2>1. /\ UNCHANGED <<root, watched, attempt, old, new>>
        /\ recovery \in Trying
        /\ sock' = IF recovery = "opening" THEN [sock EXCEPT ![new] = "dead"] ELSE sock
        /\ \/ attempt < MaxAttempts /\ recovery' = "backoff" /\ UNCHANGED <<reconnecting, reconnect_event>>
           \/ recovery' = "none" /\ reconnecting' = FALSE /\ reconnect_event' = TRUE
    BY <1>9 DEF TryFails, Finish
  <2>2. recovery = "opening" => root = new /\ new \in Made /\ new # 0 /\ new \in Clients
    BY DEF Recovers, RootLives, Made
  <2>3. new \in Clients \cup {0} /\ (new # 0 => new \in Made)
    BY DEF RootLives, Made
  <2>4. /\ sock' \in [Clients -> Sockets] /\ Made' = Made /\ Numbered'
        /\ \A c \in Clients : sock'[c] = IF sock' # sock /\ c = new THEN "dead" ELSE sock[c]
    <3>1. sock' = sock \/ (new # 0 /\ sock' = [sock EXCEPT ![new] = "dead"])
      BY <2>1, <2>2
    <3>2. "dead" \in Sockets \ {"none"}
      BY DEF Sockets
    <3> QED
      BY <2>3, <3>1, <3>2, SameMade
  <2>5. sock' # sock => root = new
    BY <2>1, <2>2
  <2>6. {reconnecting', reconnect_event', intentional', bus'} \subseteq BOOLEAN
    BY <1>0, <2>1 DEF TypeOK
  <2>7. recovery' \in Trying \cup {"none", "created", "backoff"}
    BY <2>1
  <2>8. TypeOK'
    BY <1>0, <2>1, <2>4, <2>6, <2>7 DEF TypeOK
  <2>9. RootLives'
    BY <1>0, <2>1, <2>4, <2>5 DEF RootLives
  <2>10. WaitersHeld' /\ Recovers'
    <3>1. CASE attempt < MaxAttempts /\ recovery' = "backoff" /\ UNCHANGED <<reconnecting, reconnect_event>>
      <4>1. reconnecting' /\ reconnecting
        BY <2>1, <3>1 DEF Recovers, Trying
      <4> QED
        BY <2>1, <3>1, <4>1 DEF WaitersHeld, Recovers
    <3>2. CASE recovery' = "none" /\ reconnecting' = FALSE /\ reconnect_event' = TRUE
      BY <2>1, <3>2 DEF WaitersHeld, Recovers
    <3> QED
      BY <2>1, <3>1, <3>2
  <2>11. Watches'
    BY <1>0, <2>1, <2>4, <2>5 DEF Watches, Trying
  <2> QED
    BY <1>2, <2>4, <2>8, <2>9, <2>10, <2>11
<1> QED
  BY <1>3, <1>4, <1>5, <1>6, <1>7, <1>8, <1>9 DEF RecoveryStep

-----------------------------------------------------------------------------
(* stop(), kill() and the gate                                               *)

(* reset() leaves a session without client, recovery or alarm.               *)
LEMMA ResetLeaves ==
  ASSUME Inv, Reset
  PROVE  /\ sock' \in [Clients -> Sockets] /\ Made' = Made /\ Numbered'
         /\ \A c \in Clients : sock'[c] \notin {"open", "opening"}
         /\ \A c \in watched' : c # root /\ c \in watched /\ sock'[c] \notin {"open", "dead"}
         /\ alarm' = {} /\ root' = 0 /\ watched' \subseteq Clients
<1> USE DEF Inv
<1>1. /\ sock' = Closed(root) /\ root' = 0
      /\ alarm' = alarm \ {root} /\ watched' = watched \ {root}
  BY DEF Reset
<1>2. root # 0 => root \in Made /\ root \in Clients /\ sock[root] # "closed"
  BY DEF RootLives, Made
<1>3. /\ sock' \in [Clients -> Sockets] /\ Made' = Made /\ Numbered'
      /\ \A c \in Clients : sock'[c] = IF sock' # sock /\ c = root THEN "closed" ELSE sock[c]
  <2>1. sock' = sock \/ (root # 0 /\ sock' = [sock EXCEPT ![root] = "closed"])
    BY <1>1 DEF Closed
  <2>2. root \in Clients \cup {0} /\ "closed" \in Sockets \ {"none"}
    BY <1>2 DEF Sockets
  <2> QED
    BY <1>2, <2>1, <2>2, SameMade
<1>4. root # 0 => sock'[root] = "closed"
  BY <1>1, <1>2 DEF Closed, TypeOK
<1>5. \A c \in Clients : sock'[c] \notin {"open", "opening"}
  <2> TAKE c \in Clients
  <2>1. CASE c = root
    BY <1>4, <2>1, Bounds DEF Clients
  <2>2. CASE c # root
    BY <1>3, <2>2 DEF RootLives
  <2> QED
    BY <2>1, <2>2
<1>6. watched \subseteq Clients
  BY DEF TypeOK
<1>7. alarm' = {}
  BY <1>1 DEF Watches
<1>8. \A c \in watched' : c # root /\ c \in watched /\ sock'[c] \notin {"open", "dead"}
  BY <1>1, <1>3, <1>6 DEF Watches
<1> QED
  BY <1>1, <1>3, <1>5, <1>6, <1>7, <1>8

LEMMA StopStepInv ==
  ASSUME Inv, StopStep
  PROVE  Inv'
<1> USE DEF Inv
<1>1. CASE StopCalled \/ StopKeepsAlive
  <2>1. /\ UNCHANGED <<root, sock, watched, alarm, recovery, attempt, old, new, reconnecting,
                       reconnect_event, starting, mine, starts, bus, handler>>
        /\ intentional' \in BOOLEAN /\ stopping' \in {"saving", "stopped"} /\ bus
    BY <1>1 DEF StopCalled, StopKeepsAlive, recoveryVars, startVars, Quiet, TypeOK
  <2>2. {reconnecting', reconnect_event', intentional', bus'} \subseteq BOOLEAN
    BY <2>1 DEF TypeOK
  <2>3. TypeOK'
    BY <2>1, <2>2 DEF TypeOK
  <2> QED
    BY <2>1, <2>3 DEF WaitersHeld, Numbered, Made, RootLives, Starts, Recovers, Watches, Quiet
<1>2. CASE StopHandled \/ StopReturns
  <2>1. /\ Reset /\ UNCHANGED <<attempt, old, new, starts>>
        /\ recovery' = "none" /\ reconnecting' = FALSE /\ reconnect_event' = TRUE
        /\ intentional' = FALSE /\ bus' \in BOOLEAN /\ stopping' \in {"none", "stopped"}
        /\ starting' = "none" /\ mine' \in {0, mine} /\ handler' \in {"idle", handler}
        /\ ~bus' => stopping' = "none"
    <3>1. CASE StopHandled
      BY <1>2, <3>1 DEF StopHandled, Reset, startVars, Idle, Quiet, TypeOK
    <3>2. CASE StopReturns
      BY <1>2, <3>2 DEF StopReturns, Reset
    <3> QED
      BY <1>2, <3>1, <3>2
  <2>2. /\ sock' \in [Clients -> Sockets] /\ Made' = Made /\ Numbered'
        /\ \A c \in Clients : sock'[c] \notin {"open", "opening"}
        /\ \A c \in watched' : c # root /\ c \in watched /\ sock'[c] \notin {"open", "dead"}
        /\ alarm' = {} /\ root' = 0 /\ watched' \subseteq Clients
    BY <2>1, ResetLeaves
  <2>3. {reconnecting', reconnect_event', intentional', bus'} \subseteq BOOLEAN
    BY <2>1
  <2>4. mine' = 0
    <3>1. CASE StopHandled
      BY <3>1 DEF StopHandled, startVars, Idle, Starts
    <3>2. CASE StopReturns
      BY <3>2 DEF StopReturns
    <3> QED
      BY <1>2, <3>1, <3>2
  <2>5. TypeOK'
    <3>1. mine' \in 0 .. MaxClients /\ root' \in 0 .. MaxClients
      BY <2>2, <2>4, Bounds
    <3> QED
      BY <2>1, <2>2, <2>3, <3>1 DEF TypeOK
  <2>6. RootLives' /\ WaitersHeld' /\ Starts' /\ Recovers' /\ Quiet'
    BY <2>1, <2>2, <2>4 DEF RootLives, WaitersHeld, Starts, Recovers, Quiet
  <2>7. Watches'
    BY <2>1, <2>2 DEF Watches
  <2> QED
    BY <2>2, <2>5, <2>6, <2>7
<1> QED
  BY <1>1, <1>2 DEF StopStep

LEMMA HandlerStepInv ==
  ASSUME Inv, HandlerBegins \/ HandlerWakes \/ HandlerTimesOut \/ HandlerReturns
  PROVE  Inv'
<1> USE DEF Inv
<1>1. /\ UNCHANGED <<root, sock, watched, alarm, recovery, attempt, old, new, reconnecting,
                     reconnect_event, starting, mine, starts, intentional, stopping, bus>>
      /\ handler' \in {"idle", "running", "waiting", "failed", "skipped"}
  BY DEF HandlerBegins, HandlerWakes, HandlerTimesOut, HandlerReturns, recoveryVars, startVars, stopVars
<1>2. TypeOK'
  BY <1>1 DEF TypeOK
<1> QED
  BY <1>1, <1>2 DEF WaitersHeld, Numbered, Made, RootLives, Starts, Recovers, Watches, Quiet

LEMMA StepInv ==
  ASSUME Inv, ~Overlap, [Next]_vars
  PROVE  Inv'
<1>1. CASE UNCHANGED vars
  <2>1. UNCHANGED <<root, sock, watched, alarm, recovery, attempt, old, new, reconnecting,
                    reconnect_event, starting, mine, starts, intentional, stopping, bus, handler>>
    BY <1>1 DEF vars, recoveryVars, startVars, stopVars
  <2> QED
    BY <2>1 DEF Inv, TypeOK, WaitersHeld, Numbered, Made, RootLives, Starts, Recovers, Watches, Quiet
<1>2. CASE Next
  BY <1>2, StartStepInv, RecoveryStepInv, StopStepInv, HandlerStepInv, DropStepInv, AlarmStepInv
     DEF Next
<1> QED
  BY <1>1, <1>2

-----------------------------------------------------------------------------
(* The status seen by the rest of the program follows ConnStatus.            *)

LEMMA StatusInit == Init => Connection!Init
  BY DEF Init, Connection!Init, Status

LEMMA StatusStep ==
  ASSUME Inv, ~Overlap, [Next]_vars
  PROVE  [Connection!Next]_Status
<1> USE DEF Inv
<1>0. SUFFICES Connection!Next \/ Status' = Status
  OBVIOUS
<1>1. CASE UNCHANGED <<root, sock, reconnecting, starting, bus>>
  BY <1>1 DEF Status
<1>2. CASE StartBegins \/ StartOpens \/ StartOpened \/ StartFocused \/ StartSettled \/ StartFails
  <2>1. ~reconnecting /\ UNCHANGED <<reconnecting, bus>> /\ bus
    BY <1>2 DEF StartBegins, StartOpens, StartOpened, StartFocused, StartSettled, StartFails,
       recoveryVars, stopVars, CanStart, Recovers, Starts, Quiet, TypeOK
  <2>2. Status = "down"
    BY <1>2, <2>1 DEF StartBegins, StartOpens, StartOpened, StartFocused, StartSettled, StartFails,
       Status
  <2>3. Status' \in {"down", "up", "lost"}
    BY <2>1 DEF Status
  <2> QED
    BY <2>2, <2>3 DEF Connection!Next, Connection!Connect
<1>3. ASSUME NEW c \in Clients, Drop(c) PROVE Connection!Next \/ Status' = Status
  <2>1. /\ UNCHANGED <<root, reconnecting, starting, bus>> /\ root # 0 /\ bus
        /\ sock[root] = "open" /\ sock'[root] = "dead"
    BY <1>3 DEF Drop, recoveryVars, startVars, stopVars, RootLives, Quiet, TypeOK, Clients
  <2> QED
    BY <2>1 DEF Status, Connection!Next, Connection!Drop
<1>4. CASE RecoveryBegins
  <2>1. /\ recovery = "created" /\ root # 0 /\ sock[root] = "dead" /\ bus /\ ~reconnecting
        /\ starting = "none" /\ reconnecting' /\ UNCHANGED bus
    BY <1>4 DEF RecoveryBegins, Recovers, Starts, Quiet, stopVars, TypeOK
  <2> QED
    BY <2>1 DEF Status, Connection!Next, Connection!Recover
<1>5. CASE OldClosed \/ NewOpens \/ NewOpened \/ Settled \/ RecoveryDone \/ TryFails \/ TryAgain
  <2>1. reconnecting /\ bus /\ UNCHANGED bus
    BY <1>5 DEF OldClosed, NewOpens, NewOpened, Settled, RecoveryDone, TryFails, TryAgain, Trying,
       Recovers, Starts, Quiet, startVars, stopVars, TypeOK
  <2>2. Status = "recovering"
    BY <2>1 DEF Status
  <2>3. Status' \in {"recovering", "up", "lost", "down"}
    BY <2>1 DEF Status
  <2> QED
    BY <2>2, <2>3 DEF Connection!Next, Connection!Recovered
<1>6. CASE StopHandled
  <2>1. bus /\ bus' /\ root' = 0 /\ ~reconnecting'
    BY <1>6 DEF StopHandled, Reset, Quiet, TypeOK
  <2>2. Status' = "down" /\ Status \in {"recovering", "up", "lost", "down"}
    BY <2>1 DEF Status
  <2> QED
    BY <2>2 DEF Connection!Next, Connection!Reset
<1>7. CASE StopReturns
  <2>1. bus /\ ~bus'
    BY <1>7 DEF StopReturns, Quiet, TypeOK
  <2>2. Status' = "closed" /\ Status # "closed"
    BY <2>1 DEF Status
  <2> QED
    BY <2>2 DEF Connection!Next, Connection!Close
<1>8. ASSUME NEW c \in Clients, Alarm(c) PROVE UNCHANGED <<root, sock, reconnecting, starting, bus>>
  BY <1>8 DEF Alarm, startVars, stopVars
<1>9. CASE StartReturns \/ StopCalled \/ StopKeepsAlive \/ HandlerBegins \/ HandlerWakes
           \/ HandlerTimesOut \/ HandlerReturns \/ UNCHANGED vars
  BY <1>1, <1>9 DEF StartReturns, StopCalled, StopKeepsAlive, HandlerBegins, HandlerWakes,
     HandlerTimesOut, HandlerReturns, vars, recoveryVars, startVars, stopVars
<1> QED
  BY <1>1, <1>2, <1>3, <1>4, <1>5, <1>6, <1>7, <1>8, <1>9
     DEF Next, StartStep, RecoveryStep, StopStep

-----------------------------------------------------------------------------
(* When no start() comes while a recovery runs, the handlers that wait for   *)
(* one are held exactly as long as it lasts and no client but the root one   *)
(* has an open WebSocket, in every state.                                    *)
THEOREM ConsistentHolds ==
  ASSUME ~Overlap
  PROVE  Spec => []Consistent
<1>1. Init => Inv
  BY InitInv
<1>2. Inv /\ [Next]_vars => Inv'
  BY StepInv
<1>3. Inv => Consistent
  BY DEF Inv, Consistent, NoOpenClientForgotten, RootLives
<1> QED
  BY <1>1, <1>2, <1>3, PTL DEF Spec

(* After stop() or kill() has returned there is no client, no recovery and   *)
(* no alarm that would start one.                                            *)
THEOREM StoppedIsQuietHolds ==
  ASSUME ~Overlap
  PROVE  Spec => []StoppedIsQuiet
<1>1. Init => Inv
  BY InitInv
<1>2. Inv /\ [Next]_vars => Inv'
  BY StepInv
<1>3. Inv => StoppedIsQuiet
  BY DEF Inv, StoppedIsQuiet, Quiet
<1> QED
  BY <1>1, <1>2, <1>3, PTL DEF Spec

(* A connection that died comes back only by the recovery started for it,    *)
(* and a stopped session never connects again: the lifecycle implements      *)
(* ConnStatus.                                                               *)
THEOREM ImplementsConnStatusHolds ==
  ASSUME ~Overlap
  PROVE  Spec => ImplementsConnStatus
<1>1. Init => Inv
  BY InitInv
<1>2. Inv /\ [Next]_vars => Inv'
  BY StepInv
<1>3. Inv /\ [Next]_vars => [Connection!Next]_Status
  BY StatusStep
<1> QED
  BY <1>1, <1>2, <1>3, StatusInit, PTL DEF Spec, ImplementsConnStatus, Connection!Spec

-----------------------------------------------------------------------------
(* start() at any time                                                       *)

(* While the event is cleared a recovery is past its start and short of its  *)
(* finally block, at one of its attempts or with another one to come.        *)
HeldByRecovery ==
  ~reconnect_event => /\ reconnecting /\ attempt \in 1 .. MaxAttempts
                      /\ recovery \in Trying \/ (recovery = "backoff" /\ attempt < MaxAttempts)

HeldInv ==
  /\ TypeOK /\ WaitersHeld
  /\ reconnecting <=> recovery \notin {"none", "created"}
  /\ reconnecting => attempt # 0
  /\ recovery = "backoff" => attempt < MaxAttempts

LEMMA HeldStart == ASSUME HeldInv, StartStep PROVE HeldInv'
<1> USE DEF HeldInv
<1>1. /\ UNCHANGED <<recovery, attempt, old, new, reconnecting, reconnect_event, stopping, bus, handler>>
      /\ starting' \in {"none", "fetching", "opening", "settling", "proxy"}
  BY DEF StartStep, StartReturns, StartBegins, StartOpens, StartOpened, StartFocused, StartSettled, StartFails,
     recoveryVars, startVars, stopVars, TypeOK
<1>2. Spare => NextClient \in Clients
  <2>1. IsFiniteSet(Clients)
    BY Bounds, FS_Interval DEF Clients
  <2>2. Cardinality(Made) \in Nat
    BY <2>1, FS_Subset, FS_CardinalityType DEF Made
  <2> QED
    BY <2>2, Bounds DEF Spare, NextClient, Clients
<1>3. root' \in 0 .. MaxClients /\ mine' \in 0 .. MaxClients
  BY <1>2, Bounds DEF StartStep, StartReturns, StartBegins, StartOpens, StartOpened, StartFocused, StartSettled,
     StartFails, startVars, stopVars, TypeOK, Clients
<1>4. sock' \in [Clients -> Sockets]
  BY <1>2 DEF StartStep, StartReturns, StartBegins, StartOpens, StartOpened, StartFocused, StartSettled,
     StartFails, startVars, stopVars, TypeOK, Closed, Sockets
<1>5. watched' \subseteq Clients /\ alarm' \subseteq Clients
  <2>1. Connected => root \in Clients
    BY DEF Connected, TypeOK, Clients
  <2>2. watched \subseteq Clients /\ alarm \subseteq Clients
    BY DEF TypeOK
  <2> QED
    BY <2>1, <2>2 DEF StartStep, StartReturns, StartBegins, StartOpens, StartOpened, StartFocused, StartSettled, StartFails
<1>6. starts' \in 0 .. MaxStarts
  BY Bounds DEF StartStep, StartReturns, StartBegins, StartOpens, StartOpened, StartFocused, StartSettled,
     StartFails, CanStart, startVars, TypeOK
<1>7. {reconnecting', reconnect_event', intentional', bus'} \subseteq BOOLEAN
  <2>1. intentional' = intentional \/ intentional' = FALSE
    BY DEF StartStep, StartReturns, StartBegins, StartOpens, StartOpened, StartFocused, StartSettled, StartFails,
       stopVars
  <2> QED
    BY <1>1, <2>1 DEF TypeOK
<1>8. TypeOK'
  BY <1>1, <1>3, <1>4, <1>5, <1>6, <1>7 DEF TypeOK
<1> QED
  BY <1>1, <1>8 DEF WaitersHeld

LEMMA HeldRecovery == ASSUME HeldInv, RecoveryStep PROVE HeldInv'
<1> USE DEF HeldInv
<1>1. UNCHANGED <<alarm, starting, mine, starts, intentional, stopping, bus, handler>>
  BY DEF RecoveryStep, RecoveryBegins, OldClosed, NewOpens, NewOpened, Settled, RecoveryDone,
     TryFails, TryAgain, startVars, stopVars
<1>2. Spare => NextClient \in Clients
  <2>1. IsFiniteSet(Clients)
    BY Bounds, FS_Interval DEF Clients
  <2>2. Cardinality(Made) \in Nat
    BY <2>1, FS_Subset, FS_CardinalityType DEF Made
  <2> QED
    BY <2>2, Bounds DEF Spare, NextClient, Clients
<1>3. root' \in 0 .. MaxClients /\ old' \in 0 .. MaxClients /\ new' \in 0 .. MaxClients
  BY <1>2, Bounds DEF RecoveryStep, RecoveryBegins, OldClosed, NewOpens, NewOpened, Settled,
     RecoveryDone, TryFails, TryAgain, Try, TypeOK, Clients
<1>4. sock' \in [Clients -> Sockets]
  BY <1>2 DEF RecoveryStep, RecoveryBegins, OldClosed, NewOpens, NewOpened, Settled,
     RecoveryDone, TryFails, TryAgain, TypeOK, Closed, Sockets
<1>5. watched' \subseteq Clients
  <2>1. Connected => root \in Clients
    BY DEF Connected, TypeOK, Clients
  <2>2. watched \subseteq Clients
    BY DEF TypeOK
  <2> QED
    BY <2>1, <2>2 DEF RecoveryStep, RecoveryBegins, OldClosed, NewOpens, NewOpened, Settled,
       RecoveryDone, TryFails, TryAgain
<1>6. /\ attempt' \in 0 .. MaxAttempts
      /\ reconnecting' \in BOOLEAN /\ reconnect_event' = ~reconnecting'
      /\ reconnecting' <=> recovery' \notin {"none", "created"}
      /\ reconnecting' => attempt' # 0
      /\ recovery' = "backoff" => attempt' < MaxAttempts
      /\ recovery' \in Trying \cup {"none", "created", "backoff"}
  <2>1. CASE RecoveryBegins
    <3>1. reconnecting' = TRUE /\ reconnect_event' = FALSE /\ attempt' = 1 /\ recovery' = "closing"
      BY <2>1 DEF RecoveryBegins, Try
    <3>2. attempt' \in 0 .. MaxAttempts /\ attempt' # 0
      BY <3>1, Bounds
    <3>3. reconnecting' \in BOOLEAN /\ reconnect_event' = ~reconnecting'
      BY <3>1
    <3> QED
      BY <3>1, <3>2, <3>3 DEF Trying
  <2>2. CASE TryAgain
    BY <2>2, Bounds DEF TryAgain, Try, Trying, TypeOK, WaitersHeld
  <2>3. CASE OldClosed \/ NewOpens \/ NewOpened \/ Settled
    BY <2>3 DEF OldClosed, NewOpens, NewOpened, Settled, Trying, TypeOK, WaitersHeld
  <2>4. CASE RecoveryDone
    BY <2>4 DEF RecoveryDone, Finish, TypeOK
  <2>5. CASE TryFails
    <3>1. CASE attempt < MaxAttempts
      BY <2>5, <3>1 DEF TryFails, Trying, TypeOK, WaitersHeld
    <3>2. CASE ~(attempt < MaxAttempts)
      BY <2>5, <3>2 DEF TryFails, Finish, TypeOK
    <3> QED
      BY <3>1, <3>2
  <2> QED
    BY <2>1, <2>2, <2>3, <2>4, <2>5 DEF RecoveryStep
<1>7. {reconnecting', reconnect_event', intentional', bus'} \subseteq BOOLEAN
  BY <1>1, <1>6 DEF TypeOK
<1>8. TypeOK'
  BY <1>1, <1>3, <1>4, <1>5, <1>6, <1>7 DEF TypeOK
<1> QED
  BY <1>6, <1>8 DEF WaitersHeld

LEMMA HeldStop == ASSUME HeldInv, StopStep PROVE HeldInv'
<1> USE DEF HeldInv
<1>1. CASE StopCalled \/ StopKeepsAlive
  <2>1. /\ UNCHANGED <<root, sock, watched, alarm, recovery, attempt, old, new, reconnecting,
                       reconnect_event, starting, mine, starts, bus, handler>>
        /\ intentional' \in BOOLEAN /\ stopping' \in {"saving", "stopped"}
    BY <1>1 DEF StopCalled, StopKeepsAlive, recoveryVars, startVars, TypeOK
  <2>2. {reconnecting', reconnect_event', intentional', bus'} \subseteq BOOLEAN
    BY <2>1 DEF TypeOK
  <2> QED
    BY <2>1, <2>2 DEF TypeOK, WaitersHeld
<1>2. CASE StopHandled \/ StopReturns
  <2>1. /\ Reset /\ UNCHANGED <<attempt, old, new, starts>>
        /\ recovery' = "none" /\ reconnecting' = FALSE /\ reconnect_event' = TRUE
        /\ intentional' = FALSE /\ bus' \in BOOLEAN /\ stopping' \in {"none", "stopped"}
        /\ starting' \in {"none", starting} /\ mine' \in {0, mine} /\ handler' \in {"idle", handler}
    BY <1>2 DEF StopHandled, StopReturns, Reset, startVars, TypeOK
  <2>2. sock' \in [Clients -> Sockets] /\ root' \in 0 .. MaxClients /\ mine' \in 0 .. MaxClients
    <3>1. sock' = Closed(root) /\ root' = 0
      BY <2>1 DEF Reset
    <3>2. sock' \in [Clients -> Sockets]
      BY <3>1 DEF Closed, TypeOK, Sockets
    <3>3. root' \in 0 .. MaxClients /\ mine' \in 0 .. MaxClients
      BY <2>1, <3>1, Bounds DEF TypeOK
    <3> QED
      BY <3>2, <3>3
  <2>3. watched' \subseteq Clients /\ alarm' \subseteq Clients
    BY <2>1 DEF Reset, TypeOK
  <2>4. {reconnecting', reconnect_event', intentional', bus'} \subseteq BOOLEAN
    BY <2>1
  <2>5. TypeOK'
    BY <2>1, <2>2, <2>3, <2>4 DEF TypeOK
  <2> QED
    BY <2>1, <2>5 DEF WaitersHeld
<1> QED
  BY <1>1, <1>2 DEF StopStep

LEMMA HeldStep == ASSUME HeldInv, [Next]_vars PROVE HeldInv'
<1> USE DEF HeldInv
<1>1. CASE UNCHANGED vars
  BY <1>1 DEF vars, recoveryVars, startVars, stopVars, TypeOK, WaitersHeld
<1>2. CASE HandlerBegins \/ HandlerWakes \/ HandlerTimesOut \/ HandlerReturns
  <2>1. /\ UNCHANGED <<root, sock, watched, alarm, recovery, attempt, old, new, reconnecting,
                       reconnect_event, starting, mine, starts, intentional, stopping, bus>>
        /\ handler' \in {"idle", "running", "waiting", "failed", "skipped"}
    BY <1>2 DEF HandlerBegins, HandlerWakes, HandlerTimesOut, HandlerReturns, recoveryVars,
       startVars, stopVars
  <2>2. TypeOK'
    BY <2>1 DEF TypeOK
  <2> QED
    BY <2>1, <2>2 DEF WaitersHeld
<1>3. ASSUME NEW c \in Clients, Drop(c) PROVE HeldInv'
  <2>1. sock' \in [Clients -> Sockets] /\ alarm' \subseteq Clients
    BY <1>3 DEF Drop, TypeOK, Sockets
  <2> QED
    BY <1>3, <2>1 DEF Drop, recoveryVars, startVars, stopVars, TypeOK, WaitersHeld
<1>4. ASSUME NEW c \in Clients, Alarm(c) PROVE HeldInv'
  <2>1. watched' \subseteq Clients /\ alarm' \subseteq Clients
    BY <1>4 DEF Alarm, TypeOK
  <2>2. recovery' = recovery \/ (recovery' = "created" /\ ~reconnecting)
    BY <1>4 DEF Alarm
  <2> QED
    BY <1>4, <2>1, <2>2 DEF Alarm, startVars, stopVars, TypeOK, WaitersHeld
<1> QED
  BY <1>1, <1>2, <1>3, <1>4, HeldStart, HeldRecovery, HeldStop DEF Next

(* Whenever start() is called, in the middle of a recovery too: the handlers *)
(* that wait for _reconnect_event wait for a recovery that is under way,     *)
(* within its attempts; its finally block, or reset(), sets the event        *)
(* (_auto_reconnect, reset).                                                 *)
THEOREM HeldByRecoveryHolds == Spec => [](WaitersHeld /\ HeldByRecovery)
<1>1. Init => HeldInv
  <2> SUFFICES ASSUME Init PROVE HeldInv
    OBVIOUS
  <2>1. TypeOK
    BY InitInv DEF Inv
  <2> QED
    BY <2>1 DEF Init, HeldInv, WaitersHeld
<1>2. HeldInv /\ [Next]_vars => HeldInv'
  BY HeldStep
<1>3. HeldInv => WaitersHeld /\ HeldByRecovery
  <2> SUFFICES ASSUME HeldInv, ~reconnect_event PROVE HeldByRecovery
    BY DEF HeldInv, HeldByRecovery
  <2>1. reconnecting
    BY DEF HeldInv, WaitersHeld, TypeOK
  <2>2. attempt \in 1 .. MaxAttempts
    BY <2>1, Bounds DEF HeldInv, TypeOK
  <2> QED
    BY <2>1, <2>2 DEF HeldInv, HeldByRecovery, TypeOK
<1> QED
  BY <1>1, <1>2, <1>3, PTL DEF Spec
==============================================================================
