------------------------------ MODULE ConnStatus -----------------------------
(* What the users of a browser session may rely on about its CDP connection  *)
(* (browser_use/browser/session.py): a connection that died comes back only  *)
(* by the recovery the session started for it, and a session that was        *)
(* stopped never connects again.  BrowserLifecycle implements this module;   *)
(* AgentLoop uses it.                                                        *)

VARIABLE status

\* down: no root client; up: a root client with an open socket; lost: a root
\* client whose socket is dead, no recovery running; recovering: a recovery is
\* running; closed: stop() or kill() returned
Statuses == {"down", "up", "lost", "recovering", "closed"}

Init == status = "down"

\* a client whose socket dies while start() is finishing is left behind, and lost
Connect == status = "down" /\ status' \in {"up", "lost"}

Drop == status = "up" /\ status' = "lost"

Recover == status = "lost" /\ status' = "recovering"

\* an attempt succeeds, or all of them failed: with or without a client left
Recovered == status = "recovering" /\ status' \in {"up", "lost", "down"}

\* the reset inside stop() and kill(), and then their end
Reset == status \in {"up", "lost", "recovering"} /\ status' = "down"
Close == status # "closed" /\ status' = "closed"

Next == Connect \/ Drop \/ Recover \/ Recovered \/ Reset \/ Close

Spec == Init /\ [][Next]_status
==============================================================================
