------------------------------- MODULE MCBackend -------------------------------
(* The state that requests share in the backend, each part by itself: turns    *)
(* that overlap in one conversation, with the continuation registry and the    *)
(* socket pool; the compaction registry; the HTTP server with its monitor and  *)
(* session table; the client pools; and the credentials.                               *)
(* A behaviour is one of a part; the other parts stay where they begin.        *)
EXTENDS
    CodexTurns, ServerCompaction, HttpServer, NetworkPool, AuthManager

CONSTANTS r1, r2, r3, c1, c2, p1, p2, p3

Sockets3 == 1 .. 3

VARIABLE part

\* Requests of every endpoint; three share a session.
Mixed == {<<"messages", c1, "alias", FALSE>>, <<"messages", c1, "codex", TRUE>>,
          <<"count", c2, "other", FALSE>>, <<"openai", c1, "codex", FALSE>>,
          <<"native", Absent, "unknown", FALSE>>}

\* Two requests of one process, one of another.
TwoProcesses == [c \in Caller |-> IF c = p3 THEN "other" ELSE "one"]

parts == <<part, vars, compactionVars, serverVars, networkVars, authVars>>

BackendInit ==
    /\ part \in {"turns", "compaction", "server", "network", "auth"}
    /\ TurnsInit /\ CompactionInit /\ ServerInit /\ NetworkInit /\ AuthInit
    \* The choices at the start are for their own part.
    /\ part # "auth" => file # NoCredential
    /\ part # "network" => network = CHOOSE identity \in Identity : TRUE

\* Requests and the rest of each kind may be swapped, and each is
\* used once: it is enough to look at those that use them in one order.
Begun(used) == used \in {{}, {r1}, {r1, r2}, {r1, r2, r3}}

TurnsPart ==
    /\ part = "turns" /\ TurnsNext
    /\ Begun({r \in Request : res'[r] # None})
    /\ UNCHANGED <<compactionVars, serverVars, networkVars, authVars>>
CompactionPart ==
    /\ part = "compaction" /\ CompactionNext
    /\ Begun({c \in Compactor : compactor'[c] # Unmade})
    /\ UNCHANGED <<vars, serverVars, networkVars, authVars>>
\* The monitor's pruning and the sessions' clock have nothing to do with each other.
ServerPart ==
    /\ part = "server" /\ ServerNext
    /\ Begun({r \in Call : http'[r] # Unsent})
    /\ counted'.prunes = 0 \/ clock' = 0
    /\ UNCHANGED <<vars, compactionVars, networkVars, authVars>>
NetworkPart ==
    /\ part = "network" /\ NetworkNext
    /\ Begun({h \in Holder : holder'[h].at # "idle"})
    /\ UNCHANGED <<vars, compactionVars, serverVars, authVars>>
AuthPart ==
    /\ part = "auth" /\ AuthNext
    /\ caller'[p2] # Nothing("idle") => caller'[p1] # Nothing("idle")
    /\ UNCHANGED <<vars, compactionVars, serverVars, networkVars>>

BackendNext ==
    /\ TurnsPart \/ CompactionPart \/ ServerPart \/ NetworkPart \/ AuthPart
    /\ UNCHANGED part

BackendSpec == BackendInit /\ [][BackendNext]_parts
================================================================================
