------------------------------ MODULE MCRequests ------------------------------
(* The three ways a request is carried to the upstream, each by itself: turns  *)
(* streamed over WebSocket, a request streamed over HTTP, and a buffered post. *)
(* A behaviour is one of a part; the other parts stay where they begin.        *)
EXTENDS CodexTurns, BufferedPost

VARIABLE part

Sockets4 == 1 .. 4

requestsVars == <<part, vars, httpVars, bufferedVars>>

RequestsInit ==
    /\ part \in {"websocket", "http", "buffered"}
    /\ TurnsInit /\ HttpInit /\ BufferedInit

RequestsNext ==
    /\ UNCHANGED part
    /\ \/ part = "websocket" /\ TurnsNext /\ UNCHANGED <<httpVars, bufferedVars>>
       \/ part = "http" /\ HttpNext /\ UNCHANGED <<vars, bufferedVars>>
       \/ part = "buffered" /\ BufferedNext /\ UNCHANGED vars

\* The fairness of each part: no other part's step is ever enabled.
RequestsFairness ==
    /\ \A r \in Request : /\ WF_vars(part = "websocket" /\ Handler(r))
                          /\ WF_vars(part = "websocket" /\ Coordinator(r))
                          /\ WF_vars(part = "websocket" /\ SocketTask(r))
    /\ WF_httpVars(part = "http" /\ HttpProgress)
    /\ SF_httpVars(part = "http" /\ (ReadsEvent \/ ReadsFailure \/ ReadFailsOver))
    /\ WF_httpVars(part = "http" /\ RecoveryTimesOut)
    /\ WF_httpVars(part = "http" /\ PathInterrupts)
    /\ WF_httpVars(part = "http" /\ DeadlinePasses)
    /\ WF_bufferedVars(part = "buffered" /\ BufferedProgress /\ UNCHANGED httpVars)
    /\ WF_bufferedVars(part = "buffered" /\ BufferedInterrupted /\ UNCHANGED httpVars)

RequestsSpec == RequestsInit /\ [][RequestsNext]_requestsVars /\ RequestsFairness
=============================================================================
