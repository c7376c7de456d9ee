------------------------------ MODULE SocketDial -------------------------------
(***************************************************************************)
(* Dialling the upstream for a WebSocket.  Calls wait at a gate that keeps   *)
(* their starts apart; each is tried once more when the upstream itself      *)
(* answers 403, after a pause; a change of the network ends them all; and    *)
(* the socket bears the network that the request saw when it came.           *)
(***************************************************************************)
EXTENDS Naturals, FiniteSets, Sequences

CONSTANTS
    Dialler,        \* requests that need a socket
    Spacing,        \* WEBSOCKET_CONNECT_START_SPACING
    Cooldown,       \* WEBSOCKET_CONNECT_FORBIDDEN_COOLDOWN
    ConnectTimeout,
    MaxMoment,      \* bound: ticks of the clock
    MaxChanges      \* bound: changes of the network

ASSUME SocketDialAssumption ==
    {Spacing, Cooldown, ConnectTimeout, MaxMoment, MaxChanges} \subseteq Nat

VARIABLES
    moment,   \* the clock
    network,  \* the generation of the network
    gate,     \* WebSocketConnectGate: who holds it, who waits, when the last one started (0: never)
    dial,     \* each request's call
    starts    \* who started when, in order

dialVars == <<moment, network, gate, dial, starts>>

\* http_connect_route: through a tunnel for wss: behind an HTTP proxy, and
\* otherwise by an upgrade with the HTTP client, which goes through what proxy it has.
Routes == {"tunnelled", "upgraded"}

Resting(route) == [at |-> "unasked", route |-> route, attempt |-> 0, lease |-> 0, socket |-> 0,
                   until |-> 0, failed |-> "none"]

DialInit ==
    /\ moment = 1 /\ network = 0 /\ starts = <<>>
    /\ gate = [holder |-> {}, queue |-> <<>>, last |-> 0]
    /\ \E route \in [Dialler -> Routes] : dial = [d \in Dialler |-> Resting(route[d])]

-----------------------------------------------------------------------------

\* prepare_codex_websocket takes the lease of the socket.
AskForSocket(d) ==
    /\ dial[d].at = "unasked"
    /\ dial' = [dial EXCEPT ![d].at = "asked", ![d].socket = network]
    /\ UNCHANGED <<moment, network, gate, starts>>

\* connect_with_timeout takes another for the call, and the call comes to the gate.
Dial(d) ==
    /\ dial[d].at = "asked"
    /\ dial' = [dial EXCEPT ![d].at = "queued", ![d].lease = network]
    /\ gate' = [gate EXCEPT !.queue = Append(@, d)]
    /\ UNCHANGED <<moment, network, starts>>

\* The lock is held while the one who has it sleeps.
EnterGate(d) ==
    /\ dial[d].at = "queued" /\ gate.holder = {} /\ Head(gate.queue) = d
    /\ gate' = [gate EXCEPT !.holder = {d}, !.queue = Tail(@)]
    /\ dial' = [dial EXCEPT ![d].at = "sleeping",
                            ![d].until = IF gate.last = 0 THEN moment ELSE gate.last + Spacing]
    /\ UNCHANGED <<moment, network, starts>>

StartDial(d) ==
    /\ dial[d].at = "sleeping" /\ moment >= dial[d].until
    /\ gate' = [gate EXCEPT !.holder = {}, !.last = moment]
    /\ dial' = [dial EXCEPT ![d].at = "connecting", ![d].until = moment + ConnectTimeout]
    /\ starts' = Append(starts, [by |-> d, moment |-> moment, network |-> network])
    /\ UNCHANGED <<moment, network>>

\* What comes of an attempt: a proxy may refuse with any status too, and only what
\* the upstream says counts as its own.
Outcomes(route) ==
    {[ok |-> TRUE, whose |-> "origin", failed |-> "none"],
     [ok |-> FALSE, whose |-> "origin", failed |-> "forbidden"],
     [ok |-> FALSE, whose |-> "origin", failed |-> "refused"]}
    \cup IF route = "tunnelled"
         THEN {[ok |-> FALSE, whose |-> "proxy", failed |-> f] : f \in {"forbidden", "refused"}} ELSE {}

IsOriginForbidden(outcome) == ~outcome.ok /\ outcome.whose = "origin" /\ outcome.failed = "forbidden"

\* connect_with_policy: what follows an attempt
Settled(d, outcome) ==
    IF IsOriginForbidden(outcome) /\ dial[d].attempt = 0
    THEN [dial[d] EXCEPT !.at = "cooling", !.until = moment + Cooldown, !.failed = outcome.whose]
    ELSE [dial[d] EXCEPT !.at = IF outcome.ok THEN "connected" ELSE "failed", !.failed = outcome.whose]

Attempt(d) ==
    /\ dial[d].at = "connecting"
    /\ \E outcome \in Outcomes(dial[d].route) : dial' = [dial EXCEPT ![d] = Settled(d, outcome)]
    /\ UNCHANGED <<moment, network, gate, starts>>

AttemptTimesOut(d) ==
    /\ dial[d].at = "connecting" /\ moment >= dial[d].until
    /\ dial' = [dial EXCEPT ![d] = Settled(d, [ok |-> FALSE, whose |-> "origin", failed |-> "timeout"])]
    /\ UNCHANGED <<moment, network, gate, starts>>

Redial(d) ==
    /\ dial[d].at = "cooling" /\ moment >= dial[d].until
    /\ dial' = [dial EXCEPT ![d].at = "queued", ![d].attempt = 1]
    /\ gate' = [gate EXCEPT !.queue = Append(@, d)]
    /\ UNCHANGED <<moment, network, starts>>

UnderWay == {"queued", "sleeping", "connecting", "cooling"}

\* The call is dropped where it waits, and with it its place at the gate.
Dropped(d, how) ==
    /\ dial' = [dial EXCEPT ![d].at = how]
    /\ gate' = [gate EXCEPT !.holder = @ \ {d}, !.queue = SelectSeq(@, LAMBDA e : e # d)]
    /\ UNCHANGED <<moment, network, starts>>

\* NetworkLease::run
DialInterrupted(d) == dial[d].at \in UnderWay /\ dial[d].lease # network /\ Dropped(d, "interrupted")

LeaveDial(d) == dial[d].at \in UnderWay \cup {"asked"} /\ Dropped(d, "left")

NetworkMoves ==
    /\ network < MaxChanges /\ network' = network + 1
    /\ UNCHANGED <<moment, gate, dial, starts>>

\* Time does not pass over a call that is due, nor over one that was interrupted.
DialTick ==
    /\ moment < MaxMoment
    /\ \A d \in Dialler :
          /\ dial[d].at \in {"sleeping", "connecting", "cooling"} => moment < dial[d].until
          /\ dial[d].at \in UnderWay => dial[d].lease = network
    /\ moment' = moment + 1
    /\ UNCHANGED <<network, gate, dial, starts>>

DialNext ==
    \/ NetworkMoves \/ DialTick
    \/ \E d \in Dialler :
          \/ AskForSocket(d) \/ Dial(d) \/ EnterGate(d) \/ StartDial(d) \/ Attempt(d)
          \/ AttemptTimesOut(d) \/ Redial(d) \/ DialInterrupted(d) \/ LeaveDial(d)

DialSpec == DialInit /\ [][DialNext]_dialVars

-----------------------------------------------------------------------------
(* Properties *)

StartsOf(d) == {i \in DOMAIN starts : starts[i].by = d}

\* However calls come, leave and are interrupted, their starts are Spacing apart;
\* none is made more than twice, and twice only when the upstream itself refused,
\* which it is left alone for a while after; the gate is kept by a call that is
\* still alive; and a socket that counts as one of the present network was dialled
\* on it from the first start to the end.
DialSafety ==
    /\ \A i \in 2 .. Len(starts) : starts[i].moment >= starts[i - 1].moment + Spacing
    /\ \A d \in Dialler :
          /\ Cardinality(StartsOf(d)) <= 2
          /\ \A i, j \in StartsOf(d) : i < j => starts[j].moment >= starts[i].moment + Cooldown
          /\ dial[d].attempt = 1 /\ dial[d].at = "queued" => dial[d].failed = "origin"
    /\ \A d \in gate.holder : dial[d].at = "sleeping"
    /\ \A d \in Dialler : dial[d].at = "connected" /\ dial[d].socket = network =>
          \A i \in StartsOf(d) : starts[i].network = network
=============================================================================
