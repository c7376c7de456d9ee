------------------------------ MODULE HttpServer ------------------------------
(***************************************************************************)
(* The backend's HTTP server: requests on its endpoints from their first    *)
(* byte to the end of their body, with the session table that routes model  *)
(* aliases and the monitor that accounts for every request.  Each await and *)
(* each locked section ends a step, and a client may leave at any await.    *)
(*                                                                          *)
(* Endpoints differ in how they fail: /v1/messages and its token counts     *)
(* record a failure themselves and then drop their guard, the OpenAI ones   *)
(* send it as a body under the guard, and images and transcriptions keep no *)
(* session.                                                                 *)
(***************************************************************************)
EXTENDS RequestMonitor

CONSTANTS
    Call, Client,     \* requests, each made once; session identifiers
    DefaultProvider,  \* alias_provider
    MaxSessions,      \* MAX_SESSIONS
    SessionTTL,       \* SESSION_IDLE_TTL_MS
    Workload,         \* bound: <<endpoint, session or Absent, name, review>> of the requests
    MaxTokens,        \* bound: what a request reports
    MaxClock,         \* bound: the clock
    MaxPrunes         \* bound: prunings of the monitor

Provider  == {"codex", "other"}
Endpoints == {"messages", "count", "openai", "native"}
\* What a request names: an alias, a model of one provider, or nothing known.
Names     == {"alias", "codex", "other", "unknown"}

ASSUME HttpServerAssumption ==
    /\ {MaxTokens, MaxClock, MaxPrunes, SessionTTL} \subseteq Nat /\ MaxSessions \in Nat \ {0}
    /\ DefaultProvider \in Provider
    /\ Absent \notin Client
    /\ \A w \in Workload :
           /\ w[1] \in Endpoints /\ w[2] \in Client \union {Absent}
           /\ w[3] \in Names /\ w[4] \in BOOLEAN
           /\ w[4] => w[1] = "messages"  \* only messages are reviewed

VARIABLES
    store,       \* the monitor
    sessions,    \* SESSIONS: the map and the order of insertion
    http,        \* [Call -> the request]
    clock,
    counted      \* history: evicted tokens per session, sessions with pruned history, prunings

serverVars == <<store, sessions, http, clock, counted>>

Requested ==
    [at: {"body", "found", "routed", "upstream", "failing", "streaming", "over"},
     endpoint: Endpoints, client: Client \union {Absent}, name: Names,
     review: BOOLEAN,                       \* a Claude auto review: affinity is left alone
     since: 0 .. MaxClock,                  \* `now`, which is taken early
     prior: Provider \union {Absent},         \* affinity of the session when it was looked up
     found: BOOLEAN, prior_seen: 0 .. MaxClock,
     provider: Provider \union {Absent},
     armed: BOOLEAN]                        \* the guard has not reported yet

\* A request that has not come yet.
Unsent == [at |-> "new"]

ServerTypeOK ==
    /\ DOMAIN store.active \subseteq Call
    /\ Len(store.recent) <= RecentLimit
    /\ DOMAIN sessions.map \subseteq Client
    /\ \A c \in DOMAIN sessions.map :
           sessions.map[c] \in [affinity: Provider \union {Absent}, seen: 0 .. MaxClock]
    /\ sessions.order \in Seq(Client)
    /\ http \in [Call -> Requested \union {Unsent}]
    /\ clock \in 0 .. MaxClock

ServerInit ==
    /\ store = EmptyStore
    /\ sessions = [map |-> <<>>, order |-> <<>>]
    /\ http = [r \in Call |-> Unsent]
    /\ clock = 0
    /\ counted = [evicted |-> <<>>, forgotten |-> {}, prunes |-> 0]

-----------------------------------------------------------------------------
(* One event: it is applied, and pruning may be due. *)

\* The positions in the list of what the event pushes out of it.
Evicts(next) ==
    {i \in DOMAIN store.recent : \A j \in DOMAIN next.recent : next.recent[j].id # store.recent[i].id}

WithEvicted(next) ==
    [s \in DOMAIN counted.evicted \union {store.recent[i].session : i \in Evicts(next)} |->
        At(counted.evicted, s) + Tokens(store.recent, Evicts(next), s)]

Apply(next) ==
    \/ /\ store' = next
       /\ counted' = [counted EXCEPT !.evicted = WithEvicted(next)]
    \/ \E aged \in SUBSET DOMAIN next.usage, stale \in SUBSET DOMAIN next.samples :
          /\ counted.prunes < MaxPrunes /\ MayPrune(next, aged, stale)
          /\ store' = Pruned(next, aged, stale)
          /\ counted' = [evicted |-> Restrict(WithEvicted(next),
                                              DOMAIN WithEvicted(next) \cap DOMAIN store'.usage),
                         forgotten |-> (counted.forgotten \union stale) \cap DOMAIN store'.usage,
                         prunes |-> counted.prunes + 1]

Silent == UNCHANGED <<store, counted>>

-----------------------------------------------------------------------------
(* The session table, one locked section each. *)

Live(session, now) == now <= session.seen + SessionTTL

WithoutSession(table, c) ==
    [map |-> Restrict(table.map, DOMAIN table.map \ {c}),
     order |-> RemoveFirst(table.order, c)]   \* which holds it once

\* existing_session drops what has expired.
Looked(table, c, now) ==
    IF c \in DOMAIN table.map /\ ~Live(table.map[c], now) THEN WithoutSession(table, c) ELSE table

\* record_session_request: the stored state, or else what was found earlier, goes on.
Recorded(table, q) ==
    LET c == q.client
        kept == Looked(table, c, q.since)
        before == IF c \in DOMAIN kept.map THEN kept.map[c].affinity
                  ELSE IF q.found /\ q.since <= q.prior_seen + SessionTTL THEN q.prior ELSE Absent
        affine == IF ~q.review /\ q.name # "alias" /\ q.provider = "codex" THEN "codex" ELSE before
        order == IF c \in DOMAIN kept.map THEN kept.order ELSE Append(kept.order, c)
        more  == IF Len(order) > MaxSessions THEN Len(order) - MaxSessions ELSE 0
        gone  == {order[i] : i \in 1 .. more}
        map   == Set(kept.map, c, [affinity |-> affine, seen |-> q.since])
    IN  [map |-> Restrict(map, DOMAIN map \ gone), order |-> SubSeq(order, more + 1, Len(order))]

\* provider_for_model; a reviewed request names the model that replaces its own.
Routed(q) ==
    CASE q.name = "alias"   -> IF q.prior # Absent /\ ~q.review THEN q.prior ELSE DefaultProvider
      [] q.name = "unknown" -> Absent
      [] OTHER              -> q.name

-----------------------------------------------------------------------------
(* Requests. *)

Anthropic(r) == http[r].endpoint \in {"messages", "count"}
Now(r, at) == http' = [http EXCEPT ![r].at = at]

\* The monitor learns of the request, and the guard is made.
Receive(r) ==
    /\ http[r] = Unsent
    /\ \E w \in Workload :
          /\ http' = [http EXCEPT ![r] =
                [at |-> "body", endpoint |-> w[1], client |-> w[2], name |-> w[3], review |-> w[4],
                 since |-> clock, prior |-> Absent, found |-> FALSE, prior_seen |-> 0,
                 provider |-> Absent, armed |-> TRUE]]
          /\ Apply(Started(store, r, w[2]))
    /\ UNCHANGED <<sessions, clock>>

\* The body cannot be read or parsed, or names no model or an unknown one; the
\* OpenAI endpoints check the rest of it only then.
Refuse(r) ==
    /\ \/ http[r].at = "body"
       \/ http[r].at = "found" /\ (Routed(http[r]) = Absent \/ http[r].endpoint = "openai")
    /\ Now(r, IF Anthropic(r) THEN "failing" ELSE "streaming")
    /\ Silent /\ UNCHANGED <<sessions, clock>>

\* existing_session, with a time that the messages endpoint took before the body.
LookUp(r) ==
    LET q == http[r]
        since == IF Anthropic(r) THEN q.since ELSE clock
        table == IF q.client = Absent THEN sessions ELSE Looked(sessions, q.client, since)
        there == q.client # Absent /\ q.client \in DOMAIN table.map
    IN  /\ q.at = "body" /\ q.endpoint # "native"
        /\ sessions' = table
        /\ http' = [http EXCEPT ![r].at = "found", ![r].since = since, ![r].found = there,
                        ![r].prior = IF there THEN table.map[q.client].affinity ELSE Absent,
                        ![r].prior_seen = IF there THEN table.map[q.client].seen ELSE 0]
        /\ Silent /\ UNCHANGED clock

\* The request is routed.  A session that goes elsewhere loses its compaction:
\* Clear of module ServerCompaction.
Route(r) ==
    /\ http[r].at = "found" /\ Routed(http[r]) # Absent
    /\ http' = [http EXCEPT ![r].at = "routed", ![r].provider = Routed(http[r])]
    /\ Silent /\ UNCHANGED <<sessions, clock>>

\* The session is recorded and the provider called.
Forward(r) ==
    /\ \/ http[r].at = "routed"
       \/ http[r].at = "body" /\ http[r].endpoint = "native"
    /\ sessions' = IF http[r].endpoint = "native" \/ http[r].client = Absent THEN sessions
                   ELSE Recorded(sessions, http[r])
    /\ Now(r, "upstream")
    /\ Silent /\ UNCHANGED clock

\* The provider, or a task of its that outlives the request, reports tokens.
Report(r) ==
    /\ http[r].at \in {"upstream", "failing", "streaming", "over"}
    /\ \E tokens \in 1 .. MaxTokens :
          /\ Reported(store, r, tokens) # store
          /\ Apply(Reported(store, r, tokens))
    /\ UNCHANGED <<sessions, http, clock>>

\* The provider answers.
Respond(r) ==
    /\ http[r].at = "upstream"
    /\ \/ Now(r, "streaming")
       \/ Anthropic(r) /\ Now(r, "failing")
    /\ Silent /\ UNCHANGED <<sessions, clock>>

\* record_failed_response has read the body: monitor_failed, and the guard goes.
Fail(r) ==
    /\ http[r].at = "failing"
    /\ Apply(Abandoned(Finished(store, r), r))
    /\ http' = [http EXCEPT ![r].at = "over", ![r].armed = FALSE]
    /\ UNCHANGED <<sessions, clock>>

\* A frame cannot be read: the guard reports it, and the body is read on.
FrameFails(r) ==
    /\ http[r].at = "streaming" /\ http[r].armed
    /\ Apply(Finished(store, r))
    /\ http' = [http EXCEPT ![r].armed = FALSE]
    /\ UNCHANGED <<sessions, clock>>

\* The body ends, well or not, or the client leaves before: what the guard has
\* not reported yet is reported.
End(r) ==
    /\ \/ /\ http[r].at = "streaming"
          /\ IF http[r].armed THEN Apply(Finished(store, r)) ELSE Silent
       \/ /\ http[r].at \in {"body", "failing", "upstream", "streaming"}
          /\ IF http[r].armed THEN Apply(Abandoned(store, r)) ELSE Silent
    /\ http' = [http EXCEPT ![r].at = "over", ![r].armed = FALSE]
    /\ UNCHANGED <<sessions, clock>>

ClockTicks ==
    /\ clock < MaxClock /\ clock' = clock + 1
    /\ Silent /\ UNCHANGED <<sessions, http>>

Serve(r) == \/ Receive(r) \/ Refuse(r) \/ LookUp(r) \/ Route(r) \/ Forward(r)
            \/ Respond(r) \/ Fail(r) \/ FrameFails(r) \/ End(r)

ServerNext == (\E r \in Call : Serve(r) \/ Report(r)) \/ ClockTicks

ServerSpec == ServerInit /\ [][ServerNext]_serverVars

-----------------------------------------------------------------------------
(* A request is accounted for exactly once: it is under way in the monitor
   until its guard or its failure has reported it, and listed as finished at
   most once after that, with the session it was received for, whichever of
   the guard, the failure and the client that leaves comes first. *)
AccountedOnce ==
    \A r \in Call :
        /\ r \in DOMAIN store.active <=> http[r] # Unsent /\ http[r].armed
        /\ Cardinality(Positions(store, r)) <= 1
        /\ \A i \in Positions(store, r) : store.recent[i].session = http[r].client

(* A session's total is the sum of what its requests have reported, and its
   history the sum over the finished ones, whether the reports came before or
   after the end of a request, repeated or in a smaller number; until pruning
   takes the session's history, or the request has left the list. *)
UsageAddsUp ==
    /\ \A s \in DOMAIN store.usage :
          store.usage[s] = At(counted.evicted, s) + Total(store.recent, s) + UnderWay(store, s)
    /\ \A s \in DOMAIN store.usage \ counted.forgotten :
          At(store.samples, s) = At(counted.evicted, s) + Total(store.recent, s)

(* The session table and its order of insertion hold the same sessions, each
   once, and no more than the limit, although sessions expire by one request's
   clock and are brought back by another that looked them up before. *)
SessionsAccounted ==
    /\ {sessions.order[i] : i \in DOMAIN sessions.order} = DOMAIN sessions.map
    /\ Len(sessions.order) = Cardinality(DOMAIN sessions.map)
    /\ Len(sessions.order) <= MaxSessions

(* Requests are accounted for once, a session's tokens add up, and the session
   table is in order. *)
ServerSafety == ServerTypeOK /\ AccountedOnce /\ UsageAddsUp /\ SessionsAccounted
================================================================================
