------------------------------ MODULE CodexTurns ------------------------------
(***************************************************************************)
(* Streaming turns of the Codex backend over WebSocket: request handlers    *)
(* with their provider-level retries, the coordinator task of each attempt, *)
(* the socket task below it, the socket pool and the continuation registry  *)
(* all of them share.  Every await, every locked section of the registry or *)
(* the pool, and every hand-over between two tasks ends a step.             *)
(*                                                                          *)
(* A request has at most one coordinator and one socket task at a time: the *)
(* handler asks for another attempt only on a terminal item, which is the   *)
(* last thing either task sends.  For the same reason the hand-off mark of  *)
(* a provider retry never changes what a coordinator does, and is left out. *)
(***************************************************************************)
EXTENDS Continuation, Sequences

CONSTANTS
    MaxRetries,       \* MAX_RETRYABLE_LIVE_STREAM_RETRIES
    MaxPool,          \* MAX_POOL_ENTRIES
    CleanupThreshold, \* POOL_CONNECT_CLEANUP_THRESHOLD
    CleanupTarget,    \* POOL_CONNECT_CLEANUP_TARGET
    Kinds,            \* bound: which failures the environment produces
    MaxFaults         \* bound: failures, network changes and clients that leave

\* What an error item tells: a 401; a lost previous response or socket; no
\* answer, no end or no keepalive; other retryable trouble; anything else.
Failures == {"unauthorized", "missing", "nostart", "busy", "fatal"}

ASSUME CodexTurnsAssumption ==
    /\ IsFiniteSet(Socket) /\ Socket = 1 .. Cardinality(Socket)
    /\ {MaxRetries, CleanupTarget, CleanupThreshold, MaxFaults} \subseteq Nat
    /\ MaxPool \in Nat \ {0}
    /\ CleanupTarget <= CleanupThreshold
    /\ Kinds \subseteq Failures

VARIABLES
    pool,     \* WS_POOL: [owners with a pooled entry -> its socket]
    sockets,  \* the sockets opened so far: who for, on which path, newest response
    epoch,    \* the network path generation
    hpc,      \* [Request -> where the handler stands]
    attempt,  \* [Request -> provider-level retries so far]
    here,     \* [Request -> the client is connected]
    cpc,      \* [Request -> where the coordinator stands]
    coord,    \* [Request -> the coordinator's copy of the reservation, and its flags]
    ipc,      \* [Request -> where the socket task stands]
    held,     \* [Request -> the socket an attempt holds, or None]
    stored,   \* [Request -> the socket the ended attempt put in the pool, or None]
    final,    \* [Request -> the success a finished socket task is to deliver]
    items,    \* [Request -> the channel from the socket task to the coordinator]
    outs,     \* [Request -> the channel from the coordinator to the handler]
    faults    \* faults so far

handlerVars == <<hpc, attempt, here>>
coordVars   == <<cpc, coord>>
socketVars  == <<ipc, held, stored, final>>
netVars     == <<pool, sockets, epoch>>
vars == <<regVars, netVars, handlerVars, coordVars, socketVars, items, outs, faults>>

Successes == {"completed", "empty"}
Items     == {"output"} \union Successes \union Failures

\* is_continuation_retry_error, and what the handler retries before any output.
ContinuationRetry == {"missing", "nostart"}
Retryable         == {"empty", "nostart", "busy"}

NoCoordinator == [previous |-> None, origin |-> None, epoch |-> 0,
                  authTried |-> FALSE, forwarded |-> FALSE, full |-> FALSE]

TurnsTypeOK ==
    /\ TypeOK
    /\ DOMAIN pool \subseteq Owner /\ \A o \in DOMAIN pool : pool[o] \in 1 .. Len(sockets)
    /\ Len(sockets) <= Cardinality(Socket)
    /\ \A s \in 1 .. Len(sockets) :
           sockets[s] \in [owner: Owner, epoch: 0 .. epoch, last: Turn \union {None}]
    /\ epoch \in 0 .. MaxFaults /\ faults \in 0 .. MaxFaults
    /\ hpc \in [Request -> {"idle", "numbered", "ready", "waiting", "streaming", "over"}]
    /\ attempt \in [Request -> 0 .. MaxRetries]
    /\ here \in [Request -> BOOLEAN]
    /\ cpc \in [Request -> {"off", "take", "validate", "gate", "connect",
                            "refresh", "listen", "aborting"}]
    /\ coord \in [Request -> [previous: Turn \union {None}, origin: Socket \union {None},
                              epoch: 0 .. epoch, authTried: BOOLEAN, forwarded: BOOLEAN,
                              full: BOOLEAN]]
    /\ ipc \in [Request -> {"off", "send", "read", "more", "settle", "deliver"}]
    /\ held \in [Request -> Socket \union {None}]
    /\ stored \in [Request -> Socket \union {None}]
    /\ final \in [Request -> Successes \union {None}]
    /\ \A r \in Request : /\ items[r] \in Seq(Items) /\ Len(items[r]) <= 2
                          /\ outs[r] \in Seq(Items) /\ Len(outs[r]) <= 2

TurnsInit ==
    /\ Init
    /\ pool = <<>> /\ sockets = <<>> /\ epoch = 0 /\ faults = 0
    /\ hpc = [r \in Request |-> "idle"]
    /\ attempt = [r \in Request |-> 0]
    /\ here = [r \in Request |-> TRUE]
    /\ cpc = [r \in Request |-> "off"]
    /\ coord = [r \in Request |-> NoCoordinator]
    /\ ipc = [r \in Request |-> "off"]
    /\ held = [r \in Request |-> None]
    /\ stored = [r \in Request |-> None]
    /\ final = [r \in Request |-> None]
    /\ items = [r \in Request |-> <<>>]
    /\ outs = [r \in Request |-> <<>>]

Fault    == faults < MaxFaults /\ faults' = faults + 1
Current(r) == IsCurrent(registry, res[r].owner, res[r].turn)

\* A fault of the environment, or a free one where the path has changed.
Trouble(onPath) == IF onPath = epoch THEN Fault ELSE UNCHANGED faults

\* The handler's end of the coordinator's channel is gone.
Closed(r) == hpc[r] = "over"

-----------------------------------------------------------------------------
(* The socket pool, one locked section each. *)

PoolLess(o) == Restrict(pool, DOMAIN pool \ {o})

\* invalidate_codex_websocket_pool_turn_for_owner.
ResetPool(r) == IF Current(r) THEN PoolLess(res[r].owner) ELSE pool

\* invalidate_pool_entry: only that very entry leaves.
PoolLessEntry(o, s) == IF o \in DOMAIN pool /\ pool[o] = s THEN PoolLess(o) ELSE pool

\* pool_insert_if_vacant_or_same: expired entries leave, and one more at capacity.
PoolWith(o, s) ==
    IF sockets[s].epoch # epoch \/ o \in DOMAIN pool THEN {pool}
    ELSE {[p \in stay \union {o} |-> IF p = o THEN s ELSE pool[p]] : stay \in
             {x \in SUBSET DOMAIN pool :
                 Cardinality(DOMAIN pool) >= MaxPool => x # DOMAIN pool}}

\* pool_insert_for_turn: nothing is inserted for a turn that is not current.
PoolAfterTurn(r, s) == IF Current(r) THEN PoolWith(res[r].owner, s) ELSE {pool}

\* A mutant of Pooled: a superseded turn may take its owner's socket.
PooledForAnyTurn(r) ==
    IF res[r].owner \in DOMAIN pool /\ sockets[pool[res[r].owner]].epoch = epoch
    THEN pool[res[r].owner] ELSE None

\* pool_take_for_turn: the entry leaves the pool whether or not it is usable.
Pooled(r) ==
    IF Current(r) /\ res[r].owner \in DOMAIN pool
       /\ sockets[pool[res[r].owner]].epoch = epoch
    THEN pool[res[r].owner] ELSE None

\* cleanup_pool_before_connect: entries of an old path leave, and above the
\* threshold as many idle ones as it takes to reach the target.
CleanedPool ==
    LET fresh == {o \in DOMAIN pool : sockets[pool[o]].epoch = epoch}
    IN  IF Cardinality(fresh) <= CleanupThreshold THEN {Restrict(pool, fresh)}
        ELSE {Restrict(pool, x) : x \in {y \in SUBSET fresh : Cardinality(y) = CleanupTarget}}

-----------------------------------------------------------------------------
(* The handler: handle_messages_inner and live_stream_response_inner. *)

Begin(r, owner) ==
    /\ hpc[r] = "idle"
    /\ TakeTurn(r, owner)
    /\ hpc' = [hpc EXCEPT ![r] = "numbered"]
    /\ UNCHANGED <<netVars, attempt, here, coordVars, socketVars, items, outs, faults>>

Enter(r, fit) ==
    /\ hpc[r] = "numbered"
    /\ Candidate(r, fit)
    /\ hpc' = [hpc EXCEPT ![r] = "ready"]
    /\ UNCHANGED <<netVars, attempt, here, coordVars, socketVars, items, outs, faults>>

\* stream_codex_websocket_events_for_owner: a request without a continuation
\* first drops the socket its owner has pooled; then the coordinator starts.
StartAttempt(r) ==
    /\ hpc[r] = "ready"
    /\ pool' = IF res[r].previous = None THEN ResetPool(r) ELSE pool
    /\ hpc' = [hpc EXCEPT ![r] = "waiting"]
    /\ cpc' = [cpc EXCEPT ![r] = "take"]
    /\ coord' = [coord EXCEPT ![r] = [NoCoordinator EXCEPT !.previous = res[r].previous,
                                                           !.origin = res[r].origin]]
    /\ stored' = [stored EXCEPT ![r] = None]
    /\ UNCHANGED <<regVars, sockets, epoch, attempt, here, ipc, held, final, items, outs, faults>>

\* A mutant of EndAborted: the turn is left in the registry.
EndWithoutAbort(r) ==
    /\ hpc' = [hpc EXCEPT ![r] = "over"]
    /\ outs' = [outs EXCEPT ![r] = <<>>]
    /\ UNCHANGED regVars

\* The handler ends without a usable answer, and abort_request_state with it.
EndAborted(r) ==
    /\ Abort(r)
    /\ hpc' = [hpc EXCEPT ![r] = "over"]
    /\ outs' = [outs EXCEPT ![r] = <<>>]

\* Reading the credentials fails before any task exists.
NoCredentials(r) ==
    /\ hpc[r] = "ready"
    /\ Fault
    /\ EndAborted(r)
    /\ UNCHANGED <<netVars, attempt, here, coordVars, socketVars, items>>

\* The client goes away.  Before any output the handler's future is dropped, and
\* LiveRequestStateCleanup with it; afterwards the streaming task has yet to notice.
Leave(r) ==
    /\ here[r] /\ hpc[r] \in {"ready", "waiting", "streaming"}
    /\ Fault
    /\ here' = [here EXCEPT ![r] = FALSE]
    /\ IF hpc[r] = "streaming" THEN UNCHANGED <<regVars, hpc, outs>> ELSE EndAborted(r)
    /\ UNCHANGED <<netVars, attempt, coordVars, socketVars, items>>

NoticeLeave(r) ==
    /\ hpc[r] = "streaming" /\ ~here[r]
    /\ EndAborted(r)
    /\ UNCHANGED <<netVars, attempt, here, coordVars, socketVars, items, faults>>

\* The first output commits the handler to this attempt.
FirstOutput(r) ==
    /\ hpc[r] = "waiting" /\ outs[r] # <<>> /\ Head(outs[r]) = "output"
    /\ hpc' = [hpc EXCEPT ![r] = "streaming"]
    /\ outs' = [outs EXCEPT ![r] = Tail(@)]
    /\ UNCHANGED <<regVars, netVars, attempt, here, coordVars, socketVars, items, faults>>

\* update_continuation_from_upstream: the answer is recorded with the socket
\* that was published for it, or the turn is aborted if it cannot be continued.
Complete(r) ==
    /\ hpc[r] \in {"waiting", "streaming"} /\ here[r]
    /\ outs[r] # <<>> /\ Head(outs[r]) = "completed"
    /\ \/ \E size \in 1 .. MaxSize : Record(r, stored[r], size)
       \/ Abort(r)
    /\ hpc' = [hpc EXCEPT ![r] = "over"]
    /\ outs' = [outs EXCEPT ![r] = <<>>]
    /\ UNCHANGED <<netVars, attempt, here, coordVars, socketVars, items, faults>>

\* Mutant of MayRetry: a visible answer is retried.
MayRetryAfterOutput(r, item) ==
    /\ hpc[r] \in {"waiting", "streaming"} /\ item \in Retryable
    /\ ~(coord[r].full /\ item \in ContinuationRetry)
    /\ attempt[r] < MaxRetries

MayRetry(r, item) ==
    /\ hpc[r] = "waiting" /\ item \in Retryable
    /\ ~(coord[r].full /\ item \in ContinuationRetry)
    /\ attempt[r] < MaxRetries

\* provider_retry, drop_live_continuation_for_retry and the backoff sleep.
Retry(r) ==
    /\ outs[r] # <<>> /\ MayRetry(r, Head(outs[r]))
    /\ attempt' = [attempt EXCEPT ![r] = @ + 1]
    /\ hpc' = [hpc EXCEPT ![r] = "ready"]
    /\ outs' = [outs EXCEPT ![r] = <<>>]
    /\ IF res[r].previous # None THEN FullContext(r) ELSE UNCHANGED regVars
    /\ UNCHANGED <<netVars, here, coordVars, socketVars, items, faults>>

\* A failure that is not retried, or a Retry-After that is over the budget.
GiveUp(r) ==
    /\ hpc[r] \in {"waiting", "streaming"} /\ here[r]
    /\ outs[r] # <<>> /\ Head(outs[r]) \in Failures \union {"empty"}
    /\ ~MayRetry(r, Head(outs[r])) \/ Head(outs[r]) = "busy"
    /\ EndAborted(r)
    /\ UNCHANGED <<netVars, attempt, here, coordVars, socketVars, items, faults>>

-----------------------------------------------------------------------------
(* The coordinator: coordinate_live_websocket_events and, within it, the    *)
(* preparation of a socket.                                                 *)

Goto(r, pc)   == cpc' = [cpc EXCEPT ![r] = pc]
Hold(r, s)    == held' = [held EXCEPT ![r] = s]
SendOut(r, x) == outs' = [outs EXCEPT ![r] = Append(@, x)]

\* full_context_continuation and the next round of the loop, which publishes None.
FullContextAttempt(r) ==
    /\ coord' = [coord EXCEPT ![r].previous = None, ![r].origin = None,
                              ![r].full = @ \/ coord[r].previous # None]
    /\ Goto(r, "take")
    /\ stored' = [stored EXCEPT ![r] = None]

\* A mutant of TakeSocket: the continuation goes over whatever socket there is.
TakeAnySocket(r) ==
    LET s == Pooled(r)
    IN  /\ cpc[r] = "take" /\ ~Closed(r)
        /\ pool' = ResetPool(r)
        /\ coord' = [coord EXCEPT ![r].epoch = epoch]
        /\ Goto(r, IF s = None THEN "gate" ELSE "validate")
        /\ Hold(r, s)
        /\ UNCHANGED <<regVars, sockets, epoch, handlerVars, ipc, stored, final,
                       items, outs, faults>>

\* take_pool_entry_for_request.  A continuation is only sent over its origin:
\* without it the attempt starts over with full context, and a socket that is
\* not the origin goes back where it was.
TakeSocket(r) ==
    LET s     == Pooled(r)
        needs == coord[r].previous # None
        fits  == needs => s = coord[r].origin
        taken == [coord EXCEPT ![r].epoch = epoch]
    IN  /\ cpc[r] = "take" /\ ~Closed(r)
        /\ \/ /\ s # None /\ fits
              /\ pool' = ResetPool(r) /\ coord' = taken
              /\ Goto(r, "validate") /\ Hold(r, s)
              /\ UNCHANGED stored
           \/ /\ s = None /\ fits
              /\ pool' = ResetPool(r) /\ coord' = taken
              /\ Goto(r, "gate")
              /\ UNCHANGED <<held, stored>>
           \/ /\ ~fits
              /\ pool' = IF s = None THEN ResetPool(r) ELSE pool
              /\ FullContextAttempt(r)
              /\ UNCHANGED held
        /\ UNCHANGED <<regVars, sockets, epoch, handlerVars, ipc, final, items, outs, faults>>

\* A prepared socket starts its own task, which sends the request.
StartSocketTask(r) ==
    /\ Goto(r, "listen")
    /\ ipc' = [ipc EXCEPT ![r] = "send"]

Validated(r) ==
    /\ cpc[r] = "validate" /\ ~Closed(r)
    /\ StartSocketTask(r)
    /\ UNCHANGED <<regVars, netVars, handlerVars, coord, held, stored, final, items, outs, faults>>

\* The pooled socket does not answer the ping: it is dropped.
NotValidated(r) ==
    /\ cpc[r] = "validate" /\ ~Closed(r)
    /\ Trouble(sockets[held[r]].epoch)
    /\ pool' = PoolLessEntry(res[r].owner, held[r])
    /\ Hold(r, None)
    /\ IF coord[r].previous # None THEN FullContextAttempt(r) /\ UNCHANGED outs
       ELSE Goto(r, "off") /\ SendOut(r, "busy") /\ UNCHANGED <<coord, stored>>
    /\ UNCHANGED <<regVars, sockets, epoch, handlerVars, ipc, final, items>>

PassGate(r) ==
    /\ cpc[r] = "gate" /\ ~Closed(r)
    /\ pool' \in CleanedPool
    /\ Goto(r, "connect")
    /\ UNCHANGED <<regVars, sockets, epoch, handlerVars, coord, socketVars, items, outs, faults>>

Connected(r) ==
    /\ cpc[r] = "connect" /\ ~Closed(r)
    /\ Len(sockets) < Cardinality(Socket)
    /\ sockets' = Append(sockets, [owner |-> res[r].owner, epoch |-> coord[r].epoch,
                                   last |-> None])
    /\ Hold(r, Len(sockets) + 1)
    /\ StartSocketTask(r)
    /\ UNCHANGED <<regVars, pool, epoch, handlerVars, coord, stored, final, items, outs, faults>>

\* A 401 before any output is answered by one refresh and a full-context attempt.
MayRefresh(r, x) == x = "unauthorized" /\ ~coord[r].authTried /\ ~coord[r].forwarded

StartRefresh(r) ==
    /\ pool' = ResetPool(r)
    /\ coord' = [coord EXCEPT ![r].authTried = TRUE]
    /\ Goto(r, "refresh")

ConnectFails(r, kind) ==
    /\ cpc[r] = "connect" /\ ~Closed(r)
    /\ IF kind = "busy" THEN Trouble(coord[r].epoch) ELSE Fault
    /\ \/ MayRefresh(r, kind) /\ StartRefresh(r) /\ UNCHANGED outs
       \/ ~MayRefresh(r, kind) /\ SendOut(r, kind) /\ Goto(r, "off") /\ UNCHANGED <<pool, coord>>
    /\ UNCHANGED <<regVars, sockets, epoch, handlerVars, socketVars, items>>

Refreshed(r) ==
    /\ cpc[r] = "refresh" /\ ~Closed(r)
    /\ FullContextAttempt(r)
    /\ UNCHANGED <<regVars, netVars, handlerVars, ipc, held, final, items, outs, faults>>

NotRefreshed(r) ==
    /\ cpc[r] = "refresh" /\ ~Closed(r)
    /\ SendOut(r, "unauthorized") /\ Goto(r, "off")
    /\ UNCHANGED <<regVars, netVars, handlerVars, coord, socketVars, items, faults>>

\* An item of the socket task: refresh, retry with full context, or pass it on.
HandleItem(r) ==
    LET x == Head(items[r])
    IN  /\ cpc[r] = "listen" /\ ~Closed(r) /\ items[r] # <<>>
        /\ items' = [items EXCEPT ![r] = Tail(@)]
        /\ \/ MayRefresh(r, x) /\ StartRefresh(r) /\ UNCHANGED <<outs, stored>>
           \/ /\ x \in ContinuationRetry /\ coord[r].previous # None /\ ~coord[r].forwarded
              /\ FullContextAttempt(r) /\ UNCHANGED <<outs, pool>>
           \/ /\ ~MayRefresh(r, x)
              /\ ~(x \in ContinuationRetry /\ coord[r].previous # None /\ ~coord[r].forwarded)
              /\ SendOut(r, x)
              /\ coord' = [coord EXCEPT ![r].forwarded = @ \/ x = "output"]
              /\ Goto(r, IF x = "output" THEN "listen" ELSE "off")
              /\ UNCHANGED <<pool, stored>>
        /\ UNCHANGED <<regVars, sockets, epoch, handlerVars, ipc, held, final, faults>>

\* A mutant of CoordinatorClosed: a coordinator that listens does not notice.
ClosedUnnoticed(r) ==
    /\ Closed(r)
    /\ cpc[r] \in {"take", "validate", "gate", "connect", "refresh", "aborting"}
    /\ registry' = Aborted(registry, res[r].owner, res[r].turn)
    /\ Goto(r, "off")
    /\ held' = IF cpc[r] = "validate" THEN [held EXCEPT ![r] = None] ELSE held
    /\ UNCHANGED <<nextTurn, now, res, pool, sockets, epoch, handlerVars, coord,
                   ipc, stored, final, items, outs, faults>>

\* The handler is gone.  While it listens the coordinator first removes the
\* socket its task has published; everywhere else its own future is dropped.
CoordinatorClosed(r) ==
    /\ Closed(r)
    /\ \/ /\ cpc[r] = "listen"
          /\ pool' = IF ipc[r] = "off" /\ stored[r] # None
                     THEN PoolLessEntry(res[r].owner, stored[r]) ELSE pool
          /\ Goto(r, "aborting")
          /\ items' = [items EXCEPT ![r] = <<>>]
          /\ UNCHANGED <<registry, held>>
       \/ /\ cpc[r] \in {"take", "validate", "gate", "connect", "refresh", "aborting"}
          /\ registry' = Aborted(registry, res[r].owner, res[r].turn)
          /\ Goto(r, "off")
          /\ held' = IF cpc[r] = "validate" THEN [held EXCEPT ![r] = None] ELSE held
          /\ UNCHANGED <<pool, items>>
    /\ UNCHANGED <<nextTurn, now, res, sockets, epoch, handlerVars, coord,
                   ipc, stored, final, outs, faults>>

-----------------------------------------------------------------------------
(* The socket task: start_codex_websocket_events and stream_ws_events. *)

Listening(r) == cpc[r] = "listen"

\* The task ends in a failure: the entry leaves the pool, None is published.
SocketFails(r, kind) ==
    /\ pool' = PoolLessEntry(res[r].owner, held[r])
    /\ Hold(r, None)
    /\ ipc' = [ipc EXCEPT ![r] = "off"]
    /\ items' = IF Listening(r) THEN [items EXCEPT ![r] = Append(@, kind)] ELSE items

SendRequest(r) ==
    /\ ipc[r] = "send"
    /\ ipc' = [ipc EXCEPT ![r] = "read"]
    /\ UNCHANGED <<regVars, netVars, handlerVars, coordVars, held, stored, final, items, outs, faults>>

SendFails(r) ==
    /\ ipc[r] = "send"
    /\ Trouble(sockets[held[r]].epoch)
    /\ SocketFails(r, "busy")
    /\ UNCHANGED <<regVars, sockets, epoch, handlerVars, coordVars, stored, final, outs>>

ReadOutput(r) ==
    /\ ipc[r] = "read" /\ Listening(r)
    /\ ipc' = [ipc EXCEPT ![r] = "more"]
    /\ items' = [items EXCEPT ![r] = Append(@, "output")]
    /\ UNCHANGED <<regVars, netVars, handlerVars, coordVars, held, stored, final, outs, faults>>

\* response.completed, with or without output: upstream now remembers this
\* response on this socket.
ReadCompleted(r, success) ==
    /\ ipc[r] \in {"read", "more"} /\ Listening(r)
    /\ success = "empty" => ipc[r] = "read" /\ Fault
    /\ success = "completed" => UNCHANGED faults
    /\ sockets' = [sockets EXCEPT ![held[r]].last = res[r].turn]
    /\ final' = [final EXCEPT ![r] = success]
    /\ ipc' = [ipc EXCEPT ![r] = "settle"]
    /\ UNCHANGED <<regVars, pool, epoch, handlerVars, coordVars, held, stored, items, outs>>

\* An error event, a timeout, a failed keepalive, the end of the connection.
ReadFails(r, kind) ==
    /\ ipc[r] \in {"read", "more"} /\ Listening(r)
    /\ IF kind = "nostart" THEN Trouble(sockets[held[r]].epoch) ELSE Fault
    /\ SocketFails(r, kind)
    /\ UNCHANGED <<regVars, sockets, epoch, handlerVars, coordVars, stored, final, outs>>

\* The coordinator is gone while the answer is under way.
ReaderClosed(r) ==
    /\ ipc[r] \in {"read", "more"} /\ ~Listening(r)
    /\ SocketFails(r, "fatal")
    /\ UNCHANGED <<regVars, sockets, epoch, handlerVars, coordVars, stored, final, outs, faults>>

\* The socket goes back to the pool before the terminal item is delivered.
Settle(r) ==
    /\ ipc[r] = "settle"
    /\ pool' \in PoolAfterTurn(r, held[r])
    /\ stored' = [stored EXCEPT ![r] =
                     IF res[r].owner \in DOMAIN pool' /\ pool'[res[r].owner] = held[r]
                     THEN held[r] ELSE None]
    /\ Hold(r, None)
    /\ ipc' = [ipc EXCEPT ![r] = "deliver"]
    /\ UNCHANGED <<regVars, sockets, epoch, handlerVars, coordVars, final, items, outs, faults>>

\* Publish the socket id and send the terminal item; with nobody left to take
\* it, the entry just put back is removed again.
Deliver(r) ==
    /\ ipc[r] = "deliver"
    /\ IF Listening(r)
       THEN items' = [items EXCEPT ![r] = Append(@, final[r])] /\ UNCHANGED pool
       ELSE /\ pool' = IF stored[r] = None THEN pool
                       ELSE PoolLessEntry(res[r].owner, stored[r])
            /\ UNCHANGED items
    /\ ipc' = [ipc EXCEPT ![r] = "off"]
    /\ final' = [final EXCEPT ![r] = None]
    /\ UNCHANGED <<regVars, sockets, epoch, handlerVars, coordVars, held, stored, outs, faults>>

NetworkChanges ==
    /\ Fault
    /\ epoch' = epoch + 1
    /\ UNCHANGED <<regVars, pool, sockets, handlerVars, coordVars, socketVars, items, outs>>

-----------------------------------------------------------------------------
Handler(r) ==
    \/ StartAttempt(r)
    \/ NoticeLeave(r)
    \/ FirstOutput(r)
    \/ Complete(r)
    \/ Retry(r)
    \/ GiveUp(r)

Coordinator(r) ==
    \/ TakeSocket(r)
    \/ Validated(r)
    \/ PassGate(r)
    \/ Connected(r)
    \/ Refreshed(r)
    \/ HandleItem(r)
    \/ CoordinatorClosed(r)

SocketTask(r) ==
    \/ SendRequest(r)
    \/ ReadOutput(r)
    \/ ReadCompleted(r, "completed")
    \/ ReaderClosed(r)
    \/ Settle(r)
    \/ Deliver(r)

Arrival(r) ==
    \/ \E owner \in Owner : Begin(r, owner)
    \/ \E fit \in Fits : Enter(r, fit)

Misfortune(r) ==
    \/ NoCredentials(r)
    \/ Leave(r)
    \/ NotValidated(r)
    \/ \E kind \in Kinds \ {"missing", "nostart"} : ConnectFails(r, kind)
    \/ NotRefreshed(r)
    \/ SendFails(r)
    \/ ReadCompleted(r, "empty")
    \/ \E kind \in Kinds : ReadFails(r, kind)

TurnsNext ==
    \/ \E r \in Request : Arrival(r) \/ Handler(r) \/ Coordinator(r) \/ SocketTask(r) \/ Misfortune(r)
    \/ NetworkChanges

Spec == TurnsInit /\ [][TurnsNext]_vars

\* The runtime polls every task that can run, and every wait of a socket task
\* has a timeout, so a reader that waits ends one way or another.
FairSpec ==
    /\ Spec
    /\ \A r \in Request : /\ WF_vars(Handler(r))
                          /\ WF_vars(Coordinator(r))
                          /\ WF_vars(SocketTask(r))

-----------------------------------------------------------------------------
(* Properties. *)

\* What the registry offers can be honoured: the recorded response is the newest
\* one its socket has produced, no attempt holds that socket, and the owner's
\* entry in the pool, while it has one, is that socket and no other.
RecordedIsHonourable ==
    \A o \in DOMAIN registry.owners :
        LET c == registry.owners[o].continuation
        IN  c # None => /\ sockets[c.socket].last = c.response
                        /\ \A r \in Request : held[r] # c.socket
                        /\ o \in DOMAIN pool => pool[o] = c.socket

\* A request that names a previous response goes over the socket that produced
\* it, and that response is still the socket's newest.
ContinuesOnOrigin ==
    \A r \in Request :
        ipc[r] = "send" /\ coord[r].previous # None =>
            sockets[held[r]].last = coord[r].previous

\* Two attempts never hold one socket, the pool never offers a socket that an
\* attempt holds, and no socket leaves the conversation it was opened for.
SocketsAreExclusive ==
    /\ \A r, q \in Request : r # q /\ held[r] # None => held[r] # held[q]
    /\ \A r \in Request : held[r] # None =>
           /\ \A o \in DOMAIN pool : pool[o] # held[r]
           /\ sockets[held[r]].owner = res[r].owner
    /\ \A o \in DOMAIN pool : sockets[pool[o]].owner = o

\* Overlapping turns, in whatever order they enter, end and take sockets: what the
\* registry offers can be honoured, a continuation goes over the socket it came
\* from, and no two attempts share a socket.
TurnsSafety == TurnsTypeOK /\ RecordedIsHonourable /\ ContinuesOnOrigin /\ SocketsAreExclusive

\* A request that is over leaves its turn current only with a continuation to
\* offer: however it ended, its owner is not left waiting for a dead turn.
NoDanglingTurn ==
    \A r \in Request :
        hpc[r] = "over" /\ Current(r) =>
            registry.owners[res[r].owner].continuation # None

\* Once the client has been shown output, nothing is sent upstream for the
\* request again: a retry never repeats a visible answer.
NoReplayAfterOutput ==
    [][\A r \in Request : hpc[r] \in {"streaming", "over"} =>
          /\ hpc'[r] \in {"streaming", "over"}
          /\ ~(ipc[r] = "off" /\ ipc'[r] = "send")]_vars

IsOver(r) == hpc[r] = "over" /\ cpc[r] = "off" /\ ipc[r] = "off"

\* Every request that has entered the registry ends, and so do its tasks: again
\* and again, and as a request is made once, for good, none is under way.
RequestsEnd == []<>(\A r \in Request : hpc[r] \in {"idle", "numbered"} \/ IsOver(r))
=============================================================================
