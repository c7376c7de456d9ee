---------------------------- MODULE SocketExchange -----------------------------
(***************************************************************************)
(* The frames of one conversation's sockets, request after request: a       *)
(* pooled socket is pinged before it is used, a request is sent, its answer  *)
(* is collected (codex_websocket_request) or streamed (stream_ws_events)     *)
(* up to its terminal event, and the socket is pooled again or dropped.      *)
(*                                                                         *)
(* The upstream takes what it is sent one at a time: it says all it has to   *)
(* say of a request, trailing events included, before it takes the next      *)
(* frame.  A turn has at most one request under way, and a later one begins  *)
(* when it has ended; who may take and pool a socket is in CodexTurns, the   *)
(* call that makes one in SocketDial and the tunnel it may go through in      *)
(* ConnectTunnel.  The three have no state in common; SocketSafety is what    *)
(* they promise together.                                                    *)
(***************************************************************************)
EXTENDS ConnectTunnel, SocketDial, Integers, Sequences, SequencesExt

CONSTANTS
    Budget,      \* the idle timeout, in ticks
    KeepAlive,   \* WEBSOCKET_KEEPALIVE_INTERVAL, in ticks
    MaxExchanges, \* bound: requests
    MaxSaid,     \* bound: frames of an answer before its end
    MaxTrouble   \* bound: frames that belong to no answer, and sockets that break

ASSUME SocketExchangeAssumption == {Budget, KeepAlive, MaxExchanges, MaxSaid, MaxTrouble} \subseteq Nat \ {0}

VARIABLES
    socket,   \* the socket that is pooled or in use
    call,     \* the request under way
    upstream, \* what the upstream is doing, what it said of that request, and for how
              \* long nothing of its answer has been heard
    trouble   \* how much has gone wrong

exchangeVars == <<socket, call, upstream, trouble>>

\* Frames.  "control" is a text that is no response event, or that does not parse.
Frame(kind, of) == [kind |-> kind, of |-> of]
Finals == {"completed", "done", "failed", "error", "unknown"}  \* "unknown": previous_response_not_found

Gone   == [state |-> "gone", down |-> <<>>, up |-> <<>>]
NoCall == [n |-> 0, at |-> "over", way |-> "buffered", origin |-> FALSE, pooled |-> FALSE,
           nonce |-> 0, got |-> <<>>, started |-> FALSE, quiet |-> 0, still |-> 0, end |-> "none"]

ExchangeInit ==
    /\ socket = Gone /\ call = NoCall
    /\ upstream = [busy |-> 0, ended |-> FALSE, said |-> <<>>, silent |-> 0]
    /\ trouble = 0

Troubles == trouble < MaxTrouble /\ trouble' = trouble + 1

-----------------------------------------------------------------------------
(* The upstream *)

Sends(frame) == socket' = [socket EXCEPT !.up = Append(@, frame)]
Alive == socket.state # "gone" /\ (socket.up # <<>> => Last(socket.up).kind # "close")

\* It takes a request, or answers a ping, when it has nothing left to say.
TakeFrame ==
    /\ Alive /\ socket.down # <<>> /\ upstream.busy = 0
    /\ LET frame == Head(socket.down) IN
       IF frame.kind = "ping"
       THEN /\ socket' = [socket EXCEPT !.down = Tail(@), !.up = Append(@, Frame("pong", frame.of))]
            /\ UNCHANGED upstream
       ELSE /\ socket' = [socket EXCEPT !.down = Tail(@)]
            /\ upstream' = [upstream EXCEPT !.busy = frame.of, !.ended = FALSE, !.said = <<>>]
    /\ UNCHANGED <<call, trouble>>

\* A frame of the answer; what comes after the terminal one is a trailing one.
Say ==
    /\ Alive /\ upstream.busy # 0 /\ ~upstream.ended
    /\ Len(upstream.said) < MaxSaid
    /\ \E kind \in {"event", "control"} :
          /\ Sends(Frame(kind, upstream.busy))
          /\ upstream' = [upstream EXCEPT !.said = Append(@, Frame(kind, upstream.busy))]
    /\ UNCHANGED <<call, trouble>>

SayFinal ==
    /\ Alive /\ upstream.busy # 0 /\ ~upstream.ended
    /\ \E kind \in Finals :
          /\ Sends(Frame(kind, upstream.busy))
          /\ upstream' = [upstream EXCEPT !.said = Append(@, Frame(kind, upstream.busy)),
                                          !.ended = TRUE]
    /\ UNCHANGED <<call, trouble>>

\* It turns to the next frame, with or without a trailing event.
FinishSaying ==
    /\ Alive /\ upstream.busy # 0 /\ upstream.ended
    /\ \/ UNCHANGED <<socket, trouble>>
       \/ Sends(Frame("control", upstream.busy)) /\ Troubles
    /\ upstream' = [upstream EXCEPT !.busy = 0]
    /\ UNCHANGED call

\* A ping of its own, a frame that has no place, or the end of the socket.
Interject ==
    /\ Alive /\ Troubles
    /\ \E kind \in {"ping", "binary", "close"} : Sends(Frame(kind, 0))
    /\ UNCHANGED <<call, upstream>>

-----------------------------------------------------------------------------
(* The request *)

\* take_pool_entry_for_request: a continued request is for the socket that its
\* answer came on, and for no other.
BeginExchange ==
    /\ call.at = "over" /\ call.n < MaxExchanges
    /\ \E way \in {"buffered", "stream"}, origin \in BOOLEAN :
          LET next == [NoCall EXCEPT !.n = call.n + 1, !.way = way, !.origin = origin] IN
          CASE socket.state = "pooled" ->
                 /\ call' = [next EXCEPT !.at = "pinging", !.pooled = TRUE, !.nonce = call.n + 1]
                 /\ socket' = [socket EXCEPT !.state = "used", !.down = Append(@, Frame("ping", call.n + 1))]
            [] socket.state = "gone" /\ origin ->
                 call' = [next EXCEPT !.end = "origin_missing"] /\ UNCHANGED socket
            [] OTHER -> call' = [next EXCEPT !.at = "connecting"] /\ UNCHANGED socket
    /\ UNCHANGED <<upstream, trouble>>

SocketMade ==
    /\ call.at = "connecting"
    /\ socket' = [Gone EXCEPT !.state = "used"]
    /\ call' = [call EXCEPT !.at = "sending"]
    /\ upstream' = [upstream EXCEPT !.busy = 0, !.ended = FALSE]
    /\ UNCHANGED trouble

\* The pooled socket is no good: dropped, and a buffered request dials another
\* unless it needs this one.
Rejected ==
    /\ socket' = Gone
    /\ call' = IF call.origin THEN [call EXCEPT !.at = "over", !.end = "origin_missing"]
               ELSE IF call.way = "stream" THEN [call EXCEPT !.at = "over", !.end = "stale_socket"]
               ELSE [call EXCEPT !.at = "connecting", !.pooled = FALSE]

\* validate_pooled_websocket
PingAnswered ==
    /\ call.at = "pinging" /\ socket.up # <<>>
    /\ LET frame == Head(socket.up) IN
       CASE frame.kind = "pong" /\ frame.of = call.nonce ->
              call' = [call EXCEPT !.at = "sending"] /\ socket' = [socket EXCEPT !.up = Tail(@)]
         [] frame.kind = "ping" -> UNCHANGED call /\ socket' = [socket EXCEPT !.up = Tail(@)]
         [] OTHER -> Rejected
    /\ UNCHANGED <<upstream, trouble>>

PingTimesOut ==
    /\ call.at = "pinging" /\ Rejected /\ Troubles /\ UNCHANGED upstream

Over(end) == socket' = Gone /\ call' = [call EXCEPT !.at = "over", !.end = end]

SendFrame ==
    /\ call.at = "sending"
    /\ \/ /\ socket' = [socket EXCEPT !.down = Append(@, Frame("request", call.n))]
          /\ call' = [call EXCEPT !.at = "collecting"]
          /\ upstream' = [upstream EXCEPT !.silent = 0]
          /\ UNCHANGED trouble
       \/ Over("not_sent") /\ Troubles /\ UNCHANGED upstream

IsResponseEvent(frame) == frame.kind \in {"event"} \cup Finals

\* A mutant of Gathered: whatever comes puts the deadline of the answer off.
GatheredByAnyFrame(frame) ==
    [call EXCEPT !.got = Append(@, frame), !.started = @ \/ IsResponseEvent(frame),
                 !.quiet = 0, !.still = 0]

\* The deadline of the answer runs from its last response event, and before the
\* first from the start; any frame starts the keepalive anew.
Gathered(frame) ==
    [call EXCEPT !.got = Append(@, frame),
                 !.started = @ \/ IsResponseEvent(frame),
                 !.quiet = IF IsResponseEvent(frame) THEN 0 ELSE @,
                 !.still = 0]

CollectFrame ==
    /\ call.at = "collecting" /\ socket.up # <<>> /\ call.quiet < Budget
    /\ LET frame == Head(socket.up) IN
       CASE frame.kind \in {"event", "control"} ->
              call' = Gathered(frame) /\ socket' = [socket EXCEPT !.up = Tail(@)]
         [] frame.kind = "completed" ->
              /\ call' = [Gathered(frame) EXCEPT !.at = "over", !.end = "answered"]
              /\ socket' = [socket EXCEPT !.up = Tail(@), !.state = "pooled"]
         [] frame.kind = "unknown" ->
              call' = [Gathered(frame) EXCEPT !.at = "over", !.end = "unknown"] /\ socket' = Gone
         [] frame.kind \in {"done", "failed", "error"} ->
              call' = [Gathered(frame) EXCEPT !.at = "over", !.end = "answered"] /\ socket' = Gone
         [] frame.kind \in {"ping", "pong"} ->
              call' = [call EXCEPT !.still = 0] /\ socket' = [socket EXCEPT !.up = Tail(@)]
         [] frame.kind = "binary" -> Over("binary")
         [] frame.kind = "close"  -> Over("cut_off")
    /\ upstream' = [upstream EXCEPT !.silent = IF Head(socket.up).kind \in {"event"} \cup Finals THEN 0 ELSE @]
    /\ UNCHANGED trouble

\* Nothing was heard for a while: the socket is pinged.
KeepaliveSent ==
    /\ call.at = "collecting" /\ socket.up = <<>> /\ call.still = KeepAlive /\ call.quiet < Budget
    /\ \/ /\ socket' = [socket EXCEPT !.down = Append(@, Frame("ping", 0))]
          /\ call' = [call EXCEPT !.still = 0]
          /\ UNCHANGED trouble
       \/ Over("keepalive") /\ Troubles
    /\ UNCHANGED upstream

\* The clock of the answer is seen before a frame that has come at the same time.
AnswerOverdue ==
    /\ call.at = "collecting" /\ call.quiet = Budget
    /\ Over(IF call.started THEN "idle" ELSE "no_answer")
    /\ UNCHANGED <<upstream, trouble>>

\* The network changes, or the client leaves: a stream notices that its receiver
\* is closed, and a buffered request is dropped with its socket.
BrokenOff ==
    /\ call.at \in {"pinging", "connecting", "sending", "collecting"}
    /\ Over("broken_off") /\ Troubles
    /\ UNCHANGED upstream

\* A frame that has come is read before time passes.
ExchangeTick ==
    /\ call.at = "collecting" /\ call.quiet < Budget /\ call.still < KeepAlive /\ socket.up = <<>>
    /\ call' = [call EXCEPT !.quiet = @ + 1, !.still = @ + 1]
    /\ upstream' = [upstream EXCEPT !.silent = @ + 1]
    /\ UNCHANGED <<socket, trouble>>

ExchangeNext ==
    \/ TakeFrame \/ Say \/ SayFinal \/ FinishSaying \/ Interject
    \/ BeginExchange \/ SocketMade \/ PingAnswered \/ PingTimesOut \/ SendFrame
    \/ CollectFrame \/ KeepaliveSent \/ AnswerOverdue \/ BrokenOff \/ ExchangeTick

ExchangeSpec == ExchangeInit /\ [][ExchangeNext]_exchangeVars

-----------------------------------------------------------------------------
(* Properties *)

\* What a request collects is what the upstream said of it, from the first frame
\* on, and of no other; an answer that ends it is whole.
OwnAnswer ==
    call.got # <<>> =>
        /\ IsPrefix(call.got, upstream.said)
        /\ call.end = "answered" => call.got = upstream.said

\* A request is given up for silence only when the upstream has said nothing of
\* its answer for the whole budget, and no ping or stray event puts that off.
HeardOut ==
    /\ call.end \in {"idle", "no_answer"} => upstream.silent >= Budget
    /\ call.at = "collecting" => upstream.silent <= Budget

\* Only a socket whose last answer came to its end is kept, and nothing that is
\* still to come on it belongs to a request that may follow.
KeptClean ==
    socket.state = "pooled" =>
        /\ upstream.busy # 0 => upstream.ended
        /\ \A i \in DOMAIN socket.up : ~IsResponseEvent(socket.up[i])

ExchangeSafety == OwnAnswer /\ HeardOut /\ KeptClean

-----------------------------------------------------------------------------
(* Under a turn: the tunnel gives the upstream's bytes whole, calls keep apart
   and on their network, and a socket gives each request its own answer. *)
SocketSafety == TunnelSafety /\ DialSafety /\ ExchangeSafety
=============================================================================
