------------------------------- MODULE Failures -------------------------------
(***************************************************************************)
(* What becomes of a failure that the upstream tells of, or of one of its   *)
(* connections: whether it is tried again, and what the client is told in   *)
(* the end.  The judgement is spread over every path a request can take; a  *)
(* failure is put to all of them here.                                      *)
(***************************************************************************)
EXTENDS Integers

CONSTANTS
    Statuses,   \* numbers an upstream names; 0 stands for none
    Clocks      \* what the clocks of a spent quota read

NoStatus == 0
NoClock  == -1

ASSUME FailuresAssumption ==
    /\ NoStatus \in Statuses /\ Statuses \subseteq {NoStatus} \cup 400 .. 599
    /\ Clocks \subseteq Nat

VARIABLES
    told,     \* the failure: an event, an error of a connection, or a spent quota
    judged    \* what each path makes of it

failureVars == <<told, judged>>

Codes == {"none", "context_length_exceeded", "insufficient_quota", "usage_not_included",
          "cyber_policy", "server_is_overloaded", "overloaded_error", "server_error"}
Words == {"nothing", "context_window", "context_length", "rate_limit", "overloaded", "timed_out"}
Afterwards == {"none", "soon", "late"}   \* a Retry-After within the budget, or past it

\* A terminal event that tells of a failure; one of type response.completed has
\* its error nested, and one that is cut short has none.
FailedEvent ==
    [type: {"response.failed", "error", "response.completed"},
     explicit: Statuses, code: Codes,
     kind: {"none", "usage_limit_reached", "overloaded_error", "server_error"},
     says: Words, after: Afterwards]
    \cup [type: {"response.incomplete"}, explicit: {NoStatus}, code: {"none"}, kind: {"none"},
          says: {"nothing"}, after: {"none"}]

-----------------------------------------------------------------------------
(* events.rs: one judgement for an event *)

IsContextWindow(e) == e.code = "context_length_exceeded" \/ e.says \in {"context_window", "context_length"}

Policy == {"cyber_policy"}   \* invalid_prompt and bio_policy are treated alike

IsPermanent(e) ==
    IsContextWindow(e) \/ e.code \in Policy \cup {"insufficient_quota", "usage_not_included"}
IsRateLimit(e) == e.explicit = 429 \/ e.says = "rate_limit"
IsOverload(e)  == e.explicit = 529 \/ "overloaded_error" \in {e.code, e.kind} \/ e.says = "overloaded"
IsTransient(e) == \/ e.explicit \in {500, 502, 503, 504}
                  \/ "server_error" \in {e.code, e.kind}
                  \/ e.says = "timed_out"

Kind(e) ==
    IF e.type = "response.incomplete" THEN "transient"
    ELSE IF IsPermanent(e) THEN "permanent"
    ELSE IF e.code = "server_is_overloaded" THEN "overloaded"
    ELSE IF IsRateLimit(e) THEN "limited"
    ELSE IF IsOverload(e) THEN "overloaded"
    ELSE IF IsTransient(e) THEN "transient"
    ELSE IF e.explicit # NoStatus \/ e.type = "error" THEN "permanent"
    ELSE "transient"

Retryable(e) == Kind(e) # "permanent"

KindStatus == [limited |-> 429, overloaded |-> 529, transient |-> 503, permanent |-> 500]
CodeStatus == [cyber_policy |-> 400, insufficient_quota |-> 429, usage_not_included |-> 403]

StatusOf(e) ==
    IF IsContextWindow(e) THEN 413
    ELSE IF e.explicit # NoStatus THEN e.explicit
    ELSE IF e.code \in DOMAIN CodeStatus THEN CodeStatus[e.code]
    ELSE KindStatus[Kind(e)]

ClientType(status) ==
    CASE status \in {400, 422} -> "invalid_request_error" [] status = 401 -> "authentication_error"
      [] status = 403 -> "permission_error"               [] status = 413 -> "request_too_large"
      [] status = 429 -> "rate_limit_error"               [] status = 529 -> "overloaded_error"
      [] OTHER -> "api_error"

-----------------------------------------------------------------------------
(* What the client is told *)

Reply(status, type, after) == [status |-> status, type |-> type, after |-> after, stop |-> FALSE]

\* A spent quota: no Retry-After, and the client is asked not to retry.
Quota == [status |-> 429, type |-> "rate_limit_error", after |-> "none", stop |-> TRUE]

\* map_codex_event_failure_to_response
OfEvent(e) == Reply(StatusOf(e), ClientType(StatusOf(e)), e.after)

\* An error of an attempt; "says" is what codex_error_message finds in it.
Failure(origin, status, detail, says, after) ==
    [origin |-> origin, status |-> status, detail |-> detail, says |-> says, after |-> after]

\* codex_event_failure_error: the error of an event that is tried again.
Again(e) == Failure("event", StatusOf(e), "message", e.says, e.after)

\* map_codex_error_to_response
OfError(err) ==
    IF err.says = "context_window" THEN Reply(413, "request_too_large", "none")
    ELSE IF err.status \in {401, 403} THEN Reply(err.status, ClientType(err.status), "none")
    ELSE IF err.status \in {429, 529} THEN Reply(err.status, ClientType(err.status), err.after)
    ELSE IF err.status \in 400 .. 599 THEN Reply(err.status, "api_error", err.after)
    ELSE Reply(502, "api_error", "none")

-----------------------------------------------------------------------------
(* The judgement of every path, for an event that comes before any output *)

Judged(again, report) == [again |-> again, report |-> report]

\* compute_backoff_delay: tried again unless the upstream asks for too long a wait.
Tried(err) == Judged(err.after # "late", OfError(err))

IsSpent(e)       == e.kind = "usage_limit_reached"
\* A mutant of TellsOfQuota: an error event does not tell of it.
TellsOfFailedQuota(e) == IsSpent(e) /\ e.type = "response.failed"
TellsOfQuota(e)  == IsSpent(e) /\ e.type \in {"response.failed", "error"}

\* A stream, over HTTP or WebSocket: the quota first, then the kind of the failure.
OnStream(e) ==
    IF TellsOfQuota(e) THEN Judged(FALSE, Quota)
    ELSE IF Retryable(e) THEN Tried(Again(e))
    ELSE Judged(FALSE, OfEvent(e))

\* A buffered body: the first failure in it; permanent ones are left to the end.
InBody(e) ==
    IF IsSpent(e) THEN Judged(FALSE, Quota)
    ELSE IF Retryable(e) THEN Tried(Again(e))
    ELSE Judged(FALSE, OfEvent(e))

RetryStatuses == {429, 500, 502, 503, 504, 529}

\* A buffered answer over WebSocket that ends in an error event has the event's
\* number for its status, 500 for want of one, and no headers.
InFrames(e) ==
    LET status == IF e.explicit = NoStatus THEN 500 ELSE e.explicit
        report == OfError(Failure("websocket", status, "message", e.says, "none"))
    IN  IF e.type # "error" \/ IsSpent(e) THEN InBody(e)
        ELSE Judged(status \in RetryStatuses \cup {401}, report)

\* After output the stream ends in an error event, whatever the failure.
AfterOutput(e) == Judged(FALSE, Reply(200, ClientType(StatusOf(e)), "none"))

-----------------------------------------------------------------------------
(* Errors of connections and attempts *)

\* websocket.rs and client.rs: what they are called, and whether the request had
\* gone out by then.
Errors ==
    LET named(name, origin, status, detail, says, sent) ==
            [name |-> name, sent |-> sent,
             error |-> Failure(origin, status, detail, says, "none")]
    IN  {named("protocol", "handshake", 0, "none", "nothing", FALSE),
         named("connect_timeout", "handshake", 0, "none", "nothing", FALSE),
         named("network_changed", "handshake", 0, "network_changed", "nothing", FALSE),
         named("origin_socket_gone", "handshake", 0, "socket_missing", "nothing", FALSE),
         named("pooled_socket_dead", "handshake", 0, "none", "nothing", FALSE),
         named("tunnel_unreadable", "handshake", 0, "tunnel_rejected", "nothing", FALSE),
         named("send_failed", "websocket", 0, "none", "connection_closed", TRUE),
         named("no_answer", "websocket", 0, "start_timeout", "nothing", TRUE),
         named("idle", "websocket", 0, "none", "nothing", TRUE),
         named("keepalive", "websocket", 0, "keepalive", "nothing", TRUE),
         named("binary", "websocket", 0, "none", "nothing", TRUE),
         named("reset", "websocket", 0, "none", "connection_closed", TRUE),
         named("cut_off", "websocket", 0, "missing_terminal", "connection_closed", TRUE),
         named("no_such_response", "websocket", 0, "previous_response_not_found", "nothing", TRUE),
         named("no_headers", "http", 0, "response_headers", "timed_out_waiting", TRUE),
         named("transport", "http", 0, "causes", "connection_closed", TRUE),
         named("no_body", "http", 0, "response_body", "timed_out_waiting", TRUE)}
        \cup {named("upgrade_refused", "handshake", s, "told", "nothing", FALSE) :
                  s \in (Statuses \cup {407}) \ {NoStatus}}
        \cup {named("tunnel_refused", "handshake", s, "tunnel_rejected", "nothing", FALSE) :
                  s \in Statuses \ {NoStatus}}
        \cup {named("tunnel_refused", "handshake", 407, "told", "nothing", FALSE)}

Transport == {"connection_closed", "timed_out_waiting"}

\* retryable_live_start_codex_error
RetriedLive(err) ==
    \/ err.detail \in {"network_changed", "keepalive"}
    \/ err.origin = "handshake" /\ err.detail # "tunnel_rejected" /\ err.status \in RetryStatuses \cup {0}
    \/ err.origin # "handshake" /\ err.status \in RetryStatuses
    \/ err.origin # "handshake" /\ err.status = 0 /\ err.says \in Transport

\* is_retryable_transport_error
RetriedBuffered(err) ==
    \/ err.detail \in {"network_changed", "keepalive"}
    \/ err.origin = "handshake" /\ err.detail # "tunnel_rejected" /\ err.status \in RetryStatuses \cup {0}
    \/ /\ err.origin # "handshake" /\ err.detail # "response_headers"
       /\ err.status = 0 /\ err.says \in Transport

\* should_fallback_to_http
FallsBackToHttp(err) == err.origin = "handshake" /\ err.status # 407 /\ err.detail # "tunnel_rejected"

-----------------------------------------------------------------------------
(* The window of a spent quota *)

Clock  == Clocks \cup {NoClock}
Window == [in: Clock, at: Clock, minutes: {NoClock, 300, 10080}]  \* X-Codex-<window>-*
Spent  == [in: Clock, at: Clock, primary: Window, secondary: Window]

Distance(a, b) == IF a < b THEN b - a ELSE a - b

\* closest_window
Closest(actual, primary, secondary) ==
    IF actual = NoClock \/ (primary = NoClock /\ secondary = NoClock) THEN "neither"
    ELSE IF secondary = NoClock THEN "primary"
    ELSE IF primary = NoClock THEN "secondary"
    ELSE IF Distance(actual, primary) < Distance(actual, secondary) THEN "primary"
    ELSE IF Distance(actual, secondary) < Distance(actual, primary) THEN "secondary"
    ELSE "neither"

IsTold(window) == \E clock \in {window.in, window.at, window.minutes} : clock # NoClock

\* limiting_window_prefix
Limiting(q) ==
    LET byCountdown == Closest(q.in, q.primary.in, q.secondary.in)
        byEpoch     == Closest(q.at, q.primary.at, q.secondary.at)
    IN  IF byCountdown # "neither" THEN byCountdown
        ELSE IF byEpoch # "neither" THEN byEpoch
        ELSE IF IsTold(q.primary) /\ ~IsTold(q.secondary) THEN "primary"
        ELSE IF IsTold(q.secondary) /\ ~IsTold(q.primary) THEN "secondary"
        ELSE "neither"

\* The headers of usage_limit_response.
Reported(q) ==
    LET named == Limiting(q)
    IN  [resets |-> IF q.at # NoClock \/ named = "neither" THEN q.at ELSE q[named].at,
         claim  |-> IF named = "neither" THEN NoClock ELSE q[named].minutes]

-----------------------------------------------------------------------------
(* The specification *)

FailuresInit == told = <<"nothing">> /\ judged = <<>>

HearEvent ==
    /\ told = <<"nothing">>
    /\ \E e \in FailedEvent :
        /\ told' = <<"event", e>>
        /\ judged' = [stream |-> OnStream(e), body |-> InBody(e), frames |-> InFrames(e),
                      late |-> AfterOutput(e)]

HearError ==
    /\ told = <<"nothing">>
    /\ \E failed \in Errors :
        /\ told' = <<"error", failed>>
        /\ judged' = [live |-> RetriedLive(failed.error), buffered |-> RetriedBuffered(failed.error),
                      overHttp |-> FallsBackToHttp(failed.error)]

HearQuota ==
    /\ told = <<"nothing">>
    /\ \E q \in Spent : told' = <<"quota", q>> /\ judged' = Reported(q)

FailuresNext == HearEvent \/ HearError \/ HearQuota

FailuresSpec == FailuresInit /\ [][FailuresNext]_failureVars

-----------------------------------------------------------------------------
(* Properties *)

HeardEvent == told[1] = "event"

\* A failure that tells of a spent quota ends the request on whatever path it
\* comes, with a refusal that asks for no retry and names no wait; no other
\* failure is answered so.
QuotaIsFinal ==
    HeardEvent /\ told[2].type \in {"response.failed", "error"} =>
        \A path \in {"stream", "body", "frames"} :
            IsSpent(told[2]) <=> (judged[path].report = Quota /\ ~judged[path].again)

\* A failure is judged alike by a stream and in a buffered body; and as the last
\* frame of a buffered socket too, where its number says what the failure does.
\* (A credential that is refused there is renewed first.)
PathsAgree ==
    HeardEvent /\ told[2].type # "response.completed" =>
        LET e == told[2] IN
        /\ judged.stream = judged.body
        /\ (Retryable(e) <=> e.explicit \in RetryStatuses) /\ e.explicit \notin {NoStatus, 401}
           /\ ~IsContextWindow(e) /\ e.after # "late" =>
               /\ judged.frames.again = judged.stream.again
               /\ judged.frames.report.status = judged.stream.report.status

\* What the client is told of a failure whose number is one of its kind does not
\* depend on whether output came first; and what asks for a wait past the budget
\* is not tried again, and is told to the client with the wait.
ToldAlike ==
    HeardEvent /\ told[2].type = "response.failed" /\ ~IsSpent(told[2])
    /\ (Retryable(told[2]) => told[2].explicit \in RetryStatuses \cup {NoStatus}) =>
        /\ judged.late.report.type = judged.stream.report.type
        /\ told[2].after = "late" => ~judged.stream.again /\ judged.stream.report.after = "late"

HeardError == told[1] = "error"

\* A request that may have been sent is never sent again over HTTP, and what a
\* proxy refused is neither tried again nor taken past the proxy.  A failure of
\* a socket is tried again by a stream exactly when it is by a buffered request.
NothingIsSentTwice ==
    HeardError =>
        LET failed == told[2] IN
        /\ judged.overHttp => ~failed.sent
        /\ failed.name = "tunnel_refused" \/ failed.error.status = 407 =>
               ~judged.overHttp /\ ~judged.live /\ ~judged.buffered
        /\ failed.error.origin # "http" => (judged.live <=> judged.buffered)

\* A window that the clocks of a spent quota match, and the other does not, is
\* the one the client is told of, with the time at which it opens; as long as the
\* upstream gives both clocks of a window, or none.
RightWindow ==
    told[1] = "quota" =>
        LET q         == told[2]
            whole(w)  == (w.in = NoClock) <=> (w.at = NoClock)
            given     == {c \in {"in", "at"} : q[c] # NoClock}
            fits(w)   == given # {} /\ \A c \in given : w[c] = q[c]
            only(w, o) == whole(w) /\ whole(o) /\ fits(w) /\ (\E c \in given : o[c] # w[c])
        IN  /\ only(q.primary, q.secondary) =>
                   judged = [resets |-> q.primary.at, claim |-> q.primary.minutes]
            /\ only(q.secondary, q.primary) =>
                   judged = [resets |-> q.secondary.at, claim |-> q.secondary.minutes]

\* Every path comes to the same end of a failure, and the right one.
FailureSafety == QuotaIsFinal /\ PathsAgree /\ ToldAlike /\ NothingIsSentTwice /\ RightWindow
=============================================================================
