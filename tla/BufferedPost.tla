------------------------------ MODULE BufferedPost ------------------------------
(***************************************************************************)
(* One buffered Codex request: posts over a WebSocket, over HTTP, or over    *)
(* HTTP when the WebSocket could not be opened, until one answer is final.   *)
(* A change of the network path starts the whole over, once.                *)
(***************************************************************************)
EXTENDS HttpTurns

CONSTANT FallbackEnabled  \* auto_http_fallback_enabled

ASSUME BufferedPostAssumption == FallbackEnabled \in BOOLEAN

VARIABLES
    post,   \* the request
    posts   \* history: how often this run of it was posted, with a continuation and without

bufferedVars == <<post, posts>>

Transport == {"http", "websocket", "auto"}

Posted == [at: {"idle", "posting", "fallback", "refreshing", "sleeping", "answered", "failed"},
           transport: Transport, lease: 0 .. MaxPathChanges, restarted: BOOLEAN,
           offered: BOOLEAN,     \* the request came with a previous response
           continues: BOOLEAN,   \* the next post names it
           failures: 0 .. MaxHttpRetries, refreshed: BOOLEAN]

BufferedTypeOK ==
    /\ post \in Posted
    /\ posts \in [{TRUE, FALSE} -> Nat]

BufferedInit ==
    /\ post = [at |-> "idle", transport |-> "http", lease |-> 0, restarted |-> FALSE,
               offered |-> FALSE, continues |-> FALSE, failures |-> 0, refreshed |-> FALSE]
    /\ posts = [continues \in {TRUE, FALSE} |-> 0]

-----------------------------------------------------------------------------
Now(p) == post' = p

\* A post goes out over the request's transport.
Posts(p) ==
    /\ Now([p EXCEPT !.at = "posting"])
    /\ posts' = [posts EXCEPT ![p.continues] = @ + 1]

Waits(p) == Now(p) /\ UNCHANGED posts

\* A retry after a delay that may exceed the budget, or be one too many.
Sleeps(p) ==
    \E asked \in Asked :
        IF p.failures < MaxHttpRetries /\ ~ExceedsBudget(asked)
        THEN Waits([p EXCEPT !.at = "sleeping", !.failures = @ + 1])
        ELSE Waits([p EXCEPT !.at = "failed"])

BufferedStarts ==
    /\ post.at = "idle"
    /\ \E transport \in Transport, offered \in BOOLEAN :
          Posts([post EXCEPT !.transport = transport, !.lease = route, !.offered = offered,
                             !.continues = offered /\ transport # "http"])

\* An answer, or an error, that is final: a body without a retryable failure, a
\* usage limit, a status or an error that nothing is done about.
IsAnswered ==
    /\ post.at \in {"posting", "fallback"}
    /\ \/ Waits([post EXCEPT !.at = "answered"])
       \/ Waits([post EXCEPT !.at = "failed"])

\* The WebSocket could not be opened: the same request goes over HTTP.
FallsBack ==
    /\ post.at = "posting" /\ post.transport = "auto" /\ FallbackEnabled
    /\ Now([post EXCEPT !.at = "fallback"])
    /\ posts' = [posts EXCEPT ![FALSE] = @ + 1]

\* should_refresh_after_unauthorized: a 401, once.
Unauthorized ==
    /\ post.at \in {"posting", "fallback"} /\ ~post.refreshed
    /\ Waits([post EXCEPT !.at = "refreshing", !.refreshed = TRUE])

\* With new credentials the pooled socket is invalid, and the continuation with it.
IsRefreshed ==
    /\ post.at = "refreshing"
    /\ \/ Posts([post EXCEPT !.continues = FALSE])
       \/ Waits([post EXCEPT !.at = "failed"])

\* A body with a retryable failure in it: the next post has the full context.
FailedInBody ==
    /\ post.at \in {"posting", "fallback"}
    /\ Sleeps([post EXCEPT !.continues = FALSE])

\* A retryable status or transport error leaves the continuation as it was.
FailedInTransport ==
    /\ post.at \in {"posting", "fallback"}
    /\ Sleeps(post)

Awakes == post.at = "sleeping" /\ Posts(post)

\* A mutant of WithFullContext: the previous response stays.
ContinuationKept(p) == p

WithFullContext(p) == [p EXCEPT !.continues = FALSE]

\* The previous response or its socket is lost, or the answer does not come or
\* end: no delay, and not counted.
ContinuationFails ==
    /\ post.at = "posting" /\ post.continues
    /\ Posts(WithFullContext(post))

\* post_codex_with_transport: everything anew on the new path, once.
BufferedInterrupted ==
    /\ post.at \in {"posting", "fallback", "refreshing", "sleeping"} /\ post.lease # route
    /\ IF post.restarted THEN Waits([post EXCEPT !.at = "failed"])
       ELSE LET continues == post.offered /\ post.transport # "http"
            IN  /\ post' = [post EXCEPT !.at = "posting", !.lease = route, !.restarted = TRUE,
                                        !.continues = continues, !.failures = 0,
                                        !.refreshed = FALSE]
                /\ posts' = [c \in {TRUE, FALSE} |-> IF c = continues THEN 1 ELSE 0]

BufferedLeaves ==
    /\ post.at \notin {"idle", "answered", "failed"}
    /\ Waits([post EXCEPT !.at = "failed"])

BufferedProgress ==
    \/ IsAnswered \/ FallsBack \/ Unauthorized \/ IsRefreshed \/ FailedInBody
    \/ FailedInTransport \/ Awakes \/ ContinuationFails

BufferedNext ==
    \/ (BufferedStarts \/ BufferedProgress \/ BufferedInterrupted \/ BufferedLeaves)
       /\ UNCHANGED httpVars
    \/ route < MaxPathChanges /\ route' = route + 1 /\ UNCHANGED <<task, sent, bufferedVars>>

\* The runtime polls what is ready, and every post and every delay ends.
BufferedFairness ==
    /\ WF_bufferedVars(BufferedProgress /\ UNCHANGED httpVars)
    /\ WF_bufferedVars(BufferedInterrupted /\ UNCHANGED httpVars)

BufferedSpec == HttpInit /\ BufferedInit /\ [][BufferedNext]_<<httpVars, bufferedVars>> /\ BufferedFairness

-----------------------------------------------------------------------------
(* However posts fail, a request is posted no more often in one run than its
   retries, one refresh and one lost continuation allow, and its fallbacks once
   for each post; and once a post had the full context, none continues: each
   continuing post is the first or repeats one that failed in transport. *)
PostsBounded ==
    /\ posts[TRUE] <= MaxHttpRetries + 1
    /\ posts[TRUE] + posts[FALSE] <= 2 * (MaxHttpRetries + 3)

BufferedSafety == BufferedTypeOK /\ PostsBounded

(* Requests end, streamed and buffered: every request over HTTP comes to its
   answer or to an error, although each failure may be answered by another
   attempt and the network may change under every one of them.  A request is
   made once, so it is over when again and again it is not under way. *)
HttpRequestsEnd ==
    []<>(task.at \in {"idle", "over"} /\ post.at \in {"idle", "answered", "failed"})
=================================================================================
