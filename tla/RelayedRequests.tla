---------------------------- MODULE RelayedRequests ----------------------------
(***************************************************************************)
(* Requests that the backend passes on by itself: native Responses, Chat    *)
(* Completions (streamed or collected), images, transcriptions, and the     *)
(* searches that Claude Code asks for in a message of its own.  Each is     *)
(* checked, posted with a credential that is refreshed at most once, and    *)
(* its answer relayed or collected, while the network path may change, the  *)
(* upstream may fail at any point and the client may leave.                 *)
(*                                                                          *)
(* A lease is the generation of the path at which it was taken; it wakes    *)
(* whoever waits under it when the path changes.                            *)
(***************************************************************************)
EXTENDS Naturals, FiniteSets

CONSTANTS
    Relay,              \* requests, each made once
    Endpoint,           \* the endpoints that requests name
    Permits,            \* the semaphores of the image and the transcription backend
    MaxSearchRetries,   \* MAX_BUFFERED_TRANSPORT_RETRIES
    MaxChunks,          \* bound: chunks of an answer
    MaxPaths           \* bound: changes of the path

Endpoints == {"native", "chat", "chat_stream", "image", "transcription", "search"}

ASSUME RelayedRequestsAssumption ==
    /\ Endpoint \subseteq Endpoints
    /\ {Permits, MaxSearchRetries, MaxChunks, MaxPaths} \subseteq Nat

VARIABLES
    path,  \* the generation of the network path
    relay   \* [Relay -> the request]

relayVars == <<path, relay>>

Ends == {"none", "refused", "error", "failed", "timeout", "interrupted", "complete"}

Relayed ==
    [endpoint: Endpoints, permit: BOOLEAN,
     at: {"checking", "admitted", "credential", "posting", "refreshing", "backoff", "body",
          "answering", "over"},
     handler: 0 .. MaxPaths, post: 0 .. MaxPaths,   \* the leases of the handler and of the post
     posts: Nat, refreshed: BOOLEAN, retries: 0 .. MaxSearchRetries,
     success: BOOLEAN,    \* the status that the client is answered with
     chunks: 0 .. MaxChunks,
     outcome: {"well", "failed"},   \* NativeResponseOutcome
     unseen: BOOLEAN,     \* history: a failure stood in a frame too large to be looked at
     moved: BOOLEAN,      \* history: the path has changed since the request was posted
     end: Ends,           \* how the upstream's part ended
     recorded: {"nothing", "completed", "failed", "abandoned"}]

\* A request that has not been made yet.
Unasked == [at |-> "new"]

RelayTypeOK ==
    /\ path \in 0 .. MaxPaths
    /\ relay \in [Relay -> Relayed \union {Unasked}]

RelayInit == path = 0 /\ relay = [r \in Relay |-> Unasked]

-----------------------------------------------------------------------------
(* What each endpoint does: whether it takes a permit of its backend, posts and *)
(* reads its body under a lease, passes an answer on whatever its status, and   *)
(* passes it on as it comes.                                                    *)

NativeResponse ==
    [permit |-> FALSE, leased |-> TRUE, body |-> TRUE, relays |-> TRUE, streams |-> TRUE]

ChatCompletion ==
    [permit |-> FALSE, leased |-> TRUE, body |-> FALSE, relays |-> FALSE, streams |-> FALSE]

StreamedChat == [ChatCompletion EXCEPT !.streams = TRUE]

ImageRequest ==
    [permit |-> TRUE, leased |-> TRUE, body |-> TRUE, relays |-> FALSE, streams |-> FALSE]

Transcription ==
    [permit |-> TRUE, leased |-> TRUE, body |-> TRUE, relays |-> FALSE, streams |-> FALSE]

SearchRequest ==
    [permit |-> FALSE, leased |-> FALSE, body |-> FALSE, relays |-> FALSE, streams |-> FALSE]

Does == [native |-> NativeResponse, chat |-> ChatCompletion, chat_stream |-> StreamedChat,
         image |-> ImageRequest, transcription |-> Transcription, search |-> SearchRequest]

Limited(endpoint) == Does[endpoint].permit

Made(r) == relay[r] # Unasked
Is(r, at) == Made(r) /\ relay[r].at = at
At(r, at) == relay' = [relay EXCEPT ![r].at = at]

\* The handler's part is done and its permit free: an answer goes to the client.
Answers(q, success, end) == [q EXCEPT !.at = "answering", !.permit = FALSE, !.success = success,
                                      !.end = end]
Answer(r, success, end) == relay' = [relay EXCEPT ![r] = Answers(relay[r], success, end)]

\* The handlers: the monitor learns of the request, and the guard is made.
MakeRequest(r) ==
    /\ relay[r] = Unasked
    /\ \E e \in Endpoint :
          relay' = [relay EXCEPT ![r] =
              [endpoint |-> e, permit |-> FALSE, at |-> "checking", handler |-> 0, post |-> 0,
               posts |-> 0, refreshed |-> FALSE, retries |-> 0, success |-> FALSE, chunks |-> 0,
               outcome |-> "well", unseen |-> FALSE, moved |-> FALSE, end |-> "none",
               recorded |-> "nothing"]]
    /\ UNCHANGED path

\* Query, content type, size, parts or JSON of the request are not as they must be.
CheckFails(r) == Is(r, "checking") /\ Answer(r, FALSE, "refused") /\ UNCHANGED path

InUse(endpoint) == {q \in Relay : Made(q) /\ relay[q].endpoint = endpoint /\ relay[q].permit}

\* handle: a permit, or none is left; then the lease under which the body is read.
Admit(r) ==
    LET e == relay[r].endpoint
    IN  /\ Is(r, "checking")
        /\ IF Limited(e) /\ Cardinality(InUse(e)) >= Permits THEN Answer(r, FALSE, "refused")
           ELSE relay' = [relay EXCEPT ![r].at = "admitted", ![r].permit = Limited(e),
                                       ![r].handler = path]
        /\ UNCHANGED path

\* post_native_responses, post_image_json and post_transcription take a lease of
\* their own; post_search takes none.
TakeLease(r) ==
    /\ Is(r, "admitted")
    /\ relay' = [relay EXCEPT ![r].at = "credential", ![r].post = path]
    /\ UNCHANGED path

\* get_auth
HaveCredential(r) ==
    /\ Is(r, "credential")
    /\ \/ Answer(r, FALSE, "error")
       \/ relay' = [relay EXCEPT ![r].at = "posting", ![r].posts = @ + 1]
    /\ UNCHANGED path

\* A mutant of BodyUnderLease: an image is read without one.
BodyUnderLeaseLess(endpoint) == endpoint \in {"native", "transcription"}

BodyUnderLease(endpoint) == Does[endpoint].body

\* The path has changed under the lease of the wait.
Interruptible(r) ==
    LET q == relay[r]
    IN  \/ /\ q.at \in {"credential", "posting", "refreshing"} /\ Does[q.endpoint].leased
           /\ q.post # path
        \/ q.at = "body" /\ BodyUnderLease(q.endpoint) /\ q.handler # path

\* attempt_*: no answer in time, or none at all.  A timeout is a matter of
\* minutes, and a change of the path wakes who waits under a lease at once.
PostFails(r) ==
    /\ Is(r, "posting")
    /\ \/ Answer(r, FALSE, "error")
       \/ ~Interruptible(r) /\ Answer(r, FALSE, "timeout")
    /\ UNCHANGED path

\* 401, for the first time: force_refresh.
Unauthorized(r) ==
    /\ Is(r, "posting") /\ ~relay[r].refreshed
    /\ relay' = [relay EXCEPT ![r].at = "refreshing", ![r].refreshed = TRUE]
    /\ UNCHANGED path

CredentialRefreshed(r) ==
    /\ Is(r, "refreshing")
    /\ \/ Answer(r, FALSE, "error")
       \/ relay' = [relay EXCEPT ![r].at = "posting", ![r].posts = @ + 1]
    /\ UNCHANGED path

\* A search whose status may pass is posted again after a delay, within the
\* budget.  (It reads the body of an error too, before it looks at the status.)
Repeat(r) ==
    /\ relay[r] # Unasked /\ relay[r].endpoint = "search"
    /\ \/ Is(r, "posting") /\ relay[r].retries < MaxSearchRetries
          /\ relay' = [relay EXCEPT ![r].at = "backoff", ![r].retries = @ + 1]
       \/ Is(r, "backoff")
          /\ relay' = [relay EXCEPT ![r].at = "posting", ![r].posts = @ + 1]
    /\ UNCHANGED path

\* An answer with any other status.  Native responses are relayed whatever it
\* is; of the others only a success has a body that is passed on.
Responds(r) ==
    LET q == relay[r]
    IN  /\ Is(r, "posting")
        /\ \/ relay' = [relay EXCEPT ![r].at = "body", ![r].success = TRUE]
           \/ Does[q.endpoint].relays /\ At(r, "body")
           \/ ~Does[q.endpoint].relays /\ Answer(r, FALSE, "error")
        /\ UNCHANGED path

-----------------------------------------------------------------------------
(* The body. *)

Reads(r, endpoints) == Is(r, "body") /\ relay[r].endpoint \in endpoints

\* A chunk, which a stream passes on and others collect.
Chunk(r) ==
    /\ Is(r, "body") /\ relay[r].chunks < MaxChunks
    /\ relay' = [relay EXCEPT ![r].chunks = @ + 1]
    /\ UNCHANGED path

\* NativeResponseOutcome::fail
ReportsFailure(q) == [q EXCEPT !.outcome = "failed"]

\* What the guard makes of a frame that cannot be read.
FrameError(q, end) == [Answers(q, q.success, end) EXCEPT !.recorded = "failed"]

\* A native stream says that the response has failed, and goes on.  The observer
\* misses it in a frame that is too large to be kept.
NativeFailureEvent(r) ==
    /\ Reads(r, {"native"}) /\ relay[r].end = "none"
    /\ \/ relay' = [relay EXCEPT ![r] = [ReportsFailure(@) EXCEPT !.end = "failed"]]
       \/ relay' = [relay EXCEPT ![r].unseen = TRUE, ![r].end = "failed"]
    /\ UNCHANGED path

NativeBodyEnds(r) ==
    /\ Reads(r, {"native"})
    /\ Answer(r, relay[r].success, IF relay[r].end = "none" THEN "complete" ELSE relay[r].end)
    /\ UNCHANGED path

\* No chunk comes in time, or the body cannot be read.
NativeBodyFails(r) ==
    /\ Reads(r, {"native"})
    /\ \/ relay' = [relay EXCEPT ![r] = FrameError(@, "error")]
       \/ ~Interruptible(r) /\ relay' = [relay EXCEPT ![r] = FrameError(@, "timeout")]
    /\ UNCHANGED path

\* A Chat Completions stream has its completion event.
ChatCompletes(r) ==
    /\ Reads(r, {"chat_stream"}) /\ relay[r].chunks > 0
    /\ Answer(r, TRUE, "complete")
    /\ UNCHANGED path

\* It says that the response has failed, ends too early, cannot be read or
\* stalls: its client gets an error under the status that was sent before.
ChatFails(r) ==
    /\ Reads(r, {"chat_stream"})
    /\ \E end \in {"failed", "error", "timeout"} :
          relay' = [relay EXCEPT ![r] = ReportsFailure(Answers(@, TRUE, end))]
    /\ UNCHANGED path

\* collect_body of chat: the stream as a whole, and what it says of the response.
ChatCollected(r) ==
    /\ Reads(r, {"chat"})
    /\ \/ Answer(r, TRUE, "complete")
       \/ \E end \in {"failed", "error", "timeout"} : Answer(r, FALSE, end)
    /\ UNCHANGED path

\* collect_images_body: a document within the limit and with images in it.
ImagesCollected(r) ==
    /\ Reads(r, {"image"})
    /\ \/ Answer(r, TRUE, "complete")
       \/ Answer(r, FALSE, "error")
       \/ ~Interruptible(r) /\ Answer(r, FALSE, "timeout")
    /\ UNCHANGED path

\* collect_transcription_body: a document within the limit and with a text in it.
TextCollected(r) ==
    /\ Reads(r, {"transcription"})
    /\ \/ Answer(r, TRUE, "complete")
       \/ Answer(r, FALSE, "error")
       \/ ~Interruptible(r) /\ Answer(r, FALSE, "timeout")
    /\ UNCHANGED path

\* attempt_post_search: the results.
ResultsCollected(r) ==
    /\ Reads(r, {"search"})
    /\ \/ Answer(r, TRUE, "complete")
       \/ \E end \in {"error", "timeout"} : Answer(r, FALSE, end)
    /\ UNCHANGED path

\* The path has changed under a lease: run_network_request, or the stream's own wait.
Interrupted(r) ==
    LET q == relay[r]
    IN  /\ Made(r) /\ Interruptible(r)
        /\ relay' = [relay EXCEPT ![r] =
              IF q.at = "body" /\ q.endpoint = "native"
              THEN ReportsFailure(FrameError(q, "interrupted")) ELSE Answers(q, FALSE, "interrupted")]
        /\ UNCHANGED path

-----------------------------------------------------------------------------
\* The client has read its answer to the end: monitor_response_body.
Finish(r) ==
    LET q == relay[r]
    IN  /\ Is(r, "answering")
        /\ relay' = [relay EXCEPT ![r].at = "over", ![r].recorded =
              IF q.recorded # "nothing" THEN q.recorded
              ELSE IF q.outcome = "failed" \/ ~q.success THEN "failed" ELSE "completed"]
        /\ UNCHANGED path

\* The client leaves: the handler or the stream is dropped, with the guard.
ClientLeaves(r) ==
    /\ Made(r) /\ ~Is(r, "over")
    /\ relay' = [relay EXCEPT ![r].at = "over", ![r].permit = FALSE, ![r].recorded =
                    IF @ = "nothing" THEN "abandoned" ELSE @]
    /\ UNCHANGED path

Underway(q) == q.at \in {"posting", "refreshing", "backoff", "body"}

PathChange ==
    /\ path < MaxPaths /\ path' = path + 1
    /\ relay' = [r \in Relay |-> IF Made(r) /\ Underway(relay[r]) THEN [relay[r] EXCEPT !.moved = TRUE]
                                 ELSE relay[r]]

RelayNext ==
    \/ \E r \in Relay : \/ MakeRequest(r) \/ CheckFails(r) \/ Admit(r) \/ TakeLease(r) \/ HaveCredential(r)
                        \/ PostFails(r) \/ Unauthorized(r) \/ CredentialRefreshed(r) \/ Repeat(r) \/ Responds(r)
                        \/ Chunk(r) \/ NativeFailureEvent(r) \/ NativeBodyEnds(r) \/ NativeBodyFails(r)
                        \/ ChatCompletes(r) \/ ChatFails(r) \/ ChatCollected(r)
                        \/ ImagesCollected(r) \/ TextCollected(r) \/ ResultsCollected(r)
                        \/ Interrupted(r) \/ Finish(r) \/ ClientLeaves(r)
    \/ PathChange

RelaySpec == RelayInit /\ [][RelayNext]_relayVars

-----------------------------------------------------------------------------
(* The monitor lists a request as completed exactly when its client has read
   a whole answer that did not fail: not when a stream under a success status
   carried the failure, broke off or was interrupted, although its frames end
   like those of a good one.  What a native stream says in a frame too large
   to be kept is the exception. *)
RecordedAsItEnded ==
    \A r \in Relay : Is(r, "over") /\ relay[r].recorded # "abandoned" =>
        LET q == relay[r]
        IN  (q.recorded = "completed") <=> q.success /\ (q.end = "complete" \/ (q.end = "failed" /\ q.unseen))

(* Nobody waits for an upstream on a path that is gone until a timeout of
   minutes ends it, where the wait is under a lease, whichever of the two
   leases of a request covers it and whenever the path changes. *)
LeasedIsInterrupted ==
    \A r \in Relay : Made(r) /\ relay[r].end = "timeout" /\ relay[r].moved =>
        relay[r].endpoint \notin {"native", "image", "transcription"}

(* A request is posted once more for a refreshed credential and a search for
   each retry, never for anything else: what the upstream has begun to answer
   is not asked again. *)
PostedWithinBudget ==
    \A r \in Relay : Made(r) =>
        /\ relay[r].posts <= 2 + MaxSearchRetries
        /\ relay[r].endpoint # "search" => relay[r].posts <= 2
        /\ relay[r].chunks > 0 => relay[r].at \in {"body", "answering", "over"}

RelaySafety == RelayTypeOK /\ RecordedAsItEnded /\ LeasedIsInterrupted /\ PostedWithinBudget
================================================================================
