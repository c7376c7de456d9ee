------------------------------- MODULE HttpTurns -------------------------------
(***************************************************************************)
(* One Codex request over HTTP with a streamed answer: the caller that opens *)
(* the first response, and the task that reads it, forwards its events, and *)
(* starts over after a failure, an event that asks for it or a change of    *)
(* the network path.  Every await ends a step; a change of the path or a    *)
(* client that leaves interrupts at any of them, sending included.          *)
(*                                                                          *)
(* An event is <<attempt, index, kind>>.  Time passes in one respect only:  *)
(* the deadline of the network recovery, which is open and then past.       *)
(***************************************************************************)
EXTENDS Naturals, Sequences, SequencesExt

CONSTANTS
    MaxHttpRetries,  \* MAX_BUFFERED_TRANSPORT_RETRIES
    InitialDelay, LongestDelay,  \* RETRY_INITIAL_DELAY_MS, RETRY_MAX_DELAY_MS
    NotAsked,        \* no Retry-After
    Asked,           \* bound: values of Retry-After, NotAsked included
    MaxPathChanges,  \* bound: changes of the network path
    MaxBody          \* bound: events in a response, keepalives left out

ASSUME HttpTurnsAssumption ==
    /\ {MaxHttpRetries, InitialDelay, LongestDelay, MaxPathChanges, MaxBody} \subseteq Nat
    /\ NotAsked \notin Nat /\ NotAsked \in Asked /\ Asked \subseteq Nat \union {NotAsked}

VARIABLES
    route,  \* path_generation
    task,   \* the request: caller and task
    sent    \* what its client has received, keepalives left out

httpVars == <<route, task, sent>>

EventKinds == {"structural", "semantic", "success", "failure", "error"}
Final == {"success", "failure", "error"}
Attempts == 0 .. (MaxHttpRetries + 1) * (MaxPathChanges + 1)
Events == Attempts \X (0 .. MaxBody) \X EventKinds

HttpTask ==
    [at: {"idle", "opening", "dns", "waiting", "pausing", "reading", "sending", "over"},
     lease: 0 .. MaxPathChanges, spawned: BOOLEAN, greets: BOOLEAN,
     retries: 0 .. MaxHttpRetries, refreshed: BOOLEAN,
     recovery: {"none", "open", "past"},
     forwarded: BOOLEAN,                    \* semantic_output_forwarded
     attempt: Attempts, read: 0 .. MaxBody,
     wait: 0 .. LongestDelay, asked: Asked,
     left: BOOLEAN,                         \* the client is gone
     pending: Seq(Events), outbox: Seq(Events)]

HttpTypeOK ==
    /\ route \in 0 .. MaxPathChanges
    /\ task \in HttpTask
    /\ sent \in Seq(Events)

HttpInit ==
    /\ route = 0 /\ sent = <<>>
    /\ task = [at |-> "idle", lease |-> 0, spawned |-> FALSE, greets |-> TRUE, retries |-> 0,
               refreshed |-> FALSE, recovery |-> "none", forwarded |-> FALSE, attempt |-> 0,
               read |-> 0, wait |-> 0, asked |-> NotAsked, left |-> FALSE,
               pending |-> <<>>, outbox |-> <<>>]

-----------------------------------------------------------------------------
\* compute_backoff_delay: the waits it may choose; none exceeds the budget but
\* what a Retry-After asks for.
ExceedsBudget(asked) == asked # NotAsked /\ asked > LongestDelay

\* The delay doubles with each retry, as far as the longest one.
Ceiling[retries \in 0 .. MaxHttpRetries] ==
    LET doubled == IF retries = 0 THEN InitialDelay ELSE 2 * Ceiling[retries - 1]
    IN  IF doubled > LongestDelay THEN LongestDelay ELSE doubled

Backoff(retries, asked) ==
    IF asked # NotAsked THEN {asked} ELSE Ceiling[retries] \div 2 .. Ceiling[retries]

Error == <<task.attempt, 0, "error">>

\* The request ends with an error: the caller gets it at once, a client from
\* the task's channel.
EndsInError(t) ==
    IF t.spawned
    THEN task' = [t EXCEPT !.at = "sending", !.outbox = <<Error>>] /\ UNCHANGED sent
    ELSE task' = [t EXCEPT !.at = "over"] /\ sent' = Append(sent, Error)

Becomes(t) == task' = t /\ UNCHANGED sent

\* A retryable failure: one more retry after a delay, if the budget allows it.
Again(t, asked, at) ==
    IF t.retries >= MaxHttpRetries \/ ExceedsBudget(asked) THEN EndsInError(t)
    ELSE \E wait \in Backoff(t.retries, asked) :
            Becomes([t EXCEPT !.at = at, !.retries = @ + 1, !.wait = wait, !.asked = asked,
                                !.pending = <<>>])

\* NetworkRecovery::begin
MayRecover == task.recovery # "past"
\* A mutant of Recovering: a recovery that gets no deadline.
RecoveringUndated(t) == t

Recovering(t) == [t EXCEPT !.recovery = "open"]

-----------------------------------------------------------------------------
(* The upstream connection: start_http_event_attempt_with_retry. *)

HttpStarts ==
    /\ task.at = "idle"
    /\ Becomes([task EXCEPT !.at = "opening", !.lease = route])
    /\ UNCHANGED route

\* A response has come; the task exists from the first one on, and greets its
\* client whenever a lease is new.
Opened ==
    /\ task.at = "opening"
    /\ Becomes([task EXCEPT !.at = IF task.greets THEN "sending" ELSE "reading",
                              !.greets = FALSE, !.spawned = TRUE,
                              !.attempt = @ + 1, !.read = 0])
    /\ UNCHANGED route

\* The upstream answers 401 and the credentials are refreshed, once.
RefreshedOnce401 ==
    /\ task.at = "opening" /\ ~task.refreshed
    /\ Becomes([task EXCEPT !.refreshed = TRUE])
    /\ UNCHANGED route

NameUnresolved ==
    /\ task.at = "opening"
    /\ IF MayRecover THEN Becomes([Recovering(task) EXCEPT !.at = "dns"])
       ELSE EndsInError(task)
    /\ UNCHANGED route

OpenFails ==
    /\ task.at = "opening"
    /\ \/ \E asked \in Asked : Again(task, asked, "waiting")
       \/ EndsInError(task)
    /\ UNCHANGED route

\* The delay is over; the one in the task's own loop knows no deadline.
Resumes ==
    /\ task.at \in {"dns", "waiting", "pausing"}
    /\ Becomes([task EXCEPT !.at = "opening", !.wait = 0, !.asked = NotAsked])
    /\ UNCHANGED route

\* NetworkRecovery::run
RecoveryTimesOut ==
    /\ task.at \in {"opening", "dns", "waiting"} /\ task.recovery = "past"
    /\ EndsInError([task EXCEPT !.wait = 0, !.asked = NotAsked])
    /\ UNCHANGED route

-----------------------------------------------------------------------------
(* The task: spawn_http_event_stream. *)

\* The client takes the next event.  An empty outbox is the keepalive.
Sends ==
    /\ task.at = "sending"
    /\ IF task.outbox = <<>> THEN Becomes([task EXCEPT !.at = "reading"])
       ELSE LET event == Head(task.outbox)
            IN  /\ sent' = Append(sent, event)
                /\ task' = [task EXCEPT !.outbox = Tail(@),
                       !.at = IF Len(task.outbox) > 1 THEN "sending"
                              ELSE IF event[3] \in Final THEN "over" ELSE "reading"]
    /\ UNCHANGED route

\* A mutant of Forwards: the flag is never set.
ForwardsNever(kind) == task.forwarded

Forwards(kind) == task.forwarded \/ kind = "semantic"

\* An event is read.  Structural ones wait for output that cannot be taken back.
ReadsEvent ==
    /\ task.at = "reading" /\ task.read < MaxBody
    /\ \E kind \in {"structural", "semantic", "success", "failure"} :
          LET event == <<task.attempt, task.read + 1, kind>>
              after == [task EXCEPT !.read = @ + 1, !.forwarded = Forwards(kind)]
          IN  IF kind = "structural" /\ ~task.forwarded
              THEN Becomes([after EXCEPT !.pending = Append(@, event)])
              ELSE Becomes([after EXCEPT !.at = "sending", !.pending = <<>>,
                       !.outbox = IF kind = "failure" THEN <<event>> ELSE task.pending \o <<event>>])
    /\ UNCHANGED route

\* A keepalive, or another control event, is passed on at once.
ReadsControl ==
    /\ task.at = "reading" /\ task.read < MaxBody
    /\ Becomes([task EXCEPT !.at = "sending"])
    /\ UNCHANGED route

\* Before any output, a usage limit ends the request, and a failure event that
\* may be retried is.
ReadsFailure ==
    /\ task.at = "reading" /\ task.read < MaxBody /\ ~task.forwarded
    /\ \/ EndsInError(task)
       \/ \E asked \in Asked : Again(task, asked, "pausing")
    /\ UNCHANGED route

\* The body ends without a terminal event, stalls, breaks, or cannot be decoded.
ReadFailsOver ==
    /\ task.at = "reading"
    /\ \/ ~task.forwarded /\ Again(task, NotAsked, "pausing")
       \/ EndsInError(task)
    /\ UNCHANGED route

\* NetworkLease::run: the request starts over on the new path while nothing has
\* been forwarded and the one deadline allows it, with its retries restored.
PathInterrupts ==
    /\ task.at \notin {"idle", "over"} /\ task.lease # route
    /\ LET retry == ~task.forwarded /\ MayRecover
       IN  IF retry
           THEN Becomes([Recovering(task) EXCEPT
                    !.at = "opening", !.lease = route, !.retries = 0, !.wait = 0,
                    !.refreshed = IF task.spawned THEN @ ELSE FALSE,
                    !.asked = NotAsked, !.greets = TRUE, !.pending = <<>>, !.outbox = <<>>])
           ELSE /\ task' = [task EXCEPT !.at = "over", !.wait = 0, !.asked = NotAsked]
                /\ sent' = Append(sent, Error)
    /\ UNCHANGED route

ClientLeaves ==
    /\ task.at \notin {"idle", "over"}
    /\ Becomes([task EXCEPT !.at = "over", !.left = TRUE, !.wait = 0, !.asked = NotAsked])
    /\ UNCHANGED route

PathChanges ==
    /\ route < MaxPathChanges /\ task.at # "over"
    /\ route' = route + 1
    /\ UNCHANGED <<task, sent>>

DeadlinePasses ==
    /\ task.recovery = "open" /\ task.at # "over"
    /\ Becomes([task EXCEPT !.recovery = "past"])
    /\ UNCHANGED route

HttpProgress ==
    \/ Opened \/ NameUnresolved \/ OpenFails \/ Resumes \/ Sends \/ ReadsEvent \/ ReadsFailure
    \/ ReadFailsOver

HttpNext ==
    \/ HttpStarts \/ HttpProgress \/ RefreshedOnce401 \/ RecoveryTimesOut \/ ReadsControl
    \/ PathInterrupts \/ ClientLeaves \/ PathChanges \/ DeadlinePasses

\* The tokio runtime polls what is ready, timeouts bound the upstream's silence,
\* a timer fires, and a client reads on.  Strong fairness: a body does not
\* consist of keepalives for ever, which no timeout would end.
HttpFairness ==
    /\ WF_httpVars(HttpProgress) /\ SF_httpVars(ReadsEvent \/ ReadsFailure \/ ReadFailsOver)
    /\ WF_httpVars(RecoveryTimesOut) /\ WF_httpVars(PathInterrupts) /\ WF_httpVars(DeadlinePasses)

HttpSpec == HttpInit /\ [][HttpNext]_httpVars /\ HttpFairness

-----------------------------------------------------------------------------
(* Once output that cannot be taken back has been forwarded, all that follows
   comes from the same attempt, in its order and without a gap; and the client
   learns of exactly one end, which is last, unless it leaves.  Retries,
   network changes and failures may come at any await in between. *)
OneAttemptAnswers ==
    /\ \A i, j \in DOMAIN sent :
          /\ i < j /\ sent[i][3] = "semantic" => sent[j][1] = sent[i][1]
          /\ sent[j][3] = "semantic" =>
                {sent[k][2] : k \in {k \in 1 .. j : sent[k][1] = sent[j][1]}} = 1 .. sent[j][2]
    /\ \A i \in 1 .. Len(sent) - 1 : sent[i][3] \notin Final
    /\ task.at = "over" /\ ~task.left => sent # <<>> /\ Last(sent)[3] \in Final

(* A delay never exceeds the longest one and is at least what the upstream has
   asked for, over all the retries of a request, in either of the two loops
   that wait (compute_backoff_delay and its callers). *)
WaitsWithinBudget ==
    task.at \in {"waiting", "pausing"} =>
        /\ task.wait <= LongestDelay
        /\ task.asked # NotAsked => task.wait >= task.asked

HttpSafety == HttpTypeOK /\ OneAttemptAnswers /\ WaitsWithinBudget
================================================================================
