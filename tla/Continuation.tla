----------------------------- MODULE Continuation -----------------------------
(***************************************************************************)
(* The continuation registry of the Codex backend: per conversation owner,  *)
(* the turn that is current and, once that turn has completed, the response *)
(* the next turn may continue instead of resending its whole context.       *)
(*                                                                          *)
(* Each locked section of the registry is one step.  A request takes its    *)
(* turn number and reads the clock before it takes the lock, so requests    *)
(* may enter the registry in another order than they were numbered.         *)
(* Requests without an identity, or with the feature disabled, never touch  *)
(* the registry and are not modelled.                                       *)
(***************************************************************************)
EXTENDS Integers, FiniteSets, Functions

CONSTANTS
    Owner,          \* ConversationIdentity: the main thread or an agent of a session
    Request,        \* requests in flight
    Socket,         \* socket ids a finished turn may report
    None,           \* no continuation, no socket, no owner
    Fits,           \* how a request body may relate to the recorded transcript
    MaxStates,      \* MAX_STATES
    MaxOwnerBytes,  \* MAX_OWNER_TRANSCRIPT_BYTES
    MaxTotalBytes,  \* MAX_TOTAL_TRANSCRIPT_BYTES
    TTL,            \* TTL_MS
    MaxSize,        \* bound: the largest transcript
    MaxTurns,       \* bound: how many turns are numbered
    MaxTime         \* bound: how far the clock runs

ASSUME ContinuationAssumption ==
    /\ None \notin Owner /\ None \notin Socket
    /\ "extends" \in Fits
    /\ MaxStates \in Nat \ {0}
    /\ {MaxOwnerBytes, MaxTotalBytes, TTL, MaxSize, MaxTurns, MaxTime} \subseteq Nat

VARIABLES
    registry,   \* REGISTRY: the owners' states and total_transcript_bytes
    nextTurn,   \* NEXT_TURN_ID
    now,        \* the clock
    res         \* [Request -> the turn number and reservation a request holds]

regVars == <<registry, nextTurn, now, res>>

Turn == 1 .. MaxTurns

\* A response is named by the turn that completed it.
ContinuationState ==
    [response: Turn, socket: Socket, bytes: 0 .. MaxSize, updatedAt: 0 .. MaxTime]

OwnerState ==
    [turn: Turn, continuation: ContinuationState \union {None}, updatedAt: 0 .. MaxTime]

\* "entered" tells a reservation from a bare turn number; previous and origin
\* are the response to continue and the socket it must go over.
Reservation ==
    [owner: Owner, turn: Turn, at: 0 .. MaxTime, entered: BOOLEAN,
     previous: Turn \union {None}, origin: Socket \union {None}]

\* None is told from turns and records.
ASSUME NoneAssumption ==
    None \notin Turn /\ None \notin ContinuationState /\ None \notin Reservation

TypeOK ==
    /\ DOMAIN registry.owners \subseteq Owner
    /\ \A o \in DOMAIN registry.owners : registry.owners[o] \in OwnerState
    /\ registry.bytes \in Nat
    /\ nextTurn \in 1 .. MaxTurns + 1
    /\ now \in 0 .. MaxTime
    /\ res \in [Request -> Reservation \union {None}]

Init ==
    /\ registry = [owners |-> <<>>, bytes |-> 0]
    /\ nextTurn = 1
    /\ now = 0
    /\ res = [r \in Request |-> None]

-----------------------------------------------------------------------------
(* The registry's own operations, as functions of its value. *)

BytesOf(state) == IF state.continuation = None THEN 0 ELSE state.continuation.bytes

SaturatingSub(a, b) == IF a < b THEN 0 ELSE a - b

IsCurrent(reg, owner, turn) ==
    owner \in DOMAIN reg.owners /\ reg.owners[owner].turn = turn

\* owners.remove(owner), giving back the bytes of what it held.
Without(reg, owner) ==
    IF owner \notin DOMAIN reg.owners THEN reg
    ELSE [owners |-> Restrict(reg.owners, DOMAIN reg.owners \ {owner}),
          bytes  |-> SaturatingSub(reg.bytes, BytesOf(reg.owners[owner]))]

With(reg, owner, state) ==
    [owners |-> [o \in DOMAIN reg.owners \union {owner} |->
                    IF o = owner THEN state ELSE reg.owners[o]],
     bytes  |-> reg.bytes + BytesOf(state)]

Keeping(reg, kept) ==
    [owners |-> Restrict(reg.owners, kept),
     bytes  |-> SaturatingSub(reg.bytes,
                    SumFunctionOnSet([o \in DOMAIN reg.owners |-> BytesOf(reg.owners[o])],
                                     DOMAIN reg.owners \ kept))]

\* A mutant of OverLimit: both limits must be exceeded.
OverBothLimits(reg) ==
    /\ Cardinality(DOMAIN reg.owners) > MaxStates
    /\ reg.bytes > MaxTotalBytes

OverLimit(reg) ==
    \/ Cardinality(DOMAIN reg.owners) > MaxStates
    \/ reg.bytes > MaxTotalBytes

\* evict_oldest: owners leave oldest first (ties in any order) until the
\* registry is within its limits, and no owner leaves after that.
EvictOldest(reg) ==
    LET all  == DOMAIN reg.owners
        At(o) == reg.owners[o].updatedAt
        Stops(kept) == kept = {} \/ ~OverLimit(Keeping(reg, kept))
        Oldest(gone, kept) == \A g \in gone, k \in kept : At(g) <= At(k)
        Needed(gone, kept) ==
            gone # {} => \E g \in gone : /\ \A e \in gone : At(e) <= At(g)
                                         /\ OverLimit(Keeping(reg, kept \union {g}))
    IN  IF ~OverLimit(reg) THEN {reg}
        ELSE {Keeping(reg, kept) : kept \in
                {k \in SUBSET all : Stops(k) /\ Oldest(all \ k, k) /\ Needed(all \ k, k)}}

\* abort_continuation_inner: only the current turn takes its owner's state away.
Aborted(reg, owner, turn) ==
    IF IsCurrent(reg, owner, turn) THEN Without(reg, owner) ELSE reg

\* What candidate_from_state makes of the state found for the owner.
Continues(state, at, fit) ==
    /\ state # None
    /\ SaturatingSub(at, state.updatedAt) <= TTL
    /\ fit = "extends"

Held(reg, owner) ==
    IF owner \in DOMAIN reg.owners THEN reg.owners[owner].continuation ELSE None

-----------------------------------------------------------------------------
(* The calls a request makes. *)

\* NEXT_TURN_ID.fetch_add and now_ms(), before the lock.
TakeTurn(r, owner) ==
    /\ res[r] = None
    /\ nextTurn <= MaxTurns
    /\ res' = [res EXCEPT ![r] = [owner |-> owner, turn |-> nextTurn, at |-> now,
                                  entered |-> FALSE, previous |-> None, origin |-> None]]
    /\ nextTurn' = nextTurn + 1
    /\ UNCHANGED <<registry, now>>

\* A mutant of Candidate: the continuation found stays for the next turn.
CandidateKeepsFound(r, fit) ==
    LET me    == res[r]
        found == Held(registry, me.owner)
        fresh == [turn |-> me.turn, continuation |-> found, updatedAt |-> me.at]
    IN  /\ me # None /\ ~me.entered
        /\ registry' \in EvictOldest(With(Without(registry, me.owner), me.owner, fresh))
        /\ res' = [res EXCEPT ![r] =
                      IF Continues(found, me.at, fit)
                      THEN [me EXCEPT !.entered = TRUE, !.previous = found.response,
                                      !.origin = found.socket]
                      ELSE [me EXCEPT !.entered = TRUE]]
        /\ UNCHANGED <<nextTurn, now>>

\* continuation_candidate_inner under the lock: the new turn replaces whatever
\* the owner had, and the continuation found there is handed to this turn alone.
Candidate(r, fit) ==
    LET me    == res[r]
        found == Held(registry, me.owner)
        fresh == [turn |-> me.turn, continuation |-> None, updatedAt |-> me.at]
    IN  /\ me # None /\ ~me.entered
        /\ registry' \in EvictOldest(With(Without(registry, me.owner), me.owner, fresh))
        /\ res' = [res EXCEPT ![r] =
                      IF Continues(found, me.at, fit)
                      THEN [me EXCEPT !.entered = TRUE, !.previous = found.response,
                                      !.origin = found.socket]
                      ELSE [me EXCEPT !.entered = TRUE]]
        /\ UNCHANGED <<nextTurn, now>>

\* abort_continuation_for_owner.
Abort(r) ==
    /\ res[r] # None /\ res[r].entered
    /\ registry' = Aborted(registry, res[r].owner, res[r].turn)
    /\ UNCHANGED <<nextTurn, now, res>>

\* Mutants of Store: a superseded turn records into its successor's entry, or
\* puts its own turn back.
StoreForAnyTurn(r, socket, size) ==
    LET me    == res[r]
        state == [response |-> me.turn, socket |-> socket, bytes |-> size, updatedAt |-> now]
    IN  IF me.owner \in DOMAIN registry.owners
        THEN registry' \in EvictOldest(
                 With(Without(registry, me.owner), me.owner,
                      [registry.owners[me.owner] EXCEPT !.continuation = state]))
        ELSE UNCHANGED registry

StoreReviving(r, socket, size) ==
    LET me    == res[r]
        state == [response |-> me.turn, socket |-> socket, bytes |-> size, updatedAt |-> now]
    IN  registry' \in EvictOldest(
            With(Without(registry, me.owner), me.owner,
                 [turn |-> me.turn, continuation |-> state, updatedAt |-> now]))

\* record_continuation_for_owner with a response and the socket it came over.
Store(r, socket, size) ==
    LET me    == res[r]
        state == [response |-> me.turn, socket |-> socket, bytes |-> size, updatedAt |-> now]
        mine  == registry.owners[me.owner]
    IN  IF IsCurrent(registry, me.owner, me.turn)
        THEN registry' \in EvictOldest(
                 With(Without(registry, me.owner), me.owner,
                      [mine EXCEPT !.continuation = state]))
        ELSE UNCHANGED registry

\* The whole call: without a socket, or with too long a transcript, it aborts.
Record(r, socket, size) ==
    /\ res[r] # None /\ res[r].entered
    /\ IF socket = None \/ size > MaxOwnerBytes
       THEN registry' = Aborted(registry, res[r].owner, res[r].turn)
       ELSE Store(r, socket, size)
    /\ UNCHANGED <<nextTurn, now, res>>

\* full_context_retry: the reservation keeps its turn and loses its continuation.
FullContext(r) ==
    /\ res[r] # None /\ res[r].previous # None
    /\ res' = [res EXCEPT ![r].previous = None, ![r].origin = None]
    /\ UNCHANGED <<registry, nextTurn, now>>

\* The request ends, or is dropped, and its reservation with it.
Drop(r) ==
    /\ res[r] # None /\ res[r].entered
    /\ res' = [res EXCEPT ![r] = None]
    /\ UNCHANGED <<registry, nextTurn, now>>

Tick ==
    /\ now < MaxTime
    /\ now' = now + 1
    /\ UNCHANGED <<registry, nextTurn, res>>

Next ==
    \/ \E r \in Request :
        \/ \E owner \in Owner : TakeTurn(r, owner)
        \/ \E fit \in Fits : Candidate(r, fit)
        \/ Abort(r)
        \/ \E socket \in Socket \union {None}, size \in 1 .. MaxSize : Record(r, socket, size)
        \/ FullContext(r)
        \/ Drop(r)
    \/ Tick

RegistrySpec == Init /\ [][Next]_regVars

-----------------------------------------------------------------------------
(* Properties. *)

\* total_transcript_bytes is the sum of what the owners hold, through every
\* supersession, replacement, abort and eviction: the counter never drifts, so
\* eviction by size neither starves nor overruns.
BytesAccounted ==
    registry.bytes = SumFunctionOnSet([o \in DOMAIN registry.owners |-> BytesOf(registry.owners[o])],
                                      DOMAIN registry.owners)

\* After every call the registry is within both of its limits.
WithinLimits ==
    /\ Cardinality(DOMAIN registry.owners) <= MaxStates
    /\ registry.bytes <= MaxTotalBytes

\* The registry is well formed, counted and limited after every call.
RegistryInOrder == TypeOK /\ BytesAccounted /\ WithinLimits

\* A recorded continuation was recorded by its owner's current turn: a turn
\* superseded while its answer was under way never leaves one behind.
RecordedByCurrentTurn ==
    \A o \in DOMAIN registry.owners :
        registry.owners[o].continuation # None =>
            registry.owners[o].continuation.response = registry.owners[o].turn

\* A response is offered for continuation to one request only, and never again
\* once offered: no two requests hold it, and none holds what is recorded.
OfferedOnce ==
    \A r \in Request : res[r] # None /\ res[r].previous # None =>
        /\ \A q \in Request \ {r} : res[q] # None => res[q].previous # res[r].previous
        /\ \A o \in DOMAIN registry.owners :
               registry.owners[o].continuation # None =>
                   registry.owners[o].continuation.response # res[r].previous

\* What the service's state is in the registry's terms.
Waiting     == {res[r].turn : r \in {q \in Request : res[q] # None /\ ~res[q].entered}}
CurrentTurn == [o \in Owner |->
                   IF o \in DOMAIN registry.owners THEN registry.owners[o].turn ELSE None]
Offer       == [o \in Owner |->
                   IF Held(registry, o) # None THEN Held(registry, o).response ELSE None]
Given       == {<<res[r].turn, res[r].previous>> :
                   r \in {q \in Request : res[q] # None /\ res[q].previous # None}}

\* The service the registry implements: a late answer, abort or eviction never
\* revives an older turn, and never offers what another turn was offered.
Service == INSTANCE ContinuationService WITH
    issued <- 1 .. nextTurn - 1, waiting <- Waiting, current <- CurrentTurn,
    offer <- Offer, given <- Given

ImplementsContinuationService == Service!Spec
=============================================================================
