--------------------------- MODULE ServerCompaction ---------------------------
(***************************************************************************)
(* Server compaction of the Codex backend: the in-memory registry of native *)
(* histories, and the requests that prepare, confirm, replay and drop them. *)
(* Each locked section of the registry and each await of a request ends a   *)
(* step; a session's requests overlap freely.                               *)
(*                                                                          *)
(* A summary and a native history are named by the attempt that made them.  *)
(* total_bytes is recomputed from the states at every change in the code,   *)
(* and is the operator TotalBytes here.                                     *)
(***************************************************************************)
EXTENDS Naturals, FiniteSets, FiniteSetsExt, Functions

CONSTANTS
    Session, Compactor,  \* sessions; requests, each used once
    CodexModel,          \* models that a request may name
    NoSummary,           \* a conversation or an answer without a summary
    MaxCompactions,      \* MAX_STATES
    MaxHistoryBytes,     \* MAX_STATE_BYTES
    MaxRegistryBytes,    \* MAX_TOTAL_STATE_BYTES
    HistoryTTL,          \* STATE_TTL_MS
    HistorySizes,        \* bound: sizes of a native history
    MaxAttempts,         \* bound: compaction attempts
    MaxMoments           \* bound: the clock

Attempt == 1 .. MaxAttempts

ASSUME ServerCompactionAssumption ==
    /\ {MaxCompactions, MaxHistoryBytes, MaxRegistryBytes, HistoryTTL} \subseteq Nat
    /\ {MaxAttempts, MaxMoments} \subseteq Nat /\ MaxHistoryBytes >= 1 /\ HistorySizes \subseteq Nat
    /\ NoSummary \notin Nat

VARIABLES
    states,       \* REGISTRY: [sessions with a state -> the state]
    nextAttempt,  \* NEXT_ATTEMPT_ID
    moment,       \* the clock
    compactor,    \* [Compactor -> where the request stands and what it holds]
    shown         \* [Session -> attempts whose summary a client was shown]

compactionVars == <<states, nextAttempt, moment, compactor, shown>>

\* `history` and `summary` tell which attempt made them.
Phases == {"preparing", "unconfirmed", "anchored"}
CompactionState ==
    [attempt: Attempt, model: CodexModel, history: Attempt \union {NoSummary}, bytes: Nat,
     phase: Phases, summary: Attempt \union {NoSummary}, updatedAt: 0 .. MaxMoments]

CompactorState ==
    [at: {"numbered", "compacting", "answering", "over"},
     session: Session, model: CodexModel, boundary: BOOLEAN,
     attempt: Attempt \union {0}, since: 0 .. MaxMoments,
     opens: Attempt \union {NoSummary}, replayed: Attempt \union {NoSummary}]

\* A request that has not been made yet.
Unmade == [at |-> "new"]

CompactionTypeOK ==
    /\ DOMAIN states \subseteq Session
    /\ \A s \in DOMAIN states : states[s] \in CompactionState
    /\ nextAttempt \in 1 .. MaxAttempts + 1 /\ moment \in 0 .. MaxMoments
    /\ compactor \in [Compactor -> CompactorState \union {Unmade}]
    /\ shown \in [Session -> SUBSET Attempt]

CompactionInit ==
    /\ states = <<>> /\ nextAttempt = 1 /\ moment = 0
    /\ compactor = [c \in Compactor |-> Unmade]
    /\ shown = [s \in Session |-> {}]

-----------------------------------------------------------------------------
(* The registry's operations, as functions of its value. *)

\* state_size: the names are one unit, and so is a summary.
StateSize(state) == 1 + state.bytes + IF state.phase = "anchored" THEN 1 ELSE 0

TotalBytes(reg) == SumFunctionOnSet([s \in DOMAIN reg |-> StateSize(reg[s])], DOMAIN reg)

Dropped(reg, session) == Restrict(reg, DOMAIN reg \ {session})

Placed(reg, session, state) ==
    [s \in DOMAIN reg \union {session} |-> IF s = session THEN state ELSE reg[s]]

Exceeds(reg) == Cardinality(DOMAIN reg) > MaxCompactions \/ TotalBytes(reg) > MaxRegistryBytes

\* evict_states: what has expired leaves, then the oldest (ties in any order)
\* until the registry is within its limits.
Evictions(reg, now) ==
    LET Fresh(s) == now <= reg[s].updatedAt + HistoryTTL
        live == {s \in DOMAIN reg : Fresh(s)}
        At(s) == reg[s].updatedAt
        OldestGo(kept) == \A g \in live \ kept, k \in kept : At(g) <= At(k)
        NoneToSpare(kept) ==
            live # kept => \E g \in live \ kept :
                               /\ \A e \in live \ kept : At(e) <= At(g)
                               /\ Exceeds(Restrict(reg, kept \union {g}))
    IN  {Restrict(reg, kept) : kept \in
            {k \in SUBSET live : ~Exceeds(Restrict(reg, k)) /\ OldestGo(k) /\ NoneToSpare(k)}}

IsAttempt(reg, session, attempt) ==
    session \in DOMAIN reg /\ reg[session].attempt = attempt

\* abort_compaction_attempt
WithoutAttempt(reg, session, attempt) ==
    IF IsAttempt(reg, session, attempt) THEN Dropped(reg, session) ELSE reg

\* The new state of a session is kept unless it is too large by itself.
Kept(reg, session, state, now) ==
    IF StateSize(state) > MaxHistoryBytes THEN {Dropped(reg, session)}
    ELSE Evictions(Placed(reg, session, state), now)

-----------------------------------------------------------------------------
(* Requests. *)

Step(c, at) == compactor' = [compactor EXCEPT ![c].at = at]

NewRequest(s, m, boundary) ==
    [at |-> "answering", session |-> s, model |-> m, boundary |-> boundary, attempt |-> 0,
     since |-> moment, opens |-> NoSummary, replayed |-> NoSummary]

\* A request to compact: begin_compaction takes its number and its time before
\* the lock.
Number(c) ==
    /\ compactor[c] = Unmade /\ nextAttempt <= MaxAttempts
    /\ \E s \in Session, m \in CodexModel :
          compactor' = [compactor EXCEPT ![c] = [NewRequest(s, m, TRUE) EXCEPT !.at = "numbered",
                                                                   !.attempt = nextAttempt]]
    /\ nextAttempt' = nextAttempt + 1
    /\ UNCHANGED <<states, moment, shown>>

Insert(c) ==
    LET me == compactor[c]
        new == [attempt |-> me.attempt, model |-> me.model, history |-> NoSummary, bytes |-> 0,
                phase |-> "preparing", summary |-> NoSummary, updatedAt |-> me.since]
    IN  /\ me.at = "numbered"
        /\ \E before \in Evictions(states, me.since) :
               states' \in Evictions(Placed(before, me.session, new), me.since)
        /\ Step(c, "compacting")
        /\ UNCHANGED <<nextAttempt, moment, shown>>

\* A mutant of MayStore: whichever attempt prepares the session takes the history.
MayStoreAny(reg, session, attempt) ==
    session \in DOMAIN reg /\ reg[session].phase = "preparing"

MayStore(reg, session, attempt) ==
    IsAttempt(reg, session, attempt) /\ reg[session].phase = "preparing"

\* The upstream compaction has answered: store_compaction.  The request goes on
\* with its attempt whether the history was taken or not.
StoreHistory(c) ==
    LET me == compactor[c]
    IN  /\ me.at = "compacting"
        /\ \E reg \in Evictions(states, moment), size \in HistorySizes :
               IF MayStore(reg, me.session, me.attempt)
               THEN states' \in Kept(reg, me.session,
                                     [reg[me.session] EXCEPT !.history = me.attempt, !.bytes = size,
                                                             !.phase = "unconfirmed",
                                                             !.updatedAt = moment], moment)
               ELSE states' = reg
        /\ Step(c, "answering")
        /\ UNCHANGED <<nextAttempt, moment, shown>>

\* It has failed: a usage limit ends the request, anything else is passed over.
CompactionFails(c) ==
    LET me == compactor[c]
    IN  /\ me.at = "compacting"
        /\ states' = WithoutAttempt(states, me.session, me.attempt)
        /\ Step(c, "over") \/ Step(c, "answering")
        /\ UNCHANGED <<nextAttempt, moment, shown>>

\* Another request of the session opens with a summary its client was shown, or
\* with none, and has more than that to say or not: apply_compaction_replay.
\* A replay that would be too large is a choice.
Replay(c) ==
    /\ compactor[c] = Unmade
    /\ \E s \in Session, m \in CodexModel, reg \in Evictions(states, moment), more, fits \in BOOLEAN :
       \E opens \in shown[s] \union {NoSummary} :
           LET found    == s \in DOMAIN reg /\ reg[s].phase = "anchored"
               matches  == reg[s].model = m /\ reg[s].summary = opens
               replays  == found /\ matches /\ more /\ fits
               discards == found /\ (~matches \/ (more /\ ~fits))
               request  == [NewRequest(s, m, FALSE) EXCEPT !.opens = opens]
           IN  /\ states' = IF discards THEN Dropped(reg, s)
                            ELSE IF replays THEN [reg EXCEPT ![s].updatedAt = moment]
                            ELSE reg
               /\ compactor' = [compactor EXCEPT ![c] =
                    IF replays THEN [request EXCEPT !.attempt = reg[s].attempt,
                                                    !.replayed = reg[s].history]
                    ELSE request]
    /\ UNCHANGED <<nextAttempt, moment, shown>>

Activates(reg, c) == IsAttempt(reg, compactor[c].session, compactor[c].attempt)

\* The answer of a compaction request ends well: activate_compaction, with a
\* summary that is long enough or not.  Either way the client has seen it.
Activate(c) ==
    LET me == compactor[c]
    IN  /\ me.at = "answering" /\ me.boundary
        /\ \/ states' = WithoutAttempt(states, me.session, me.attempt) /\ UNCHANGED shown
           \/ /\ \E reg \in Evictions(states, moment) :
                    LET state == reg[me.session]
                    IN  IF ~Activates(reg, c) THEN states' = reg
                        ELSE IF state.model # me.model \/ state.phase # "unconfirmed"
                        THEN states' = Dropped(reg, me.session)
                        ELSE states' \in Kept(reg, me.session,
                                              [state EXCEPT !.phase = "anchored",
                                                            !.summary = me.attempt,
                                                            !.updatedAt = moment], moment)
              /\ shown' = [shown EXCEPT ![me.session] = @ \union {me.attempt}]
        /\ Step(c, "over")
        /\ UNCHANGED <<nextAttempt, moment>>

\* Another request's answer ends well: nothing changes here.
Answered(c) ==
    /\ compactor[c].at = "answering" /\ ~compactor[c].boundary
    /\ Step(c, "over")
    /\ UNCHANGED <<states, nextAttempt, moment, shown>>

\* The answer fails, or its client leaves: the attempt is given up, and with it
\* the history that the request replayed.
AnswerFails(c) ==
    LET me == compactor[c]
    IN  /\ me.at = "answering"
        /\ states' = WithoutAttempt(states, me.session, me.attempt)
        /\ Step(c, "over")
        /\ UNCHANGED <<nextAttempt, moment, shown>>

\* The client leaves while the upstream compaction runs, or before a buffered
\* answer: no guard covers those awaits, and the state stays until another
\* compaction or the TTL takes it.
LeavesUnnoticed(c) ==
    /\ compactor[c].at \in {"compacting", "answering"}
    /\ Step(c, "over")
    /\ UNCHANGED <<states, nextAttempt, moment, shown>>

\* A request of the session is routed to another provider, or server compaction
\* has been switched off: clear_compaction.
Clear(s) ==
    /\ s \in DOMAIN states
    /\ states' = Dropped(states, s)
    /\ UNCHANGED <<nextAttempt, moment, compactor, shown>>

Elapse ==
    /\ moment < MaxMoments /\ moment' = moment + 1
    /\ UNCHANGED <<states, nextAttempt, compactor, shown>>

CompactionNext ==
    \/ \E c \in Compactor : \/ Number(c) \/ Insert(c) \/ StoreHistory(c) \/ CompactionFails(c)
                            \/ Replay(c) \/ Activate(c) \/ Answered(c) \/ AnswerFails(c)
                            \/ LeavesUnnoticed(c)
    \/ \E s \in Session : Clear(s)
    \/ Elapse

CompactionSpec == CompactionInit /\ [][CompactionNext]_compactionVars

-----------------------------------------------------------------------------
(* An anchored state is one attempt's work throughout: its history, its
   summary and its number come from the same compaction, whose summary its
   client was shown; a preparing one has neither, and an unconfirmed one the
   history only.  Attempts overlap, are numbered before they enter and may
   store, confirm or fail in any order. *)
OneAttemptsWork ==
    \A s \in DOMAIN states :
        LET state == states[s]
        IN  CASE state.phase = "preparing"   -> state.history = NoSummary
              [] state.phase = "unconfirmed" -> state.history = state.attempt
              [] state.phase = "anchored"    -> /\ state.history = state.attempt
                                                /\ state.summary = state.attempt
                                                /\ state.attempt \in shown[s]

(* What a request sends in place of its conversation's first message is the
   native history of exactly the compaction whose summary that message holds
   (apply_compaction_replay), never that of an overlapping one. *)
ReplaysItsOwnSummary ==
    \A c \in Compactor :
        compactor[c] # Unmade /\ compactor[c].replayed # NoSummary => compactor[c].replayed = compactor[c].opens

(* The registry stays within its limits in number and in bytes after every
   step, whatever the order of entries, and one state within its own. *)
CompactionsBounded ==
    /\ ~Exceeds(states)
    /\ \A s \in DOMAIN states : StateSize(states[s]) <= MaxHistoryBytes

CompactionSafety == CompactionTypeOK /\ OneAttemptsWork /\ ReplaysItsOwnSummary /\ CompactionsBounded
================================================================================
