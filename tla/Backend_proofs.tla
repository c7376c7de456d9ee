----------------------------- MODULE Backend_proofs -----------------------------
(***************************************************************************)
(* Safety of the states that the backend's requests share: the registry of   *)
(* server compactions, the store of credentials, and the HTTP server's       *)
(* monitor and session table.                                               *)
(***************************************************************************)
EXTENDS ServerCompaction, AuthManager, HttpServer, FiniteSums_proofs, SequenceTheorems

-----------------------------------------------------------------------------
(* The compaction registry as a value: what is true of each state, and of    *)
(* the registry by its limits.                                               *)

\* A state that holds one attempt's work, whose summary, when it is confirmed,
\* is among those that the session's client has seen.
Sound(state, seen) ==
    /\ state \in CompactionState
    /\ StateSize(state) <= MaxHistoryBytes
    /\ state.phase = "preparing" => state.history = NoSummary
    /\ state.phase = "unconfirmed" => state.history = state.attempt
    /\ state.phase = "anchored" => /\ state.history = state.attempt
                                   /\ state.summary = state.attempt
                                   /\ state.attempt \in seen

AllSound(reg, seen) ==
    /\ IsFiniteSet(DOMAIN reg) /\ DOMAIN reg \subseteq Session
    /\ \A s \in DOMAIN reg : Sound(reg[s], seen[s])

InLimits(reg, seen) == AllSound(reg, seen) /\ ~Exceeds(reg)

\* What the counter adds up.
Sizes(reg) == [s \in DOMAIN reg |-> StateSize(reg[s])]

LEMMA SizesAreNatural ==
    ASSUME NEW state \in CompactionState
    PROVE  StateSize(state) \in Nat
<1>1. state.bytes \in Nat
  BY DEF CompactionState
<1>2. QED
  BY <1>1 DEF StateSize

\* A registry that keeps some of its states stays within the limits.
LEMMA FewerAreWithin ==
    ASSUME NEW reg, NEW seen, AllSound(reg, seen), NEW kept \in SUBSET DOMAIN reg
    PROVE  /\ AllSound(Restrict(reg, kept), seen)
           /\ ~Exceeds(reg) => ~Exceeds(Restrict(reg, kept))
<1> DEFINE D    == DOMAIN reg
           left == Restrict(reg, kept)
<1>1. DOMAIN left = kept /\ \A s \in kept : left[s] = reg[s]
  BY DEF Restrict
<1> HIDE DEF left
<1>2. IsFiniteSet(D) /\ IsFiniteSet(kept) /\ IsFiniteSet(D \ kept)
  BY FS_Subset DEF AllSound
<1>3. AllSound(left, seen)
  BY <1>1, <1>2 DEF AllSound
<1>4. \A s \in D : Sizes(reg)[s] \in Nat
  BY SizesAreNatural DEF AllSound, Sound, Sizes
<1>5. \A s \in kept : Sizes(reg)[s] = Sizes(left)[s]
  BY <1>1 DEF Sizes
<1>6. /\ TotalBytes(reg) = SumFunctionOnSet(Sizes(reg), D)
      /\ TotalBytes(left) = SumFunctionOnSet(Sizes(left), kept)
  BY <1>1, Zenon DEF TotalBytes, Sizes
<1>7. TotalBytes(left) = SumFunctionOnSet(Sizes(reg), kept)
  BY <1>2, <1>5, <1>6, SumSame
<1>8. TotalBytes(reg) = TotalBytes(left) + SumFunctionOnSet(Sizes(reg), D \ kept)
  BY <1>2, <1>4, <1>6, <1>7, SumSplits
<1>9. TotalBytes(left) \in Nat /\ SumFunctionOnSet(Sizes(reg), D \ kept) \in Nat
  BY <1>2, <1>4, <1>7, SumType
<1>10. /\ Cardinality(kept) \in Nat /\ Cardinality(D) \in Nat
       /\ Cardinality(kept) <= Cardinality(D)
  BY <1>2, FS_Subset, FS_CardinalityType
<1>11. ~Exceeds(reg) => ~Exceeds(left)
  BY <1>1, <1>8, <1>9, <1>10, ServerCompactionAssumption DEF Exceeds
<1>12. QED
  BY <1>3, <1>11 DEF left

\* evict_states leaves a registry within its limits.
LEMMA EvictionIsWithin ==
    ASSUME NEW reg, NEW seen, AllSound(reg, seen), NEW now, NEW left \in Evictions(reg, now)
    PROVE  InLimits(left, seen)
<1>1. PICK kept \in SUBSET DOMAIN reg : left = Restrict(reg, kept) /\ ~Exceeds(Restrict(reg, kept))
  BY Zenon DEF Evictions
<1>2. QED
  BY <1>1, FewerAreWithin DEF InLimits

LEMMA DroppedIsWithin ==
    ASSUME NEW reg, NEW seen, InLimits(reg, seen), NEW s
    PROVE  InLimits(Dropped(reg, s), seen)
<1>1. DOMAIN reg \ {s} \in SUBSET DOMAIN reg
  OBVIOUS
<1>2. QED
  BY <1>1, FewerAreWithin DEF InLimits, Dropped

LEMMA WithoutAttemptIsWithin ==
    ASSUME NEW reg, NEW seen, InLimits(reg, seen), NEW s, NEW attempt
    PROVE  InLimits(WithoutAttempt(reg, s, attempt), seen)
BY DroppedIsWithin DEF WithoutAttempt

LEMMA PlacedIsSound ==
    ASSUME NEW reg, NEW seen, AllSound(reg, seen), NEW s \in Session, NEW state,
           Sound(state, seen[s])
    PROVE  AllSound(Placed(reg, s, state), seen)
<1>1. DOMAIN Placed(reg, s, state) = DOMAIN reg \union {s}
  BY DEF Placed
<1>2. IsFiniteSet(DOMAIN reg \union {s})
  BY FS_AddElement DEF AllSound
<1>3. \A o \in DOMAIN reg \union {s} :
          Placed(reg, s, state)[o] = IF o = s THEN state ELSE reg[o]
  BY DEF Placed
<1>4. QED
  BY <1>1, <1>2, <1>3 DEF AllSound

\* The new state of a session is kept with the others, or it leaves.
LEMMA KeptIsWithin ==
    ASSUME NEW reg, NEW seen, InLimits(reg, seen), NEW s \in Session, NEW state,
           state \in CompactionState,
           StateSize(state) <= MaxHistoryBytes => Sound(state, seen[s]),
           NEW now, NEW left \in Kept(reg, s, state, now)
    PROVE  InLimits(left, seen)
<1>1. CASE StateSize(state) > MaxHistoryBytes
  BY <1>1, DroppedIsWithin DEF Kept
<1>2. CASE ~(StateSize(state) > MaxHistoryBytes)
  <2>1. Sound(state, seen[s])
    BY <1>2, SizesAreNatural, ServerCompactionAssumption
  <2>2. AllSound(Placed(reg, s, state), seen)
    BY <2>1, PlacedIsSound DEF InLimits
  <2>3. left \in Evictions(Placed(reg, s, state), now)
    BY <1>2 DEF Kept
  <2>4. QED
    BY <2>2, <2>3, EvictionIsWithin
<1>3. QED
  BY <1>1, <1>2

\* A replay makes its state younger and changes no size.
LEMMA TouchedIsWithin ==
    ASSUME NEW reg, NEW seen, InLimits(reg, seen), NEW s \in DOMAIN reg, NEW now \in 0 .. MaxMoments
    PROVE  InLimits([reg EXCEPT ![s].updatedAt = now], seen)
<1> DEFINE D   == DOMAIN reg
           new == [reg EXCEPT ![s].updatedAt = now]
           touched == [reg[s] EXCEPT !.updatedAt = now]
<1>1. DOMAIN new = D /\ new[s] = touched /\ \A o \in D \ {s} : new[o] = reg[o]
  OBVIOUS
<1>2. Sound(reg[s], seen[s]) /\ IsFiniteSet(D)
  BY DEF InLimits, AllSound
<1>3. Sound(touched, seen[s]) /\ StateSize(touched) = StateSize(reg[s])
  BY <1>2 DEF Sound, StateSize, CompactionState
<1> HIDE DEF new, touched
<1>4. AllSound(new, seen)
  BY <1>1, <1>3 DEF InLimits, AllSound
<1>5. \A o \in D : Sizes(new)[o] = Sizes(reg)[o]
  BY <1>1, <1>3 DEF Sizes
<1>6. /\ TotalBytes(reg) = SumFunctionOnSet(Sizes(reg), D)
      /\ TotalBytes(new) = SumFunctionOnSet(Sizes(new), D)
  BY <1>1, Zenon DEF TotalBytes, Sizes
<1>7. TotalBytes(new) = TotalBytes(reg)
  BY <1>2, <1>5, <1>6, SumSame
<1>8. QED
  BY <1>1, <1>4, <1>7 DEF InLimits, Exceeds, new

\* A summary that one more client has seen takes nothing away.
LEMMA SeenGrows ==
    ASSUME NEW reg, NEW seen, InLimits(reg, seen), NEW more,
           \A s \in Session : seen[s] \subseteq more[s]
    PROVE  InLimits(reg, more)
<1>1. ASSUME NEW s \in DOMAIN reg PROVE Sound(reg[s], more[s])
  <2>1. Sound(reg[s], seen[s]) /\ s \in Session
    BY DEF InLimits, AllSound
  <2>2. QED
    BY <2>1 DEF Sound
<1>2. QED
  BY <1>1 DEF InLimits, AllSound

-----------------------------------------------------------------------------
(* The requests that compact, confirm and replay.                            *)

RequestSound(request) ==
    /\ request \in CompactorState
    /\ request.at \in {"numbered", "compacting"} => request.boundary
    /\ request.boundary => request.attempt \in Attempt
    /\ request.replayed # NoSummary => request.replayed = request.opens

RequestsSound ==
    /\ compactor \in [Compactor -> CompactorState \union {Unmade}]
    /\ \A c \in Compactor : compactor[c] # Unmade => RequestSound(compactor[c])

Numbers ==
    /\ nextAttempt \in 1 .. MaxAttempts + 1 /\ moment \in 0 .. MaxMoments
    /\ shown \in [Session -> SUBSET Attempt]

\* What every step of compaction preserves.  Beyond what CompactionSafety says,
\* a request that enters or stores an attempt has one, and the registry's
\* sessions are finite in number, so that its bytes add up.
CompactionInv == Numbers /\ RequestsSound /\ InLimits(states, shown)

LEMMA CompactionInvIsSafe == CompactionInv => CompactionSafety
<1> SUFFICES ASSUME CompactionInv PROVE CompactionSafety
  OBVIOUS
<1>1. \A s \in DOMAIN states : Sound(states[s], shown[s])
  BY DEF CompactionInv, InLimits, AllSound
<1>2. CompactionTypeOK
  BY <1>1 DEF CompactionInv, Numbers, RequestsSound, InLimits, AllSound, Sound, CompactionTypeOK
<1>3. OneAttemptsWork
  <2>1. ASSUME NEW s \in DOMAIN states
        PROVE  /\ states[s].phase \in Phases
               /\ states[s].phase = "preparing" => states[s].history = NoSummary
               /\ states[s].phase = "unconfirmed" => states[s].history = states[s].attempt
               /\ states[s].phase = "anchored" => /\ states[s].history = states[s].attempt
                                                  /\ states[s].summary = states[s].attempt
                                                  /\ states[s].attempt \in shown[s]
    BY <1>1 DEF Sound, CompactionState
  <2>2. QED
    BY <2>1 DEF OneAttemptsWork, Phases
<1>4. ReplaysItsOwnSummary
  BY DEF CompactionInv, RequestsSound, RequestSound, ReplaysItsOwnSummary
<1>5. CompactionsBounded
  BY <1>1 DEF CompactionInv, InLimits, Sound, CompactionsBounded
<1>6. QED
  BY <1>2, <1>3, <1>4, <1>5 DEF CompactionSafety

LEMMA CompactionInvInit == CompactionInit => CompactionInv
<1> SUFFICES ASSUME CompactionInit PROVE CompactionInv
  OBVIOUS
<1>1. DOMAIN states = {}
  BY DEF CompactionInit
<1>2. IsFiniteSet({}) /\ Cardinality({}) = 0
  BY FS_EmptySet
<1>3. TotalBytes(states) = 0
  BY <1>1, <1>2, SumUnfolds DEF TotalBytes
<1>4. InLimits(states, shown)
  BY <1>1, <1>2, <1>3, ServerCompactionAssumption DEF InLimits, AllSound, Exceeds
<1>5. Numbers
  BY ServerCompactionAssumption DEF CompactionInit, Numbers
<1>6. RequestsSound
  BY DEF CompactionInit, RequestsSound
<1>7. QED
  BY <1>4, <1>5, <1>6 DEF CompactionInv

\* A request goes on to a place where its number is not needed, or is there.
LEMMA StepIsSound ==
    ASSUME RequestsSound, NEW c \in Compactor, compactor[c] # Unmade,
           NEW at \in {"compacting", "answering", "over"},
           at = "compacting" => compactor[c].boundary, Step(c, at)
    PROVE  RequestsSound'
<1>1. RequestSound(compactor[c])
  BY DEF RequestsSound
<1>2. RequestSound([compactor[c] EXCEPT !.at = at])
  BY <1>1 DEF RequestSound, CompactorState
<1>3. compactor' = [compactor EXCEPT ![c] = [compactor[c] EXCEPT !.at = at]]
  BY DEF Step
<1>4. [compactor[c] EXCEPT !.at = at] \in CompactorState
  BY <1>2 DEF RequestSound
<1>5. QED
  BY <1>2, <1>3, <1>4 DEF RequestsSound

\* A request that is under way has been made.
LEMMA MadeBefore ==
    ASSUME RequestsSound, NEW c \in Compactor,
           compactor[c].at \in {"numbered", "compacting", "answering"}
    PROVE  compactor[c] # Unmade /\ RequestSound(compactor[c])
BY DEF RequestsSound, Unmade

LEMMA NewRequestIsSound ==
    ASSUME NEW c \in Compactor, RequestsSound, NEW request, RequestSound(request),
           compactor' = [compactor EXCEPT ![c] = request]
    PROVE  RequestsSound'
BY DEF RequestsSound, RequestSound

LEMMA NumberKeeps ==
    ASSUME CompactionInv, NEW c \in Compactor, Number(c)
    PROVE  CompactionInv'
<1>1. InLimits(states', shown')
  BY DEF CompactionInv, Number
<1>2. Numbers'
  BY ServerCompactionAssumption DEF CompactionInv, Number, Numbers
<1>3. PICK s \in Session, m \in CodexModel :
          compactor' = [compactor EXCEPT ![c] = [NewRequest(s, m, TRUE) EXCEPT !.at = "numbered",
                                                                   !.attempt = nextAttempt]]
  BY DEF Number
<1> DEFINE request == [NewRequest(s, m, TRUE) EXCEPT !.at = "numbered", !.attempt = nextAttempt]
<1>4. nextAttempt \in Attempt /\ moment \in 0 .. MaxMoments
  BY ServerCompactionAssumption DEF CompactionInv, Number, Numbers, Attempt
<1>5. RequestSound(request)
  BY <1>4 DEF NewRequest, RequestSound, CompactorState
<1>6. RequestsSound'
  <2> HIDE DEF request
  <2>1. compactor' = [compactor EXCEPT ![c] = request]
    BY <1>3 DEF request
  <2>2. QED
    BY <1>5, <2>1, NewRequestIsSound DEF CompactionInv
<1>7. QED
  BY <1>1, <1>2, <1>6 DEF CompactionInv

LEMMA InsertKeeps ==
    ASSUME CompactionInv, NEW c \in Compactor, Insert(c)
    PROVE  CompactionInv'
<1> DEFINE me  == compactor[c]
           new == [attempt |-> me.attempt, model |-> me.model, history |-> NoSummary, bytes |-> 0,
                   phase |-> "preparing", summary |-> NoSummary, updatedAt |-> me.since]
<1>1. PICK before \in Evictions(states, me.since) :
          states' \in Evictions(Placed(before, me.session, new), me.since)
  BY Zenon DEF Insert
<1>2. me.at = "numbered" /\ Step(c, "compacting") /\ UNCHANGED <<nextAttempt, moment, shown>>
  BY Zenon DEF Insert
<1>3. compactor[c] # Unmade /\ RequestSound(me)
  BY <1>2, MadeBefore DEF CompactionInv
<1>4. me.boundary /\ me.attempt \in Attempt /\ me \in CompactorState
  BY <1>2, <1>3 DEF RequestSound
<1>5. Sound(new, shown[me.session])
  BY <1>4, ServerCompactionAssumption DEF Sound, StateSize, CompactionState, CompactorState, Phases
<1>6. InLimits(before, shown)
  BY <1>1, EvictionIsWithin DEF CompactionInv, InLimits
<1>7. me.session \in Session
  BY <1>4 DEF CompactorState
<1> HIDE DEF new
<1>8. AllSound(Placed(before, me.session, new), shown)
  BY <1>5, <1>6, <1>7, PlacedIsSound DEF InLimits
<1>9. InLimits(states', shown)
  BY <1>1, <1>8, EvictionIsWithin
<1>10. RequestsSound'
  BY <1>2, <1>3, <1>4, StepIsSound DEF CompactionInv
<1>11. QED
  BY <1>2, <1>9, <1>10 DEF CompactionInv, Numbers

LEMMA StoreHistoryKeeps ==
    ASSUME CompactionInv, NEW c \in Compactor, StoreHistory(c)
    PROVE  CompactionInv'
<1> DEFINE me == compactor[c]
           Filled(reg, size) == [reg[me.session] EXCEPT !.history = me.attempt, !.bytes = size,
                                     !.phase = "unconfirmed", !.updatedAt = moment]
<1>1. PICK reg \in Evictions(states, moment), size \in HistorySizes :
          IF MayStore(reg, me.session, me.attempt)
          THEN states' \in Kept(reg, me.session, Filled(reg, size), moment)
          ELSE states' = reg
  BY Zenon DEF StoreHistory
<1>2. me.at = "compacting" /\ Step(c, "answering") /\ UNCHANGED <<nextAttempt, moment, shown>>
  BY Zenon DEF StoreHistory
<1>3. compactor[c] # Unmade /\ RequestSound(me)
  BY <1>2, MadeBefore DEF CompactionInv
<1>4. /\ me.attempt \in Attempt /\ me.session \in Session
      /\ moment \in 0 .. MaxMoments /\ size \in Nat
  BY <1>2, <1>3, ServerCompactionAssumption
     DEF RequestSound, CompactorState, CompactionInv, Numbers
<1>5. InLimits(reg, shown)
  BY <1>1, EvictionIsWithin DEF CompactionInv, InLimits
<1>6. ASSUME MayStore(reg, me.session, me.attempt) PROVE InLimits(states', shown)
  <2> DEFINE old == reg[me.session]
             new == Filled(reg, size)
  <2>1. old.attempt = me.attempt /\ Sound(old, shown[me.session])
    BY <1>5, <1>6 DEF MayStore, IsAttempt, InLimits, AllSound
  <2>2. new \in CompactionState /\ new.phase = "unconfirmed" /\ new.history = new.attempt
    BY <1>4, <2>1 DEF Sound, CompactionState, Phases
  <2> HIDE DEF new
  <2>3. StateSize(new) <= MaxHistoryBytes => Sound(new, shown[me.session])
    BY <2>2 DEF Sound
  <2>4. states' \in Kept(reg, me.session, new, moment)
    BY <1>1, <1>6 DEF new
  <2>5. QED
    BY <1>4, <1>5, <2>2, <2>3, <2>4, KeptIsWithin
<1>7. InLimits(states', shown)
  BY <1>1, <1>5, <1>6
<1>8. RequestsSound'
  BY <1>2, <1>3, StepIsSound DEF CompactionInv
<1>9. QED
  BY <1>2, <1>7, <1>8 DEF CompactionInv, Numbers

LEMMA ReplayKeeps ==
    ASSUME CompactionInv, NEW c \in Compactor, Replay(c)
    PROVE  CompactionInv'
<1>1. UNCHANGED <<nextAttempt, moment, shown>>
  BY DEF Replay
<1> DEFINE Did(s, m, reg, more, fits, opens) ==
           LET found    == s \in DOMAIN reg /\ reg[s].phase = "anchored"
               matches  == reg[s].model = m /\ reg[s].summary = opens
               replays  == found /\ matches /\ more /\ fits
               discards == found /\ (~matches \/ (more /\ ~fits))
               request  == [NewRequest(s, m, FALSE) EXCEPT !.opens = opens]
           IN  /\ states' = IF discards THEN Dropped(reg, s)
                            ELSE IF replays THEN [reg EXCEPT ![s].updatedAt = moment]
                            ELSE reg
               /\ compactor' = [compactor EXCEPT ![c] =
                    IF replays THEN [request EXCEPT !.attempt = reg[s].attempt,
                                                    !.replayed = reg[s].history]
                    ELSE request]
<1>2. \E s \in Session, m \in CodexModel, reg \in Evictions(states, moment), more, fits \in BOOLEAN :
         \E opens \in shown[s] \union {NoSummary} : Did(s, m, reg, more, fits, opens)
  BY Zenon DEF Replay
<1> HIDE DEF Did
<1>3. PICK s \in Session, m \in CodexModel, reg \in Evictions(states, moment),
           more \in BOOLEAN, fits \in BOOLEAN :
         \E opens \in shown[s] \union {NoSummary} : Did(s, m, reg, more, fits, opens)
  BY <1>2
<1>4. PICK opens \in shown[s] \union {NoSummary} : Did(s, m, reg, more, fits, opens)
  BY <1>3
<1> DEFINE replays == /\ s \in DOMAIN reg /\ reg[s].phase = "anchored"
                      /\ reg[s].model = m /\ reg[s].summary = opens /\ more /\ fits
           request == [NewRequest(s, m, FALSE) EXCEPT !.opens = opens]
           replay  == [request EXCEPT !.attempt = reg[s].attempt, !.replayed = reg[s].history]
<1>5. /\ \/ states' = Dropped(reg, s)
         \/ s \in DOMAIN reg /\ states' = [reg EXCEPT ![s].updatedAt = moment]
         \/ states' = reg
      /\ compactor' = [compactor EXCEPT ![c] = IF replays THEN replay ELSE request]
  BY <1>4, Zenon DEF Did
<1>6. moment \in 0 .. MaxMoments /\ opens \in Attempt \union {NoSummary}
  BY DEF CompactionInv, Numbers
<1>7. InLimits(reg, shown)
  BY EvictionIsWithin DEF CompactionInv, InLimits
<1>8. InLimits(states', shown)
  BY <1>5, <1>6, <1>7, DroppedIsWithin, TouchedIsWithin
<1>9. RequestSound(request)
  BY <1>6, ServerCompactionAssumption DEF NewRequest, RequestSound, CompactorState
<1>10. ASSUME replays PROVE RequestSound(replay)
  <2>1. /\ reg[s].attempt \in Attempt /\ reg[s].history = opens
        /\ reg[s].history = reg[s].attempt
    BY <1>7, <1>10 DEF InLimits, AllSound, Sound, CompactionState
  <2>2. QED
    BY <1>6, <2>1, ServerCompactionAssumption DEF NewRequest, RequestSound, CompactorState
<1> HIDE DEF request, replay, replays
<1>11. RequestsSound'
  <2>1. RequestSound(IF replays THEN replay ELSE request)
    BY <1>9, <1>10
  <2>2. QED
    BY <1>5, <2>1, NewRequestIsSound DEF CompactionInv
<1>12. QED
  BY <1>1, <1>8, <1>11 DEF CompactionInv, Numbers

LEMMA ActivateKeeps ==
    ASSUME CompactionInv, NEW c \in Compactor, Activate(c)
    PROVE  CompactionInv'
<1> DEFINE me == compactor[c]
           Confirmed(state) == [state EXCEPT !.phase = "anchored", !.summary = me.attempt,
                                             !.updatedAt = moment]
           seen == [shown EXCEPT ![me.session] = @ \union {me.attempt}]
<1>1. /\ me.at = "answering" /\ me.boundary /\ Step(c, "over")
      /\ UNCHANGED <<nextAttempt, moment>>
  BY Zenon DEF Activate
<1>2. compactor[c] # Unmade /\ RequestSound(me)
  BY <1>1, MadeBefore DEF CompactionInv
<1>3. me.attempt \in Attempt /\ me.session \in Session /\ moment \in 0 .. MaxMoments
  BY <1>1, <1>2 DEF RequestSound, CompactorState, CompactionInv, Numbers
<1>4. /\ seen \in [Session -> SUBSET Attempt] /\ me.attempt \in seen[me.session]
      /\ \A s \in Session : shown[s] \subseteq seen[s]
  BY <1>3 DEF CompactionInv, Numbers
<1> HIDE DEF seen
<1>5. RequestsSound'
  BY <1>1, <1>2, StepIsSound DEF CompactionInv
<1>6. \/ states' = WithoutAttempt(states, me.session, me.attempt) /\ UNCHANGED shown
      \/ /\ \E reg \in Evictions(states, moment) :
               LET state == reg[me.session]
               IN  IF ~Activates(reg, c) THEN states' = reg
                   ELSE IF state.model # me.model \/ state.phase # "unconfirmed"
                   THEN states' = Dropped(reg, me.session)
                   ELSE states' \in Kept(reg, me.session, Confirmed(state), moment)
         /\ shown' = seen
  BY Zenon DEF Activate, seen
<1>7. CASE states' = WithoutAttempt(states, me.session, me.attempt) /\ UNCHANGED shown
  <2>1. InLimits(states', shown')
    BY <1>7, WithoutAttemptIsWithin DEF CompactionInv
  <2>2. QED
    BY <1>1, <1>5, <1>7, <2>1 DEF CompactionInv, Numbers
<1>8. ASSUME NEW reg \in Evictions(states, moment),
             IF ~Activates(reg, c) THEN states' = reg
             ELSE IF reg[me.session].model # me.model \/ reg[me.session].phase # "unconfirmed"
             THEN states' = Dropped(reg, me.session)
             ELSE states' \in Kept(reg, me.session, Confirmed(reg[me.session]), moment),
             shown' = seen
      PROVE  CompactionInv'
  <2> DEFINE old == reg[me.session]
             new == Confirmed(old)
  <2>1. InLimits(reg, seen)
    <3>1. InLimits(reg, shown)
      BY EvictionIsWithin DEF CompactionInv, InLimits
    <3>2. QED
      BY <1>4, <3>1, SeenGrows
  <2>2. ASSUME Activates(reg, c), old.phase = "unconfirmed", old.model = me.model
        PROVE  InLimits(states', seen)
    <3>1. old.attempt = me.attempt /\ Sound(old, seen[me.session])
      BY <2>1, <2>2 DEF Activates, IsAttempt, InLimits, AllSound
    <3>2. /\ new \in CompactionState /\ new.phase = "anchored" /\ new.history = new.attempt
          /\ new.summary = new.attempt /\ new.attempt \in seen[me.session]
      BY <1>3, <1>4, <2>2, <3>1 DEF Sound, CompactionState, Phases
    <3>3. states' \in Kept(reg, me.session, new, moment)
      BY <1>8, <2>2
    <3> HIDE DEF new, old
    <3>4. StateSize(new) <= MaxHistoryBytes => Sound(new, seen[me.session])
      BY <3>2 DEF Sound
    <3>5. QED
      BY <1>3, <2>1, <3>2, <3>3, <3>4, KeptIsWithin
  <2>3. InLimits(states', seen)
    BY <1>8, <2>1, <2>2, DroppedIsWithin
  <2>4. QED
    BY <1>1, <1>4, <1>5, <1>8, <2>3 DEF CompactionInv, Numbers
<1>9. QED
  BY <1>6, <1>7, <1>8

\* The steps that take at most one state out, and may end a request.
LEMMA LeavingKeeps ==
    ASSUME CompactionInv, UNCHANGED <<nextAttempt, moment, shown>>, RequestsSound',
           \/ UNCHANGED states
           \/ \E s \in Session, a \in Attempt \union {0} : states' = WithoutAttempt(states, s, a)
           \/ \E s \in Session : states' = Dropped(states, s)
    PROVE  CompactionInv'
<1>1. InLimits(states', shown)
  BY WithoutAttemptIsWithin, DroppedIsWithin DEF CompactionInv
<1>2. QED
  BY <1>1 DEF CompactionInv, Numbers

LEMMA EndsKeep ==
    ASSUME CompactionInv, NEW c \in Compactor,
           CompactionFails(c) \/ Answered(c) \/ AnswerFails(c) \/ LeavesUnnoticed(c)
    PROVE  CompactionInv'
<1> DEFINE me == compactor[c]
<1>1. me.at \in {"compacting", "answering"} /\ UNCHANGED <<nextAttempt, moment, shown>>
  BY DEF CompactionFails, Answered, AnswerFails, LeavesUnnoticed
<1>2. \/ UNCHANGED states
      \/ states' = WithoutAttempt(states, me.session, me.attempt)
  BY DEF CompactionFails, Answered, AnswerFails, LeavesUnnoticed
<1>3. Step(c, "over") \/ Step(c, "answering")
  BY DEF CompactionFails, Answered, AnswerFails, LeavesUnnoticed
<1>4. compactor[c] # Unmade /\ RequestSound(me)
  BY <1>1, MadeBefore DEF CompactionInv
<1>5. RequestsSound'
  BY <1>3, <1>4, StepIsSound DEF CompactionInv
<1>6. me.session \in Session /\ me.attempt \in Attempt \union {0}
  BY <1>4 DEF RequestSound, CompactorState
<1>7. QED
  BY <1>1, <1>2, <1>5, <1>6, LeavingKeeps

LEMMA CompactionInvKept == CompactionInv /\ [CompactionNext]_compactionVars => CompactionInv'
<1> SUFFICES ASSUME CompactionInv, [CompactionNext]_compactionVars PROVE CompactionInv'
  OBVIOUS
<1>1. ASSUME NEW s \in Session, Clear(s) PROVE CompactionInv'
  <2>1. RequestsSound'
    BY <1>1 DEF Clear, CompactionInv, RequestsSound
  <2>2. QED
    BY <1>1, <2>1, LeavingKeeps DEF Clear
<1>2. CASE Elapse
  <2>1. Numbers'
    BY <1>2, ServerCompactionAssumption DEF Elapse, CompactionInv, Numbers
  <2>2. QED
    BY <1>2, <2>1 DEF Elapse, CompactionInv, RequestsSound
<1>3. CASE UNCHANGED compactionVars
  BY <1>3 DEF compactionVars, CompactionInv, RequestsSound, Numbers
<1>4. QED
  BY <1>1, <1>2, <1>3, NumberKeeps, InsertKeeps, StoreHistoryKeeps, ReplayKeeps, ActivateKeeps,
     EndsKeep DEF CompactionNext

\* In every behaviour of the compaction registry, however the requests of a
\* session overlap: a confirmed state is one attempt's work whose summary its
\* client was shown, a request replays exactly the history that belongs to the
\* summary it opens with, and the registry and each state stay within their
\* limits in number and in bytes.
THEOREM CompactionsAreSound == CompactionSpec => []CompactionSafety
<1>1. CompactionInit => CompactionInv
  BY CompactionInvInit
<1>2. CompactionInv /\ [CompactionNext]_compactionVars => CompactionInv'
  BY CompactionInvKept
<1>3. CompactionInv => CompactionSafety
  BY CompactionInvIsSafe
<1>4. QED
  BY <1>1, <1>2, <1>3, PTL DEF CompactionSpec

-----------------------------------------------------------------------------
(* The credentials.  What AuthSafety says is not inductive: it needs that   *)
(* the refresh lock has one holder in each process, that a credential that   *)
(* is offered to be written is known to nobody else, and, as long as nothing *)
(* else is to blame, where a credential is in hand when the store's is not   *)
(* honoured.                                                                 *)

Known       == 1 .. issued
KnownOrNone == Known \union {NoCredential}
LockHeld    == {"refreshing", "answered", "clearing", "legacy"}

\* Nobody has a credential that has not been issued, and nothing has ended it.
AllIssued ==
    /\ {file, legacy} \subseteq KnownOrNone
    /\ \A n \in Credential : n > issued => spent[n] = Nobody
    /\ \A c \in Caller :
          /\ {caller[c].credential, caller[c].rejected, caller[c].offered} \subseteq KnownOrNone
          /\ caller[c].at \in {"using", "refreshing", "answered"} => caller[c].credential \in Known
          /\ caller[c].at = "answered" => caller[c].answer # "none"
          /\ Offered(c) => caller[c].offered \in Known

OneHolder ==
    \A c, d \in Caller :
        caller[c].at \in LockHeld /\ caller[d].at \in LockHeld /\ Home[c] = Home[d] => c = d

\* A new credential is nowhere but with the request that it was given to.
OffersAreNew ==
    \A c \in Caller : Offered(c) =>
        /\ caller[c].offered \notin {file, legacy, caller[c].rejected}
        /\ \A d \in Caller :
              /\ caller[d].at = "refreshing" => caller[d].credential # caller[c].offered
              /\ Offered(d) /\ d # c => caller[d].offered # caller[c].offered

\* A request refreshes the very credential that was refused, if one was, and
\* a refusal is of a credential that the service does not honour.
Rejections ==
    \A c \in Caller :
        /\ caller[c].at = "idle" => caller[c].rejected = NoCredential
        /\ caller[c].at = "using" /\ caller[c].rejected # NoCredential
              => caller[c].credential # caller[c].rejected
        /\ caller[c].at \in {"refreshing", "answered"} /\ caller[c].rejected # NoCredential
              => caller[c].credential = caller[c].rejected
        /\ caller[c].at = "answered" /\ caller[c].answer = "401" => ~Honoured(caller[c].credential)

InHand == \E c \in Caller : Offered(c)

Unblamed ==
    ~blame =>
        /\ \A c \in Caller :
              /\ Offered(c) => spent[caller[c].offered] = Nobody
              /\ caller[c].at = "clearing" => InHand
              /\ caller[c].at = "legacy" => InHand \/ Honoured(file)
              /\ \/ caller[c].at = "refreshing"
                 \/ caller[c].at = "answered" /\ caller[c].answer = "401"
                 => spent[caller[c].credential] # Home[c]
        /\ InHand \/ Honoured(Loaded)
        /\ Loaded # NoCredential /\ spent[Loaded] \in Process
              => \E c \in Caller : Offered(c) /\ Home[c] = spent[Loaded]

AuthInv == AuthTypeOK /\ AllIssued /\ OneHolder /\ OffersAreNew /\ Rejections /\ Unblamed

LEMMA AuthInvIsSafe == AuthInv => AuthSafety
<1> SUFFICES ASSUME AuthInv PROVE AuthSafety
  OBVIOUS
<1>1. ASSUME NEW c \in Caller, Offered(c), ~blame PROVE Honoured(caller[c].offered)
  <2>1. caller[c].offered \in 1 .. issued /\ issued \in Nat
    BY <1>1, AuthManagerAssumption DEF AuthInv, AuthTypeOK, AllIssued, Known, Credential
  <2>2. spent[caller[c].offered] = Nobody
    BY <1>1 DEF AuthInv, Unblamed
  <2>3. QED
    BY <2>1, <2>2, AuthManagerAssumption DEF Honoured
<1>2. StaysSignedIn
  BY <1>1 DEF AuthInv, Unblamed, InHand, StaysSignedIn
<1>3. NeverReusesRejected
  BY DEF AuthInv, Rejections, NeverReusesRejected
<1>4. RefreshedOnce
  BY DEF AuthInv, Unblamed, RefreshedOnce
<1>5. QED
  BY <1>2, <1>3, <1>4 DEF AuthInv, AuthSafety

LEMMA AuthInvInit == AuthInit => AuthInv
<1> SUFFICES ASSUME AuthInit PROVE AuthInv
  OBVIOUS
<1>1. \A c \in Caller : caller[c] = Nothing("idle") /\ Nothing("idle") \in Called
  BY DEF AuthInit, Nothing, Called, Stored
<1>2. \A c \in Caller : /\ caller[c].at = "idle" /\ caller[c].answer = "none"
                        /\ caller[c].credential = NoCredential
                        /\ caller[c].rejected = NoCredential /\ caller[c].offered = NoCredential
  BY <1>1 DEF Nothing
<1>3. AuthTypeOK
  <2>1. 1 \in Credential /\ 0 \in 0 .. MaxRevoked
    BY AuthManagerAssumption DEF Credential
  <2>2. caller \in [Caller -> Called]
    BY <1>1 DEF AuthInit
  <2>3. QED
    BY <2>1, <2>2 DEF AuthInit, AuthTypeOK, Stored
<1>4. AllIssued
  BY <1>2 DEF AuthInit, AllIssued, KnownOrNone, Known, Offered
<1>5. OneHolder /\ OffersAreNew /\ Rejections
  BY <1>2 DEF OneHolder, OffersAreNew, Rejections, Offered, LockHeld
<1>6. Loaded = 1 /\ spent[1] = Nobody /\ Honoured(Loaded)
  BY AuthManagerAssumption DEF AuthInit, Loaded, Honoured, Credential
<1>7. Unblamed
  <2>1. spent[Loaded] \notin Process
    BY <1>6, AuthManagerAssumption
  <2>2. QED
    BY <1>2, <1>6, <2>1 DEF Unblamed, Offered
<1>8. QED
  BY <1>3, <1>4, <1>5, <1>7 DEF AuthInv

-----------------------------------------------------------------------------
(* Steps of one request.                                                     *)

\* What the request c is after a step in which no other request moves.
Becomes(c, at, credential, rejected, answer, offered) ==
    /\ caller' \in [Caller -> Called]
    /\ caller'[c].at = at /\ caller'[c].answer = answer
    /\ caller'[c].credential = credential /\ caller'[c].rejected = rejected
    /\ caller'[c].offered = offered
    /\ \A d \in Caller : d # c => caller'[d] = caller[d]

LEMMA GoesBecomes ==
    ASSUME AuthTypeOK, NEW c \in Caller, NEW at, Goes(c, at),
           at \in {"waiting", "clearing", "legacy"}
    PROVE  Becomes(c, at, caller[c].credential, caller[c].rejected, caller[c].answer,
                   caller[c].offered)
BY DEF AuthTypeOK, Goes, Called, Becomes

LEMMA UsesBecomes ==
    ASSUME AuthTypeOK, NEW c \in Caller, NEW n \in Stored, Uses(c, n)
    PROVE  Becomes(c, "using", n, caller[c].rejected, "none", NoCredential)
<1> DEFINE user == [Nothing("using") EXCEPT !.credential = n, !.rejected = caller[c].rejected]
<1>1. caller[c].rejected \in Stored /\ NoCredential \in Stored
  BY DEF AuthTypeOK, Called, Stored
<1>2. Nothing("using") \in Called
  BY <1>1 DEF Nothing, Called
<1>3. /\ user.at = "using" /\ user.credential = n /\ user.rejected = caller[c].rejected
      /\ user.answer = "none" /\ user.offered = NoCredential /\ user \in Called
  BY <1>1, <1>2 DEF Nothing, Called
<1>4. caller' = [caller EXCEPT ![c] = user]
  BY DEF Uses
<1> HIDE DEF user
<1>5. QED
  BY <1>3, <1>4 DEF AuthTypeOK, Becomes

LEMMA OverBecomes ==
    ASSUME AuthTypeOK, NEW c \in Caller, Over(c)
    PROVE  Becomes(c, "over", NoCredential, NoCredential, "none", NoCredential)
<1>1. caller' = [caller EXCEPT ![c] = [at |-> "over", credential |-> NoCredential,
                     rejected |-> NoCredential, answer |-> "none", offered |-> NoCredential]]
  BY DEF Over, Nothing
<1>2. QED
  BY <1>1 DEF AuthTypeOK, Called, Stored, Becomes

LEMMA AnswerBecomes ==
    ASSUME AuthTypeOK, NEW c \in Caller, NEW answer \in {"new", "401", "403", "error"},
           NEW offered \in Stored, Answer(c, answer, offered)
    PROVE  Becomes(c, "answered", caller[c].credential, caller[c].rejected, answer, offered)
BY DEF AuthTypeOK, Answer, Called, Becomes

\* A step of one request that leaves the store and the service alone, and
\* does not end with a new credential to write.
LEMMA QuietKeeps ==
    ASSUME AuthInv, AuthTypeOK', UNCHANGED <<file, legacy, issued, spent>>,
           NEW c \in Caller, NEW at, NEW k \in KnownOrNone, NEW r \in KnownOrNone, NEW w,
           NEW o \in KnownOrNone, Becomes(c, at, k, r, w, o),
           at # "idle", at = "answered" => w \notin {"new", "none"},
           at \in {"using", "refreshing", "answered"} => k \in Known,
           at \in LockHeld => \/ caller[c].at \in LockHeld
                              \/ Holding(Home[c]) = {},
           at = "refreshing" => k \in {file, legacy},
           at = "using" /\ r # NoCredential => k # r,
           at \in {"refreshing", "answered"} /\ r # NoCredential => k = r,
           at = "answered" /\ w = "401" => ~Honoured(k),
           blame \/ Offered(c) => blame',
           ~blame => /\ at = "clearing" => InHand
                     /\ at = "legacy" => InHand \/ Honoured(file)
                     /\ at = "refreshing" \/ (at = "answered" /\ w = "401") => spent[k] # Home[c]
    PROVE  AuthInv'
<1>1. /\ ~Offered(c)'
      /\ \A d \in Caller : d # c => (Offered(d)' <=> Offered(d)) /\ caller'[d] = caller[d]
  BY DEF Becomes, Offered
<1>2. /\ caller'[c].at = at /\ caller'[c].credential = k /\ caller'[c].rejected = r
      /\ caller'[c].answer = w /\ caller'[c].offered = o
  BY DEF Becomes
<1>3. /\ Known' = Known /\ KnownOrNone' = KnownOrNone /\ Loaded' = Loaded
      /\ \A n : Honoured(n)' <=> Honoured(n)
  BY DEF Known, KnownOrNone, Loaded, Honoured
<1>4. AllIssued'
  BY <1>1, <1>2, <1>3 DEF AuthInv, AllIssued
<1>5. OneHolder'
  <2>1. ASSUME NEW d \in Caller, d # c, at \in LockHeld, caller[d].at \in LockHeld,
               Home[c] = Home[d]
        PROVE  FALSE
    <3>1. d \in Holding(Home[c])
      BY <2>1 DEF Holding, LockHeld
    <3>2. caller[c].at \in LockHeld
      BY <2>1, <3>1
    <3>3. QED
      BY <2>1, <3>2 DEF AuthInv, OneHolder
  <2>2. QED
    BY <1>1, <1>2, <2>1 DEF AuthInv, OneHolder
<1>6. OffersAreNew'
  <2>1. ASSUME NEW e \in Caller, Offered(e)'
        PROVE  /\ e # c /\ Offered(e) /\ caller'[e] = caller[e]
               /\ at = "refreshing" => k # caller[e].offered
    BY <1>1, <2>1 DEF AuthInv, OffersAreNew
  <2>2. QED
    BY <1>1, <1>2, <2>1 DEF AuthInv, OffersAreNew
<1>7. Rejections'
  BY <1>1, <1>2, <1>3 DEF AuthInv, Rejections
<1>8. Unblamed'
  <2>1. CASE blame'
    BY <2>1 DEF Unblamed
  <2>2. CASE ~blame'
    <3>1. ~blame /\ ~Offered(c)
      BY <2>2
    <3>2. InHand => InHand'
      BY <1>1, <3>1 DEF InHand
    <3>3. ASSUME NEW d \in Caller
          PROVE  /\ Offered(d)' => spent'[caller'[d].offered] = Nobody
                 /\ caller'[d].at = "clearing" => InHand'
                 /\ caller'[d].at = "legacy" => InHand' \/ Honoured(file)'
                 /\ \/ caller'[d].at = "refreshing"
                    \/ caller'[d].at = "answered" /\ caller'[d].answer = "401"
                    => spent'[caller'[d].credential] # Home[d]
      <4>1. CASE d = c
        BY <1>1, <1>2, <1>3, <3>1, <3>2, <4>1
      <4>2. CASE d # c
        BY <1>1, <1>3, <3>1, <3>2, <4>2 DEF AuthInv, Unblamed
      <4>3. QED
        BY <4>1, <4>2
    <3>4. InHand' \/ Honoured(Loaded)'
      BY <1>3, <3>1, <3>2 DEF AuthInv, Unblamed
    <3>5. Loaded # NoCredential /\ spent[Loaded] \in Process
              => \E d \in Caller : Offered(d)' /\ Home[d] = spent[Loaded]
      BY <1>1, <3>1 DEF AuthInv, Unblamed
    <3>6. QED
      BY <1>3, <3>3, <3>4, <3>5 DEF Unblamed
  <2>3. QED
    BY <2>1, <2>2
<1>9. QED
  BY <1>4, <1>5, <1>6, <1>7, <1>8 DEF AuthInv

\* What is in the store has been issued.
LEMMA LoadedIsKnown ==
    ASSUME AuthInv
    PROVE  /\ Loaded \in {file, legacy} /\ Loaded \in KnownOrNone /\ Loaded \in Stored
           /\ NoCredential \in KnownOrNone
           /\ NoCredential \notin Known /\ issued \in Nat /\ Known \subseteq Credential
           /\ \A c \in Caller :
                 {caller[c].credential, caller[c].rejected, caller[c].offered} \subseteq KnownOrNone
BY AuthManagerAssumption
   DEF AuthInv, AuthTypeOK, AllIssued, Loaded, Known, KnownOrNone, Stored, Credential

\* A request whose process nobody else refreshes for finds in the store what no
\* other request of that process has spent.
LEMMA LoadedIsElsewhere ==
    ASSUME AuthInv, ~blame, NEW c \in Caller, Holding(Home[c]) = {}, Loaded # NoCredential
    PROVE  spent[Loaded] # Home[c]
<1> SUFFICES ASSUME spent[Loaded] = Home[c] PROVE FALSE
  OBVIOUS
<1>1. Home[c] \in Process
  BY AuthManagerAssumption
<1>2. PICK d \in Caller : Offered(d) /\ Home[d] = spent[Loaded]
  BY <1>1 DEF AuthInv, Unblamed
<1>3. d \in Holding(Home[c])
  BY <1>2 DEF Holding, Offered
<1>4. QED
  BY <1>3

LEMMA TypeKept ==
    ASSUME AuthTypeOK, caller' \in [Caller -> Called], UNCHANGED <<issued, spent>>,
           file' \in Stored, legacy' \in Stored, expired' \subseteq Credential,
           revoked' \in 0 .. MaxRevoked, blame' \in BOOLEAN
    PROVE  AuthTypeOK'
BY DEF AuthTypeOK

LEMMA QuietType ==
    ASSUME AuthTypeOK, NEW c \in Caller, NEW at, NEW k, NEW r, NEW w, NEW o,
           Becomes(c, at, k, r, w, o), UNCHANGED <<storeVars, serviceVars, worldVars>>,
           blame' \in BOOLEAN
    PROVE  AuthTypeOK'
BY DEF AuthTypeOK, Becomes, storeVars, serviceVars, worldVars

LEMMA GetAuthKeeps ==
    ASSUME AuthInv, NEW c \in Caller, GetAuth(c)
    PROVE  AuthInv'
<1>1. /\ caller[c].at = "idle" /\ UNCHANGED <<storeVars, serviceVars, worldVars, blame>>
      /\ ~Offered(c) /\ AuthTypeOK /\ blame' \in BOOLEAN /\ caller[c].rejected = NoCredential
  BY DEF GetAuth, Offered, AuthInv, AuthTypeOK, Rejections
<1>2. UNCHANGED <<file, legacy, issued, spent>>
  BY <1>1 DEF storeVars, serviceVars
<1>3. CASE Over(c)
  <2>1. Becomes(c, "over", NoCredential, NoCredential, "none", NoCredential)
    BY <1>1, <1>3, OverBecomes
  <2>2. AuthTypeOK'
    BY <1>1, <2>1, QuietType
  <2>3. QED
    BY <1>1, <1>2, <2>1, <2>2, LoadedIsKnown, QuietKeeps DEF LockHeld
<1>4. CASE Loaded # NoCredential /\ Uses(c, Loaded)
  <2>1. Becomes(c, "using", Loaded, caller[c].rejected, "none", NoCredential)
    BY <1>1, <1>4, LoadedIsKnown, UsesBecomes
  <2>2. AuthTypeOK'
    BY <1>1, <2>1, QuietType
  <2>3. QED
    BY <1>1, <1>2, <1>4, <2>1, <2>2, LoadedIsKnown, QuietKeeps DEF LockHeld, KnownOrNone
<1>5. CASE Goes(c, "waiting")
  <2>1. Becomes(c, "waiting", caller[c].credential, caller[c].rejected, caller[c].answer,
                caller[c].offered)
    BY <1>1, <1>5, GoesBecomes
  <2>2. AuthTypeOK'
    BY <1>1, <2>1, QuietType
  <2>3. QED
    BY <1>1, <1>2, <2>1, <2>2, LoadedIsKnown, QuietKeeps DEF LockHeld
<1>6. QED
  BY <1>3, <1>4, <1>5 DEF GetAuth

LEMMA RejectKeeps ==
    ASSUME AuthInv, NEW c \in Caller, Reject(c)
    PROVE  AuthInv'
<1>1. /\ caller[c].at = "using" /\ UNCHANGED <<storeVars, serviceVars, worldVars, blame>>
      /\ ~Offered(c) /\ AuthTypeOK /\ blame' \in BOOLEAN
      /\ caller' = [caller EXCEPT ![c].at = "waiting", ![c].rejected = caller[c].credential]
  BY DEF Reject, Offered, AuthInv, AuthTypeOK
<1>2. UNCHANGED <<file, legacy, issued, spent>>
  BY <1>1 DEF storeVars, serviceVars
<1>3. Becomes(c, "waiting", caller[c].credential, caller[c].credential, caller[c].answer,
              caller[c].offered)
  BY <1>1 DEF AuthTypeOK, Called, Becomes
<1>4. AuthTypeOK'
  BY <1>1, <1>3, QuietType
<1>5. QED
  BY <1>1, <1>2, <1>3, <1>4, LoadedIsKnown, QuietKeeps DEF LockHeld

LEMMA AcquireKeeps ==
    ASSUME AuthInv, NEW c \in Caller, Acquire(c)
    PROVE  AuthInv'
<1>1. /\ caller[c].at = "waiting" /\ UNCHANGED <<storeVars, serviceVars, worldVars, blame>>
      /\ ~Offered(c) /\ AuthTypeOK /\ blame' \in BOOLEAN /\ Holding(Home[c]) = {}
  BY DEF Acquire, Offered, AuthInv, AuthTypeOK
<1>2. UNCHANGED <<file, legacy, issued, spent>>
  BY <1>1 DEF storeVars, serviceVars
<1>3. CASE Over(c)
  <2>1. Becomes(c, "over", NoCredential, NoCredential, "none", NoCredential)
    BY <1>1, <1>3, OverBecomes
  <2>2. AuthTypeOK'
    BY <1>1, <2>1, QuietType
  <2>3. QED
    BY <1>1, <1>2, <2>1, <2>2, LoadedIsKnown, QuietKeeps DEF LockHeld
<1>4. CASE Loaded # NoCredential /\ Suffices(c, Loaded) /\ Uses(c, Loaded)
  <2>1. Becomes(c, "using", Loaded, caller[c].rejected, "none", NoCredential)
    BY <1>1, <1>4, LoadedIsKnown, UsesBecomes
  <2>2. AuthTypeOK'
    BY <1>1, <2>1, QuietType
  <2>3. caller[c].rejected # NoCredential => Loaded # caller[c].rejected
    BY <1>4 DEF Suffices
  <2>4. QED
    BY <1>1, <1>2, <1>4, <2>1, <2>2, <2>3, LoadedIsKnown, QuietKeeps DEF LockHeld, KnownOrNone
<1>5. CASE /\ Loaded # NoCredential /\ ~Suffices(c, Loaded)
           /\ caller' = [caller EXCEPT ![c].at = "refreshing", ![c].credential = Loaded]
  <2>1. Becomes(c, "refreshing", Loaded, caller[c].rejected, caller[c].answer, caller[c].offered)
    BY <1>1, <1>5, LoadedIsKnown DEF AuthTypeOK, Called, Becomes
  <2>2. AuthTypeOK'
    BY <1>1, <2>1, QuietType
  <2>3. caller[c].rejected # NoCredential => Loaded = caller[c].rejected
    BY <1>5 DEF Suffices
  <2>4. ~blame => spent[Loaded] # Home[c]
    BY <1>1, <1>5, LoadedIsElsewhere
  <2>5. QED
    BY <1>1, <1>2, <1>5, <2>1, <2>2, <2>3, <2>4, LoadedIsKnown, QuietKeeps DEF KnownOrNone
<1>6. QED
  BY <1>3, <1>4, <1>5 DEF Acquire

\* A refresh is answered with a refusal or an error.
LEMMA RefusalKeeps ==
    ASSUME AuthInv, NEW c \in Caller, caller[c].at = "refreshing", NEW answer \in {"401", "403", "error"},
           answer = "401" => ~Honoured(caller[c].credential), Answer(c, answer, NoCredential),
           UNCHANGED <<storeVars, serviceVars, worldVars, blame>>
    PROVE  AuthInv'
<1>1. ~Offered(c) /\ AuthTypeOK /\ blame' \in BOOLEAN /\ UNCHANGED <<file, legacy, issued, spent>>
  BY DEF Offered, AuthInv, AuthTypeOK, storeVars, serviceVars
<1>2. Becomes(c, "answered", caller[c].credential, caller[c].rejected, answer, NoCredential)
  BY <1>1, AnswerBecomes DEF Stored
<1>3. AuthTypeOK'
  BY <1>1, <1>2, QuietType
<1>4. /\ caller[c].credential \in Known
      /\ caller[c].rejected # NoCredential => caller[c].credential = caller[c].rejected
      /\ ~blame => spent[caller[c].credential] # Home[c]
  BY DEF AuthInv, AllIssued, Rejections, Unblamed
<1>5. QED
  BY <1>1, <1>2, <1>3, <1>4, LoadedIsKnown, QuietKeeps DEF LockHeld

LEMMA RefusedKeeps ==
    ASSUME AuthInv, NEW c \in Caller, Refused(c)
    PROVE  AuthInv'
<1>1. /\ caller[c].at = "answered" /\ UNCHANGED <<storeVars, serviceVars, worldVars, blame>>
      /\ ~Offered(c) /\ AuthTypeOK /\ blame' \in BOOLEAN
  BY DEF Refused, Offered, AuthInv, AuthTypeOK
<1>2. UNCHANGED <<file, legacy, issued, spent>>
  BY <1>1 DEF storeVars, serviceVars
<1>3. caller[c].credential \in Known
  BY <1>1 DEF AuthInv, AllIssued
<1>4. CASE Over(c)
  <2>1. Becomes(c, "over", NoCredential, NoCredential, "none", NoCredential)
    BY <1>1, <1>4, OverBecomes
  <2>2. AuthTypeOK'
    BY <1>1, <2>1, QuietType
  <2>3. QED
    BY <1>1, <1>2, <2>1, <2>2, LoadedIsKnown, QuietKeeps DEF LockHeld
<1>5. CASE Replaced(c) /\ Uses(c, Loaded)
  <2>1. Becomes(c, "using", Loaded, caller[c].rejected, "none", NoCredential)
    BY <1>1, <1>5, LoadedIsKnown, UsesBecomes
  <2>2. AuthTypeOK'
    BY <1>1, <2>1, QuietType
  <2>3. /\ Loaded # NoCredential
        /\ caller[c].rejected # NoCredential => Loaded # caller[c].rejected
    BY <1>1, <1>5 DEF Replaced, AuthInv, Rejections
  <2>4. QED
    BY <1>1, <1>2, <2>1, <2>2, <2>3, LoadedIsKnown, QuietKeeps DEF LockHeld, KnownOrNone
<1>6. CASE caller[c].answer = "401" /\ ~Replaced(c) /\ Goes(c, "clearing")
  <2>1. Becomes(c, "clearing", caller[c].credential, caller[c].rejected, caller[c].answer,
                caller[c].offered)
    BY <1>1, <1>6, GoesBecomes
  <2>2. AuthTypeOK'
    BY <1>1, <2>1, QuietType
  <2>3. ~blame => InHand
    <3>1. ~Honoured(caller[c].credential)
      BY <1>1, <1>6 DEF AuthInv, Rejections
    <3>2. ~Honoured(Loaded)
      BY <1>6, <3>1 DEF Replaced, Honoured
    <3>3. QED
      BY <3>2 DEF AuthInv, Unblamed
  <2>4. QED
    BY <1>1, <1>2, <2>1, <2>2, <2>3, LoadedIsKnown, QuietKeeps DEF LockHeld
<1>7. QED
  BY <1>4, <1>5, <1>6, Zenon DEF Refused

\* The service trades a credential: what comes of it is new, and only the
\* credential that is presented is spent.
LEMMA TradeDoes ==
    ASSUME AuthInv, NEW c \in Caller, caller[c].at = "refreshing", Trade(c)
    PROVE  /\ issued' = issued + 1 /\ issued' \in Credential /\ issued' \notin Known
           /\ Known' = Known \union {issued'}
           /\ spent' \in [Credential -> Process \union {Nobody, Revoked}]
           /\ caller[c].credential \in Known /\ spent'[caller[c].credential] = Home[c]
           /\ \A n \in Credential : n # caller[c].credential => spent'[n] = spent[n]
           /\ \A n \in Credential : n > issued' => spent'[n] = Nobody
           /\ spent'[issued'] = Nobody
           /\ \A n \in Known : ~Honoured(n) => ~Honoured(n)'
<1>1. /\ issued' = issued + 1 /\ issued < MaxCredentials /\ issued \in Nat
      /\ spent' = [spent EXCEPT ![caller[c].credential] = Home[c]]
      /\ spent \in [Credential -> Process \union {Nobody, Revoked}]
      /\ issued \in Credential
  BY AuthManagerAssumption DEF Trade, AuthInv, AuthTypeOK, Credential
<1>2. /\ issued' \in Credential /\ issued' \notin Known /\ Known' = Known \union {issued'}
      /\ Known \subseteq Credential
  BY <1>1, AuthManagerAssumption DEF Known, Credential
<1>3. caller[c].credential \in Known /\ Home[c] \in Process
  BY AuthManagerAssumption DEF AuthInv, AllIssued
<1>4. /\ spent' \in [Credential -> Process \union {Nobody, Revoked}]
      /\ spent'[caller[c].credential] = Home[c]
      /\ \A n \in Credential : n # caller[c].credential => spent'[n] = spent[n]
  BY <1>1, <1>2, <1>3
<1>5. \A n \in Credential : n > issued => n # caller[c].credential /\ spent[n] = Nobody
  BY <1>1, <1>3 DEF AuthInv, AllIssued, Known
<1>6. /\ \A n \in Credential : n > issued' => spent'[n] = Nobody
      /\ spent'[issued'] = Nobody
  BY <1>1, <1>2, <1>4, <1>5 DEF Credential
<1>7. ASSUME NEW n \in Known, ~Honoured(n) PROVE ~Honoured(n)'
  <2>1. spent[n] # Nobody
    BY <1>1, <1>7, AuthManagerAssumption DEF Honoured, Known
  <2>2. spent'[n] # Nobody
    BY <1>2, <1>3, <1>4, <2>1, AuthManagerAssumption
  <2>3. QED
    BY <2>2 DEF Honoured
<1>8. QED
  BY <1>1, <1>2, <1>3, <1>4, <1>6, <1>7

LEMMA TradedKeeps ==
    ASSUME AuthInv, NEW c \in Caller, caller[c].at = "refreshing", Trade(c),
           Answer(c, "new", issued + 1), UNCHANGED <<storeVars, worldVars, blame>>
    PROVE  AuthInv'
<1> DEFINE k == caller[c].credential
           new == issued + 1
<1>1. /\ issued' = new /\ new \in Credential /\ new \notin Known
      /\ Known' = Known \union {new}
      /\ spent' \in [Credential -> Process \union {Nobody, Revoked}]
      /\ k \in Known /\ spent'[k] = Home[c]
      /\ \A n \in Credential : n # k => spent'[n] = spent[n]
      /\ \A n \in Credential : n > issued' => spent'[n] = Nobody
      /\ spent'[new] = Nobody
      /\ \A n \in Known : ~Honoured(n) => ~Honoured(n)'
  BY TradeDoes
<1>2. AuthTypeOK /\ ~Offered(c) /\ UNCHANGED <<file, legacy, blame, expired, revoked>>
  BY DEF AuthInv, Offered, storeVars, worldVars
<1>3. Becomes(c, "answered", k, caller[c].rejected, "new", new)
  BY <1>1, <1>2, AnswerBecomes DEF Stored
<1> HIDE DEF k, new
<1>4. /\ caller'[c].at = "answered" /\ caller'[c].credential = k
      /\ caller'[c].rejected = caller[c].rejected /\ caller'[c].answer = "new"
      /\ caller'[c].offered = new /\ Offered(c)'
      /\ \A d \in Caller : d # c => (Offered(d)' <=> Offered(d)) /\ caller'[d] = caller[d]
  BY <1>3 DEF Becomes, Offered
<1>5. AuthTypeOK'
  BY <1>1, <1>2, <1>3 DEF AuthTypeOK, Becomes
<1>6. KnownOrNone \subseteq KnownOrNone' /\ Known \subseteq Known' /\ new \in Known'
  BY <1>1 DEF KnownOrNone
<1>7. \A d \in Caller : {caller[d].credential, caller[d].rejected, caller[d].offered} \subseteq KnownOrNone
  BY DEF AuthInv, AllIssued
<1>8. AllIssued'
  <2>1. {file', legacy'} \subseteq KnownOrNone'
    BY <1>2, <1>6 DEF AuthInv, AllIssued
  <2>2. ASSUME NEW d \in Caller
        PROVE  /\ {caller'[d].credential, caller'[d].rejected, caller'[d].offered} \subseteq KnownOrNone'
               /\ caller'[d].at \in {"using", "refreshing", "answered"}
                     => caller'[d].credential \in Known'
               /\ caller'[d].at = "answered" => caller'[d].answer # "none"
               /\ Offered(d)' => caller'[d].offered \in Known'
    <3>1. CASE d = c
      <4>1. new \in KnownOrNone'
        BY <1>6 DEF KnownOrNone
      <4>2. QED
        BY <1>1, <1>4, <1>6, <1>7, <3>1, <4>1 DEF k
    <3>2. CASE d # c
      BY <1>4, <1>6, <1>7, <3>2 DEF AuthInv, AllIssued
    <3>3. QED
      BY <3>1, <3>2
  <2>3. QED
    BY <1>1, <2>1, <2>2 DEF AllIssued
<1>9. OneHolder'
  BY <1>4 DEF AuthInv, OneHolder, LockHeld
<1>10. new \notin KnownOrNone /\ {file, legacy} \subseteq KnownOrNone
  BY <1>1, AuthManagerAssumption DEF KnownOrNone, Credential, AuthInv, AllIssued
<1>11. OffersAreNew'
  <2>1. ASSUME NEW e \in Caller, Offered(e)', e # c
        PROVE  /\ caller'[e].offered \notin {file', legacy', caller'[e].rejected}
               /\ \A d \in Caller :
                     /\ caller'[d].at = "refreshing" => caller'[d].credential # caller'[e].offered
                     /\ Offered(d)' /\ d # e => caller'[d].offered # caller'[e].offered
    <3>1. Offered(e) /\ caller'[e] = caller[e] /\ caller[e].offered \in KnownOrNone
      BY <1>4, <1>7, <2>1
    <3>2. QED
      BY <1>2, <1>4, <1>10, <3>1 DEF AuthInv, OffersAreNew
  <2>2. /\ caller'[c].offered \notin {file', legacy', caller'[c].rejected}
        /\ \A d \in Caller :
              /\ caller'[d].at = "refreshing" => caller'[d].credential # caller'[c].offered
              /\ Offered(d)' /\ d # c => caller'[d].offered # caller'[c].offered
    <3>1. \A d \in Caller : {caller[d].credential, caller[d].rejected, caller[d].offered} \subseteq KnownOrNone
      BY <1>7
    <3>2. ASSUME NEW d \in Caller
          PROVE  /\ caller'[d].at = "refreshing" => caller'[d].credential # new
                 /\ Offered(d)' /\ d # c => caller'[d].offered # new
      BY <1>4, <1>10, <3>1, <3>2
    <3>3. QED
      BY <1>2, <1>4, <1>10, <3>1, <3>2
  <2>3. QED
    BY <2>1, <2>2 DEF OffersAreNew
<1>12. Rejections'
  <2>1. \A d \in Caller : caller[d].at = "answered" => caller[d].credential \in Known
    BY DEF AuthInv, AllIssued
  <2>2. QED
    BY <1>1, <1>4, <2>1 DEF AuthInv, Rejections, k
<1>13. Unblamed'
  <2> SUFFICES ASSUME ~blame' PROVE Unblamed'
    BY DEF Unblamed
  <2>1. ~blame /\ InHand'
    BY <1>2, <1>4 DEF InHand
  <2>2. ASSUME NEW d \in Caller, Offered(d)' PROVE spent'[caller'[d].offered] = Nobody
    <3>1. CASE d = c
      BY <1>1, <1>4, <3>1
    <3>2. CASE d # c
      <4>1. /\ Offered(d) /\ caller'[d] = caller[d] /\ caller[d].offered # k
            /\ spent[caller[d].offered] = Nobody
        BY <1>4, <2>1, <2>2, <3>2 DEF AuthInv, OffersAreNew, Unblamed, k
      <4>2. caller[d].offered \in Credential
        BY <4>1, LoadedIsKnown DEF AuthInv, AllIssued
      <4>3. QED
        BY <1>1, <4>1, <4>2
    <3>3. QED
      BY <3>1, <3>2
  <2>3. ASSUME NEW d \in Caller,
               \/ caller'[d].at = "refreshing"
               \/ caller'[d].at = "answered" /\ caller'[d].answer = "401"
        PROVE  spent'[caller'[d].credential] # Home[d]
    <3>1. d # c /\ caller'[d] = caller[d]
      BY <1>4, <2>3
    <3>2. spent[caller[d].credential] # Home[d] /\ caller[d].credential \in Credential
      BY <2>1, <2>3, <3>1, LoadedIsKnown DEF AuthInv, Unblamed, AllIssued
    <3>3. Home[d] # Home[c]
      BY <2>3, <3>1 DEF AuthInv, OneHolder, LockHeld
    <3>4. QED
      BY <1>1, <3>1, <3>2, <3>3
  <2>4. Loaded' = Loaded
    BY <1>2 DEF Loaded
  <2>5. ASSUME Loaded # NoCredential, spent'[Loaded] \in Process
        PROVE  \E d \in Caller : Offered(d)' /\ Home[d] = spent'[Loaded]
    <3>1. CASE Loaded = k
      BY <1>1, <1>4, <3>1
    <3>2. CASE Loaded # k
      <4>1. Loaded \in Credential
        BY <2>5, LoadedIsKnown DEF KnownOrNone
      <4>2. spent'[Loaded] = spent[Loaded]
        BY <1>1, <3>2, <4>1
      <4>3. PICK d \in Caller : Offered(d) /\ Home[d] = spent[Loaded]
        BY <2>1, <2>5, <4>2 DEF AuthInv, Unblamed
      <4>4. QED
        BY <1>2, <1>4, <4>2, <4>3
    <3>3. QED
      BY <3>1, <3>2
  <2>6. QED
    BY <2>1, <2>2, <2>3, <2>4, <2>5 DEF Unblamed
<1>14. QED
  BY <1>5, <1>8, <1>9, <1>11, <1>12, <1>13 DEF AuthInv

LEMMA AnswerRefreshKeeps ==
    ASSUME AuthInv, NEW c \in Caller, AnswerRefresh(c)
    PROVE  AuthInv'
<1>1. caller[c].at = "refreshing" /\ UNCHANGED <<storeVars, worldVars, blame>>
  BY DEF AnswerRefresh
<1>2. CASE Trade(c) /\ Answer(c, "new", issued + 1)
  BY <1>1, <1>2, TradedKeeps
<1>3. CASE ~Honoured(caller[c].credential) /\ Answer(c, "401", NoCredential) /\ UNCHANGED serviceVars
  BY <1>1, <1>3, RefusalKeeps
<1>4. ASSUME NEW other \in {"403", "error"}, Answer(c, other, NoCredential), UNCHANGED serviceVars
      PROVE  AuthInv'
  BY <1>1, <1>4, RefusalKeeps
<1>5. QED
  BY <1>2, <1>3, <1>4 DEF AnswerRefresh

\* Once something else is to blame, what remains is that what is known has
\* been issued and that the lock has one holder.
LEMMA BlamedDropKeeps ==
    ASSUME AuthInv, NEW c \in Caller, caller[c].at = "refreshing", Trade(c), Over(c),
           blame', UNCHANGED <<storeVars, worldVars>>, blame' \in BOOLEAN
    PROVE  AuthInv'
<1> DEFINE k == caller[c].credential
<1>1. /\ issued' \in Credential /\ Known' = Known \union {issued'}
      /\ spent' \in [Credential -> Process \union {Nobody, Revoked}]
      /\ \A n \in Credential : n > issued' => spent'[n] = Nobody
      /\ \A n \in Known : ~Honoured(n) => ~Honoured(n)'
  BY TradeDoes
<1>2. AuthTypeOK /\ ~Offered(c) /\ UNCHANGED <<file, legacy, expired, revoked>>
  BY DEF AuthInv, Offered, storeVars, worldVars
<1>3. Becomes(c, "over", NoCredential, NoCredential, "none", NoCredential)
  BY <1>2, OverBecomes
<1>4. /\ caller'[c].at = "over" /\ caller'[c].credential = NoCredential
      /\ caller'[c].rejected = NoCredential /\ caller'[c].offered = NoCredential /\ ~Offered(c)'
      /\ \A d \in Caller : d # c => (Offered(d)' <=> Offered(d)) /\ caller'[d] = caller[d]
  BY <1>3 DEF Becomes, Offered
<1>5. AuthTypeOK'
  BY <1>1, <1>2, <1>3 DEF AuthTypeOK, Becomes
<1>6. Known \subseteq Known' /\ KnownOrNone \subseteq KnownOrNone' /\ NoCredential \in KnownOrNone'
  BY <1>1 DEF KnownOrNone
<1>7. AllIssued'
  BY <1>1, <1>2, <1>4, <1>6 DEF AuthInv, AllIssued
<1>8. OneHolder'
  BY <1>4 DEF AuthInv, OneHolder, LockHeld
<1>9. OffersAreNew'
  BY <1>2, <1>4 DEF AuthInv, OffersAreNew
<1>10. Rejections'
  <2>1. \A d \in Caller : caller[d].at = "answered" => caller[d].credential \in Known
    BY DEF AuthInv, AllIssued
  <2>2. QED
    BY <1>1, <1>4, <2>1 DEF AuthInv, Rejections
<1>11. QED
  BY <1>5, <1>7, <1>8, <1>9, <1>10 DEF AuthInv, Unblamed

\* A request that leaves without a trade, whatever it was about to write.
LEMMA EndKeeps ==
    ASSUME AuthInv, NEW c \in Caller, Over(c), UNCHANGED <<storeVars, serviceVars, worldVars>>,
           blame' \in BOOLEAN, blame \/ Offered(c) => blame'
    PROVE  AuthInv'
<1>1. AuthTypeOK /\ UNCHANGED <<file, legacy, issued, spent>>
  BY DEF AuthInv, storeVars, serviceVars
<1>2. Becomes(c, "over", NoCredential, NoCredential, "none", NoCredential)
  BY <1>1, OverBecomes
<1>3. AuthTypeOK'
  BY <1>1, <1>2, QuietType
<1>4. QED
  BY <1>1, <1>2, <1>3, LoadedIsKnown, QuietKeeps DEF LockHeld

LEMMA DropCallerKeeps ==
    ASSUME AuthInv, NEW c \in Caller, DropCaller(c)
    PROVE  AuthInv'
<1>1. Over(c) /\ UNCHANGED <<storeVars, worldVars>> /\ blame \in BOOLEAN
  BY DEF DropCaller, AuthInv, AuthTypeOK
<1>2. CASE caller[c].at = "refreshing" /\ Trade(c) /\ blame' = TRUE
  BY <1>1, <1>2, BlamedDropKeeps
<1>3. CASE caller[c].at = "refreshing" /\ UNCHANGED <<serviceVars, blame>>
  BY <1>1, <1>3, EndKeeps DEF Offered
<1>4. CASE /\ caller[c].at # "refreshing" /\ UNCHANGED serviceVars
           /\ blame' = IF Offered(c) THEN TRUE ELSE blame
  <2>1. blame' \in BOOLEAN /\ (blame \/ Offered(c) => blame')
    BY <1>1, <1>4
  <2>2. QED
    BY <1>1, <1>4, <2>1, EndKeeps
<1>5. QED
  BY <1>1, <1>2, <1>3, <1>4 DEF DropCaller

\* Writing a new credential into the store, whoever has it.
LEMMA WrittenIsBlamed ==
    ASSUME AuthInv, Written
    PROVE  /\ blame' \in BOOLEAN /\ (blame => blame')
           /\ ~blame' => \A c \in Caller : caller[c].at # "clearing"
BY DEF Written, AuthInv, AuthTypeOK

LEMMA SavedKeeps ==
    ASSUME AuthInv, NEW c \in Caller, Offered(c), file' = caller[c].offered,
           Uses(c, caller[c].offered), Written, UNCHANGED <<legacy, serviceVars, worldVars>>
    PROVE  AuthInv'
<1> DEFINE new == caller[c].offered
<1>1. /\ new \in Known /\ new \in Stored /\ new # NoCredential /\ AuthTypeOK
      /\ new \in Credential
  BY LoadedIsKnown DEF AuthInv, AllIssued, Stored
<1>2. /\ new \notin {file, legacy, caller[c].rejected}
      /\ \A d \in Caller : /\ caller[d].at = "refreshing" => caller[d].credential # new
                           /\ Offered(d) /\ d # c => caller[d].offered # new
  BY DEF AuthInv, OffersAreNew
<1>3. Becomes(c, "using", new, caller[c].rejected, "none", NoCredential)
  BY <1>1, UsesBecomes
<1>4. file' = new /\ UNCHANGED <<legacy, issued, spent, expired, revoked>>
  BY DEF serviceVars, worldVars
<1> HIDE DEF new
<1>5. /\ caller'[c].at = "using" /\ caller'[c].credential = new
      /\ caller'[c].rejected = caller[c].rejected /\ caller'[c].offered = NoCredential
      /\ ~Offered(c)'
      /\ \A d \in Caller : d # c => (Offered(d)' <=> Offered(d)) /\ caller'[d] = caller[d]
  BY <1>3 DEF Becomes, Offered
<1>6. AuthTypeOK'
  BY <1>1, <1>3, <1>4, WrittenIsBlamed DEF AuthTypeOK, Becomes
<1>7. /\ Known' = Known /\ KnownOrNone' = KnownOrNone /\ Known \subseteq KnownOrNone
      /\ NoCredential \in KnownOrNone /\ \A n : Honoured(n)' <=> Honoured(n)
  BY <1>4 DEF Known, KnownOrNone, Honoured
<1>8. AllIssued'
  BY <1>1, <1>4, <1>5, <1>7 DEF AuthInv, AllIssued
<1>9. OneHolder'
  BY <1>5 DEF AuthInv, OneHolder, LockHeld
<1>10. OffersAreNew'
  BY <1>2, <1>4, <1>5 DEF AuthInv, OffersAreNew
<1>11. Rejections'
  BY <1>2, <1>4, <1>5, <1>7 DEF AuthInv, Rejections
<1>12. Unblamed'
  <2> SUFFICES ASSUME ~blame' PROVE Unblamed'
    BY DEF Unblamed
  <2>1. ~blame /\ \A d \in Caller : caller[d].at # "clearing"
    BY WrittenIsBlamed
  <2>2. spent[new] = Nobody
    BY <2>1 DEF AuthInv, Unblamed, new
  <2>3. Honoured(new) /\ Loaded' = new
    <3>1. issued \in Nat /\ new \in 1 .. issued
      BY <1>1, LoadedIsKnown DEF Known
    <3>2. QED
      BY <1>1, <1>4, <2>2, <3>1 DEF Honoured, Loaded
  <2>4. spent'[new] \notin Process
    BY <1>4, <2>2, AuthManagerAssumption
  <2>5. ASSUME NEW d \in Caller
        PROVE  /\ Offered(d)' => spent'[caller'[d].offered] = Nobody
               /\ caller'[d].at # "clearing"
               /\ \/ caller'[d].at = "refreshing"
                  \/ caller'[d].at = "answered" /\ caller'[d].answer = "401"
                  => spent'[caller'[d].credential] # Home[d]
    BY <1>4, <1>5, <2>1 DEF AuthInv, Unblamed
  <2>6. QED
    BY <1>4, <1>7, <2>3, <2>4, <2>5 DEF Unblamed
<1>13. QED
  BY <1>6, <1>8, <1>9, <1>10, <1>11, <1>12 DEF AuthInv

LEMMA SaveKeeps ==
    ASSUME AuthInv, NEW c \in Caller, Save(c)
    PROVE  AuthInv'
<1>1. Offered(c) /\ UNCHANGED <<legacy, serviceVars, worldVars>>
  BY DEF Save
<1>2. CASE file' = caller[c].offered /\ Uses(c, caller[c].offered) /\ Written
  BY <1>1, <1>2, SavedKeeps
<1>3. CASE UNCHANGED file /\ Over(c) /\ blame' = TRUE
  BY <1>1, <1>3, EndKeeps DEF storeVars
<1>4. QED
  BY <1>2, <1>3 DEF Save

\* One place of the store is emptied by the request that clears it, which
\* happens, if nothing else is to blame, only while another credential is in
\* hand, or the one in the file is not the one that leaves.
LEMMA EmptiedKeeps ==
    ASSUME AuthInv, NEW c \in Caller, caller[c].at \in {"clearing", "legacy"},
           NEW at \in {"legacy", "over"}, NEW k \in KnownOrNone, NEW r \in KnownOrNone, NEW w,
           NEW o \in KnownOrNone, Becomes(c, at, k, r, w, o),
           file' \in {file, NoCredential}, legacy' \in {legacy, NoCredential},
           UNCHANGED <<serviceVars, worldVars>>, blame' \in BOOLEAN, blame => blame',
           ~blame' => /\ Loaded' \in {Loaded, NoCredential}
                      /\ InHand \/ (Honoured(file) /\ file' = file)
    PROVE  AuthInv'
<1>1. UNCHANGED <<issued, spent, expired, revoked>> /\ AuthTypeOK /\ ~Offered(c)
  BY DEF serviceVars, worldVars, AuthInv, Offered
<1>2. /\ caller'[c].at = at /\ caller'[c].credential = k /\ caller'[c].rejected = r
      /\ caller'[c].offered = o /\ ~Offered(c)'
      /\ \A d \in Caller : d # c => (Offered(d)' <=> Offered(d)) /\ caller'[d] = caller[d]
  BY DEF Becomes, Offered
<1>3. AuthTypeOK'
  BY <1>1 DEF AuthTypeOK, Becomes, Stored
<1>4. /\ Known' = Known /\ KnownOrNone' = KnownOrNone
      /\ \A n : Honoured(n)' <=> Honoured(n)
  BY <1>1 DEF Known, KnownOrNone, Honoured
<1>5. AllIssued'
  BY <1>1, <1>2, <1>4, LoadedIsKnown DEF AuthInv, AllIssued
<1>6. OneHolder'
  BY <1>2 DEF AuthInv, OneHolder, LockHeld
<1>7. OffersAreNew'
  <2>1. \A d \in Caller : Offered(d) => caller[d].offered # NoCredential
    BY LoadedIsKnown DEF AuthInv, AllIssued
  <2>2. QED
    BY <1>2, <2>1 DEF AuthInv, OffersAreNew
<1>8. Rejections'
  BY <1>2, <1>4 DEF AuthInv, Rejections
<1>9. Unblamed'
  <2> SUFFICES ASSUME ~blame' PROVE Unblamed'
    BY DEF Unblamed
  <2>1. ~blame /\ Loaded' \in {Loaded, NoCredential} /\ (InHand' <=> InHand)
    BY <1>1, <1>2 DEF InHand
  <2>2. InHand \/ (Honoured(file) /\ file' = file /\ Loaded' = file)
    BY <1>4 DEF Loaded, Honoured
  <2>3. ASSUME NEW d \in Caller
        PROVE  /\ Offered(d)' => spent'[caller'[d].offered] = Nobody
               /\ caller'[d].at = "clearing" => InHand'
               /\ \/ caller'[d].at = "refreshing"
                  \/ caller'[d].at = "answered" /\ caller'[d].answer = "401"
                  => spent'[caller'[d].credential] # Home[d]
    BY <1>1, <1>2, <2>1 DEF AuthInv, Unblamed
  <2>4. Loaded' # NoCredential /\ spent'[Loaded'] \in Process
            => \E d \in Caller : Offered(d)' /\ Home[d] = spent'[Loaded']
    BY <1>1, <1>2, <2>1 DEF AuthInv, Unblamed
  <2>5. QED
    BY <1>4, <2>1, <2>2, <2>3, <2>4 DEF Unblamed
<1>10. QED
  BY <1>3, <1>5, <1>6, <1>7, <1>8, <1>9 DEF AuthInv

LEMMA ClearAuthKeeps ==
    ASSUME AuthInv, NEW c \in Caller, ClearAuth(c)
    PROVE  AuthInv'
<1>1. UNCHANGED <<serviceVars, worldVars>> /\ AuthTypeOK /\ blame \in BOOLEAN
  BY DEF ClearAuth, AuthInv, AuthTypeOK
<1>2. CASE caller[c].at = "clearing" /\ Over(c) /\ UNCHANGED <<storeVars, blame>>
  <2>1. ~Offered(c)
    BY <1>2 DEF Offered
  <2>2. QED
    BY <1>1, <1>2, <2>1, EndKeeps
<1>3. CASE /\ caller[c].at = "clearing" /\ Goes(c, "legacy")
           /\ file' = NoCredential /\ UNCHANGED legacy
           /\ blame' = (blame \/ (file # NoCredential /\ legacy # NoCredential))
  <2>1. Becomes(c, "legacy", caller[c].credential, caller[c].rejected, caller[c].answer,
                caller[c].offered)
    BY <1>1, <1>3, GoesBecomes
  <2>2. ~blame' => Loaded' \in {Loaded, NoCredential} /\ InHand
    BY <1>3 DEF Loaded, AuthInv, Unblamed
  <2>3. QED
    BY <1>1, <1>3, <2>1, <2>2, LoadedIsKnown, EmptiedKeeps
<1>4. CASE /\ caller[c].at = "legacy" /\ Over(c)
           /\ legacy' = NoCredential /\ UNCHANGED <<file, blame>>
  <2>1. Becomes(c, "over", NoCredential, NoCredential, "none", NoCredential)
    BY <1>1, <1>4, OverBecomes
  <2>2. ~blame' => Loaded' \in {Loaded, NoCredential} /\ (InHand \/ Honoured(file))
    BY <1>4 DEF Loaded, AuthInv, Unblamed
  <2>3. QED
    BY <1>1, <1>4, <2>1, <2>2, LoadedIsKnown, EmptiedKeeps
<1>5. QED
  BY <1>2, <1>3, <1>4 DEF ClearAuth

LEMMA SignInKeeps ==
    ASSUME AuthInv, PersistInitialTokens
    PROVE  AuthInv'
<1> DEFINE new == issued + 1
<1>1. /\ issued' = new /\ file' = new /\ UNCHANGED <<legacy, spent, expired, revoked, caller>>
      /\ Written /\ issued < MaxCredentials
  BY DEF PersistInitialTokens, worldVars
<1>2. /\ new \in Credential /\ new \notin KnownOrNone /\ Known' = Known \union {new}
      /\ new # NoCredential /\ issued \in Nat
  BY <1>1, AuthManagerAssumption
     DEF AuthInv, AuthTypeOK, Known, KnownOrNone, Credential
<1>3. spent[new] = Nobody /\ \A n \in Credential : n > new => spent[n] = Nobody
  BY <1>2 DEF AuthInv, AllIssued, Credential
<1> HIDE DEF new
<1>4. AuthTypeOK'
  BY <1>1, <1>2, WrittenIsBlamed DEF AuthInv, AuthTypeOK, Stored
<1>5. Known \subseteq Known' /\ KnownOrNone \subseteq KnownOrNone' /\ new \in KnownOrNone'
  BY <1>2 DEF KnownOrNone
<1>6. \A d \in Caller : Offered(d)' <=> Offered(d)
  BY <1>1 DEF Offered
<1>7. AllIssued'
  BY <1>1, <1>3, <1>5, <1>6 DEF AuthInv, AllIssued
<1>8. OneHolder'
  BY <1>1 DEF AuthInv, OneHolder
<1>9. OffersAreNew'
  BY <1>1, <1>2, <1>6, LoadedIsKnown DEF AuthInv, OffersAreNew
<1>10. Rejections'
  <2>1. \A n \in Known : ~Honoured(n) => ~Honoured(n)'
    BY <1>1, <1>2, AuthManagerAssumption DEF Honoured, Known
  <2>2. \A d \in Caller : caller[d].at = "answered" => caller[d].credential \in Known
    BY DEF AuthInv, AllIssued
  <2>3. QED
    BY <1>1, <2>1, <2>2 DEF AuthInv, Rejections
<1>11. Unblamed'
  <2> SUFFICES ASSUME ~blame' PROVE Unblamed'
    BY DEF Unblamed
  <2>1. ~blame /\ \A d \in Caller : caller[d].at # "clearing"
    BY <1>1, WrittenIsBlamed
  <2>2. Loaded' = new /\ Honoured(Loaded)'
    <3>1. new <= issued'
      BY <1>1, <1>2 DEF Credential
    <3>2. file' = new /\ spent'[new] = Nobody
      BY <1>1, <1>3
    <3>3. Loaded' = new
      BY <1>2, <3>2 DEF Loaded
    <3>4. QED
      BY <1>2, <3>1, <3>2, <3>3 DEF Honoured
  <2>3. spent'[new] \notin Process
    BY <1>1, <1>3, AuthManagerAssumption
  <2>4. ASSUME NEW d \in Caller
        PROVE  /\ Offered(d)' => spent'[caller'[d].offered] = Nobody
               /\ caller'[d].at # "clearing"
               /\ \/ caller'[d].at = "refreshing"
                  \/ caller'[d].at = "answered" /\ caller'[d].answer = "401"
                  => spent'[caller'[d].credential] # Home[d]
    <3>1. /\ Offered(d) => spent[caller[d].offered] = Nobody
          /\ \/ caller[d].at = "refreshing"
             \/ caller[d].at = "answered" /\ caller[d].answer = "401"
             => spent[caller[d].credential] # Home[d]
      BY <2>1 DEF AuthInv, Unblamed
    <3>2. caller' = caller /\ spent' = spent
      BY <1>1
    <3>3. QED
      BY <1>6, <2>1, <3>1, <3>2
  <2>5. Honoured(file)'
    <3>1. file' = Loaded'
      BY <1>1, <2>2
    <3>2. QED
      BY <2>2, <3>1 DEF Honoured
  <2>6. QED
    BY <1>1, <2>2, <2>3, <2>4, <2>5 DEF Unblamed
<1>12. QED
  BY <1>4, <1>7, <1>8, <1>9, <1>10, <1>11 DEF AuthInv

LEMMA SignOutKeeps ==
    ASSUME AuthInv, SignOut
    PROVE  AuthInv'
<1>1. /\ blame' = TRUE /\ UNCHANGED <<issued, expired, caller>>
      /\ revoked' = revoked + 1 /\ revoked < MaxRevoked
      /\ \/ file' = NoCredential /\ legacy' = NoCredential /\ UNCHANGED spent
         \/ UNCHANGED <<file, legacy>>
            /\ \E n \in Known : spent' = [spent EXCEPT ![n] = IF @ = Nobody THEN Revoked ELSE @]
  BY DEF SignOut, storeVars, Known
<1>2. Nobody # Revoked
  BY DEF Nobody, Revoked
<1>3. /\ spent' \in [Credential -> Process \union {Nobody, Revoked}]
      /\ \A n \in Credential : n > issued => spent'[n] = Nobody
      /\ \A n \in Known : spent[n] # Nobody => spent'[n] # Nobody
  <2>1. /\ spent \in [Credential -> Process \union {Nobody, Revoked}]
        /\ \A n \in Credential : n > issued => spent[n] = Nobody
        /\ issued \in Nat /\ Known \subseteq Credential /\ \A n \in Known : ~(n > issued)
    BY LoadedIsKnown DEF AuthInv, AuthTypeOK, AllIssued, Known
  <2>2. CASE UNCHANGED spent
    BY <2>1, <2>2
  <2>3. ASSUME NEW n \in Known, spent' = [spent EXCEPT ![n] = IF @ = Nobody THEN Revoked ELSE @]
        PROVE  /\ spent' \in [Credential -> Process \union {Nobody, Revoked}]
               /\ \A m \in Credential : m > issued => spent'[m] = Nobody
               /\ \A m \in Known : spent[m] # Nobody => spent'[m] # Nobody
    BY <1>2, <2>1, <2>3
  <2>4. QED
    BY <1>1, <2>2, <2>3
<1>4. AuthTypeOK'
  <2>1. revoked' \in 0 .. MaxRevoked
    BY <1>1, AuthManagerAssumption DEF AuthInv, AuthTypeOK
  <2>2. QED
    BY <1>1, <1>3, <2>1 DEF AuthInv, AuthTypeOK, Stored
<1>5. /\ Known' = Known /\ KnownOrNone' = KnownOrNone /\ NoCredential \in KnownOrNone
      /\ \A d \in Caller : Offered(d)' <=> Offered(d)
  BY <1>1 DEF Known, KnownOrNone, Offered
<1>6. AllIssued'
  BY <1>1, <1>3, <1>5 DEF AuthInv, AllIssued
<1>7. OneHolder'
  BY <1>1 DEF AuthInv, OneHolder
<1>8. OffersAreNew'
  <2>1. \A d \in Caller : Offered(d) => caller[d].offered # NoCredential
    BY LoadedIsKnown DEF AuthInv, AllIssued
  <2>2. QED
    BY <1>1, <1>5, <2>1 DEF AuthInv, OffersAreNew
<1>9. Rejections'
  <2>1. \A n \in Known : ~Honoured(n) => ~Honoured(n)'
    BY <1>1, <1>3, LoadedIsKnown DEF Honoured, Known
  <2>2. \A d \in Caller : caller[d].at = "answered" => caller[d].credential \in Known
    BY DEF AuthInv, AllIssued
  <2>3. QED
    BY <1>1, <2>1, <2>2 DEF AuthInv, Rejections
<1>10. QED
  BY <1>1, <1>4, <1>6, <1>7, <1>8, <1>9 DEF AuthInv, Unblamed

\* The clock of access tokens is seen only by who looks for a fresh one.
LEMMA ExpiringKeeps ==
    ASSUME AuthInv, UNCHANGED <<file, legacy, issued, spent, caller, revoked, blame>>,
           expired' \subseteq Credential
    PROVE  AuthInv'
<1>1. /\ Known' = Known /\ KnownOrNone' = KnownOrNone /\ Loaded' = Loaded
      /\ InHand' = InHand /\ \A n : Honoured(n)' <=> Honoured(n)
      /\ \A d \in Caller : Offered(d)' <=> Offered(d)
  BY DEF Known, KnownOrNone, Loaded, Honoured, Offered, InHand
<1>2. AuthTypeOK' /\ AllIssued' /\ OneHolder' /\ OffersAreNew' /\ Rejections'
  BY <1>1 DEF AuthInv, AuthTypeOK, AllIssued, OneHolder, OffersAreNew, Rejections
<1>3. Unblamed'
  BY <1>1 DEF AuthInv, Unblamed
<1>4. QED
  BY <1>2, <1>3 DEF AuthInv

LEMMA AuthInvKept == AuthInv /\ [AuthNext]_authVars => AuthInv'
<1> SUFFICES ASSUME AuthInv, [AuthNext]_authVars PROVE AuthInv'
  OBVIOUS
<1>1. CASE Expire
  <2>1. expired' \subseteq Credential
    BY <1>1, LoadedIsKnown DEF Expire, AuthInv, AuthTypeOK, KnownOrNone
  <2>2. QED
    BY <1>1, <2>1, ExpiringKeeps DEF Expire, storeVars, serviceVars
<1>2. CASE UNCHANGED authVars
  BY <1>2, ExpiringKeeps DEF authVars, AuthInv, AuthTypeOK
<1>3. QED
  BY <1>1, <1>2, GetAuthKeeps, RejectKeeps, AcquireKeeps, AnswerRefreshKeeps, SaveKeeps,
     RefusedKeeps, ClearAuthKeeps, DropCallerKeeps, SignInKeeps, SignOutKeeps DEF AuthNext

\* In every behaviour of the credentials, for any number of requests and of
\* processes that share the store without a lock: a refresh that loses the race
\* for a token never ends the user's session, a request never goes on with the
\* credential that was refused, and a process presents a refresh token once.
THEOREM CredentialsAreKept == AuthSpec => []AuthSafety
<1>1. AuthInit => AuthInv
  BY AuthInvInit
<1>2. AuthInv /\ [AuthNext]_authVars => AuthInv'
  BY AuthInvKept
<1>3. AuthInv => AuthSafety
  BY AuthInvIsSafe
<1>4. QED
  BY <1>1, <1>2, <1>3, PTL DEF AuthSpec

-----------------------------------------------------------------------------
(* Requests and their accounts.  The tokens of a list are sums over its      *)
(* positions.                                                                 *)

SessionOrNone == Client \union {Absent}
Counts == Nat \union {Absent}
Entry  == [id: Call, session: SessionOrNone, tokens: Counts]

LEMMA CountedIs ==
    \A c \in Counts : Counted(c) \in Nat /\ (c = Absent => Counted(c) = 0)
BY RequestMonitorAssumption DEF Counts, Counted

\* An entry counts this much for a session.
Worth(e, s) == IF e.session = s THEN Counted(e.tokens) ELSE 0

LEMMA WorthIs == \A e \in Entry : \A s : Worth(e, s) \in Nat
BY CountedIs DEF Worth, Entry

\* Whoever does not belong to the session may be counted with nothing.
LEMMA TokensAre ==
    ASSUME NEW list \in Seq(Entry), NEW I \in SUBSET DOMAIN list, NEW s
    PROVE  /\ Tokens(list, I, s) = SumFunctionOnSet([i \in I |-> Worth(list[i], s)], I)
           /\ Tokens(list, I, s) \in Nat
           /\ IsFiniteSet(I)
<1> DEFINE mine == {i \in I : list[i].session = s}
           f == [i \in mine |-> Counted(list[i].tokens)]
           g == [i \in I |-> Worth(list[i], s)]
<1>1. IsFiniteSet(I)
  <2>1. I \in SUBSET (1 .. Len(list)) /\ Len(list) \in Nat
    OBVIOUS
  <2>2. IsFiniteSet(1 .. Len(list))
    BY <2>1, FS_Interval
  <2> QED BY <2>1, <2>2, FS_Subset
<1>2. \A i \in I : list[i] \in Entry /\ g[i] \in Nat
  BY WorthIs
<1>3. IsFiniteSet(mine) /\ mine \in SUBSET I
  BY <1>1, FS_Subset
<1>4. Tokens(list, I, s) = SumFunctionOnSet(f, mine)
  BY DEF Tokens
<1>5. \A i \in mine : f[i] = g[i]
  BY DEF Worth
<1>6. \A i \in I \ mine : g[i] = 0
  BY DEF Worth
<1> HIDE DEF mine, f, g
<1>7. SumFunctionOnSet(f, mine) = SumFunctionOnSet(g, mine)
  BY <1>3, <1>5, SumSame
<1>8. SumFunctionOnSet(g, I) = SumFunctionOnSet(g, mine) + SumFunctionOnSet(g, I \ mine)
  BY <1>1, <1>2, <1>3, SumSplits
<1>9. SumFunctionOnSet(g, I \ mine) = 0
  BY <1>1, <1>6, SumOfZeros, FS_Subset
<1>10. SumFunctionOnSet(g, mine) \in Nat
  BY <1>2, <1>3, SumType
<1> QED BY <1>1, <1>4, <1>7, <1>8, <1>9, <1>10 DEF g

LEMMA TokensSplit ==
    ASSUME NEW list \in Seq(Entry), NEW I \in SUBSET DOMAIN list, NEW J \in SUBSET I, NEW s
    PROVE  Tokens(list, I, s) = Tokens(list, J, s) + Tokens(list, I \ J, s)
<1> DEFINE g(S) == [i \in S |-> Worth(list[i], s)]
<1>1. IsFiniteSet(I) /\ \A i \in I : g(I)[i] \in Nat
  <2>1. \A i \in I : list[i] \in Entry
    OBVIOUS
  <2> QED BY <2>1, TokensAre, WorthIs
<1>2. \A S \in SUBSET I : IsFiniteSet(S) /\ \A i \in S : g(S)[i] = g(I)[i]
  BY <1>1, FS_Subset
<1> HIDE DEF g
<1>3. \A S \in SUBSET I : SumFunctionOnSet(g(S), S) = SumFunctionOnSet(g(I), S)
  BY <1>2, SumSame
<1>4. \A S \in SUBSET I : Tokens(list, S, s) = SumFunctionOnSet(g(I), S)
  BY <1>3, TokensAre DEF g
<1> QED BY <1>1, <1>4, SumSplits

LEMMA TokensOfOne ==
    ASSUME NEW list \in Seq(Entry), NEW i \in DOMAIN list, NEW s
    PROVE  Tokens(list, {i}, s) = Worth(list[i], s)
<1> DEFINE g == [j \in {i} |-> Worth(list[j], s)]
<1>1. Tokens(list, {i}, s) = SumFunctionOnSet(g, {i})
  BY TokensAre
<1>2. IsFiniteSet({i}) /\ (\A j \in {i} : g[j] \in Nat) /\ {i} \ {i} = {} /\ g[i] = Worth(list[i], s)
  <2>1. list[i] \in Entry
    OBVIOUS
  <2> QED BY <2>1, FS_Singleton, WorthIs
<1>3. SumFunctionOnSet(g, {i}) = g[i] + SumFunctionOnSet(g, {})
  BY <1>2, SumTakesOut
<1>4. SumFunctionOnSet(g, {}) = 0
  BY SumUnfolds, FS_EmptySet
<1> HIDE DEF g
<1>5. g[i] \in Nat
  BY <1>2
<1> QED BY <1>1, <1>2, <1>3, <1>4, <1>5

LEMMA TokensOfNone == ASSUME NEW list \in Seq(Entry), NEW s PROVE Tokens(list, {}, s) = 0
<1> DEFINE g == [i \in {} |-> Worth(list[i], s)]
<1>1. {} \in SUBSET DOMAIN list
  OBVIOUS
<1>2. Tokens(list, {}, s) = SumFunctionOnSet(g, {})
  BY <1>1, TokensAre
<1> HIDE DEF g
<1> QED BY <1>2, SumUnfolds, FS_EmptySet

\* Lists that agree at some positions count the same there.
LEMMA TokensSame ==
    ASSUME NEW list \in Seq(Entry), NEW other \in Seq(Entry), NEW I \in SUBSET DOMAIN list,
           I \subseteq DOMAIN other, NEW s, \A i \in I : Worth(list[i], s) = Worth(other[i], s)
    PROVE  Tokens(list, I, s) = Tokens(other, I, s)
<1> DEFINE f == [i \in I |-> Worth(list[i], s)]
           g == [i \in I |-> Worth(other[i], s)]
<1>1. Tokens(list, I, s) = SumFunctionOnSet(f, I) /\ Tokens(other, I, s) = SumFunctionOnSet(g, I)
  BY TokensAre
<1>2. IsFiniteSet(I) /\ \A i \in I : f[i] = g[i]
  BY TokensAre
<1> HIDE DEF f, g
<1> QED BY <1>1, <1>2, SumSame

\* A list that is pushed down by one counts the same at its positions.
Shifts(list, longer, k) ==
    k <= Len(list) /\ k + 1 <= Len(longer) /\ \A i \in 1 .. k : longer[i + 1] = list[i]

LEMMA TokensShifted ==
    ASSUME NEW list \in Seq(Entry), NEW longer \in Seq(Entry), NEW k \in Nat,
           Shifts(list, longer, k), NEW s
    PROVE  Tokens(longer, 2 .. k + 1, s) = Tokens(list, 1 .. k, s)
<1>0. k <= Len(list) /\ k + 1 <= Len(longer) /\ \A i \in 1 .. k : longer[i + 1] = list[i]
  BY DEF Shifts
<1> DEFINE Bad == {m \in 0 .. k : Tokens(longer, 2 .. m + 1, s) # Tokens(list, 1 .. m, s)}
<1>1. ASSUME Bad # {} PROVE FALSE
  <2>1. Bad \in SUBSET (0 .. k)
    OBVIOUS
  <2>2. PICK m \in Bad : \A n \in Bad : m <= n
    BY <1>1, <2>1, LeastOf
  <2>3. m \in 0 .. k /\ Tokens(longer, 2 .. m + 1, s) # Tokens(list, 1 .. m, s)
    BY <2>2
  <2>4. m # 0
    <3>1. ASSUME m = 0 PROVE FALSE
      <4>1. 2 .. m + 1 = {} /\ 1 .. m = {}
        BY <3>1
      <4> QED BY <2>3, <4>1, TokensOfNone
    <3> QED BY <3>1
  <2> DEFINE n == m - 1
  <2>5. n \in 0 .. k /\ n < m /\ m = n + 1 /\ n \in Nat
    BY <2>3, <2>4
  <2>6. Tokens(longer, 2 .. n + 1, s) = Tokens(list, 1 .. n, s)
    BY <2>2, <2>5
  <2>7. 1 .. m \in SUBSET DOMAIN list /\ 2 .. m + 1 \in SUBSET DOMAIN longer
        /\ m \in DOMAIN list /\ m + 1 \in DOMAIN longer /\ m \in 1 .. k
    BY <1>0, <2>3, <2>4
  <2>8. /\ 1 .. n \in SUBSET (1 .. m) /\ (1 .. m) \ (1 .. n) = {m}
        /\ 2 .. n + 1 \in SUBSET (2 .. m + 1) /\ (2 .. m + 1) \ (2 .. n + 1) = {m + 1}
    BY <2>3, <2>5
  <2> HIDE DEF n, Bad
  <2>9. Tokens(list, 1 .. m, s) = Tokens(list, 1 .. n, s) + Worth(list[m], s)
    <3> DEFINE I == 1 .. m
               J == 1 .. n
    <3>1. Tokens(list, I, s) = Tokens(list, J, s) + Tokens(list, I \ J, s)
      <4>1. I \in SUBSET DOMAIN list /\ J \in SUBSET I
        BY <2>7, <2>8
      <4> HIDE DEF I, J
      <4> QED BY <4>1, TokensSplit
    <3> QED BY <2>7, <2>8, <3>1, TokensOfOne
  <2>10. Tokens(longer, 2 .. m + 1, s) = Tokens(longer, 2 .. n + 1, s) + Worth(longer[m + 1], s)
    <3> DEFINE I == 2 .. m + 1
               J == 2 .. n + 1
    <3>1. Tokens(longer, I, s) = Tokens(longer, J, s) + Tokens(longer, I \ J, s)
      <4>1. I \in SUBSET DOMAIN longer /\ J \in SUBSET I
        BY <2>7, <2>8
      <4> HIDE DEF I, J
      <4> QED BY <4>1, TokensSplit
    <3> QED BY <2>7, <2>8, <3>1, TokensOfOne
  <2> QED BY <1>0, <2>3, <2>6, <2>7, <2>9, <2>10
<1>2. k \in 0 .. k
  OBVIOUS
<1> QED BY <1>1, <1>2

\* The same for the requests under way.
Active == [session: SessionOrNone, tokens: Counts]
IsActives(f) == DOMAIN f \subseteq Call /\ IsFiniteSet(DOMAIN f) /\ \A r \in DOMAIN f : f[r] \in Active

OpenSum(f, s) == SumFunctionOnSet([r \in DOMAIN f |-> Worth(f[r], s)], DOMAIN f)

LEMMA ActiveWorth == \A e \in Active : \A s : Worth(e, s) \in Nat
BY CountedIs DEF Worth, Active

LEMMA UnderWayIs ==
    ASSUME NEW st, IsActives(st.active), NEW s
    PROVE  UnderWay(st, s) = OpenSum(st.active, s) /\ OpenSum(st.active, s) \in Nat
<1> DEFINE D == DOMAIN st.active
           mine == {r \in D : st.active[r].session = s}
           f == [r \in mine |-> Counted(st.active[r].tokens)]
           g == [r \in D |-> Worth(st.active[r], s)]
<1>1. IsFiniteSet(D) /\ \A r \in D : g[r] \in Nat
  BY ActiveWorth DEF IsActives
<1>2. IsFiniteSet(mine) /\ mine \in SUBSET D /\ IsFiniteSet(D \ mine)
  BY <1>1, FS_Subset
<1>3. UnderWay(st, s) = SumFunctionOnSet(f, mine)
  BY DEF UnderWay
<1>4. \A r \in mine : f[r] = g[r]
  BY DEF Worth
<1>5. \A r \in D \ mine : g[r] = 0
  BY DEF Worth
<1>6. OpenSum(st.active, s) = SumFunctionOnSet(g, D)
  BY DEF OpenSum
<1> HIDE DEF D, mine, f, g
<1>7. SumFunctionOnSet(f, mine) = SumFunctionOnSet(g, mine)
  BY <1>2, <1>4, SumSame
<1>8. SumFunctionOnSet(g, D) = SumFunctionOnSet(g, mine) + SumFunctionOnSet(g, D \ mine)
  BY <1>1, <1>2, SumSplits
<1>9. SumFunctionOnSet(g, D \ mine) = 0
  BY <1>2, <1>5, SumOfZeros
<1>10. SumFunctionOnSet(g, mine) \in Nat
  BY <1>1, <1>2, SumType
<1> QED BY <1>3, <1>6, <1>7, <1>8, <1>9, <1>10

\* One request less.
LEMMA OneLess ==
    ASSUME NEW f, IsActives(f), NEW r \in DOMAIN f, NEW g, DOMAIN g = DOMAIN f \ {r},
           \A x \in DOMAIN g : g[x] = f[x], NEW s
    PROVE  /\ IsActives(g)
           /\ OpenSum(f, s) = Worth(f[r], s) + OpenSum(g, s)
<1> DEFINE D == DOMAIN f
           u == [x \in D |-> Worth(f[x], s)]
           v == [x \in DOMAIN g |-> Worth(g[x], s)]
<1>1. IsFiniteSet(D) /\ (\A x \in D : u[x] \in Nat) /\ r \in D /\ u[r] = Worth(f[r], s)
  BY ActiveWorth DEF IsActives
<1>2. DOMAIN g = D \ {r} /\ IsFiniteSet(D \ {r})
  BY <1>1, FS_Subset
<1>3. IsActives(g)
  BY <1>2 DEF IsActives
<1>4. \A x \in D \ {r} : u[x] = v[x]
  OBVIOUS
<1>5. OpenSum(f, s) = SumFunctionOnSet(u, D) /\ OpenSum(g, s) = SumFunctionOnSet(v, D \ {r})
  BY <1>2 DEF OpenSum
<1> HIDE DEF D, u, v
<1>6. SumFunctionOnSet(u, D) = u[r] + SumFunctionOnSet(u, D \ {r})
  BY <1>1, SumTakesOut
<1>7. SumFunctionOnSet(u, D \ {r}) = SumFunctionOnSet(v, D \ {r})
  BY <1>2, <1>4, SumSame
<1> QED BY <1>1, <1>3, <1>5, <1>6, <1>7

-----------------------------------------------------------------------------
(* The tables of sessions. *)

IsTable(f) == DOMAIN f \subseteq SessionOrNone /\ \A s \in DOMAIN f : f[s] \in Nat

LEMMA AtIs == ASSUME NEW f, IsTable(f), NEW s PROVE At(f, s) \in Nat
BY DEF IsTable, At

LEMMA SetIs ==
    ASSUME NEW f, NEW x, NEW y
    PROVE  /\ DOMAIN Set(f, x, y) = DOMAIN f \union {x}
           /\ \A z \in DOMAIN f \union {x} : Set(f, x, y)[z] = IF z = x THEN y ELSE f[z]
           /\ \A z : At(Set(f, x, y), z) = IF z = x THEN y ELSE At(f, z)
BY DEF Set, At

LEMMA SetTable ==
    ASSUME NEW f, IsTable(f), NEW s \in SessionOrNone, NEW n \in Nat
    PROVE  IsTable(Set(f, s, n))
<1> DEFINE g == Set(f, s, n)
<1>1. DOMAIN g = DOMAIN f \union {s} /\ \A z \in DOMAIN g : g[z] = IF z = s THEN n ELSE f[z]
  BY DEF Set
<1> HIDE DEF g
<1>2. \A z \in DOMAIN g : g[z] \in Nat
  BY <1>1 DEF IsTable
<1>3. DOMAIN g \subseteq SessionOrNone
  BY <1>1 DEF IsTable
<1> QED BY <1>2, <1>3 DEF IsTable, g

LEMMA CutTable ==
    ASSUME NEW f, IsTable(f), NEW D \in SUBSET DOMAIN f
    PROVE  /\ IsTable(Restrict(f, D)) /\ DOMAIN Restrict(f, D) = D
           /\ \A s : At(Restrict(f, D), s) = IF s \in D THEN At(f, s) ELSE 0
BY DEF IsTable, Restrict, At

-----------------------------------------------------------------------------
(* The store and its operations. *)

IsStore(st) ==
    /\ st = [active |-> st.active, recent |-> st.recent, usage |-> st.usage, samples |-> st.samples]
    /\ IsActives(st.active)
    /\ st.recent \in Seq(Entry) /\ Len(st.recent) <= RecentLimit
    /\ IsTable(st.usage) /\ IsTable(st.samples)
    /\ DOMAIN st.samples \subseteq DOMAIN st.usage

LEMMA StoreParts ==
    ASSUME NEW a, NEW b, NEW c, NEW d
    PROVE  LET st == [active |-> a, recent |-> b, usage |-> c, samples |-> d]
           IN  st.active = a /\ st.recent = b /\ st.usage = c /\ st.samples = d
OBVIOUS

LEMMA UsedMoreIs ==
    ASSUME NEW st, st = [active |-> st.active, recent |-> st.recent, usage |-> st.usage, samples |-> st.samples],
           NEW s, NEW n
    PROVE  UsedMore(st, s, n) = [active |-> st.active, recent |-> st.recent,
                                 usage |-> Set(st.usage, s, At(st.usage, s) + n), samples |-> st.samples]
<1> DEFINE a == st.active
           b == st.recent
           c == st.usage
           d == st.samples
           e == Set(st.usage, s, At(st.usage, s) + n)
<1>1. UsedMore(st, s, n) = [st EXCEPT !.usage = e] /\ st = [active |-> a, recent |-> b, usage |-> c, samples |-> d]
  BY DEF UsedMore
<1> HIDE DEF a, b, c, d, e
<1>2. [st EXCEPT !.usage = e] = [active |-> a, recent |-> b, usage |-> e, samples |-> d]
  BY <1>1
<1> QED BY <1>1, <1>2 DEF a, b, d, e

LEMMA SampledIs ==
    ASSUME NEW st, st = [active |-> st.active, recent |-> st.recent, usage |-> st.usage, samples |-> st.samples],
           NEW s, NEW n
    PROVE  Sampled(st, s, n) = [active |-> st.active, recent |-> st.recent, usage |-> st.usage,
                                samples |-> IF n = 0 THEN st.samples
                                            ELSE Set(st.samples, s, At(st.samples, s) + n)]
<1>1. CASE n = 0
  BY <1>1 DEF Sampled
<1>2. CASE n # 0
  <2> DEFINE a == st.active
             b == st.recent
             c == st.usage
             d == st.samples
             e == Set(st.samples, s, At(st.samples, s) + n)
  <2>1. Sampled(st, s, n) = [st EXCEPT !.samples = e] /\ st = [active |-> a, recent |-> b, usage |-> c, samples |-> d]
    BY <1>2 DEF Sampled
  <2> HIDE DEF a, b, c, d, e
  <2>2. [st EXCEPT !.samples = e] = [active |-> a, recent |-> b, usage |-> c, samples |-> e]
    BY <2>1
  <2>3. Sampled(st, s, n) = [active |-> a, recent |-> b, usage |-> c, samples |-> e]
    BY <2>1, <2>2
  <2> QED BY <1>2, <2>3 DEF a, b, c, e
<1> QED BY <1>1, <1>2

-----------------------------------------------------------------------------
(* What an event comes to in the books: so much more is used by a session,    *)
(* and so much of what was under way is now in the list and in the history.  *)

Gone(st, next) ==
    {i \in DOMAIN st.recent : \A j \in DOMAIN next.recent : next.recent[j].id # st.recent[i].id}

Part(x, n, s) == IF s = x THEN n ELSE 0

Books(st, next, x, n, m) ==
    /\ IsStore(next)
    /\ \A s : At(next.usage, s) = At(st.usage, s) + Part(x, n, s)
    /\ \A s : At(next.samples, s) = At(st.samples, s) + Part(x, m, s)
    /\ \A s : Total(next.recent, s) + Tokens(st.recent, Gone(st, next), s)
                = Total(st.recent, s) + Part(x, m, s)
    /\ \A s : UnderWay(next, s) + Part(x, m, s) = UnderWay(st, s) + Part(x, n, s)

Booked(st, next) == \E x \in SessionOrNone, n, m \in Nat : Books(st, next, x, n, m)

LEMMA PartIs == \A x, s : \A n \in Nat : Part(x, n, s) \in Nat /\ Part(x, 0, s) = 0
BY DEF Part

LEMMA TotalIs ==
    ASSUME NEW list \in Seq(Entry), NEW s
    PROVE  Total(list, s) \in Nat /\ Total(list, s) = Tokens(list, DOMAIN list, s)
BY TokensAre DEF Total

\* Nothing leaves a list whose entries stay.
LEMMA NoneGone ==
    ASSUME NEW st, NEW next, DOMAIN next.recent = DOMAIN st.recent,
           \A i \in DOMAIN st.recent : next.recent[i].id = st.recent[i].id
    PROVE  Gone(st, next) = {}
BY DEF Gone

LEMMA StartedBooks ==
    ASSUME NEW st, IsStore(st), NEW r \in Call, r \notin DOMAIN st.active, NEW x \in SessionOrNone
    PROVE  LET next == Started(st, r, x)
           IN  /\ Booked(st, next)
               /\ DOMAIN next.active = DOMAIN st.active \union {r}
               /\ next.active[r].session = x
               /\ \A q \in DOMAIN st.active : next.active[q] = st.active[q]
               /\ next.recent = st.recent
<1> DEFINE next == Started(st, r, x)
           e == [session |-> x, tokens |-> Absent]
           f == Set(st.active, r, e)
<1>1. next = [active |-> f, recent |-> st.recent, usage |-> st.usage, samples |-> st.samples]
  <2> DEFINE a == st.active
             b == st.recent
             c == st.usage
             d == st.samples
  <2>1. next = [st EXCEPT !.active = f] /\ st = [active |-> a, recent |-> b, usage |-> c, samples |-> d]
    BY DEF Started, IsStore
  <2> HIDE DEF a, b, c, d, f, next
  <2>2. next = [active |-> f, recent |-> b, usage |-> c, samples |-> d]
    BY <2>1
  <2> QED BY <2>2 DEF b, c, d
<1>2. /\ next.active = f /\ next.recent = st.recent /\ next.usage = st.usage
      /\ next.samples = st.samples
      /\ next = [active |-> next.active, recent |-> next.recent, usage |-> next.usage,
                 samples |-> next.samples]
  BY <1>1
<1>3. /\ DOMAIN f = DOMAIN st.active \union {r} /\ f[r] = e
      /\ \A q \in DOMAIN st.active : f[q] = st.active[q]
  <2> HIDE DEF e
  <2> QED BY DEF Set
<1>4. e \in Active /\ \A s : Worth(e, s) = 0
  BY CountedIs DEF Active, Counts, Worth
<1> HIDE DEF next, e, f
<1>5. IsActives(f)
  <2>1. IsFiniteSet(DOMAIN f)
    BY <1>3, FS_AddElement DEF IsStore, IsActives
  <2> QED BY <1>3, <1>4, <2>1 DEF IsStore, IsActives
<1>6. IsStore(next)
  BY <1>2, <1>5 DEF IsStore
<1>7. \A s : OpenSum(f, s) = OpenSum(st.active, s)
  <2> SUFFICES ASSUME NEW s PROVE OpenSum(f, s) = OpenSum(st.active, s)
    OBVIOUS
  <2>1. r \in DOMAIN f /\ DOMAIN st.active = DOMAIN f \ {r} /\ IsActives(st.active)
    BY <1>3 DEF IsStore
  <2>2. OpenSum(f, s) = Worth(f[r], s) + OpenSum(st.active, s)
    <3> DEFINE a == st.active
    <3>1. DOMAIN a = DOMAIN f \ {r} /\ \A q \in DOMAIN a : a[q] = f[q]
      BY <1>3, <2>1
    <3> HIDE DEF a
    <3>2. OpenSum(f, s) = Worth(f[r], s) + OpenSum(a, s)
      BY <1>5, <2>1, <3>1, OneLess
    <3> QED BY <3>2 DEF a
  <2>3. OpenSum(st.active, s) \in Nat
    BY <2>1, UnderWayIs
  <2> QED BY <1>3, <1>4, <2>2, <2>3
<1>8. \A s : UnderWay(next, s) = UnderWay(st, s) /\ UnderWay(st, s) \in Nat
  BY <1>2, <1>5, <1>7, UnderWayIs DEF IsStore
<1>9. Gone(st, next) = {}
  BY <1>2, NoneGone
<1>10. \A s : /\ At(st.usage, s) \in Nat /\ At(st.samples, s) \in Nat /\ Total(st.recent, s) \in Nat
              /\ Tokens(st.recent, {}, s) = 0 /\ Part(x, 0, s) = 0
  BY AtIs, TotalIs, TokensOfNone, PartIs DEF IsStore
<1>11. Books(st, next, x, 0, 0)
  BY <1>2, <1>6, <1>8, <1>9, <1>10 DEF Books
<1>12. Booked(st, next)
  BY <1>11 DEF Booked
<1>13. e.session = x
  BY DEF e
<1> QED BY <1>2, <1>3, <1>12, <1>13 DEF next

LEMMA GrowthIs ==
    \A c \in Counts, n \in Nat :
        /\ Larger(c, n) \in Counts /\ Growth(c, n) \in Nat
        /\ Counted(Larger(c, n)) = Counted(c) + Growth(c, n)
<1> SUFFICES ASSUME NEW c \in Counts, NEW n \in Nat
             PROVE  /\ Larger(c, n) \in Counts /\ Growth(c, n) \in Nat
                    /\ Counted(Larger(c, n)) = Counted(c) + Growth(c, n)
  OBVIOUS
<1>1. n # Absent
  BY RequestMonitorAssumption
<1>2. CASE c = Absent
  BY <1>1, <1>2 DEF Larger, Growth, Counted, Counts
<1>3. CASE c # Absent
  <2>1. c \in Nat
    BY <1>3 DEF Counts
  <2>2. Counted(c) = c /\ Larger(c, n) = (IF n > c THEN n ELSE c)
        /\ Growth(c, n) = IF n <= c THEN 0 ELSE n - c
    BY <1>1, <1>3 DEF Counted, Larger, Growth
  <2>3. CASE n > c
    <3>1. Larger(c, n) = n /\ Growth(c, n) = n - c /\ Counted(n) = n
      BY <1>1, <2>1, <2>2, <2>3 DEF Counted
    <3> QED BY <2>1, <2>2, <2>3, <3>1 DEF Counts
  <2>4. CASE ~(n > c)
    <3>1. Larger(c, n) = c /\ Growth(c, n) = 0
      BY <2>1, <2>2, <2>4
    <3> QED BY <2>1, <2>2, <3>1 DEF Counts
  <2> QED BY <2>3, <2>4
<1> QED BY <1>2, <1>3

LEMMA OneChanged ==
    ASSUME NEW f, IsActives(f), NEW g, IsActives(g), NEW r \in DOMAIN f, DOMAIN g = DOMAIN f,
           \A x \in DOMAIN f \ {r} : g[x] = f[x], NEW s
    PROVE  OpenSum(f, s) + Worth(g[r], s) = OpenSum(g, s) + Worth(f[r], s)
<1> DEFINE h == [x \in DOMAIN f \ {r} |-> f[x]]
<1>1. DOMAIN h = DOMAIN f \ {r} /\ DOMAIN h = DOMAIN g \ {r} /\ r \in DOMAIN g
  OBVIOUS
<1>2. \A x \in DOMAIN h : h[x] = f[x] /\ h[x] = g[x]
  OBVIOUS
<1> HIDE DEF h
<1>3. OpenSum(f, s) = Worth(f[r], s) + OpenSum(h, s) /\ IsActives(h)
  BY <1>1, <1>2, OneLess
<1>4. OpenSum(g, s) = Worth(g[r], s) + OpenSum(h, s)
  BY <1>1, <1>2, OneLess
<1>5. Worth(f[r], s) \in Nat /\ Worth(g[r], s) \in Nat
  BY <1>1, ActiveWorth DEF IsActives
<1>6. OpenSum(h, s) \in Nat
  <2> DEFINE st == [active |-> h]
  <2>1. st.active = h
    OBVIOUS
  <2> HIDE DEF st
  <2> QED BY <1>3, <2>1, UnderWayIs
<1> QED BY <1>3, <1>4, <1>5, <1>6

LEMMA EntryChanged ==
    ASSUME NEW list \in Seq(Entry), NEW other \in Seq(Entry), DOMAIN other = DOMAIN list,
           NEW i \in DOMAIN list, \A j \in DOMAIN list \ {i} : other[j] = list[j], NEW s
    PROVE  Total(list, s) + Worth(other[i], s) = Total(other, s) + Worth(list[i], s)
<1> DEFINE D == DOMAIN list
           R == D \ {i}
<1>1. D \in SUBSET DOMAIN list /\ {i} \in SUBSET D /\ R \in SUBSET DOMAIN list
      /\ D \in SUBSET DOMAIN other /\ R \subseteq DOMAIN other /\ D \ {i} = R
  OBVIOUS
<1>2. \A j \in R : Worth(list[j], s) = Worth(other[j], s)
  OBVIOUS
<1>3. Total(list, s) = Tokens(list, D, s) /\ Total(other, s) = Tokens(other, D, s)
  BY TotalIs
<1> HIDE DEF D, R
<1>4. Tokens(list, D, s) = Tokens(list, {i}, s) + Tokens(list, R, s)
  BY <1>1, TokensSplit
<1>5. Tokens(other, D, s) = Tokens(other, {i}, s) + Tokens(other, R, s)
  BY <1>1, TokensSplit
<1>6. Tokens(list, R, s) = Tokens(other, R, s) /\ Tokens(list, R, s) \in Nat
  BY <1>1, <1>2, TokensSame, TokensAre
<1>7. Tokens(list, {i}, s) = Worth(list[i], s) /\ Tokens(other, {i}, s) = Worth(other[i], s)
  BY TokensOfOne
<1>8. Worth(list[i], s) \in Nat /\ Worth(other[i], s) \in Nat
  <2>1. list[i] \in Entry /\ other[i] \in Entry
    OBVIOUS
  <2> QED BY <2>1, WorthIs
<1> QED BY <1>3, <1>4, <1>5, <1>6, <1>7, <1>8

\* A report on a request that is under way.
LEMMA ReportedActive ==
    ASSUME NEW st, IsStore(st), NEW r \in DOMAIN st.active, NEW n \in Nat
    PROVE  LET next == Reported(st, r, n)
           IN  /\ Booked(st, next)
               /\ DOMAIN next.active = DOMAIN st.active
               /\ \A q \in DOMAIN st.active : next.active[q].session = st.active[q].session
               /\ next.recent = st.recent
<1> DEFINE next == Reported(st, r, n)
           known == st.active[r]
           x == known.session
           more == Growth(known.tokens, n)
           f == [st.active EXCEPT ![r].tokens = Larger(@, n)]
           u == Set(st.usage, x, At(st.usage, x) + more)
<1>1. known \in Active /\ x \in SessionOrNone /\ known.tokens \in Counts
  BY DEF IsStore, IsActives, Active
<1>2. more \in Nat /\ Larger(known.tokens, n) \in Counts
      /\ Counted(Larger(known.tokens, n)) = Counted(known.tokens) + more
  BY <1>1, GrowthIs
<1>3. next = [active |-> f, recent |-> st.recent, usage |-> u, samples |-> st.samples]
  <2> DEFINE a == st.active
             b == st.recent
             c == st.usage
             d == st.samples
             mid == [active |-> f, recent |-> b, usage |-> c, samples |-> d]
             k == Larger(known.tokens, n)
  <2>1. st = [active |-> a, recent |-> b, usage |-> c, samples |-> d]
    BY DEF IsStore
  <2>2. next = UsedMore([st EXCEPT !.active[r].tokens = k], x, more)
    BY DEF Reported
  <2>5. f = [a EXCEPT ![r].tokens = k]
    OBVIOUS
  <2>6. [st EXCEPT !.active[r].tokens = k] = mid
    <3> HIDE DEF a, b, c, d, f, k
    <3> QED BY <2>1, <2>5
  <2>7. next = UsedMore(mid, x, more)
    BY <2>2, <2>6
  <2>3. mid.active = f /\ mid.recent = b /\ mid.usage = c /\ mid.samples = d
        /\ mid = [active |-> mid.active, recent |-> mid.recent, usage |-> mid.usage, samples |-> mid.samples]
    OBVIOUS
  <2> HIDE DEF mid, f, next, x, more, k
  <2>4. UsedMore(mid, x, more) = [active |-> f, recent |-> b,
                                  usage |-> Set(c, x, At(c, x) + more), samples |-> d]
    BY <2>3, UsedMoreIs
  <2> QED BY <2>7, <2>4
<1>4. /\ next.active = f /\ next.recent = st.recent /\ next.usage = u
      /\ next.samples = st.samples
      /\ next = [active |-> next.active, recent |-> next.recent, usage |-> next.usage,
                 samples |-> next.samples]
  <2> HIDE DEF f, u, next
  <2> QED BY <1>3
<1>5. /\ DOMAIN f = DOMAIN st.active /\ f[r] = [known EXCEPT !.tokens = Larger(known.tokens, n)]
      /\ \A q \in DOMAIN st.active \ {r} : f[q] = st.active[q]
  OBVIOUS
<1>6. f[r] \in Active /\ f[r].session = x /\ f[r].tokens = Larger(known.tokens, n)
  BY <1>1, <1>2, <1>5 DEF Active
<1>7. \A s : /\ Worth(f[r], s) = Worth(known, s) + Part(x, more, s)
             /\ Worth(known, s) \in Nat /\ Part(x, more, s) \in Nat
  <2> HIDE DEF f, more
  <2>1. Counted(known.tokens) \in Nat
    BY <1>1, CountedIs
  <2> QED BY <1>2, <1>6, <2>1 DEF Worth, Part
<1>8. At(st.usage, x) + more \in Nat
  BY <1>2, AtIs DEF IsStore
<1>9. IsTable(u) /\ DOMAIN st.usage \subseteq DOMAIN u
      /\ \A s : At(u, s) = At(st.usage, s) + Part(x, more, s)
  <2> DEFINE c == st.usage
             k == At(c, x) + more
  <2>1. IsTable(c) /\ k \in Nat /\ u = Set(c, x, k) /\ \A s : At(c, s) \in Nat
    BY <1>8, AtIs DEF IsStore
  <2>2. IsTable(u) /\ DOMAIN u = DOMAIN c \union {x}
    <3> HIDE DEF c, u, k, x, known
    <3> QED BY <1>1, <2>1, SetTable, SetIs
  <2>3. \A s : At(u, s) = IF s = x THEN k ELSE At(c, s)
    <3> HIDE DEF c, u, k, x, known
    <3> QED BY <2>1 DEF Set, At
  <2> HIDE DEF u, x, more
  <2>4. \A s : At(u, s) = At(c, s) + Part(x, more, s)
    BY <1>2, <2>1, <2>3 DEF Part
  <2> QED BY <2>2, <2>4
<1> HIDE DEF f, u, next, more, x, known
<1>10. IsActives(f)
  BY <1>5, <1>6 DEF IsStore, IsActives
<1>11. IsStore(next)
  BY <1>4, <1>9, <1>10 DEF IsStore
<1>12. \A s : UnderWay(next, s) + 0 = UnderWay(st, s) + Part(x, more, s)
  <2> SUFFICES ASSUME NEW s PROVE UnderWay(next, s) + 0 = UnderWay(st, s) + Part(x, more, s)
    OBVIOUS
  <2>1. UnderWay(next, s) = OpenSum(f, s) /\ OpenSum(f, s) \in Nat
    BY <1>4, <1>10, UnderWayIs
  <2>2. UnderWay(st, s) = OpenSum(st.active, s) /\ OpenSum(st.active, s) \in Nat
    BY UnderWayIs DEF IsStore
  <2>3. OpenSum(st.active, s) + Worth(f[r], s) = OpenSum(f, s) + Worth(known, s)
    <3> DEFINE a == st.active
    <3>1. IsActives(a) /\ r \in DOMAIN a /\ DOMAIN f = DOMAIN a /\ (\A q \in DOMAIN a \ {r} : f[q] = a[q])
          /\ a[r] = known
      BY <1>5 DEF IsStore, known
    <3> HIDE DEF a
    <3>2. OpenSum(a, s) + Worth(f[r], s) = OpenSum(f, s) + Worth(a[r], s)
      BY <1>10, <3>1, OneChanged
    <3> QED BY <3>1, <3>2 DEF a
  <2> QED BY <1>7, <2>1, <2>2, <2>3
<1>13. Gone(st, next) = {}
  BY <1>4, NoneGone
<1>14. \A s : /\ At(st.samples, s) \in Nat /\ Total(st.recent, s) \in Nat
              /\ Tokens(st.recent, {}, s) = 0 /\ Part(x, 0, s) = 0
  BY AtIs, TotalIs, TokensOfNone, PartIs DEF IsStore
<1>15. Books(st, next, x, more, 0)
  BY <1>4, <1>9, <1>11, <1>12, <1>13, <1>14 DEF Books
<1>16. Booked(st, next)
  BY <1>1, <1>2, <1>15 DEF Booked
<1>17. \A q \in DOMAIN st.active : f[q].session = st.active[q].session
  BY <1>5, <1>6 DEF x, known
<1> QED BY <1>4, <1>5, <1>16, <1>17 DEF next

Adds(f, g, x, n) ==
    /\ IsTable(g) /\ DOMAIN f \subseteq DOMAIN g /\ DOMAIN g \subseteq DOMAIN f \union {x}
    /\ n # 0 => x \in DOMAIN g
    /\ \A s : At(g, s) = At(f, s) + Part(x, n, s)

LEMMA SetAdds ==
    ASSUME NEW f, IsTable(f), NEW x \in SessionOrNone, NEW n \in Nat
    PROVE  Adds(f, Set(f, x, At(f, x) + n), x, n) /\ x \in DOMAIN Set(f, x, At(f, x) + n)
<1> DEFINE k == At(f, x) + n
           g == Set(f, x, k)
<1>1. k \in Nat /\ \A s : At(f, s) \in Nat
  BY AtIs
<1>2. k = At(f, x) + n /\ At(f, x) \in Nat /\ g = Set(f, x, k)
  BY <1>1
<1> HIDE DEF k
<1>3. IsTable(g) /\ DOMAIN g = DOMAIN f \union {x}
  <2>1. IsTable(Set(f, x, k))
    BY <1>1, SetTable
  <2>2. DOMAIN g = DOMAIN f \union {x}
    BY <1>2 DEF Set
  <2> QED BY <1>2, <2>1, <2>2
<1>4. \A s : At(g, s) = IF s = x THEN k ELSE At(f, s)
  BY <1>2 DEF Set, At
<1> HIDE DEF g
<1>5. \A s : At(g, s) = At(f, s) + Part(x, n, s)
  BY <1>1, <1>2, <1>4 DEF Part
<1>6. Adds(f, g, x, n) /\ x \in DOMAIN g
  BY <1>3, <1>5 DEF Adds
<1> QED BY <1>6 DEF g, k

LEMMA SampleAdds ==
    ASSUME NEW f, IsTable(f), NEW x \in SessionOrNone, NEW n \in Nat
    PROVE  Adds(f, IF n = 0 THEN f ELSE Set(f, x, At(f, x) + n), x, n)
<1>1. CASE n = 0
  <2>1. \A s : At(f, s) = At(f, s) + Part(x, n, s)
    BY <1>1, AtIs DEF Part
  <2> QED BY <1>1, <2>1 DEF Adds
<1>2. CASE n # 0
  <2> DEFINE g == Set(f, x, At(f, x) + n)
  <2>1. Adds(f, g, x, n)
    BY SetAdds
  <2> QED BY <1>2, <2>1
<1> QED BY <1>1, <1>2

\* A report on a request that is listed once.
LEMMA ReportedListed ==
    ASSUME NEW st, IsStore(st), NEW r, r \notin DOMAIN st.active, NEW i \in DOMAIN st.recent,
           Positions(st, r) = {i}, NEW n \in Nat
    PROVE  LET next == Reported(st, r, n)
           IN  /\ Booked(st, next)
               /\ next.active = st.active
               /\ DOMAIN next.recent = DOMAIN st.recent
               /\ \A j \in DOMAIN st.recent : /\ next.recent[j].id = st.recent[j].id
                                              /\ next.recent[j].session = st.recent[j].session
<1> DEFINE next == Reported(st, r, n)
           known == st.recent[i]
           x == known.session
           more == Growth(known.tokens, n)
           k == Larger(known.tokens, n)
           list == [st.recent EXCEPT ![i].tokens = k]
           u == Set(st.usage, x, At(st.usage, x) + more)
           v == IF more = 0 THEN st.samples ELSE Set(st.samples, x, At(st.samples, x) + more)
<1>1. known \in Entry /\ x \in SessionOrNone /\ known.tokens \in Counts
  <2>1. known \in Entry
    BY DEF IsStore
  <2> QED BY <2>1 DEF Entry
<1>2. more \in Nat /\ k \in Counts /\ Counted(k) = Counted(known.tokens) + more
  BY <1>1, GrowthIs
<1>3. next = Sampled(UsedMore([st EXCEPT !.recent[i].tokens = k], x, more), x, more)
  <2>1. Positions(st, r) # {} /\ Min(Positions(st, r)) = i
    <3>1. i \in Nat
      BY DEF IsStore
    <3> QED BY <3>1 DEF Min
  <2> QED BY <2>1 DEF Reported
<1>4. next = [active |-> st.active, recent |-> list, usage |-> u, samples |-> v]
  <2> DEFINE a == st.active
             b == st.recent
             c == st.usage
             d == st.samples
             mid == [active |-> a, recent |-> list, usage |-> c, samples |-> d]
             one == [active |-> a, recent |-> list, usage |-> u, samples |-> d]
  <2>1. st = [active |-> a, recent |-> b, usage |-> c, samples |-> d]
    BY DEF IsStore
  <2>2. list = [b EXCEPT ![i].tokens = k]
    OBVIOUS
  <2>3. [st EXCEPT !.recent[i].tokens = k] = mid
    <3> HIDE DEF a, b, c, d, list, k
    <3> QED BY <2>1, <2>2
  <2>4. mid.active = a /\ mid.recent = list /\ mid.usage = c /\ mid.samples = d
        /\ mid = [active |-> mid.active, recent |-> mid.recent, usage |-> mid.usage, samples |-> mid.samples]
    <3> HIDE DEF a, c, d, list
    <3> QED OBVIOUS
  <2>5. u = Set(c, x, At(c, x) + more)
    OBVIOUS
  <2>6. UsedMore(mid, x, more) = one
    <3> HIDE DEF mid, a, c, d, list, u, x, more
    <3>1. UsedMore(mid, x, more) = [active |-> a, recent |-> list, usage |-> Set(c, x, At(c, x) + more),
                                    samples |-> d]
      BY <2>4, UsedMoreIs
    <3> QED BY <2>5, <3>1
  <2>7. one.active = a /\ one.recent = list /\ one.usage = u /\ one.samples = d
        /\ one = [active |-> one.active, recent |-> one.recent, usage |-> one.usage, samples |-> one.samples]
    <3> HIDE DEF a, d, list, u
    <3> QED OBVIOUS
  <2>8. v = IF more = 0 THEN d ELSE Set(d, x, At(d, x) + more)
    OBVIOUS
  <2>9. Sampled(one, x, more) = [active |-> a, recent |-> list, usage |-> u, samples |-> v]
    <3> HIDE DEF one, a, d, list, u, v, x, more
    <3> QED BY <2>7, <2>8, SampledIs
  <2> HIDE DEF mid, one, list, u, v, x, more, next, k
  <2> QED BY <1>3, <2>3, <2>6, <2>9
<1>5. /\ next.active = st.active /\ next.recent = list /\ next.usage = u /\ next.samples = v
      /\ next = [active |-> next.active, recent |-> next.recent, usage |-> next.usage,
                 samples |-> next.samples]
  <2> HIDE DEF list, u, v, next
  <2> QED BY <1>4
<1>6. /\ DOMAIN list = DOMAIN st.recent /\ list[i] = [known EXCEPT !.tokens = k]
      /\ \A j \in DOMAIN st.recent \ {i} : list[j] = st.recent[j]
  OBVIOUS
<1>7. /\ list[i] \in Entry /\ list[i].session = x /\ list[i].tokens = k /\ list[i].id = known.id
  <2> HIDE DEF k, list
  <2> QED BY <1>1, <1>2, <1>6 DEF Entry
<1>8. \A s : /\ Worth(list[i], s) = Worth(known, s) + Part(x, more, s)
             /\ Worth(known, s) \in Nat /\ Part(x, more, s) \in Nat
  <2> HIDE DEF list, more, k
  <2>1. Counted(known.tokens) \in Nat
    BY <1>1, CountedIs
  <2> QED BY <1>2, <1>7, <2>1 DEF Worth, Part
<1>9. Adds(st.usage, u, x, more) /\ x \in DOMAIN u
  <2>1. IsTable(st.usage)
    BY DEF IsStore
  <2> HIDE DEF x, more, known, k, next, list, v
  <2> QED BY <1>1, <1>2, <2>1, SetAdds
<1>10. Adds(st.samples, v, x, more)
  <2>1. IsTable(st.samples)
    BY DEF IsStore
  <2> HIDE DEF x, more, known, k, next, list, u
  <2> QED BY <1>1, <1>2, <2>1, SampleAdds
<1>11. list \in Seq(Entry) /\ Len(list) = Len(st.recent)
  <2> DEFINE b == st.recent
  <2>1. b \in Seq(Entry) /\ DOMAIN list = DOMAIN b /\ i \in DOMAIN b
    BY <1>6 DEF IsStore
  <2>2. \A j \in DOMAIN list : list[j] \in Entry
    <3>1. \A j \in DOMAIN b : b[j] \in Entry
      BY <2>1
    <3> HIDE DEF list
    <3> QED BY <1>6, <1>7, <2>1, <3>1
  <2> DEFINE m == Len(b)
  <2>3. m \in Nat /\ DOMAIN b = 1 .. m
    BY <2>1
  <2>4. list \in [1 .. m -> Entry]
    BY <2>1, <2>2, <2>3
  <2> HIDE DEF list, m
  <2>5. list \in Seq(Entry) /\ Len(list) = m
    BY <2>3, <2>4
  <2> QED BY <2>5 DEF m
<1> HIDE DEF list, u, v, next, more, x, known, k
<1>12. IsStore(next)
  BY <1>5, <1>9, <1>10, <1>11 DEF IsStore, Adds
<1>13. \A s : Total(list, s) = Total(st.recent, s) + Part(x, more, s)
  <2> SUFFICES ASSUME NEW s PROVE Total(list, s) = Total(st.recent, s) + Part(x, more, s)
    OBVIOUS
  <2> DEFINE b == st.recent
  <2>1. b \in Seq(Entry) /\ DOMAIN list = DOMAIN b /\ i \in DOMAIN b /\ b[i] = known
        /\ \A j \in DOMAIN b \ {i} : list[j] = b[j]
    BY <1>6 DEF IsStore, known
  <2> HIDE DEF b
  <2>2. Total(b, s) + Worth(list[i], s) = Total(list, s) + Worth(b[i], s)
    BY <1>11, <2>1, EntryChanged
  <2>3. Total(b, s) \in Nat /\ Total(list, s) \in Nat
    BY <1>11, <2>1, TotalIs
  <2>5. Worth(list[i], s) = Worth(b[i], s) + Part(x, more, s) /\ Worth(b[i], s) \in Nat
        /\ Part(x, more, s) \in Nat
    BY <1>8, <2>1
  <2>4. Total(list, s) = Total(b, s) + Part(x, more, s)
    BY <2>2, <2>3, <2>5
  <2> QED BY <2>4 DEF b
<1>14. \A s : UnderWay(next, s) = UnderWay(st, s)
  BY <1>5 DEF UnderWay
<1>15. Gone(st, next) = {}
  <2>1. \A j \in DOMAIN st.recent : list[j].id = st.recent[j].id
    BY <1>6, <1>7 DEF known
  <2> QED BY <1>5, <1>6, <2>1, NoneGone
<1>16. \A s : Total(next.recent, s) + Tokens(st.recent, Gone(st, next), s) = Total(st.recent, s) + Part(x, more, s)
  <2>1. \A s : Total(st.recent, s) \in Nat /\ Tokens(st.recent, {}, s) = 0
    BY TotalIs, TokensOfNone DEF IsStore
  <2> QED BY <1>5, <1>8, <1>13, <1>15, <2>1
<1>17. Books(st, next, x, more, more)
  BY <1>5, <1>9, <1>10, <1>12, <1>14, <1>16 DEF Books, Adds
<1>18. Booked(st, next)
  BY <1>1, <1>2, <1>17 DEF Booked
<1>19. \A j \in DOMAIN st.recent : list[j].id = st.recent[j].id /\ list[j].session = st.recent[j].session
  BY <1>6, <1>7 DEF known, x
<1> QED BY <1>5, <1>6, <1>18, <1>19 DEF next

\* The end of a request that is under way, and not in the list yet.
LEMMA FinishedBooks ==
    ASSUME NEW st, IsStore(st), NEW r \in DOMAIN st.active,
           \A j \in DOMAIN st.recent : st.recent[j].id # r,
           \A i, j \in DOMAIN st.recent : st.recent[i].id = st.recent[j].id => i = j
    PROVE  LET next == Finished(st, r)
           IN  /\ Booked(st, next)
               /\ DOMAIN next.active = DOMAIN st.active \ {r}
               /\ \A q \in DOMAIN st.active \ {r} : next.active[q] = st.active[q]
               /\ 1 \in DOMAIN next.recent
               /\ next.recent[1].id = r /\ next.recent[1].session = st.active[r].session
               /\ \A j \in DOMAIN next.recent :
                      j # 1 => j - 1 \in DOMAIN st.recent /\ next.recent[j] = st.recent[j - 1]
<1> DEFINE next == Finished(st, r)
           known == st.active[r]
           x == known.session
           m == Counted(known.tokens)
           entry == [id |-> r, session |-> known.session, tokens |-> known.tokens]
           list == <<entry>> \o st.recent
           cut == IF Len(list) > RecentLimit THEN RecentLimit ELSE Len(list)
           k == cut - 1
           short == SubSeq(list, 1, cut)
           f == Restrict(st.active, DOMAIN st.active \ {r})
           u == Set(st.usage, x, At(st.usage, x) + 0)
           v == IF m = 0 THEN st.samples ELSE Set(st.samples, x, At(st.samples, x) + m)
<1>1. known \in Active /\ x \in SessionOrNone /\ known.tokens \in Counts /\ m \in Nat /\ r \in Call
  <2>1. known \in Active /\ r \in Call
    BY DEF IsStore, IsActives
  <2> QED BY <2>1, CountedIs DEF Active
<1>2. entry \in Entry /\ entry.id = r /\ entry.session = x /\ entry.tokens = known.tokens
  BY <1>1 DEF Entry
<1>3. next = [active |-> f, recent |-> short, usage |-> u, samples |-> v]
  <2> DEFINE a == st.active
             b == st.recent
             c == st.usage
             d == st.samples
             left == [st EXCEPT !.active = f, !.recent = short]
             mid == [active |-> f, recent |-> short, usage |-> c, samples |-> d]
             one == [active |-> f, recent |-> short, usage |-> u, samples |-> d]
  <2>1. st = [active |-> a, recent |-> b, usage |-> c, samples |-> d]
    BY DEF IsStore
  <2>2. next = Sampled(UsedMore(left, x, 0), x, m)
    BY DEF Finished
  <2>3. left = mid
    <3> DEFINE half == [st EXCEPT !.active = f]
    <3>1. left = [half EXCEPT !.recent = short]
      <4> HIDE DEF f, short, list, u, v, next, one, mid, a, b, c, d
      <4> QED OBVIOUS
    <3> HIDE DEF a, b, c, d, f, short, left, one, next, list, u, v
    <3>2. half = [active |-> f, recent |-> b, usage |-> c, samples |-> d]
      BY <2>1
    <3> HIDE DEF half
    <3> QED BY <3>1, <3>2
  <2>4. mid.active = f /\ mid.recent = short /\ mid.usage = c /\ mid.samples = d
        /\ mid = [active |-> mid.active, recent |-> mid.recent, usage |-> mid.usage, samples |-> mid.samples]
    <3> HIDE DEF f, c, d, short
    <3> QED OBVIOUS
  <2>5. UsedMore(mid, x, 0) = one
    <3>1. u = Set(c, x, At(c, x) + 0)
      OBVIOUS
    <3> HIDE DEF mid, f, c, d, short, u, x
    <3>2. UsedMore(mid, x, 0) = [active |-> f, recent |-> short, usage |-> Set(c, x, At(c, x) + 0),
                                 samples |-> d]
      BY <2>4, UsedMoreIs
    <3> QED BY <3>1, <3>2
  <2>6. one.active = f /\ one.recent = short /\ one.usage = u /\ one.samples = d
        /\ one = [active |-> one.active, recent |-> one.recent, usage |-> one.usage, samples |-> one.samples]
    <3> HIDE DEF f, d, short, u
    <3> QED OBVIOUS
  <2>7. v = IF m = 0 THEN d ELSE Set(d, x, At(d, x) + m)
    OBVIOUS
  <2>8. Sampled(one, x, m) = [active |-> f, recent |-> short, usage |-> u, samples |-> v]
    <3> HIDE DEF one, f, d, short, u, v, x, m
    <3> QED BY <2>6, <2>7, SampledIs
  <2> HIDE DEF left, mid, one, short, u, v, x, m, f, next
  <2> QED BY <2>2, <2>3, <2>5, <2>8
<1>4. /\ next.active = f /\ next.recent = short /\ next.usage = u /\ next.samples = v
      /\ next = [active |-> next.active, recent |-> next.recent, usage |-> next.usage,
                 samples |-> next.samples]
  <2> HIDE DEF f, short, u, v, next
  <2> QED BY <1>3
<1>5. Adds(st.usage, u, x, 0)
  <2>1. IsTable(st.usage) /\ 0 \in Nat
    BY DEF IsStore
  <2> HIDE DEF x, known, m
  <2> QED BY <1>1, <2>1, SetAdds
<1>6. Adds(st.samples, v, x, m) /\ (m = 0 => v = st.samples) /\ x \in DOMAIN u
  <2>1. IsTable(st.samples) /\ IsTable(st.usage) /\ 0 \in Nat
    BY DEF IsStore
  <2> HIDE DEF x, known, m
  <2> QED BY <1>1, <2>1, SampleAdds, SetAdds
<1>7. /\ list \in Seq(Entry) /\ Len(list) = Len(st.recent) + 1 /\ list[1] = entry
      /\ \A j \in DOMAIN st.recent : list[j + 1] = st.recent[j]
  <2> DEFINE b == st.recent
  <2>1. b \in Seq(Entry)
    BY DEF IsStore
  <2> HIDE DEF b, entry
  <2> QED BY <1>2, <2>1 DEF b
<1>8. /\ k \in Nat /\ k <= Len(st.recent) /\ k + 1 <= RecentLimit /\ cut = k + 1
      /\ cut \in 1 .. Len(list) /\ Len(st.recent) \in Nat
  <2>1. st.recent \in Seq(Entry) /\ Len(st.recent) \in Nat
    BY DEF IsStore
  <2> HIDE DEF list
  <2> QED BY <1>7, <2>1, RequestMonitorAssumption
<1> HIDE DEF list
<1>9. /\ short \in Seq(Entry) /\ Len(short) = k + 1 /\ DOMAIN short = 1 .. k + 1
      /\ short[1] = entry /\ \A j \in 1 .. k : short[j + 1] = st.recent[j]
  <2>1. /\ short \in Seq(Entry) /\ Len(short) = cut /\ DOMAIN short = 1 .. cut
        /\ \A j \in 1 .. cut : short[j] = list[j]
    <3> HIDE DEF cut
    <3> QED BY <1>7, <1>8
  <2> HIDE DEF short, k, cut
  <2>2. short[1] = entry
    BY <1>7, <1>8, <2>1
  <2>3. \A j \in 1 .. k : j \in DOMAIN st.recent /\ j + 1 \in 1 .. cut
    BY <1>8 DEF IsStore
  <2>4. \A j \in 1 .. k : short[j + 1] = st.recent[j]
    BY <1>7, <2>1, <2>3
  <2> QED BY <1>8, <2>1, <2>2, <2>4
<1>10. /\ DOMAIN f = DOMAIN st.active \ {r}
       /\ \A q \in DOMAIN st.active \ {r} : f[q] = st.active[q]
  BY DEF Restrict
<1> HIDE DEF short, k, cut, f, u, v, next, entry, x, m
<1>11. IsActives(f) /\ \A s : OpenSum(st.active, s) = Worth(known, s) + OpenSum(f, s)
  <2> DEFINE a == st.active
  <2>1. IsActives(a) /\ r \in DOMAIN a /\ DOMAIN f = DOMAIN a \ {r}
        /\ (\A q \in DOMAIN f : f[q] = a[q]) /\ a[r] = known
    BY <1>10 DEF IsStore
  <2> HIDE DEF a, known
  <2>2. IsActives(f) /\ \A s : OpenSum(a, s) = Worth(a[r], s) + OpenSum(f, s)
    BY <2>1, OneLess
  <2> QED BY <2>1, <2>2 DEF a
<1>12. \A s : Worth(known, s) = Part(x, m, s) /\ Worth(entry, s) = Part(x, m, s) /\ Part(x, m, s) \in Nat
              /\ Part(x, 0, s) = 0
  <2>1. \A s : Worth(known, s) = Part(x, m, s) /\ Worth(entry, s) = Part(x, m, s)
    BY <1>2 DEF Worth, Part, x, m
  <2> QED BY <1>1, <2>1, PartIs
<1>13. IsStore(next)
  <2>1. Len(short) <= RecentLimit
    BY <1>8, <1>9
  <2>2. DOMAIN v \subseteq DOMAIN u
    BY <1>5, <1>6 DEF Adds, IsStore
  <2> QED BY <1>4, <1>5, <1>6, <1>9, <1>11, <2>1, <2>2 DEF IsStore, Adds
<1>14. \A s : UnderWay(next, s) + Part(x, m, s) = UnderWay(st, s) + Part(x, 0, s)
  <2> SUFFICES ASSUME NEW s PROVE UnderWay(next, s) + Part(x, m, s) = UnderWay(st, s) + Part(x, 0, s)
    OBVIOUS
  <2>1. UnderWay(next, s) = OpenSum(f, s) /\ OpenSum(f, s) \in Nat
    BY <1>4, <1>11, UnderWayIs
  <2>2. UnderWay(st, s) = OpenSum(st.active, s) /\ OpenSum(st.active, s) \in Nat
    BY UnderWayIs DEF IsStore
  <2>3. OpenSum(st.active, s) = Part(x, m, s) + OpenSum(f, s)
    BY <1>11, <1>12
  <2> QED BY <1>12, <2>1, <2>2, <2>3
<1>15. Gone(st, next) = DOMAIN st.recent \ (1 .. k)
  <2>1. DOMAIN st.recent = 1 .. Len(st.recent)
    BY DEF IsStore
  <2>2. ASSUME NEW i \in DOMAIN st.recent, i \in 1 .. k PROVE i \notin Gone(st, next)
    <3>1. i + 1 \in DOMAIN short /\ short[i + 1] = st.recent[i]
      BY <1>8, <1>9, <2>2
    <3> QED BY <1>4, <3>1 DEF Gone
  <2>3. ASSUME NEW i \in DOMAIN st.recent, i \notin 1 .. k PROVE i \in Gone(st, next)
    <3>1. SUFFICES ASSUME NEW j \in DOMAIN short PROVE short[j].id # st.recent[i].id
      BY <1>4 DEF Gone
    <3>2. CASE j = 1
      BY <1>2, <1>9, <3>2
    <3>3. CASE j # 1
      <4>1. j - 1 \in 1 .. k /\ j = (j - 1) + 1
        BY <1>8, <1>9, <3>3
      <4>2. short[j] = st.recent[j - 1] /\ j - 1 \in DOMAIN st.recent
        BY <1>8, <1>9, <2>1, <4>1
      <4> QED BY <2>3, <4>1, <4>2
    <3> QED BY <3>2, <3>3
  <2> QED BY <2>2, <2>3 DEF Gone
<1>16. \A s : Total(short, s) + Tokens(st.recent, Gone(st, next), s) = Total(st.recent, s) + Part(x, m, s)
  <2> SUFFICES ASSUME NEW s
               PROVE  Total(short, s) + Tokens(st.recent, Gone(st, next), s) = Total(st.recent, s) + Part(x, m, s)
    OBVIOUS
  <2> DEFINE b == st.recent
             D == DOMAIN b
             J == 1 .. k
             S == DOMAIN short
             T == 2 .. k + 1
             g == D \ J
  <2>1. b \in Seq(Entry) /\ D = 1 .. Len(b)
    BY DEF IsStore
  <2>2. D \in SUBSET DOMAIN b /\ J \in SUBSET D /\ J \in SUBSET DOMAIN b
    BY <1>8, <2>1
  <2>3. S \in SUBSET DOMAIN short /\ {1} \in SUBSET S /\ S \ {1} = T /\ 1 \in DOMAIN short
        /\ T \in SUBSET DOMAIN short
    BY <1>8, <1>9
  <2>4. Total(b, s) = Tokens(b, D, s) /\ Total(short, s) = Tokens(short, S, s)
    BY <1>9, <2>1, TotalIs
  <2>5. Tokens(short, T, s) = Tokens(b, J, s)
    <3>1. Shifts(b, short, k)
      BY <1>8, <1>9, <2>1 DEF Shifts
    <3>2. b \in Seq(Entry) /\ short \in Seq(Entry) /\ k \in Nat
      BY <1>8, <1>9, <2>1
    <3> HIDE DEF b
    <3>3. Tokens(short, 2 .. k + 1, s) = Tokens(b, 1 .. k, s)
      BY <3>1, <3>2, TokensShifted
    <3> QED BY <3>3 DEF b
  <2>6. Gone(st, next) = g
    BY <1>15
  <2> HIDE DEF b, D, J, S, T
  <2>7. Tokens(b, D, s) = Tokens(b, J, s) + Tokens(b, g, s)
    BY <2>1, <2>2, TokensSplit
  <2>8. Tokens(short, S, s) = Tokens(short, {1}, s) + Tokens(short, T, s)
    BY <1>9, <2>3, TokensSplit
  <2>9. Tokens(short, {1}, s) = Worth(entry, s)
    BY <1>9, <2>3, TokensOfOne
  <2>10. Tokens(b, J, s) \in Nat /\ Tokens(b, g, s) \in Nat
    BY <2>1, <2>2, TokensAre
  <2>11. Worth(entry, s) = Part(x, m, s) /\ Part(x, m, s) \in Nat
    BY <1>12
  <2>12. Total(short, s) + Tokens(b, g, s) = Total(b, s) + Part(x, m, s)
    BY <2>4, <2>5, <2>7, <2>8, <2>9, <2>10, <2>11
  <2> QED BY <2>6, <2>12 DEF b
<1>17. Books(st, next, x, 0, m)
  BY <1>4, <1>5, <1>6, <1>13, <1>14, <1>16 DEF Books, Adds
<1>18. Booked(st, next)
  BY <1>1, <1>17 DEF Booked
<1>19. 1 \in DOMAIN short /\ \A j \in DOMAIN short :
           j # 1 => j - 1 \in DOMAIN st.recent /\ short[j] = st.recent[j - 1]
  <2>1. DOMAIN st.recent = 1 .. Len(st.recent)
    BY DEF IsStore
  <2>2. ASSUME NEW j \in DOMAIN short, j # 1
        PROVE  j - 1 \in DOMAIN st.recent /\ short[j] = st.recent[j - 1]
    <3>1. j - 1 \in 1 .. k /\ j = (j - 1) + 1
      BY <1>8, <1>9, <2>2
    <3> QED BY <1>8, <1>9, <2>1, <3>1
  <2> QED BY <1>8, <1>9, <2>2
<1>20. short[1].id = r /\ short[1].session = known.session
  BY <1>2, <1>9 DEF x
<1> QED BY <1>4, <1>10, <1>18, <1>19, <1>20 DEF next

-----------------------------------------------------------------------------
(* The sums hold through an event, with pruning or without. *)

Sums(st, ev, fg) ==
    /\ IsTable(ev)
    /\ \A s \in SessionOrNone :
           At(st.usage, s) = At(ev, s) + Total(st.recent, s) + UnderWay(st, s)
    /\ \A s \in SessionOrNone \ fg : At(st.samples, s) = At(ev, s) + Total(st.recent, s)

\* No entry, no tokens.
LEMMA NoTokens ==
    ASSUME NEW list, NEW I, NEW s, \A i \in I : list[i].session # s
    PROVE  Tokens(list, I, s) = 0
<1> DEFINE mine == {i \in I : list[i].session = s}
           f == [i \in mine |-> Counted(list[i].tokens)]
<1>1. mine = {} /\ Tokens(list, I, s) = SumFunctionOnSet(f, mine)
  BY DEF Tokens
<1> HIDE DEF f
<1> QED BY <1>1, SumUnfolds, FS_EmptySet

LEMMA NothingUnderWay ==
    ASSUME NEW st, NEW s, \A r \in DOMAIN st.active : st.active[r].session # s
    PROVE  UnderWay(st, s) = 0
<1> DEFINE mine == {r \in DOMAIN st.active : st.active[r].session = s}
           f == [r \in mine |-> Counted(st.active[r].tokens)]
<1>1. mine = {} /\ UnderWay(st, s) = SumFunctionOnSet(f, mine)
  BY DEF UnderWay
<1> HIDE DEF f
<1> QED BY <1>1, SumUnfolds, FS_EmptySet

Widened(st, next, ev) ==
    [s \in DOMAIN ev \union {st.recent[i].session : i \in Gone(st, next)} |->
        At(ev, s) + Tokens(st.recent, Gone(st, next), s)]

LEMMA GoneIs ==
    ASSUME NEW st, IsStore(st), NEW next
    PROVE  /\ Gone(st, next) \in SUBSET DOMAIN st.recent /\ st.recent \in Seq(Entry)
           /\ \A i \in Gone(st, next) : st.recent[i].session \in SessionOrNone
           /\ \A s : Tokens(st.recent, Gone(st, next), s) \in Nat
<1>1. st.recent \in Seq(Entry)
  BY DEF IsStore
<1>2. Gone(st, next) \in SUBSET DOMAIN st.recent
  BY DEF Gone
<1>3. \A i \in DOMAIN st.recent : st.recent[i].session \in SessionOrNone
  <2>1. \A i \in DOMAIN st.recent : st.recent[i] \in Entry
    BY <1>1
  <2> QED BY <2>1 DEF Entry
<1>4. \A s : Tokens(st.recent, Gone(st, next), s) \in Nat
  BY <1>1, <1>2, TokensAre
<1> QED BY <1>1, <1>2, <1>3, <1>4

LEMMA WidenedIs ==
    ASSUME NEW st, IsStore(st), NEW next, NEW ev, IsTable(ev)
    PROVE  /\ IsTable(Widened(st, next, ev))
           /\ \A s : At(Widened(st, next, ev), s) = At(ev, s) + Tokens(st.recent, Gone(st, next), s)
<1> DEFINE g == Gone(st, next)
           D == DOMAIN ev \union {st.recent[i].session : i \in g}
           w == Widened(st, next, ev)
           t(s) == Tokens(st.recent, g, s)
<1>1. DOMAIN w = D /\ \A s \in D : w[s] = At(ev, s) + t(s)
  BY DEF Widened
<1>2. \A s : t(s) \in Nat /\ At(ev, s) \in Nat
  BY GoneIs, AtIs
<1>3. D \subseteq SessionOrNone
  BY GoneIs DEF IsTable
<1>4. \A s : s \notin D => t(s) = 0 /\ At(ev, s) = 0
  BY NoTokens DEF At
<1> HIDE DEF t, D, w, g
<1>5. IsTable(w)
  BY <1>1, <1>2, <1>3 DEF IsTable
<1>6. \A s : At(w, s) = At(ev, s) + t(s)
  <2> SUFFICES ASSUME NEW s PROVE At(w, s) = At(ev, s) + t(s)
    OBVIOUS
  <2>1. CASE s \in D
    BY <1>1, <2>1 DEF At
  <2>2. CASE s \notin D
    <3>1. At(w, s) = 0
      BY <1>1, <2>2 DEF At
    <3> QED BY <1>4, <2>2, <3>1
  <2> QED BY <2>1, <2>2
<1> QED BY <1>5, <1>6 DEF t, w, g

LEMMA SumsAre ==
    ASSUME NEW st, IsStore(st), NEW s
    PROVE  /\ Total(st.recent, s) \in Nat /\ UnderWay(st, s) \in Nat
           /\ At(st.usage, s) \in Nat /\ At(st.samples, s) \in Nat
<1>1. IsActives(st.active) /\ st.recent \in Seq(Entry) /\ IsTable(st.usage) /\ IsTable(st.samples)
  BY DEF IsStore
<1> QED BY <1>1, TotalIs, UnderWayIs, AtIs

LEMMA BookedSums ==
    ASSUME NEW st, IsStore(st), NEW ev, NEW fg, Sums(st, ev, fg), NEW next, Booked(st, next)
    PROVE  IsStore(next) /\ Sums(next, Widened(st, next, ev), fg)
<1>1. PICK x \in SessionOrNone, n \in Nat, m \in Nat : Books(st, next, x, n, m)
  BY DEF Booked
<1>2. IsStore(next) /\ IsTable(ev)
  BY <1>1 DEF Books, Sums
<1> DEFINE w == Widened(st, next, ev)
           t(s) == Tokens(st.recent, Gone(st, next), s)
<1>3. IsTable(w) /\ \A s : At(w, s) = At(ev, s) + t(s)
  BY <1>2, WidenedIs
<1>4. \A s : t(s) \in Nat /\ At(ev, s) \in Nat
  BY <1>2, GoneIs, AtIs
<1>5. \A s : Part(x, n, s) \in Nat /\ Part(x, m, s) \in Nat
  BY PartIs
<1>6. \A s : /\ At(next.usage, s) = At(st.usage, s) + Part(x, n, s)
             /\ At(next.samples, s) = At(st.samples, s) + Part(x, m, s)
             /\ Total(next.recent, s) + t(s) = Total(st.recent, s) + Part(x, m, s)
             /\ UnderWay(next, s) + Part(x, m, s) = UnderWay(st, s) + Part(x, n, s)
  BY <1>1 DEF Books
<1> HIDE DEF w, t
<1>7. ASSUME NEW s \in SessionOrNone
      PROVE  At(next.usage, s) = At(w, s) + Total(next.recent, s) + UnderWay(next, s)
  <2>1. At(st.usage, s) = At(ev, s) + Total(st.recent, s) + UnderWay(st, s)
    BY DEF Sums
  <2>2. Total(st.recent, s) \in Nat /\ UnderWay(st, s) \in Nat /\ Total(next.recent, s) \in Nat
        /\ UnderWay(next, s) \in Nat
    BY <1>2, SumsAre
  <2>3. At(w, s) = At(ev, s) + t(s) /\ t(s) \in Nat /\ At(ev, s) \in Nat
        /\ Part(x, n, s) \in Nat /\ Part(x, m, s) \in Nat
    BY <1>3, <1>4, <1>5
  <2>4. /\ At(next.usage, s) = At(st.usage, s) + Part(x, n, s)
        /\ Total(next.recent, s) + t(s) = Total(st.recent, s) + Part(x, m, s)
        /\ UnderWay(next, s) + Part(x, m, s) = UnderWay(st, s) + Part(x, n, s)
    BY <1>6
  <2> QED BY <2>1, <2>2, <2>3, <2>4
<1>8. ASSUME NEW s \in SessionOrNone \ fg
      PROVE  At(next.samples, s) = At(w, s) + Total(next.recent, s)
  <2>1. At(st.samples, s) = At(ev, s) + Total(st.recent, s)
    BY DEF Sums
  <2>2. Total(st.recent, s) \in Nat /\ Total(next.recent, s) \in Nat
    BY <1>2, SumsAre
  <2>3. At(w, s) = At(ev, s) + t(s) /\ t(s) \in Nat /\ At(ev, s) \in Nat /\ Part(x, m, s) \in Nat
    BY <1>3, <1>4, <1>5
  <2>4. /\ At(next.samples, s) = At(st.samples, s) + Part(x, m, s)
        /\ Total(next.recent, s) + t(s) = Total(st.recent, s) + Part(x, m, s)
    BY <1>6
  <2> QED BY <2>1, <2>2, <2>3, <2>4
<1>9. Sums(next, w, fg)
  BY <1>3, <1>7, <1>8 DEF Sums
<1> QED BY <1>2, <1>9 DEF w

SameRequests(st, p) == p.active = st.active /\ p.recent = st.recent

LEMMA PrunedSums ==
    ASSUME NEW st, IsStore(st), NEW w, NEW fg, Sums(st, w, fg),
           NEW aged \in SUBSET DOMAIN st.usage, NEW stale \in SUBSET DOMAIN st.samples,
           MayPrune(st, aged, stale), NEW p, p = Pruned(st, aged, stale)
    PROVE  /\ IsStore(p) /\ SameRequests(st, p)
           /\ Sums(p, Restrict(w, DOMAIN w \cap DOMAIN p.usage), (fg \union stale) \cap DOMAIN p.usage)
<1> DEFINE U == DOMAIN st.usage \ (aged \ Retained(st))
           V == DOMAIN st.samples \ stale
           u == Restrict(st.usage, U)
           v == Restrict(st.samples, V)
           z == Restrict(w, DOMAIN w \cap U)
           h == (fg \union stale) \cap U
<1>1. p = [active |-> st.active, recent |-> st.recent, usage |-> u, samples |-> v]
  <2> DEFINE a == st.active
             b == st.recent
             c == st.usage
             d == st.samples
             half == [st EXCEPT !.usage = u]
  <2>1. st = [active |-> a, recent |-> b, usage |-> c, samples |-> d]
    BY DEF IsStore
  <2>2. p = [half EXCEPT !.samples = v]
    BY DEF Pruned
  <2> HIDE DEF a, b, c, d, u, v, z, h
  <2>3. half = [active |-> a, recent |-> b, usage |-> u, samples |-> d]
    BY <2>1
  <2> HIDE DEF half
  <2>4. p = [active |-> a, recent |-> b, usage |-> u, samples |-> v]
    BY <2>2, <2>3
  <2> QED BY <2>4 DEF a, b
<1>2. IsTable(st.usage) /\ IsTable(st.samples) /\ IsTable(w) /\ DOMAIN st.samples \subseteq DOMAIN st.usage
  BY DEF IsStore, Sums
<1>3. /\ IsTable(u) /\ DOMAIN u = U /\ \A s : At(u, s) = IF s \in U THEN At(st.usage, s) ELSE 0
      /\ IsTable(v) /\ DOMAIN v = V /\ \A s : At(v, s) = IF s \in V THEN At(st.samples, s) ELSE 0
      /\ IsTable(z) /\ \A s : At(z, s) = IF s \in U THEN At(w, s) ELSE 0
  <2>1. U \in SUBSET DOMAIN st.usage /\ V \in SUBSET DOMAIN st.samples /\ DOMAIN w \cap U \in SUBSET DOMAIN w
    OBVIOUS
  <2> HIDE DEF U, V
  <2>2. IsTable(u) /\ DOMAIN u = U /\ \A s : At(u, s) = IF s \in U THEN At(st.usage, s) ELSE 0
    BY <1>2, <2>1, CutTable
  <2>3. IsTable(v) /\ DOMAIN v = V /\ \A s : At(v, s) = IF s \in V THEN At(st.samples, s) ELSE 0
    BY <1>2, <2>1, CutTable
  <2>4. IsTable(z) /\ \A s : At(z, s) = IF s \in DOMAIN w \cap U THEN At(w, s) ELSE 0
    BY <1>2, <2>1, CutTable
  <2>5. \A s : At(z, s) = IF s \in U THEN At(w, s) ELSE 0
    <3> HIDE DEF z
    <3> QED BY <2>4 DEF At
  <2> QED BY <2>2, <2>3, <2>4, <2>5
<1>4. V \subseteq U
  BY <1>2 DEF MayPrune
<1>5. \A s : s \in aged \ Retained(st) => Total(st.recent, s) = 0 /\ UnderWay(st, s) = 0
  <2> SUFFICES ASSUME NEW s, s \notin Retained(st)
               PROVE  Total(st.recent, s) = 0 /\ UnderWay(st, s) = 0
    OBVIOUS
  <2>1. Total(st.recent, s) = 0
    <3>1. \A i \in DOMAIN st.recent : st.recent[i].session # s
      BY DEF Retained
    <3> QED BY <3>1, NoTokens DEF Total
  <2>2. UnderWay(st, s) = 0
    <3>1. \A r \in DOMAIN st.active : st.active[r].session # s
      BY DEF Retained
    <3> QED BY <3>1, NothingUnderWay
  <2> QED BY <2>1, <2>2
<1>6. p.active = st.active /\ p.recent = st.recent /\ p.usage = u /\ p.samples = v
      /\ p = [active |-> p.active, recent |-> p.recent, usage |-> p.usage, samples |-> p.samples]
  <2> HIDE DEF u, v
  <2> QED BY <1>1
<1>7. \A s : UnderWay(p, s) = UnderWay(st, s)
  BY <1>6 DEF UnderWay
<1>8. \A s \in SessionOrNone : s \notin U =>
          Total(st.recent, s) = 0 /\ UnderWay(st, s) = 0
  <2> SUFFICES ASSUME NEW s \in SessionOrNone, s \notin U
               PROVE  Total(st.recent, s) = 0 /\ UnderWay(st, s) = 0
    OBVIOUS
  <2>1. CASE s \in DOMAIN st.usage
    BY <1>5, <2>1
  <2>2. CASE s \notin DOMAIN st.usage
    <3>1. At(st.usage, s) = 0
      BY <2>2 DEF At
    <3>2. At(st.usage, s) = At(w, s) + Total(st.recent, s) + UnderWay(st, s)
      BY DEF Sums
    <3>3. At(w, s) \in Nat /\ Total(st.recent, s) \in Nat /\ UnderWay(st, s) \in Nat
      BY <1>2, AtIs, SumsAre
    <3> QED BY <3>1, <3>2, <3>3
  <2> QED BY <2>1, <2>2
<1> HIDE DEF u, v, z, U
<1>9. IsStore(p)
  BY <1>3, <1>4, <1>6 DEF IsStore
<1>10. ASSUME NEW s \in SessionOrNone
       PROVE  At(p.usage, s) = At(z, s) + Total(p.recent, s) + UnderWay(p, s)
  <2>1. CASE s \in U
    <3>1. At(st.usage, s) = At(w, s) + Total(st.recent, s) + UnderWay(st, s)
      BY DEF Sums
    <3>2. At(u, s) = At(st.usage, s) /\ At(z, s) = At(w, s)
      BY <1>3, <2>1
    <3> QED BY <1>6, <1>7, <3>1, <3>2
  <2>2. CASE s \notin U
    <3>1. At(u, s) = 0 /\ At(z, s) = 0
      BY <1>3, <2>2
    <3>2. Total(st.recent, s) = 0 /\ UnderWay(st, s) = 0
      BY <1>8, <2>2
    <3> QED BY <1>6, <1>7, <3>1, <3>2
  <2> QED BY <2>1, <2>2
<1>11. ASSUME NEW s \in SessionOrNone \ h
       PROVE  At(p.samples, s) = At(z, s) + Total(p.recent, s)
  <2>1. CASE s \in U
    <3>1. s \notin fg /\ s \notin stale
      BY <2>1
    <3>2. At(st.samples, s) = At(w, s) + Total(st.recent, s)
      BY <3>1 DEF Sums
    <3>3. At(v, s) = At(st.samples, s)
      <4>1. CASE s \in V
        BY <1>3, <4>1
      <4>2. CASE s \notin V
        <5>1. s \notin DOMAIN st.samples
          BY <3>1, <4>2
        <5> QED BY <1>3, <4>2, <5>1 DEF At
      <4> QED BY <4>1, <4>2
    <3>4. At(z, s) = At(w, s)
      BY <1>3, <2>1
    <3> QED BY <1>6, <3>2, <3>3, <3>4
  <2>2. CASE s \notin U
    <3>1. At(v, s) = 0 /\ At(z, s) = 0
      BY <1>3, <1>4, <2>2
    <3>2. Total(st.recent, s) = 0
      BY <1>8, <2>2
    <3> QED BY <1>6, <3>1, <3>2
  <2> QED BY <2>1, <2>2
<1>12. Sums(p, z, h)
  BY <1>3, <1>10, <1>11 DEF Sums
<1>13. DOMAIN p.usage = U
  BY <1>3, <1>6
<1> QED BY <1>6, <1>9, <1>12, <1>13 DEF z, SameRequests

-----------------------------------------------------------------------------
(* The session table. *)

SessionRecord == [affinity: Provider \union {Absent}, seen: 0 .. MaxClock]

\* A list of distinct sessions, with these members.
Orders(o, D) ==
    /\ o \in Seq(Client)
    /\ \A i, j \in DOMAIN o : o[i] = o[j] => i = j
    /\ D = {o[i] : i \in DOMAIN o}

IsSessions(f) == DOMAIN f \subseteq Client /\ \A c \in DOMAIN f : f[c] \in SessionRecord

InTable(t) ==
    /\ IsSessions(t.map)
    /\ Orders(t.order, DOMAIN t.map)
    /\ Len(t.order) <= MaxSessions

LEMMA OrderCounts == ASSUME NEW o, NEW D, Orders(o, D) PROVE Len(o) = Cardinality(D)
<1> DEFINE n == Len(o)
<1>1. n \in Nat /\ DOMAIN o = 1 .. n /\ D = {o[i] : i \in 1 .. n}
      /\ o \in [1 .. n -> Client] /\ \A i, j \in 1 .. n : o[i] = o[j] => i = j
  BY DEF Orders
<1> HIDE DEF n
<1>2. o \in [1 .. n -> D]
  BY <1>1
<1>3. o \in Bijection(1 .. n, D)
  BY <1>1, <1>2 DEF Bijection, Injection, Surjection, IsInjective
<1>4. ExistsBijection(1 .. n, D)
  BY <1>3 DEF ExistsBijection
<1>5. Cardinality(D) = n
  BY <1>1, <1>4, FS_CountingElements
<1> QED BY <1>5 DEF n

\* A list from some position on.
LEMMA FromOn ==
    ASSUME NEW o \in Seq(Client), NEW m \in 0 .. Len(o)
    PROVE  LET p == SubSeq(o, m + 1, Len(o))
           IN  /\ p \in Seq(Client) /\ Len(p) = Len(o) - m
               /\ \A j \in 1 .. Len(o) - m : p[j] = o[j + m]
<1> DEFINE n == Len(o)
           p == SubSeq(o, m + 1, n)
<1>1. n \in Nat /\ m \in 0 .. n /\ m + 1 \in Int /\ n \in Int /\ \A i \in m + 1 .. n : o[i] \in Client
  OBVIOUS
<1>2. n = Len(o)
  OBVIOUS
<1> HIDE DEF n
<1>3. /\ p \in Seq(Client)
      /\ Len(p) = IF m + 1 <= n THEN n - (m + 1) + 1 ELSE 0
      /\ \A i \in 1 .. n - (m + 1) + 1 : p[i] = o[m + 1 + i - 1]
  BY <1>1, SubSeqProperties
<1> HIDE DEF p
<1>4. Len(p) = n - m
  BY <1>1, <1>3
<1>5. n - (m + 1) + 1 = n - m
  BY <1>1
<1>6. ASSUME NEW j \in 1 .. n - m PROVE p[j] = o[j + m]
  <2>1. m + 1 + j - 1 = j + m
    BY <1>1
  <2> QED BY <1>3, <1>5, <2>1
<1> QED BY <1>2, <1>3, <1>4, <1>6 DEF p

\* What is left of a list without one position.
LEMMA OrderWithout ==
    ASSUME NEW o, NEW D, Orders(o, D), NEW c \in D
    PROVE  Orders(RemoveFirst(o, c), D \ {c}) /\ Len(RemoveFirst(o, c)) = Len(o) - 1
<1>1. o \in Seq(Client) /\ Len(o) \in Nat /\ DOMAIN o = 1 .. Len(o)
      /\ (\A i, j \in 1 .. Len(o) : o[i] = o[j] => i = j) /\ D = {o[i] : i \in 1 .. Len(o)}
  BY DEF Orders
<1>2. PICK k \in 1 .. Len(o) : o[k] = c
  BY <1>1
<1> DEFINE n == Len(o)
           p == SubSeq(o, 1, k - 1) \o SubSeq(o, k + 1, Len(o))
<1>3. RemoveFirst(o, c) = p
  <2>1. {j \in 1 .. Len(o) : o[j] = c} = {k}
    BY <1>1, <1>2
  <2>2. Min({k}) = k
    BY <1>1 DEF Min
  <2>3. SelectInSeq(o, LAMBDA v : v = c) = k
    BY <2>1, <2>2 DEF SelectInSeq
  <2> QED BY <1>2, <2>3 DEF RemoveFirst, RemoveAt
<1>4. /\ p \in Seq(Client) /\ Len(p) = n - 1 /\ DOMAIN p = 1 .. n - 1
      /\ \A j \in 1 .. n - 1 : p[j] = IF j < k THEN o[j] ELSE o[j + 1]
  <2> DEFINE a == SubSeq(o, 1, k - 1)
             b == SubSeq(o, k + 1, Len(o))
  <2>1. a \in Seq(Client) /\ Len(a) = k - 1 /\ \A j \in 1 .. k - 1 : a[j] = o[j]
    BY <1>1
  <2>2. b \in Seq(Client) /\ Len(b) = n - k /\ \A j \in 1 .. n - k : b[j] = o[j + k]
    <3>1. k \in 0 .. Len(o)
      BY <1>1
    <3> QED BY <1>1, <3>1, FromOn
  <2> HIDE DEF a, b
  <2>3. /\ a \o b \in Seq(Client) /\ Len(a \o b) = n - 1
        /\ \A j \in 1 .. n - 1 : (a \o b)[j] = IF j <= k - 1 THEN a[j] ELSE b[j - (k - 1)]
    <3>0. a \in Seq(Client) /\ b \in Seq(Client)
      BY <2>1, <2>2
    <3>1. Len(a \o b) = Len(a) + Len(b) /\ a \o b \in Seq(Client)
      <4> HIDE DEF n, p
      <4> QED BY <3>0
    <3>2. (k - 1) + (n - k) = n - 1
      BY <1>1
    <3>3. \A j \in 1 .. Len(a) + Len(b) : (a \o b)[j] = IF j <= Len(a) THEN a[j] ELSE b[j - Len(a)]
      BY <2>1, <2>2
    <3> QED BY <2>1, <2>2, <3>1, <3>2, <3>3
  <2>4. ASSUME NEW j \in 1 .. n - 1 PROVE (a \o b)[j] = IF j < k THEN o[j] ELSE o[j + 1]
    <3>1. CASE j < k
      BY <1>1, <2>1, <2>3, <3>1
    <3>2. CASE ~(j < k)
      <4>1. j - (k - 1) \in 1 .. n - k /\ (j - (k - 1)) + k = j + 1 /\ ~(j <= k - 1)
        BY <1>1, <3>2
      <4>2. (a \o b)[j] = b[j - (k - 1)]
        BY <2>3, <4>1
      <4>3. b[j - (k - 1)] = o[(j - (k - 1)) + k]
        BY <2>2, <4>1
      <4> QED BY <3>2, <4>1, <4>2, <4>3
    <3> QED BY <3>1, <3>2
  <2>5. p = a \o b /\ DOMAIN (a \o b) = 1 .. Len(a \o b)
    BY <2>3 DEF a, b
  <2> HIDE DEF p
  <2> QED BY <2>3, <2>4, <2>5
<1> HIDE DEF p
<1>5. \A i \in 1 .. n - 1 : i \in 1 .. n /\ i + 1 \in 1 .. n /\ i # i + 1
  BY <1>1
<1>6. ASSUME NEW i \in 1 .. n - 1, NEW j \in 1 .. n - 1, p[i] = p[j] PROVE i = j
  <2>1. CASE i < k /\ j < k
    BY <1>1, <1>4, <1>5, <1>6, <2>1
  <2>2. CASE i < k /\ ~(j < k)
    <3>1. o[i] = o[j + 1]
      BY <1>4, <1>6, <2>2
    <3>2. i = j + 1
      BY <1>1, <1>5, <3>1
    <3> QED BY <1>1, <2>2, <3>2
  <2>3. CASE ~(i < k) /\ j < k
    <3>1. o[i + 1] = o[j]
      BY <1>4, <1>6, <2>3
    <3>2. i + 1 = j
      BY <1>1, <1>5, <3>1
    <3> QED BY <1>1, <2>3, <3>2
  <2>4. CASE ~(i < k) /\ ~(j < k)
    <3>1. o[i + 1] = o[j + 1]
      BY <1>4, <1>6, <2>4
    <3>2. i + 1 = j + 1
      BY <1>1, <1>5, <3>1
    <3> QED BY <3>2
  <2> QED BY <2>1, <2>2, <2>3, <2>4
<1>7. {p[i] : i \in 1 .. n - 1} = D \ {c}
  <2>1. ASSUME NEW i \in 1 .. n - 1 PROVE p[i] \in D \ {c}
    <3>1. CASE i < k
      BY <1>1, <1>2, <1>4, <1>5, <3>1
    <3>2. CASE ~(i < k)
      <4>1. p[i] = o[i + 1] /\ i + 1 \in 1 .. n /\ i + 1 # k
        BY <1>1, <1>4, <1>5, <3>2
      <4> QED BY <1>1, <1>2, <4>1
    <3> QED BY <3>1, <3>2
  <2>2. ASSUME NEW d \in D \ {c} PROVE d \in {p[i] : i \in 1 .. n - 1}
    <3>1. PICK i \in 1 .. n : o[i] = d
      BY <1>1
    <3>2. i # k
      BY <1>2, <3>1
    <3>3. CASE i < k
      <4>1. i \in 1 .. n - 1
        BY <1>1, <3>3
      <4> QED BY <1>4, <3>1, <3>3, <4>1
    <3>4. CASE i > k
      <4>1. i - 1 \in 1 .. n - 1 /\ (i - 1) + 1 = i /\ ~(i - 1 < k)
        BY <1>1, <3>4
      <4>2. p[i - 1] = o[(i - 1) + 1]
        BY <1>4, <4>1
      <4>3. p[i - 1] = d
        BY <3>1, <4>1, <4>2
      <4> QED BY <4>1, <4>3
    <3> QED BY <1>1, <3>2, <3>3, <3>4
  <2> QED BY <2>1, <2>2
<1>8. Orders(p, D \ {c}) /\ Len(p) = n - 1
  BY <1>4, <1>6, <1>7 DEF Orders
<1> QED BY <1>3, <1>8

LEMMA WithoutIs ==
    ASSUME NEW t, InTable(t), NEW c \in DOMAIN t.map
    PROVE  InTable(WithoutSession(t, c)) /\ DOMAIN WithoutSession(t, c).map = DOMAIN t.map \ {c}
<1> DEFINE f == Restrict(t.map, DOMAIN t.map \ {c})
           o == RemoveFirst(t.order, c)
<1>1. WithoutSession(t, c).map = f /\ WithoutSession(t, c).order = o
  BY DEF WithoutSession
<1>2. DOMAIN f = DOMAIN t.map \ {c} /\ IsSessions(f)
  BY DEF Restrict, InTable, IsSessions
<1>3. Orders(o, DOMAIN t.map \ {c}) /\ Len(o) = Len(t.order) - 1
  BY OrderWithout DEF InTable
<1>4. Len(t.order) \in Nat
  BY DEF InTable, Orders
<1> HIDE DEF f, o
<1>5. Len(o) <= MaxSessions
  BY <1>3, <1>4, HttpServerAssumption DEF InTable
<1> QED BY <1>1, <1>2, <1>3, <1>5 DEF InTable

LEMMA LookedIs ==
    ASSUME NEW t, InTable(t), NEW c, NEW now
    PROVE  InTable(Looked(t, c, now))
BY WithoutIs DEF Looked

\* What is left of a list without its oldest members.
LEMMA OrderCut ==
    ASSUME NEW o, NEW D, Orders(o, D), NEW m \in 0 .. Len(o)
    PROVE  /\ Orders(SubSeq(o, m + 1, Len(o)), D \ {o[i] : i \in 1 .. m})
           /\ Len(SubSeq(o, m + 1, Len(o))) = Len(o) - m
<1> DEFINE n == Len(o)
           p == SubSeq(o, m + 1, Len(o))
           G == {o[i] : i \in 1 .. m}
<1>1. o \in Seq(Client) /\ n \in Nat /\ DOMAIN o = 1 .. n /\ m \in 0 .. n
      /\ (\A i, j \in 1 .. n : o[i] = o[j] => i = j) /\ D = {o[i] : i \in 1 .. n}
  BY DEF Orders
<1>2. p \in Seq(Client) /\ Len(p) = n - m /\ \A j \in 1 .. n - m : p[j] = o[j + m]
  BY <1>1, FromOn
<1>3. \A j \in 1 .. n - m : p[j] = o[j + m] /\ j + m \in 1 .. n /\ j + m \notin 1 .. m
  <2> HIDE DEF p, n
  <2> QED BY <1>1, <1>2
<1> HIDE DEF p, n
<1>4. ASSUME NEW i \in 1 .. n - m, NEW j \in 1 .. n - m, p[i] = p[j] PROVE i = j
  <2>1. o[i + m] = o[j + m] /\ i + m \in 1 .. n /\ j + m \in 1 .. n
    BY <1>3, <1>4
  <2>2. i + m = j + m
    BY <1>1, <2>1
  <2> QED BY <1>1, <2>2
<1>5. ASSUME NEW j \in 1 .. n - m PROVE p[j] \in D \ G
  <2>1. p[j] = o[j + m] /\ j + m \in 1 .. n /\ j + m \notin 1 .. m
    BY <1>3
  <2>2. \A i \in 1 .. m : i \in 1 .. n
    BY <1>1
  <2>3. p[j] \notin G
    BY <1>1, <2>1, <2>2
  <2> QED BY <1>1, <2>1, <2>3
<1>6. ASSUME NEW d \in D \ G PROVE d \in {p[j] : j \in 1 .. n - m}
  <2>1. PICK i \in 1 .. n : o[i] = d
    BY <1>1
  <2>2. i \notin 1 .. m
    BY <2>1
  <2>3. i - m \in 1 .. n - m /\ (i - m) + m = i
    BY <1>1, <2>2
  <2>4. p[i - m] = o[(i - m) + m]
    BY <1>3, <2>3
  <2>5. p[i - m] = d
    BY <2>1, <2>3, <2>4
  <2> QED BY <2>3, <2>5
<1>7. D \ G = {p[j] : j \in 1 .. n - m}
  <2> HIDE DEF G
  <2> QED BY <1>5, <1>6
<1> HIDE DEF G
<1>8. Orders(p, D \ G)
  <2>1. p \in Seq(Client) /\ DOMAIN p = 1 .. n - m
    BY <1>2
  <2> QED BY <1>4, <1>7, <2>1 DEF Orders
<1> QED BY <1>2, <1>8 DEF p, n, G

LEMMA OrderAppended ==
    ASSUME NEW o, NEW D, Orders(o, D), NEW c \in Client, c \notin D
    PROVE  Orders(Append(o, c), D \union {c}) /\ Len(Append(o, c)) = Len(o) + 1
<1> DEFINE n == Len(o)
           p == Append(o, c)
<1>1. o \in Seq(Client) /\ n \in Nat /\ DOMAIN o = 1 .. n
      /\ (\A i, j \in 1 .. n : o[i] = o[j] => i = j) /\ D = {o[i] : i \in 1 .. n}
  BY DEF Orders
<1>2. p \in Seq(Client) /\ Len(p) = n + 1 /\ DOMAIN p = 1 .. n + 1 /\ p[n + 1] = c
      /\ \A i \in 1 .. n : p[i] = o[i]
  BY <1>1
<1> HIDE DEF n, p
<1>3. \A i \in 1 .. n : p[i] # c
  BY <1>1, <1>2
<1>4. \A i \in 1 .. n + 1 : i = n + 1 \/ i \in 1 .. n
  BY <1>1
<1>5. ASSUME NEW i \in 1 .. n + 1, NEW j \in 1 .. n + 1, p[i] = p[j] PROVE i = j
  <2>1. CASE i = n + 1
    BY <1>2, <1>3, <1>4, <1>5, <2>1
  <2>2. CASE j = n + 1
    BY <1>2, <1>3, <1>4, <1>5, <2>2
  <2>3. CASE i \in 1 .. n /\ j \in 1 .. n
    BY <1>1, <1>2, <1>5, <2>3
  <2> QED BY <1>4, <2>1, <2>2, <2>3
<1>6. D \union {c} = {p[i] : i \in 1 .. n + 1}
  <2>1. n + 1 \in 1 .. n + 1 /\ \A i \in 1 .. n : i \in 1 .. n + 1
    BY <1>1
  <2> QED BY <1>1, <1>2, <1>4, <2>1
<1>7. Orders(p, D \union {c})
  BY <1>2, <1>5, <1>6 DEF Orders
<1> QED BY <1>2, <1>7 DEF n, p

LEMMA RecordedIs ==
    ASSUME NEW t, InTable(t), NEW q \in Requested, q.client \in Client
    PROVE  InTable(Recorded(t, q))
<1> DEFINE c == q.client
           kept == Looked(t, c, q.since)
           before == IF c \in DOMAIN kept.map THEN kept.map[c].affinity
                     ELSE IF q.found /\ q.since <= q.prior_seen + SessionTTL THEN q.prior ELSE Absent
           affine == IF ~q.review /\ q.name # "alias" /\ q.provider = "codex" THEN "codex" ELSE before
           order == IF c \in DOMAIN kept.map THEN kept.order ELSE Append(kept.order, c)
           more  == IF Len(order) > MaxSessions THEN Len(order) - MaxSessions ELSE 0
           gone  == {order[i] : i \in 1 .. more}
           e     == [affinity |-> affine, seen |-> q.since]
           map   == Set(kept.map, c, e)
           D     == DOMAIN kept.map
           f     == Restrict(map, DOMAIN map \ gone)
           p     == SubSeq(order, more + 1, Len(order))
<1>1. InTable(kept)
  BY LookedIs
<1>2. Recorded(t, q).map = f /\ Recorded(t, q).order = p
  BY DEF Recorded
<1>3. q.since \in 0 .. MaxClock /\ q.prior \in Provider \union {Absent}
  BY DEF Requested
<1> HIDE DEF kept
<1>4. before \in Provider \union {Absent}
  <2>1. CASE c \in DOMAIN kept.map
    <3>1. kept.map[c] \in SessionRecord
      BY <1>1, <2>1 DEF InTable, IsSessions
    <3>2. kept.map[c].affinity \in Provider \union {Absent}
      BY <3>1 DEF SessionRecord
    <3> QED BY <2>1, <3>2
  <2>2. CASE c \notin DOMAIN kept.map
    BY <1>3, <2>2
  <2> QED BY <2>1, <2>2
<1> HIDE DEF before
<1>5. e \in SessionRecord
  <2>1. affine \in Provider \union {Absent}
    BY <1>4 DEF Provider
  <2> HIDE DEF affine
  <2> QED BY <1>3, <2>1 DEF SessionRecord
<1> HIDE DEF e
<1>6. IsSessions(map) /\ DOMAIN map = D \union {c}
  BY <1>1, <1>5 DEF InTable, IsSessions, Set
<1>7. Orders(order, D \union {c}) /\ Len(order) <= MaxSessions + 1 /\ Len(order) \in Nat
  <2>1. Orders(kept.order, D) /\ Len(kept.order) <= MaxSessions /\ Len(kept.order) \in Nat
    BY <1>1 DEF InTable, Orders
  <2>2. CASE c \in D
    <3>1. order = kept.order /\ D \union {c} = D
      BY <2>2
    <3> HIDE DEF order, c, D
    <3>2. Orders(order, D \union {c}) /\ Len(order) <= MaxSessions /\ Len(order) \in Nat
      BY <2>1, <3>1
    <3> QED BY <3>2, HttpServerAssumption
  <2>3. CASE c \notin D
    <3>1. order = Append(kept.order, c)
      BY <2>3
    <3> HIDE DEF order, c, D
    <3>2. c \in Client
      BY DEF c
    <3>3. Orders(order, D \union {c}) /\ Len(order) = Len(kept.order) + 1
      BY <2>1, <2>3, <3>1, <3>2, OrderAppended
    <3> QED BY <2>1, <3>3, HttpServerAssumption
  <2> QED BY <2>2, <2>3
<1> HIDE DEF map, order
<1>8. more \in 0 .. Len(order) /\ Len(order) - more <= MaxSessions
  BY <1>7, HttpServerAssumption
<1> HIDE DEF more
<1>9. Orders(p, (D \union {c}) \ gone) /\ Len(p) = Len(order) - more
  BY <1>7, <1>8, OrderCut
<1>10. DOMAIN f = (D \union {c}) \ gone /\ IsSessions(f)
  <2> HIDE DEF gone
  <2> QED BY <1>6 DEF Restrict, IsSessions
<1> HIDE DEF f, p, gone
<1>11. Len(p) <= MaxSessions
  BY <1>8, <1>9
<1> QED BY <1>2, <1>9, <1>10, <1>11 DEF InTable

-----------------------------------------------------------------------------
(* The invariant.  A request that is open is under way in the monitor, every   *)
(* entry of the list is of one that is not, and what is open can be told from  *)
(* where the request is.                                                      *)

Open(q) == q # Unsent /\ q.armed
Stage(q) ==
    /\ q.at \notin {"streaming", "over"} => q.armed
    /\ q.at = "over" => ~q.armed

Requests ==
    /\ http \in [Call -> Requested \union {Unsent}]
    /\ \A r \in Call : http[r] # Unsent => Stage(http[r])

Listed ==
    /\ \A r \in Call : r \in DOMAIN store.active <=> Open(http[r])
    /\ \A r \in DOMAIN store.active : store.active[r].session = http[r].client
    /\ \A j \in DOMAIN store.recent :
           LET q == http[store.recent[j].id]
           IN  q # Unsent /\ ~Open(q) /\ store.recent[j].session = q.client
    /\ \A i, j \in DOMAIN store.recent : store.recent[i].id = store.recent[j].id => i = j

BooksOK ==
    /\ counted = [evicted |-> counted.evicted, forgotten |-> counted.forgotten, prunes |-> counted.prunes]
    /\ Sums(store, counted.evicted, counted.forgotten)

ServerInv ==
    /\ IsStore(store) /\ BooksOK
    /\ Requests /\ Listed
    /\ InTable(sessions)
    /\ clock \in 0 .. MaxClock

\* An event that is in the books leaves them in order.
LEMMA Applied ==
    ASSUME IsStore(store), BooksOK, NEW next, Booked(store, next), Apply(next)
    PROVE  /\ IsStore(store') /\ BooksOK'
           /\ store'.active = next.active /\ store'.recent = next.recent
<1> DEFINE ev == counted.evicted
           fg == counted.forgotten
           w == Widened(store, next, ev)
<1>1. WithEvicted(next) = w
  BY DEF WithEvicted, Evicts, Widened, Gone
<1>2. IsStore(next) /\ Sums(next, w, fg)
  BY BookedSums DEF BooksOK
<1>3. CASE store' = next /\ counted' = [counted EXCEPT !.evicted = WithEvicted(next)]
  <2>1. counted' = [evicted |-> w, forgotten |-> fg, prunes |-> counted.prunes]
    <3> DEFINE k == counted.prunes
    <3>1. counted = [evicted |-> ev, forgotten |-> fg, prunes |-> k]
      BY DEF BooksOK
    <3>2. counted' = [counted EXCEPT !.evicted = w]
      BY <1>1, <1>3
    <3> HIDE DEF w, ev, fg, k
    <3>3. counted' = [evicted |-> w, forgotten |-> fg, prunes |-> k]
      BY <3>1, <3>2
    <3> QED BY <3>3 DEF k
  <2> HIDE DEF w, fg
  <2>2. counted'.evicted = w /\ counted'.forgotten = fg
        /\ counted' = [evicted |-> counted'.evicted, forgotten |-> counted'.forgotten,
                       prunes |-> counted'.prunes]
    BY <2>1
  <2> QED BY <1>2, <1>3, <2>2 DEF BooksOK
<1>4. CASE \E aged \in SUBSET DOMAIN next.usage, stale \in SUBSET DOMAIN next.samples :
          /\ counted.prunes < MaxPrunes /\ MayPrune(next, aged, stale)
          /\ store' = Pruned(next, aged, stale)
          /\ counted' = [evicted |-> Restrict(WithEvicted(next),
                                              DOMAIN WithEvicted(next) \cap DOMAIN store'.usage),
                         forgotten |-> (counted.forgotten \union stale) \cap DOMAIN store'.usage,
                         prunes |-> counted.prunes + 1]
  <2>1. PICK aged \in SUBSET DOMAIN next.usage, stale \in SUBSET DOMAIN next.samples :
          /\ MayPrune(next, aged, stale)
          /\ store' = Pruned(next, aged, stale)
          /\ counted' = [evicted |-> Restrict(w, DOMAIN w \cap DOMAIN store'.usage),
                         forgotten |-> (fg \union stale) \cap DOMAIN store'.usage,
                         prunes |-> counted.prunes + 1]
    BY <1>1, <1>4
  <2> DEFINE p == store'
             z == Restrict(w, DOMAIN w \cap DOMAIN p.usage)
             h == (fg \union stale) \cap DOMAIN p.usage
             k == counted.prunes + 1
  <2>2. counted' = [evicted |-> z, forgotten |-> h, prunes |-> k]
    BY <2>1
  <2>3. /\ IsStore(p) /\ p.active = next.active /\ p.recent = next.recent /\ Sums(p, z, h)
    <3>1. MayPrune(next, aged, stale) /\ p = Pruned(next, aged, stale)
      BY <2>1
    <3> HIDE DEF w, fg, p, k
    <3>2. IsStore(p) /\ p.active = next.active /\ p.recent = next.recent
      <4>1. Sums(next, w, fg) /\ IsStore(next)
        BY <1>2
      <4>2. IsStore(p)
        BY <3>1, <4>1, PrunedSums
      <4>3. SameRequests(next, p)
        BY <3>1, <4>1, PrunedSums
      <4> QED BY <4>2, <4>3 DEF SameRequests
    <3>3. Sums(p, Restrict(w, DOMAIN w \cap DOMAIN p.usage), (fg \union stale) \cap DOMAIN p.usage)
      BY <1>2, <3>1, PrunedSums
    <3> QED BY <3>2, <3>3
  <2> HIDE DEF z, h, k
  <2>4. counted'.evicted = z /\ counted'.forgotten = h
        /\ counted' = [evicted |-> counted'.evicted, forgotten |-> counted'.forgotten,
                       prunes |-> counted'.prunes]
    BY <2>2
  <2> QED BY <2>3, <2>4 DEF BooksOK
<1> QED BY <1>3, <1>4 DEF Apply

\* A request changes to this one; who stays open is still the same to the monitor.
ChangesTo(r, e) == http' = [http EXCEPT ![r] = e] /\ e \in Requested /\ Stage(e)

LEMMA ChangesToIs ==
    ASSUME Requests, NEW r \in Call, NEW e, ChangesTo(r, e)
    PROVE  /\ Requests' /\ http'[r] = e /\ e # Unsent
           /\ \A q \in Call \ {r} : http'[q] = http[q]
<1>1. http \in [Call -> Requested \union {Unsent}]
  BY DEF Requests
<1>2. http' \in [Call -> Requested \union {Unsent}] /\ http'[r] = e
      /\ \A q \in Call \ {r} : http'[q] = http[q]
  <2> HIDE DEF Requests
  <2> QED BY <1>1 DEF ChangesTo
<1>3. e # Unsent
  <2>1. e.at # "new"
    BY DEF ChangesTo, Requested
  <2> QED BY <2>1 DEF Unsent
<1>4. \A q \in Call : http'[q] # Unsent => Stage(http'[q])
  BY <1>2 DEF ChangesTo, Requests
<1> QED BY <1>2, <1>3, <1>4 DEF Requests

\* A step that the monitor does not learn of.
LEMMA SilentStep ==
    ASSUME ServerInv, Silent, NEW r \in Call, NEW e, ChangesTo(r, e), http[r] # Unsent,
           e.armed = http[r].armed, e.client = http[r].client, InTable(sessions'),
           clock' = clock
    PROVE  ServerInv'
<1>1. Requests' /\ http'[r] = e /\ e # Unsent /\ \A q \in Call \ {r} : http'[q] = http[q]
  BY ChangesToIs DEF ServerInv
<1>2. \A q \in Call : /\ Open(http'[q]) <=> Open(http[q])
                      /\ http'[q] = Unsent <=> http[q] = Unsent
                      /\ http'[q].client = http[q].client
  BY <1>1 DEF Open
<1>3. store' = store /\ counted' = counted
  BY DEF Silent
<1>4. IsStore(store') /\ BooksOK'
  BY <1>3 DEF ServerInv, BooksOK
<1>5. Listed'
  <2>1. DOMAIN store.active \subseteq Call
    BY DEF ServerInv, IsStore, IsActives
  <2>2. \A j \in DOMAIN store.recent : store.recent[j].id \in Call
    <3>1. \A j \in DOMAIN store.recent : store.recent[j] \in Entry
      BY DEF ServerInv, IsStore
    <3> QED BY <3>1 DEF Entry
  <2>3. /\ \A q \in Call : q \in DOMAIN store.active <=> Open(http'[q])
        /\ \A q \in DOMAIN store.active : store.active[q].session = http'[q].client
    BY <1>2, <2>1 DEF ServerInv, Listed
  <2>4. \A j \in DOMAIN store.recent :
           LET q == http'[store.recent[j].id]
           IN  q # Unsent /\ ~Open(q) /\ store.recent[j].session = q.client
    BY <1>2, <2>2 DEF ServerInv, Listed
  <2>5. \A i, j \in DOMAIN store.recent : store.recent[i].id = store.recent[j].id => i = j
    BY DEF ServerInv, Listed
  <2> QED BY <1>3, <2>3, <2>4, <2>5 DEF Listed
<1> QED BY <1>1, <1>4, <1>5 DEF ServerInv

\* The end of a request that is open.
LEMMA FinishedStep ==
    ASSUME ServerInv, NEW r \in Call, Open(http[r]), Apply(Finished(store, r)), NEW e, ChangesTo(r, e),
           ~e.armed, e.client = http[r].client, sessions' = sessions, clock' = clock
    PROVE  ServerInv'
<1>1. Requests' /\ http'[r] = e /\ e # Unsent /\ \A q \in Call \ {r} : http'[q] = http[q]
  BY ChangesToIs DEF ServerInv
<1>2. /\ r \in DOMAIN store.active /\ IsStore(store) /\ BooksOK /\ store.active[r].session = http[r].client
      /\ \A j \in DOMAIN store.recent : store.recent[j].id # r
      /\ \A i, j \in DOMAIN store.recent : store.recent[i].id = store.recent[j].id => i = j
  BY DEF ServerInv, Listed
<1> DEFINE next == Finished(store, r)
<1>3. /\ Booked(store, next)
      /\ DOMAIN next.active = DOMAIN store.active \ {r}
      /\ \A q \in DOMAIN store.active \ {r} : next.active[q] = store.active[q]
      /\ 1 \in DOMAIN next.recent
      /\ next.recent[1].id = r /\ next.recent[1].session = store.active[r].session
      /\ \A j \in DOMAIN next.recent :
             j # 1 => j - 1 \in DOMAIN store.recent /\ next.recent[j] = store.recent[j - 1]
  BY <1>2, FinishedBooks
<1> HIDE DEF next
<1>4. IsStore(store') /\ BooksOK' /\ store'.active = next.active /\ store'.recent = next.recent
  BY <1>2, <1>3, Applied DEF next
<1>5. Listed'
  <2>1. DOMAIN store.active \subseteq Call
    BY DEF ServerInv, IsStore, IsActives
  <2>2. \A j \in DOMAIN store.recent : store.recent[j].id \in Call
    <3>1. \A j \in DOMAIN store.recent : store.recent[j] \in Entry
      BY DEF ServerInv, IsStore
    <3> QED BY <3>1 DEF Entry
  <2>3. \A q \in Call : q \in DOMAIN next.active <=> Open(http'[q])
    <3>1. \A q \in Call : q \in DOMAIN store.active <=> Open(http[q])
      BY DEF ServerInv, Listed
    <3>2. ~Open(http'[r])
      BY <1>1 DEF Open
    <3> QED BY <1>1, <1>3, <3>1, <3>2
  <2>4. \A q \in DOMAIN next.active : next.active[q].session = http'[q].client
    <3>1. \A q \in DOMAIN store.active : store.active[q].session = http[q].client
      BY DEF ServerInv, Listed
    <3> QED BY <1>1, <1>3, <2>1, <3>1
  <2>5. \A j \in DOMAIN store.recent :
           LET q == http'[store.recent[j].id]
           IN  q # Unsent /\ ~Open(q) /\ store.recent[j].session = q.client
    BY <1>1, <1>2, <2>2 DEF ServerInv, Listed
  <2>6. \A j \in DOMAIN next.recent :
           LET q == http'[next.recent[j].id]
           IN  q # Unsent /\ ~Open(q) /\ next.recent[j].session = q.client
    <3> SUFFICES ASSUME NEW j \in DOMAIN next.recent
                 PROVE  LET q == http'[next.recent[j].id]
                        IN  q # Unsent /\ ~Open(q) /\ next.recent[j].session = q.client
      OBVIOUS
    <3>1. CASE j = 1
      BY <1>1, <1>2, <1>3, <3>1 DEF Open
    <3>2. CASE j # 1
      <4>1. PICK i \in DOMAIN store.recent : next.recent[j] = store.recent[i]
        BY <1>3, <3>2
      <4> QED BY <2>5, <4>1
    <3> QED BY <3>1, <3>2
  <2>7. \A i, j \in DOMAIN next.recent : next.recent[i].id = next.recent[j].id => i = j
    <3>0. next.recent \in Seq(Entry)
      BY <1>4 DEF IsStore
    <3> SUFFICES ASSUME NEW i \in DOMAIN next.recent, NEW j \in DOMAIN next.recent,
                        next.recent[i].id = next.recent[j].id
                 PROVE  i = j
      OBVIOUS
    <3>4. i \in Nat /\ j \in Nat
      BY <3>0
    <3>1. CASE i = 1
      BY <1>2, <1>3, <3>1
    <3>2. CASE j = 1
      BY <1>2, <1>3, <3>2
    <3>3. CASE i # 1 /\ j # 1
      <4>1. i - 1 \in DOMAIN store.recent /\ next.recent[i] = store.recent[i - 1]
        BY <1>3, <3>3
      <4>2. j - 1 \in DOMAIN store.recent /\ next.recent[j] = store.recent[j - 1]
        BY <1>3, <3>3
      <4>3. i - 1 = j - 1
        BY <1>2, <4>1, <4>2
      <4> QED BY <3>4, <4>3
    <3> QED BY <3>1, <3>2, <3>3
  <2> QED BY <1>4, <2>3, <2>4, <2>6, <2>7 DEF Listed
<1> QED BY <1>1, <1>4, <1>5 DEF ServerInv

LEMMA ReceiveStep == ASSUME ServerInv, NEW r \in Call, Receive(r) PROVE ServerInv'
<1>1. PICK w \in Workload :
          /\ http' = [http EXCEPT ![r] =
                [at |-> "body", endpoint |-> w[1], client |-> w[2], name |-> w[3], review |-> w[4],
                 since |-> clock, prior |-> Absent, found |-> FALSE, prior_seen |-> 0,
                 provider |-> Absent, armed |-> TRUE]]
          /\ Apply(Started(store, r, w[2]))
  BY DEF Receive
<1>2. http[r] = Unsent /\ sessions' = sessions /\ clock' = clock
  BY DEF Receive
<1> DEFINE e == [at |-> "body", endpoint |-> w[1], client |-> w[2], name |-> w[3], review |-> w[4],
                 since |-> clock, prior |-> Absent, found |-> FALSE, prior_seen |-> 0,
                 provider |-> Absent, armed |-> TRUE]
           x == w[2]
           next == Started(store, r, x)
<1>3. x \in SessionOrNone
  BY HttpServerAssumption DEF SessionOrNone
<1>4. e \in Requested /\ Stage(e) /\ Open(e) /\ e.client = x
  <2>1. w[1] \in Endpoints /\ w[2] \in Client \union {Absent} /\ w[3] \in Names /\ w[4] \in BOOLEAN
    BY HttpServerAssumption
  <2>2. clock \in 0 .. MaxClock /\ 0 \in 0 .. MaxClock
    BY HttpServerAssumption DEF ServerInv
  <2>3. e \in Requested
    BY <2>1, <2>2 DEF Requested
  <2>4. e.at = "body" /\ e.client = x /\ e.armed
    OBVIOUS
  <2>5. e # Unsent
    <3> HIDE DEF e
    <3>1. Unsent.at = "new"
      BY DEF Unsent
    <3> QED BY <2>4, <3>1
  <2> HIDE DEF e
  <2> QED BY <2>3, <2>4, <2>5 DEF Stage, Open
<1>5. ChangesTo(r, e)
  BY <1>1, <1>4 DEF ChangesTo
<1>6. Apply(next)
  BY <1>1
<1> HIDE DEF e, x, next
<1>7. Requests' /\ http'[r] = e /\ e # Unsent /\ \A q \in Call \ {r} : http'[q] = http[q]
  BY <1>5, ChangesToIs DEF ServerInv
<1>8. r \notin DOMAIN store.active /\ IsStore(store) /\ BooksOK
  BY <1>2 DEF ServerInv, Listed, Open
<1>9. /\ Booked(store, next)
      /\ DOMAIN next.active = DOMAIN store.active \union {r}
      /\ next.active[r].session = x
      /\ \A q \in DOMAIN store.active : next.active[q] = store.active[q]
      /\ next.recent = store.recent
  BY <1>3, <1>8, StartedBooks DEF next
<1>10. IsStore(store') /\ BooksOK' /\ store'.active = next.active /\ store'.recent = next.recent
  BY <1>6, <1>8, <1>9, Applied
<1>11. Listed'
  <2>1. DOMAIN store.active \subseteq Call
    BY DEF ServerInv, IsStore, IsActives
  <2>2. \A j \in DOMAIN store.recent : store.recent[j].id \in Call \ {r}
    <3>1. \A j \in DOMAIN store.recent : store.recent[j] \in Entry
      BY DEF ServerInv, IsStore
    <3>2. \A j \in DOMAIN store.recent : http[store.recent[j].id] # Unsent
      BY DEF ServerInv, Listed
    <3> QED BY <1>2, <3>1, <3>2 DEF Entry
  <2>3. \A q \in Call : q \in DOMAIN next.active <=> Open(http'[q])
    <3>1. \A q \in Call : q \in DOMAIN store.active <=> Open(http[q])
      BY DEF ServerInv, Listed
    <3> QED BY <1>4, <1>7, <1>9, <3>1
  <2>4. \A q \in DOMAIN next.active : next.active[q].session = http'[q].client
    <3>1. \A q \in DOMAIN store.active : store.active[q].session = http[q].client
      BY DEF ServerInv, Listed
    <3> QED BY <1>4, <1>7, <1>8, <1>9, <2>1, <3>1
  <2>5. \A j \in DOMAIN store.recent :
           LET q == http'[store.recent[j].id]
           IN  q # Unsent /\ ~Open(q) /\ store.recent[j].session = q.client
    BY <1>7, <2>2 DEF ServerInv, Listed
  <2>6. \A i, j \in DOMAIN store.recent : store.recent[i].id = store.recent[j].id => i = j
    BY DEF ServerInv, Listed
  <2> QED BY <1>9, <1>10, <2>3, <2>4, <2>5, <2>6 DEF Listed
<1> QED BY <1>2, <1>7, <1>10, <1>11 DEF ServerInv

LEMMA ReportStep == ASSUME ServerInv, NEW r \in Call, Report(r) PROVE ServerInv'
<1>1. PICK n \in 1 .. MaxTokens : Reported(store, r, n) # store /\ Apply(Reported(store, r, n))
  BY DEF Report
<1>2. sessions' = sessions /\ http' = http /\ clock' = clock /\ n \in Nat
  BY <1>1, HttpServerAssumption DEF Report
<1> DEFINE next == Reported(store, r, n)
<1>3. IsStore(store) /\ BooksOK /\ DOMAIN store.active \subseteq Call
  BY DEF ServerInv, IsStore, IsActives
<1>4. /\ Booked(store, next)
      /\ DOMAIN next.active = DOMAIN store.active
      /\ \A q \in DOMAIN store.active : next.active[q].session = store.active[q].session
      /\ DOMAIN next.recent = DOMAIN store.recent
      /\ \A j \in DOMAIN store.recent : /\ next.recent[j].id = store.recent[j].id
                                        /\ next.recent[j].session = store.recent[j].session
  <2>1. CASE r \in DOMAIN store.active
    BY <1>2, <1>3, <2>1, ReportedActive
  <2>2. CASE r \notin DOMAIN store.active
    <3>1. Positions(store, r) # {}
      BY <1>1, <2>2 DEF Reported
    <3>2. PICK i \in DOMAIN store.recent : store.recent[i].id = r
      BY <3>1 DEF Positions
    <3>3. Positions(store, r) = {i}
      BY <3>2 DEF Positions, ServerInv, Listed
    <3> QED BY <1>2, <1>3, <2>2, <3>3, ReportedListed
  <2> QED BY <2>1, <2>2
<1>5. Apply(next)
  BY <1>1
<1> HIDE DEF next
<1>6. IsStore(store') /\ BooksOK' /\ store'.active = next.active /\ store'.recent = next.recent
  BY <1>3, <1>4, <1>5, Applied
<1>7. Requests'
  BY <1>2 DEF ServerInv, Requests
<1>8. Listed'
  <2>1. \A q \in Call : q \in DOMAIN next.active <=> Open(http'[q])
    BY <1>2, <1>4 DEF ServerInv, Listed
  <2>2. \A q \in DOMAIN next.active : next.active[q].session = http'[q].client
    BY <1>2, <1>4 DEF ServerInv, Listed
  <2>3. \A j \in DOMAIN next.recent :
           LET q == http'[next.recent[j].id]
           IN  q # Unsent /\ ~Open(q) /\ next.recent[j].session = q.client
    BY <1>2, <1>4 DEF ServerInv, Listed
  <2>4. \A i, j \in DOMAIN next.recent : next.recent[i].id = next.recent[j].id => i = j
    BY <1>4 DEF ServerInv, Listed
  <2> QED BY <1>6, <2>1, <2>2, <2>3, <2>4 DEF Listed
<1> QED BY <1>2, <1>6, <1>7, <1>8 DEF ServerInv

\* What changes of a request when it moves on.
LEMMA MovedIs ==
    ASSUME NEW q \in Requested, NEW a \in {"body", "found", "routed", "upstream", "failing", "streaming", "over"}
    PROVE  LET e == [q EXCEPT !.at = a]
           IN  e \in Requested /\ e.at = a /\ e.armed = q.armed /\ e.client = q.client
BY DEF Requested

LEMMA ClosedIs ==
    ASSUME NEW q \in Requested
    PROVE  LET e == [q EXCEPT !.armed = FALSE]
               f == [q EXCEPT !.at = "over", !.armed = FALSE]
           IN  /\ e \in Requested /\ e.at = q.at /\ ~e.armed /\ e.client = q.client
               /\ f \in Requested /\ f.at = "over" /\ ~f.armed /\ f.client = q.client
BY DEF Requested

\* A request that only moves on.
LEMMA NowStep ==
    ASSUME ServerInv, NEW r \in Call, http[r] # Unsent,
           NEW a \in {"body", "found", "routed", "upstream", "failing", "streaming"},
           Now(r, a), http[r].armed, Silent, InTable(sessions'), clock' = clock
    PROVE  ServerInv'
<1> DEFINE q == http[r]
           e == [q EXCEPT !.at = a]
<1>1. q \in Requested
  BY DEF ServerInv, Requests
<1>2. http' = [http EXCEPT ![r] = e]
  BY DEF Now
<1>3. e \in Requested /\ e.at = a /\ e.armed = q.armed /\ e.client = q.client
  <2>1. a \in {"body", "found", "routed", "upstream", "failing", "streaming", "over"}
    OBVIOUS
  <2> HIDE DEF q
  <2> QED BY <1>1, <2>1, MovedIs
<1> HIDE DEF e
<1>4. ChangesTo(r, e)
  BY <1>2, <1>3 DEF ChangesTo, Stage
<1> QED BY <1>3, <1>4, SilentStep

LEMMA RefuseStep == ASSUME ServerInv, NEW r \in Call, Refuse(r) PROVE ServerInv'
<1>1. http[r].at \in {"body", "found"} /\ Silent /\ sessions' = sessions /\ clock' = clock
      /\ Now(r, IF Anthropic(r) THEN "failing" ELSE "streaming")
  BY DEF Refuse
<1>2. http[r] # Unsent
  BY <1>1 DEF Unsent
<1>3. http[r].armed /\ InTable(sessions')
  BY <1>1, <1>2 DEF ServerInv, Requests, Stage
<1>4. CASE Anthropic(r)
  <2>1. Now(r, "failing")
    BY <1>1, <1>4
  <2> QED BY <1>1, <1>2, <1>3, <2>1, NowStep
<1>5. CASE ~Anthropic(r)
  <2>1. Now(r, "streaming")
    BY <1>1, <1>5
  <2> QED BY <1>1, <1>2, <1>3, <2>1, NowStep
<1> QED BY <1>4, <1>5

LEMMA RespondStep == ASSUME ServerInv, NEW r \in Call, Respond(r) PROVE ServerInv'
<1>1. http[r].at = "upstream" /\ Silent /\ sessions' = sessions /\ clock' = clock
      /\ (Now(r, "streaming") \/ Now(r, "failing"))
  BY DEF Respond
<1>2. http[r] # Unsent
  BY <1>1 DEF Unsent
<1>3. http[r].armed /\ InTable(sessions')
  BY <1>1, <1>2 DEF ServerInv, Requests, Stage
<1> QED BY <1>1, <1>2, <1>3, NowStep

LEMMA ForwardStep == ASSUME ServerInv, NEW r \in Call, Forward(r) PROVE ServerInv'
<1>1. http[r].at \in {"routed", "body"} /\ Silent /\ clock' = clock /\ Now(r, "upstream")
  BY DEF Forward
<1>2. http[r] # Unsent
  BY <1>1 DEF Unsent
<1>3. http[r].armed /\ http[r] \in Requested /\ InTable(sessions)
  BY <1>1, <1>2 DEF ServerInv, Requests, Stage
<1>4. InTable(sessions')
  <2>1. CASE http[r].endpoint = "native" \/ http[r].client = Absent
    BY <1>3, <2>1 DEF Forward
  <2>2. CASE ~(http[r].endpoint = "native" \/ http[r].client = Absent)
    <3>1. sessions' = Recorded(sessions, http[r])
      BY <2>2 DEF Forward
    <3>2. http[r].client \in Client
      BY <1>3, <2>2 DEF Requested
    <3> QED BY <1>3, <3>1, <3>2, RecordedIs
  <2> QED BY <2>1, <2>2
<1> QED BY <1>1, <1>2, <1>3, <1>4, NowStep

LEMMA RouteStep == ASSUME ServerInv, NEW r \in Call, Route(r) PROVE ServerInv'
<1> DEFINE q == http[r]
           p == Routed(q)
           e == [q EXCEPT !.at = "routed", !.provider = p]
<1>1. q.at = "found" /\ p # Absent /\ http' = [http EXCEPT ![r] = e]
      /\ Silent /\ sessions' = sessions /\ clock' = clock
  BY DEF Route
<1>2. q # Unsent
  BY <1>1 DEF Unsent
<1>3. q \in Requested /\ q.armed /\ InTable(sessions')
  BY <1>1, <1>2 DEF ServerInv, Requests, Stage
<1>4. p \in Provider \union {Absent}
  <2>1. q.name \in Names /\ q.prior \in Provider \union {Absent}
    BY <1>3 DEF Requested
  <2> HIDE DEF q
  <2> QED BY <2>1, HttpServerAssumption DEF Routed, Names, Provider
<1>5. e \in Requested /\ e.at = "routed" /\ e.armed = q.armed /\ e.client = q.client
  <2> HIDE DEF q, p
  <2> QED BY <1>3, <1>4 DEF Requested
<1> HIDE DEF e, p
<1>6. ChangesTo(r, e)
  BY <1>1, <1>3, <1>5 DEF ChangesTo, Stage
<1> QED BY <1>1, <1>2, <1>3, <1>5, <1>6, SilentStep

LEMMA LookUpStep == ASSUME ServerInv, NEW r \in Call, LookUp(r) PROVE ServerInv'
<1> DEFINE q == http[r]
           since == IF Anthropic(r) THEN q.since ELSE clock
           table == IF q.client = Absent THEN sessions ELSE Looked(sessions, q.client, since)
           there == q.client # Absent /\ q.client \in DOMAIN table.map
           prior == IF there THEN table.map[q.client].affinity ELSE Absent
           seen == IF there THEN table.map[q.client].seen ELSE 0
           e == [q EXCEPT !.at = "found", !.since = since, !.found = there,
                          !.prior = prior, !.prior_seen = seen]
<1>1. q.at = "body" /\ sessions' = table /\ http' = [http EXCEPT ![r] = e]
      /\ Silent /\ clock' = clock
  BY DEF LookUp
<1>2. q # Unsent
  BY <1>1 DEF Unsent
<1>3. q \in Requested /\ q.armed /\ InTable(sessions) /\ clock \in 0 .. MaxClock
  BY <1>1, <1>2 DEF ServerInv, Requests, Stage
<1>4. since \in 0 .. MaxClock
  BY <1>3 DEF Requested
<1> HIDE DEF since
<1>5. InTable(table)
  BY <1>3, LookedIs
<1> HIDE DEF table
<1>6. there \in BOOLEAN /\ prior \in Provider \union {Absent} /\ seen \in 0 .. MaxClock
  <2>1. CASE there
    <3>1. table.map[q.client] \in SessionRecord
      BY <1>5, <2>1 DEF InTable, IsSessions
    <3>2. table.map[q.client].affinity \in Provider \union {Absent} /\ table.map[q.client].seen \in 0 .. MaxClock
      BY <3>1 DEF SessionRecord
    <3> QED BY <2>1, <3>2
  <2>2. CASE ~there
    BY <2>2, HttpServerAssumption
  <2> QED BY <2>1, <2>2
<1> HIDE DEF there, prior, seen
<1>7. e \in Requested /\ e.at = "found" /\ e.armed = q.armed /\ e.client = q.client
  <2> HIDE DEF q
  <2> QED BY <1>3, <1>4, <1>6 DEF Requested
<1> HIDE DEF e
<1>8. ChangesTo(r, e)
  BY <1>1, <1>3, <1>7 DEF ChangesTo, Stage
<1> QED BY <1>1, <1>2, <1>3, <1>5, <1>7, <1>8, SilentStep

LEMMA FailStep == ASSUME ServerInv, NEW r \in Call, Fail(r) PROVE ServerInv'
<1> DEFINE q == http[r]
           e == [q EXCEPT !.at = "over", !.armed = FALSE]
<1>1. q.at = "failing" /\ Apply(Abandoned(Finished(store, r), r))
      /\ http' = [http EXCEPT ![r] = e] /\ sessions' = sessions /\ clock' = clock
  BY DEF Fail
<1>2. q # Unsent
  BY <1>1 DEF Unsent
<1>3. q \in Requested /\ q.armed
  BY <1>1, <1>2 DEF ServerInv, Requests, Stage
<1>4. Open(q)
  BY <1>2, <1>3 DEF Open
<1>5. Abandoned(Finished(store, r), r) = Finished(store, r)
  <2>1. /\ r \in DOMAIN store.active /\ IsStore(store)
        /\ \A j \in DOMAIN store.recent : store.recent[j].id # r
        /\ \A i, j \in DOMAIN store.recent : store.recent[i].id = store.recent[j].id => i = j
    BY <1>4 DEF ServerInv, Listed
  <2>2. DOMAIN Finished(store, r).active = DOMAIN store.active \ {r}
    BY <2>1, FinishedBooks
  <2> QED BY <2>2 DEF Abandoned
<1>6. e \in Requested /\ e.at = "over" /\ ~e.armed /\ e.client = q.client
  <2> HIDE DEF q
  <2> QED BY <1>3, ClosedIs
<1> HIDE DEF e
<1>7. ChangesTo(r, e)
  BY <1>1, <1>6 DEF ChangesTo, Stage
<1> QED BY <1>1, <1>4, <1>5, <1>6, <1>7, FinishedStep

LEMMA FrameFailsStep == ASSUME ServerInv, NEW r \in Call, FrameFails(r) PROVE ServerInv'
<1> DEFINE q == http[r]
           e == [q EXCEPT !.armed = FALSE]
<1>1. q.at = "streaming" /\ q.armed /\ Apply(Finished(store, r))
      /\ http' = [http EXCEPT ![r] = e] /\ sessions' = sessions /\ clock' = clock
  BY DEF FrameFails
<1>2. q # Unsent
  BY <1>1 DEF Unsent
<1>3. q \in Requested
  BY <1>2 DEF ServerInv, Requests
<1>4. Open(q)
  BY <1>1, <1>2 DEF Open
<1>5. e \in Requested /\ e.at = q.at /\ ~e.armed /\ e.client = q.client
  <2> HIDE DEF q
  <2> QED BY <1>3, ClosedIs
<1> HIDE DEF e
<1>6. ChangesTo(r, e)
  BY <1>1, <1>5 DEF ChangesTo, Stage
<1> QED BY <1>1, <1>4, <1>5, <1>6, FinishedStep

LEMMA EndStep == ASSUME ServerInv, NEW r \in Call, End(r) PROVE ServerInv'
<1> DEFINE q == http[r]
           e == [q EXCEPT !.at = "over", !.armed = FALSE]
<1>1. q.at \in {"body", "failing", "upstream", "streaming"}
      /\ http' = [http EXCEPT ![r] = e] /\ sessions' = sessions /\ clock' = clock
  BY DEF End
<1>2. q # Unsent
  BY <1>1 DEF Unsent
<1>3. q \in Requested /\ InTable(sessions')
  BY <1>1, <1>2 DEF ServerInv, Requests
<1>4. e \in Requested /\ e.at = "over" /\ ~e.armed /\ e.client = q.client
  <2> HIDE DEF q
  <2> QED BY <1>3, ClosedIs
<1> HIDE DEF e
<1>5. ChangesTo(r, e)
  BY <1>1, <1>4 DEF ChangesTo, Stage
<1>6. CASE q.armed
  <2>1. Open(q)
    BY <1>2, <1>6 DEF Open
  <2>2. r \in DOMAIN store.active
    BY <2>1 DEF ServerInv, Listed
  <2>3. Apply(Finished(store, r))
    BY <1>6, <2>2 DEF End, Abandoned
  <2> QED BY <1>1, <1>4, <1>5, <2>1, <2>3, FinishedStep
<1>7. CASE ~q.armed
  <2>1. Silent
    BY <1>7 DEF End
  <2>2. e.armed = q.armed
    <3>1. q.armed \in BOOLEAN /\ e.armed \in BOOLEAN
      BY <1>3, <1>4 DEF Requested
    <3> QED BY <1>4, <1>7, <3>1
  <2> QED BY <1>1, <1>2, <1>3, <1>4, <1>5, <2>1, <2>2, SilentStep
<1> QED BY <1>6, <1>7

LEMMA SameStep ==
    ASSUME ServerInv, UNCHANGED <<store, counted, sessions, http>>, clock' \in 0 .. MaxClock
    PROVE  ServerInv'
<1>1. IsStore(store') /\ BooksOK' /\ InTable(sessions')
  BY DEF ServerInv, BooksOK
<1>2. Requests' /\ Listed'
  BY DEF ServerInv, Requests, Listed
<1> QED BY <1>1, <1>2 DEF ServerInv

LEMMA ServerInvHolds == ServerSpec => []ServerInv
<1>1. ServerInit => ServerInv
  <2> SUFFICES ASSUME ServerInit PROVE ServerInv
    OBVIOUS
  <2>1. /\ store.active = <<>> /\ store.recent = <<>> /\ store.usage = <<>> /\ store.samples = <<>>
        /\ store = [active |-> store.active, recent |-> store.recent, usage |-> store.usage,
                    samples |-> store.samples]
        /\ sessions.map = <<>> /\ sessions.order = <<>>
        /\ counted.evicted = <<>>
        /\ counted = [evicted |-> counted.evicted, forgotten |-> counted.forgotten,
                      prunes |-> counted.prunes]
        /\ clock = 0 /\ http = [r \in Call |-> Unsent]
    BY DEF ServerInit, EmptyStore
  <2>2. IsTable(<<>>) /\ IsActives(<<>>) /\ <<>> \in Seq(Entry) /\ Len(<<>>) = 0
        /\ \A s : At(<<>>, s) = 0
    BY FS_EmptySet DEF IsTable, IsActives, At
  <2>3. IsStore(store)
    BY <2>1, <2>2, RequestMonitorAssumption DEF IsStore
  <2>4. \A s : Total(store.recent, s) = 0 /\ UnderWay(store, s) = 0
    <3>1. \A s : Total(store.recent, s) = 0
      BY <2>1, NoTokens DEF Total
    <3>2. \A s : UnderWay(store, s) = 0
      BY <2>1, NothingUnderWay
    <3> QED BY <3>1, <3>2
  <2>5. Sums(store, counted.evicted, counted.forgotten)
    BY <2>1, <2>2, <2>4 DEF Sums
  <2>6. Requests
    BY <2>1 DEF Requests
  <2>7. Listed
    BY <2>1 DEF Listed, Open
  <2>8. InTable(sessions)
    <3>1. <<>> \in Seq(Client) /\ DOMAIN <<>> = {} /\ Len(<<>>) <= MaxSessions
      BY HttpServerAssumption
    <3>2. Orders(<<>>, {})
      BY <3>1 DEF Orders
    <3>3. IsSessions(<<>>)
      BY <3>1 DEF IsSessions
    <3> QED BY <2>1, <3>1, <3>2, <3>3 DEF InTable
  <2>9. clock \in 0 .. MaxClock
    BY <2>1, HttpServerAssumption
  <2> QED BY <2>1, <2>3, <2>5, <2>6, <2>7, <2>8, <2>9 DEF ServerInv, BooksOK
<1>2. ServerInv /\ [ServerNext]_serverVars => ServerInv'
  <2> SUFFICES ASSUME ServerInv, [ServerNext]_serverVars PROVE ServerInv'
    OBVIOUS
  <2>1. ASSUME NEW r \in Call, Serve(r) PROVE ServerInv'
    BY <2>1, ReceiveStep, RefuseStep, LookUpStep, RouteStep, ForwardStep, RespondStep, FailStep,
       FrameFailsStep, EndStep DEF Serve
  <2>2. ASSUME NEW r \in Call, Report(r) PROVE ServerInv'
    BY <2>2, ReportStep
  <2>3. CASE ClockTicks
    <3>1. clock' \in 0 .. MaxClock
      BY <2>3, HttpServerAssumption DEF ClockTicks, ServerInv
    <3> QED BY <2>3, <3>1, SameStep DEF ClockTicks, Silent
  <2>4. CASE UNCHANGED serverVars
    <3>1. UNCHANGED <<store, counted, sessions, http>> /\ clock' = clock
      BY <2>4 DEF serverVars
    <3> QED BY <3>1, SameStep DEF ServerInv
  <2> QED BY <2>1, <2>2, <2>3, <2>4 DEF ServerNext
<1> QED BY <1>1, <1>2, PTL DEF ServerSpec

LEMMA InvIsSafe == ASSUME ServerInv PROVE ServerSafety
<1>1. ServerTypeOK
  <2>1. DOMAIN store.active \subseteq Call /\ Len(store.recent) <= RecentLimit
    BY DEF ServerInv, IsStore, IsActives
  <2>2. DOMAIN sessions.map \subseteq Client /\ sessions.order \in Seq(Client)
    BY DEF ServerInv, InTable, IsSessions, Orders
  <2>3. \A c \in DOMAIN sessions.map :
           sessions.map[c] \in [affinity: Provider \union {Absent}, seen: 0 .. MaxClock]
    BY DEF ServerInv, InTable, IsSessions, SessionRecord
  <2> QED BY <2>1, <2>2, <2>3 DEF ServerTypeOK, ServerInv, Requests
<1>2. AccountedOnce
  <2> SUFFICES ASSUME NEW r \in Call
               PROVE  /\ r \in DOMAIN store.active <=> http[r] # Unsent /\ http[r].armed
                      /\ Cardinality(Positions(store, r)) <= 1
                      /\ \A i \in Positions(store, r) : store.recent[i].session = http[r].client
    BY DEF AccountedOnce
  <2>1. r \in DOMAIN store.active <=> http[r] # Unsent /\ http[r].armed
    BY DEF ServerInv, Listed, Open
  <2>2. \A i \in Positions(store, r) : store.recent[i].session = http[r].client
    BY DEF ServerInv, Listed, Positions
  <2>3. Cardinality(Positions(store, r)) <= 1
    <3>1. CASE Positions(store, r) = {}
      BY <3>1, FS_EmptySet
    <3>2. CASE Positions(store, r) # {}
      <4>1. PICK i \in Positions(store, r) : TRUE
        BY <3>2
      <4>2. Positions(store, r) = {i}
        BY <4>1 DEF Positions, ServerInv, Listed
      <4> QED BY <4>2, FS_Singleton
    <3> QED BY <3>1, <3>2
  <2> QED BY <2>1, <2>2, <2>3
<1>3. UsageAddsUp
  <2>1. IsTable(store.usage) /\ Sums(store, counted.evicted, counted.forgotten)
    BY DEF ServerInv, IsStore, BooksOK
  <2>2. \A s \in DOMAIN store.usage : s \in SessionOrNone /\ At(store.usage, s) = store.usage[s]
    BY <2>1 DEF IsTable, At
  <2> QED BY <2>1, <2>2 DEF UsageAddsUp, Sums
<1>4. SessionsAccounted
  <2>1. Orders(sessions.order, DOMAIN sessions.map) /\ Len(sessions.order) <= MaxSessions
    BY DEF ServerInv, InTable
  <2>2. Len(sessions.order) = Cardinality(DOMAIN sessions.map)
    BY <2>1, OrderCounts
  <2> QED BY <2>1, <2>2 DEF SessionsAccounted, Orders
<1> QED BY <1>1, <1>2, <1>3, <1>4 DEF ServerSafety

(* Requests are accounted for once, a session's tokens add up, and the session
   table is in order, for any number of requests and sessions. *)
THEOREM RequestsAreAccounted == ServerSpec => []ServerSafety
<1>1. ServerInv => ServerSafety
  BY InvIsSafe
<1> QED BY <1>1, ServerInvHolds, PTL
=============================================================================
