-------------------------- MODULE Continuation_proofs --------------------------
(***************************************************************************)
(* Theorems about Continuation, for any owners, requests and sockets and    *)
(* any limits: who may record and continue what, that the byte counter is    *)
(* the sum over the owners, and that both limits hold after every call.      *)
(* Only the last of these depends on when and why the registry evicts.       *)
(*                                                                         *)
(* The second half is about what a conversation is continued on: the tunnel  *)
(* to the upstream (ConnectTunnel), the calls that make sockets (SocketDial) *)
(* and the frames on one (SocketExchange).  The three have no state in       *)
(* common, and each has an inductive invariant of its own.                   *)
(***************************************************************************)
EXTENDS Continuation, SocketExchange, FiniteSums_proofs, FiniteSetTheorems, SequenceTheorems

USE DEF regVars

-----------------------------------------------------------------------------
(* What the operations do to the owners' states, whatever the sizes are.    *)

\* Every owner the first registry has, it has in the state the second has it in.
PartOf(small, large) ==
    /\ DOMAIN small.owners \subseteq DOMAIN large.owners
    /\ \A o \in DOMAIN small.owners : small.owners[o] = large.owners[o]

\* The value of the registry is a record.
IsRegistry(reg) == reg = [owners |-> reg.owners, bytes |-> reg.bytes]

LEMMA WithoutIsPart ==
    ASSUME NEW reg, NEW owner
    PROVE  /\ PartOf(Without(reg, owner), reg)
           /\ owner \notin DOMAIN Without(reg, owner).owners
           /\ IsRegistry(reg) => IsRegistry(Without(reg, owner))
BY DEF Without, PartOf, IsRegistry, Restrict

LEMMA AbortedIsPart ==
    ASSUME NEW reg, NEW owner, NEW turn
    PROVE  /\ PartOf(Aborted(reg, owner, turn), reg)
           /\ IsRegistry(reg) => IsRegistry(Aborted(reg, owner, turn))
BY WithoutIsPart DEF Aborted, PartOf

LEMMA EvictedIsPart ==
    ASSUME NEW reg, IsRegistry(reg), NEW left \in EvictOldest(reg)
    PROVE  PartOf(left, reg) /\ IsRegistry(left)
<1>1. ASSUME NEW kept \in SUBSET DOMAIN reg.owners
      PROVE  PartOf(Keeping(reg, kept), reg) /\ IsRegistry(Keeping(reg, kept))
  BY DEF Keeping, PartOf, IsRegistry, Restrict
<1>2. PartOf(reg, reg)
  BY DEF PartOf
<1>3. left = reg \/ \E kept \in SUBSET DOMAIN reg.owners : left = Keeping(reg, kept)
  BY Zenon DEF EvictOldest
<1>4. QED
  BY <1>1, <1>2, <1>3

LEMMA WithOwner ==
    ASSUME NEW reg, NEW owner, NEW state
    PROVE  /\ IsRegistry(With(reg, owner, state))
           /\ DOMAIN With(reg, owner, state).owners = DOMAIN reg.owners \union {owner}
           /\ With(reg, owner, state).owners[owner] = state
           /\ \A o \in DOMAIN reg.owners \ {owner} :
                  With(reg, owner, state).owners[o] = reg.owners[o]
BY DEF With, IsRegistry

-----------------------------------------------------------------------------
(* The types the arguments below rest on: TypeOK but for the byte counter.  *)

Structured ==
    /\ IsRegistry(registry)
    /\ DOMAIN registry.owners \subseteq Owner
    /\ \A o \in DOMAIN registry.owners : registry.owners[o] \in OwnerState
    /\ nextTurn \in 1 .. MaxTurns + 1
    /\ now \in 0 .. MaxTime
    /\ res \in [Request -> Reservation \union {None}]

\* A reservation is not None, so a request that holds one has its fields.
LEMMA HeldReservation ==
    ASSUME Structured, NEW r \in Request, res[r] # None
    PROVE  res[r] \in Reservation
BY DEF Structured

\* After a step, what an owner has is what it had before the step.
Unchanged(o) == o \in DOMAIN registry.owners /\ registry'.owners[o] = registry.owners[o]

\* The state a turn that enters leaves for its owner, and the state its answer does.
Entered(r) == [turn |-> res[r].turn, continuation |-> None, updatedAt |-> res[r].at]

Answered(r, sock, size) ==
    [turn |-> res[r].turn,
     continuation |-> [response |-> res[r].turn, socket |-> sock, bytes |-> size,
                       updatedAt |-> now],
     updatedAt |-> registry.owners[res[r].owner].updatedAt]

LEMMA CandidateEffect ==
    ASSUME Structured, NEW r \in Request, NEW fit, Candidate(r, fit)
    PROVE  /\ IsRegistry(registry')
           /\ \A o \in DOMAIN registry'.owners :
                  \/ o = res[r].owner /\ registry'.owners[o] = Entered(r)
                  \/ o # res[r].owner /\ Unchanged(o)
<1> DEFINE me    == res[r]
           fresh == [turn |-> me.turn, continuation |-> None, updatedAt |-> me.at]
           base  == Without(registry, me.owner)
           with  == With(base, me.owner, fresh)
<1>1. registry' \in EvictOldest(with)
  BY DEF Candidate
<1>2. PartOf(base, registry)
  BY WithoutIsPart
<1>3. /\ IsRegistry(with)
      /\ DOMAIN with.owners = DOMAIN base.owners \union {me.owner}
      /\ with.owners[me.owner] = fresh
      /\ \A o \in DOMAIN base.owners \ {me.owner} : with.owners[o] = base.owners[o]
  BY WithOwner
<1> HIDE DEF base, with
<1>4. PartOf(registry', with) /\ IsRegistry(registry')
  BY <1>1, <1>3, EvictedIsPart
<1>5. QED
  BY <1>2, <1>3, <1>4 DEF PartOf, Unchanged, Entered

\* What a turn holds once it has entered.
LEMMA CandidateReservation ==
    ASSUME Structured, NEW r \in Request, NEW fit, Candidate(r, fit)
    PROVE  res'[r] \in Reservation
<1>1. res[r] \in Reservation
  BY HeldReservation DEF Candidate
<1>2. Held(registry, res[r].owner) \in ContinuationState \union {None}
  BY DEF Structured, Held, OwnerState
<1>3. QED
  BY <1>1, <1>2, NoneAssumption
     DEF Candidate, Continues, Structured, Reservation, ContinuationState

\* Recording takes owners away, or replaces what the current turn's owner has; a
\* turn that is still current afterwards has been recorded.
LEMMA RecordEffect ==
    ASSUME Structured, NEW r \in Request, NEW sock, NEW size, Record(r, sock, size)
    PROVE  /\ IsRegistry(registry')
           /\ \A o \in DOMAIN registry'.owners :
                  \/ Unchanged(o)
                  \/ /\ sock # None /\ o = res[r].owner
                     /\ IsCurrent(registry, res[r].owner, res[r].turn)
                     /\ registry'.owners[o] = Answered(r, sock, size)
           /\ IsCurrent(registry', res[r].owner, res[r].turn) =>
                  /\ sock # None
                  /\ registry'.owners[res[r].owner] = Answered(r, sock, size)
<1> DEFINE me == res[r]
<1>1. CASE sock = None \/ size > MaxOwnerBytes
  <2>1. registry' = Aborted(registry, me.owner, me.turn)
    BY <1>1 DEF Record
  <2>2. ~IsCurrent(registry', me.owner, me.turn)
    BY <2>1, WithoutIsPart DEF Aborted, IsCurrent
  <2>3. QED
    BY <2>1, <2>2, AbortedIsPart DEF PartOf, Unchanged, Structured
<1>2. CASE ~(sock = None \/ size > MaxOwnerBytes) /\ ~IsCurrent(registry, me.owner, me.turn)
  BY <1>2 DEF Record, Store, Unchanged, Structured
<1>3. CASE ~(sock = None \/ size > MaxOwnerBytes) /\ IsCurrent(registry, me.owner, me.turn)
  <2> DEFINE mine  == registry.owners[me.owner]
             state == [response |-> me.turn, socket |-> sock, bytes |-> size,
                       updatedAt |-> now]
             base  == Without(registry, me.owner)
             left  == [mine EXCEPT !.continuation = state]
             with  == With(base, me.owner, left)
  <2>1. registry' \in EvictOldest(with)
    BY <1>3 DEF Record, Store
  <2>2. PartOf(base, registry)
    BY WithoutIsPart
  <2>3. left = Answered(r, sock, size)
    BY <1>3 DEF Structured, OwnerState, IsCurrent, Answered
  <2> HIDE DEF base, left
  <2>4. /\ IsRegistry(with)
        /\ DOMAIN with.owners = DOMAIN base.owners \union {me.owner}
        /\ with.owners[me.owner] = left
        /\ \A o \in DOMAIN base.owners \ {me.owner} : with.owners[o] = base.owners[o]
    BY WithOwner
  <2> HIDE DEF with
  <2>5. PartOf(registry', with) /\ IsRegistry(registry')
    BY <2>1, <2>4, EvictedIsPart
  <2>6. ASSUME NEW o \in DOMAIN registry'.owners, o # me.owner PROVE Unchanged(o)
    <3>1. o \in DOMAIN with.owners /\ registry'.owners[o] = with.owners[o]
      BY <2>5 DEF PartOf
    <3>2. o \in DOMAIN base.owners
      BY <2>4, <2>6, <3>1
    <3>3. o \in DOMAIN registry.owners /\ base.owners[o] = registry.owners[o]
      BY <2>2, <3>2 DEF PartOf
    <3>4. QED
      BY <2>4, <2>6, <3>1, <3>2, <3>3 DEF Unchanged
  <2>7. me.owner \in DOMAIN registry'.owners =>
            registry'.owners[me.owner] = Answered(r, sock, size)
    BY <2>3, <2>4, <2>5 DEF PartOf
  <2>8. IsCurrent(registry', me.owner, me.turn) => me.owner \in DOMAIN registry'.owners
    BY DEF IsCurrent
  <2>9. QED
    BY <1>3, <2>5, <2>6, <2>7, <2>8
<1>4. QED
  BY <1>1, <1>2, <1>3

LEMMA AbortEffect ==
    ASSUME Structured, NEW r \in Request, Abort(r)
    PROVE  IsRegistry(registry') /\ \A o \in DOMAIN registry'.owners : Unchanged(o)
BY AbortedIsPart DEF Abort, PartOf, Unchanged, Structured

\* Every step keeps the structure.
LEMMA StructuredStep ==
    Structured /\ [Next]_regVars => Structured'
<1> SUFFICES ASSUME Structured, [Next]_regVars PROVE Structured'
  OBVIOUS
<1> USE ContinuationAssumption, NoneAssumption
<1>1. ASSUME NEW r \in Request, NEW owner \in Owner, TakeTurn(r, owner) PROVE Structured'
  <2>1. [owner |-> owner, turn |-> nextTurn, at |-> now, entered |-> FALSE,
         previous |-> None, origin |-> None] \in Reservation
    BY <1>1 DEF TakeTurn, Structured, Reservation, Turn
  <2>2. QED
    BY <1>1, <2>1 DEF TakeTurn, Structured
<1>2. ASSUME NEW r \in Request, NEW fit \in Fits, Candidate(r, fit) PROVE Structured'
  <2>1. res[r] \in Reservation
    BY <1>2, HeldReservation DEF Candidate
  <2>2. /\ DOMAIN registry'.owners \subseteq Owner
        /\ \A o \in DOMAIN registry'.owners : registry'.owners[o] \in OwnerState
    <3>1. Entered(r) \in OwnerState
      BY <2>1 DEF Entered, Reservation, OwnerState
    <3>2. res[r].owner \in Owner
      BY <2>1 DEF Reservation
    <3>3. \A o \in DOMAIN registry'.owners :
              o \in Owner /\ registry'.owners[o] \in OwnerState
      BY <1>2, <3>1, <3>2, CandidateEffect DEF Structured, Unchanged
    <3>4. QED
      BY <3>3
  <2>3. res'[r] \in Reservation
    BY <1>2, CandidateReservation
  <2>4. res' = [res EXCEPT ![r] = res'[r]]
    BY <1>2 DEF Candidate, Structured
  <2>5. QED
    BY <1>2, <2>2, <2>3, <2>4, CandidateEffect DEF Candidate, Structured
<1>3. ASSUME NEW r \in Request, Abort(r) PROVE Structured'
  BY <1>3, AbortEffect DEF Abort, Structured, Unchanged
<1>4. ASSUME NEW r \in Request, NEW sock \in Socket \union {None},
             NEW size \in 1 .. MaxSize, Record(r, sock, size)
      PROVE  Structured'
  <2>1. res[r] \in Reservation
    BY <1>4, HeldReservation DEF Record
  <2>2. sock # None => \A o \in DOMAIN registry.owners : Answered(r, sock, size) \in OwnerState
               \/ o # res[r].owner
    BY <2>1 DEF Structured, Answered, Reservation, OwnerState, ContinuationState
  <2>3. /\ DOMAIN registry'.owners \subseteq Owner
        /\ \A o \in DOMAIN registry'.owners : registry'.owners[o] \in OwnerState
    BY <1>4, <2>1, <2>2, RecordEffect DEF Structured, Unchanged, IsCurrent
  <2>4. QED
    BY <1>4, <2>3, RecordEffect DEF Record, Structured
<1>5. ASSUME NEW r \in Request, FullContext(r) PROVE Structured'
  BY ZenonT(40), <1>5 DEF FullContext, Structured, Reservation
<1>6. ASSUME NEW r \in Request, Drop(r) PROVE Structured'
  BY <1>6 DEF Drop, Structured
<1>7. CASE Tick
  BY <1>7 DEF Tick, Structured
<1>8. CASE UNCHANGED regVars
  BY <1>8 DEF Structured
<1>9. QED
  BY <1>1, <1>2, <1>3, <1>4, <1>5, <1>6, <1>7, <1>8 DEF Next

-----------------------------------------------------------------------------
(* A turn number belongs to one request, and to at most one owner once the  *)
(* request has entered.                                                     *)

Numbered ==
    /\ \A r \in Request : res[r] # None => res[r].turn < nextTurn
    /\ \A r, q \in Request :
           r # q /\ res[r] # None /\ res[q] # None => res[r].turn # res[q].turn
    /\ \A o \in DOMAIN registry.owners : registry.owners[o].turn < nextTurn
    /\ \A o, p \in DOMAIN registry.owners :
           o # p => registry.owners[o].turn # registry.owners[p].turn
    /\ \A o \in DOMAIN registry.owners, r \in Request :
           res[r] # None /\ ~res[r].entered => registry.owners[o].turn # res[r].turn

\* What a request was offered is nobody else's, and no owner's any more.
Spent ==
    \A r \in Request : res[r] # None /\ res[r].previous # None =>
        /\ res[r].entered
        /\ res[r].previous < nextTurn
        /\ \A q \in Request : res[q] # None =>
               /\ ~res[q].entered => res[q].turn # res[r].previous
               /\ q # r => res[q].previous # res[r].previous
        /\ \A o \in DOMAIN registry.owners : registry.owners[o].turn # res[r].previous

\* The inductive invariant.
Consistent ==
    /\ Structured
    /\ Numbered
    /\ RecordedByCurrentTurn
    /\ Spent

\* After a step, an owner has the turn it had before.
SameTurn(o) ==
    o \in DOMAIN registry.owners /\ registry'.owners[o].turn = registry.owners[o].turn

LEMMA RecordKeepsTurns ==
    ASSUME Structured, NEW r \in Request, NEW sock, NEW size, Record(r, sock, size)
    PROVE  \A o \in DOMAIN registry'.owners : SameTurn(o)
<1> SUFFICES ASSUME NEW o \in DOMAIN registry'.owners PROVE SameTurn(o)
  OBVIOUS
<1>1. CASE Unchanged(o)
  BY <1>1 DEF SameTurn, Unchanged
<1>2. CASE /\ o = res[r].owner
           /\ IsCurrent(registry, res[r].owner, res[r].turn)
           /\ registry'.owners[o] = Answered(r, sock, size)
  BY <1>2 DEF SameTurn, IsCurrent, Answered
<1>3. QED
  BY <1>1, <1>2, RecordEffect

LEMMA AbortKeepsTurns ==
    ASSUME Structured, NEW r \in Request, Abort(r)
    PROVE  \A o \in DOMAIN registry'.owners : SameTurn(o)
BY AbortEffect DEF SameTurn, Unchanged

\* A step that neither numbers a turn nor lets one enter.
Quiet ==
    /\ \A o \in DOMAIN registry'.owners : SameTurn(o)
    /\ nextTurn' = nextTurn
    /\ \A r \in Request : res'[r] # None =>
           /\ res[r] # None
           /\ res'[r].turn = res[r].turn
           /\ res'[r].entered = res[r].entered
           /\ res'[r].previous = res[r].previous \/ res'[r].previous = None

LEMMA QuietStep ==
    ASSUME Structured, Numbered, Spent, Quiet
    PROVE  Numbered' /\ Spent'
<1>1. Numbered'
  BY DEF Numbered, Quiet, SameTurn
<1>2. Spent'
  BY DEF Spent, Quiet, SameTurn
<1>3. QED
  BY <1>1, <1>2

LEMMA QuietSteps ==
    ASSUME Structured,
           \/ \E r \in Request :
                  \/ Abort(r) \/ FullContext(r) \/ Drop(r)
                  \/ \E sock \in Socket \union {None}, size \in 1 .. MaxSize :
                         Record(r, sock, size)
           \/ Tick
           \/ UNCHANGED regVars
    PROVE  Quiet
<1>1. ASSUME NEW r \in Request, Abort(r) PROVE Quiet
  BY <1>1, AbortKeepsTurns DEF Abort, Quiet
<1>2. ASSUME NEW r \in Request, FullContext(r) PROVE Quiet
  BY <1>2 DEF FullContext, Quiet, SameTurn, Structured, Reservation
<1>3. ASSUME NEW r \in Request, Drop(r) PROVE Quiet
  BY <1>3 DEF Drop, Quiet, SameTurn, Structured
<1>4. ASSUME NEW r \in Request, NEW sock \in Socket \union {None},
             NEW size \in 1 .. MaxSize, Record(r, sock, size)
      PROVE  Quiet
  BY <1>4, RecordKeepsTurns DEF Record, Quiet
<1>5. ASSUME Tick PROVE Quiet
  BY <1>5 DEF Tick, Quiet, SameTurn
<1>6. ASSUME UNCHANGED regVars PROVE Quiet
  BY <1>6 DEF Quiet, SameTurn
<1>7. QED
  BY <1>1, <1>2, <1>3, <1>4, <1>5, <1>6

\* A turn number is new when it is taken.
LEMMA TakeTurnStep ==
    ASSUME Structured, Numbered, Spent, NEW r \in Request, NEW owner \in Owner,
           TakeTurn(r, owner)
    PROVE  Numbered' /\ Spent'
<1> USE ContinuationAssumption, NoneAssumption
<1>1. /\ registry' = registry /\ nextTurn' = nextTurn + 1 /\ nextTurn \in Nat
      /\ res'[r].turn = nextTurn /\ ~res'[r].entered /\ res'[r].previous = None
      /\ \A q \in Request \ {r} : res'[q] = res[q]
  BY DEF TakeTurn, Structured
<1>2. /\ \A q \in Request : res[q] # None => res[q].turn \in Nat
      /\ \A o \in DOMAIN registry.owners : registry.owners[o].turn \in Nat
  BY HeldReservation DEF Structured, Reservation, OwnerState, Turn
<1>3. \A q \in Request : res[q] # None /\ res[q].previous # None => res[q].previous \in Nat
  BY HeldReservation DEF Reservation, Turn
<1>4. Numbered'
  BY <1>1, <1>2 DEF Numbered
<1>5. Spent'
  BY <1>1, <1>2, <1>3 DEF Spent
<1>6. QED
  BY <1>4, <1>5

\* What a turn is offered is what its owner's last turn recorded.
LEMMA OfferedTurn ==
    ASSUME Structured, RecordedByCurrentTurn, NEW r \in Request, NEW fit, Candidate(r, fit)
    PROVE  /\ res[r] # None /\ ~res[r].entered
           /\ res' = [res EXCEPT ![r] = res'[r]]
           /\ res'[r].owner = res[r].owner /\ res'[r].turn = res[r].turn
           /\ res'[r].entered
           /\ \/ res'[r].previous = None \/ res'[r].previous = res[r].previous
              \/ /\ res[r].owner \in DOMAIN registry.owners
                 /\ Held(registry, res[r].owner) # None
                 /\ res'[r].previous = Held(registry, res[r].owner).response
                 /\ res'[r].previous = registry.owners[res[r].owner].turn
<1>1. res[r] \in Reservation
  BY HeldReservation DEF Candidate
<1>2. QED
  BY <1>1 DEF Candidate, Held, Continues, Structured, Reservation, RecordedByCurrentTurn

LEMMA CandidateStep ==
    ASSUME Structured, Numbered, RecordedByCurrentTurn, Spent,
           NEW r \in Request, NEW fit, Candidate(r, fit)
    PROVE  Numbered' /\ Spent'
<1>1. \A o \in DOMAIN registry'.owners :
          \/ o = res[r].owner /\ registry'.owners[o].turn = res[r].turn
          \/ o # res[r].owner /\ SameTurn(o)
  <2> SUFFICES ASSUME NEW o \in DOMAIN registry'.owners
               PROVE  \/ o = res[r].owner /\ registry'.owners[o].turn = res[r].turn
                      \/ o # res[r].owner /\ SameTurn(o)
    OBVIOUS
  <2>1. CASE o = res[r].owner /\ registry'.owners[o] = Entered(r)
    BY <2>1 DEF Entered
  <2>2. CASE o # res[r].owner /\ Unchanged(o)
    BY <2>2 DEF Unchanged, SameTurn
  <2>3. QED
    BY <2>1, <2>2, CandidateEffect
<1>2. /\ \A q \in Request \ {r} : res'[q] = res[q]
      /\ res'[r].turn = res[r].turn /\ res'[r].entered
      /\ res[r] # None /\ ~res[r].entered
      /\ nextTurn' = nextTurn
  BY OfferedTurn DEF Structured, Candidate
<1>3. Numbered'
  BY <1>1, <1>2 DEF Numbered, SameTurn
<1>4. res[r].previous = None
  BY <1>2 DEF Spent
<1>5. \/ res'[r].previous = None
      \/ /\ res[r].owner \in DOMAIN registry.owners
         /\ res'[r].previous = registry.owners[res[r].owner].turn
  BY <1>4, OfferedTurn
<1>6. Spent'
  BY <1>1, <1>2, <1>4, <1>5 DEF Spent, Numbered, SameTurn
<1>7. QED
  BY <1>3, <1>6

\* Only the current turn records, and it records itself.
LEMMA RecordedStep ==
    ASSUME Structured, RecordedByCurrentTurn, [Next]_regVars
    PROVE  RecordedByCurrentTurn'
<1>1. ASSUME NEW r \in Request, NEW fit \in Fits, Candidate(r, fit)
      PROVE  RecordedByCurrentTurn'
  <2>1. SUFFICES ASSUME NEW o \in DOMAIN registry'.owners,
                        registry'.owners[o].continuation # None
                 PROVE  registry'.owners[o].continuation.response = registry'.owners[o].turn
    BY DEF RecordedByCurrentTurn
  <2>2. CASE Unchanged(o)
    BY <2>1, <2>2 DEF RecordedByCurrentTurn, Unchanged
  <2>3. CASE registry'.owners[o] = Entered(r)
    BY <2>1, <2>3 DEF Entered
  <2>4. QED
    BY <1>1, <2>2, <2>3, CandidateEffect
<1>2. ASSUME NEW r \in Request, NEW sock \in Socket \union {None},
             NEW size \in 1 .. MaxSize, Record(r, sock, size)
      PROVE  RecordedByCurrentTurn'
  <2>1. SUFFICES ASSUME NEW o \in DOMAIN registry'.owners,
                        registry'.owners[o].continuation # None
                 PROVE  registry'.owners[o].continuation.response = registry'.owners[o].turn
    BY DEF RecordedByCurrentTurn
  <2>2. CASE Unchanged(o)
    BY <2>1, <2>2 DEF RecordedByCurrentTurn, Unchanged
  <2>3. CASE registry'.owners[o] = Answered(r, sock, size)
    BY <2>3 DEF Answered
  <2>4. QED
    BY <1>2, <2>2, <2>3, RecordEffect
<1>3. ASSUME NEW r \in Request, Abort(r)
      PROVE  RecordedByCurrentTurn'
  BY <1>3, AbortEffect DEF RecordedByCurrentTurn, Unchanged
<1>4. CASE UNCHANGED registry
  BY <1>4 DEF RecordedByCurrentTurn
<1>5. QED
  BY <1>1, <1>2, <1>3, <1>4 DEF Next, TakeTurn, FullContext, Drop, Tick

LEMMA ConsistentInit ==
    Init => Consistent
BY ContinuationAssumption
   DEF Init, Consistent, Structured, IsRegistry, Numbered, RecordedByCurrentTurn, Spent

LEMMA ConsistentStep ==
    Consistent /\ [Next]_regVars => Consistent'
<1> SUFFICES ASSUME Consistent, [Next]_regVars PROVE Consistent'
  OBVIOUS
<1> USE DEF Consistent
<1>1. Structured' /\ RecordedByCurrentTurn'
  BY StructuredStep, RecordedStep
<1>2. ASSUME NEW r \in Request, NEW owner \in Owner, TakeTurn(r, owner)
      PROVE  Numbered' /\ Spent'
  BY <1>2, TakeTurnStep
<1>3. ASSUME NEW r \in Request, NEW fit \in Fits, Candidate(r, fit)
      PROVE  Numbered' /\ Spent'
  BY <1>3, CandidateStep
<1>4. ASSUME Quiet PROVE Numbered' /\ Spent'
  BY <1>4, QuietStep
<1>5. QED
  BY <1>1, <1>2, <1>3, <1>4, QuietSteps DEF Next

LEMMA Consistency ==
    RegistrySpec => []Consistent
<1>1. QED
  BY ConsistentInit, ConsistentStep, PTL DEF RegistrySpec

\* A turn superseded while its answer is under way leaves no continuation: what
\* an owner has recorded is its current turn's (record_for_owner's check).
THEOREM RecordedCurrent ==
    RegistrySpec => []RecordedByCurrentTurn
<1>1. Consistent => RecordedByCurrentTurn
  BY DEF Consistent
<1>2. QED
  BY <1>1, Consistency, PTL

\* A response is handed to one request at most (candidate_inner's replacement).
THEOREM Once ==
    RegistrySpec => []OfferedOnce
<1>1. Consistent => OfferedOnce
  BY DEF Consistent, Spent, RecordedByCurrentTurn, OfferedOnce
<1>2. QED
  BY <1>1, Consistency, PTL

-----------------------------------------------------------------------------
(* The byte counter and the limits.                                         *)

\* Whose bytes are counted, and what each of them counts for.
Counted(reg) == [o \in DOMAIN reg.owners |-> BytesOf(reg.owners[o])]

\* The counter is the sum over finitely many owners, each of which holds a state.
Accounted(reg) ==
    /\ IsFiniteSet(DOMAIN reg.owners)
    /\ \A o \in DOMAIN reg.owners : reg.owners[o] \in OwnerState
    /\ reg.bytes = SumFunctionOnSet(Counted(reg), DOMAIN reg.owners)

WithinBoth(reg) ==
    /\ Cardinality(DOMAIN reg.owners) <= MaxStates
    /\ reg.bytes <= MaxTotalBytes

LEMMA BytesAreNatural ==
    ASSUME NEW state \in OwnerState
    PROVE  BytesOf(state) \in Nat
BY ContinuationAssumption, NoneAssumption DEF BytesOf, OwnerState, ContinuationState

LEMMA CounterIsNatural ==
    ASSUME NEW reg, Accounted(reg)
    PROVE  /\ reg.bytes \in Nat
           /\ \A o \in DOMAIN reg.owners : Counted(reg)[o] \in Nat
<1>1. \A o \in DOMAIN reg.owners : Counted(reg)[o] \in Nat
  BY BytesAreNatural DEF Counted, Accounted
<1>2. QED
  BY <1>1, SumType DEF Accounted

\* Owners that leave together give back exactly what they counted for, so the
\* subtraction saturates nowhere.
LEMMA KeepingIsAccounted ==
    ASSUME NEW reg, Accounted(reg), NEW kept \in SUBSET DOMAIN reg.owners
    PROVE  /\ Accounted(Keeping(reg, kept))
           /\ DOMAIN Keeping(reg, kept).owners = kept
           /\ Keeping(reg, kept).bytes <= reg.bytes
<1> DEFINE D    == DOMAIN reg.owners
           left == Keeping(reg, kept)
           old  == SumFunctionOnSet(Counted(reg), kept)
           gone == SumFunctionOnSet(Counted(reg), D \ kept)
<1>1. /\ left.owners = Restrict(reg.owners, kept)
      /\ left.bytes = SaturatingSub(reg.bytes, gone)
  BY DEF Keeping, Counted
<1>2. DOMAIN left.owners = kept /\ \A o \in kept : left.owners[o] = reg.owners[o]
  BY <1>1 DEF Restrict
<1>3. IsFiniteSet(kept) /\ IsFiniteSet(D \ kept)
  BY FS_Subset DEF Accounted
<1>4. reg.bytes = old + gone
  BY CounterIsNatural, SumSplits DEF Accounted
<1>5. old \in Nat /\ gone \in Nat
  BY <1>3, CounterIsNatural, SumType
<1>6. old = SumFunctionOnSet(Counted(left), kept)
  <2>1. \A o \in kept : Counted(reg)[o] = Counted(left)[o]
    BY <1>2 DEF Counted
  <2> HIDE DEF left
  <2>2. QED
    BY <1>3, <2>1, SumSame
<1> HIDE DEF old, gone
<1>7. left.bytes = old /\ left.bytes <= reg.bytes
  BY <1>1, <1>4, <1>5 DEF SaturatingSub
<1> HIDE DEF left
<1>8. Accounted(left)
  BY <1>2, <1>3, <1>6, <1>7 DEF Accounted
<1>9. QED
  BY <1>2, <1>7, <1>8 DEF left

LEMMA WithoutIsAccounted ==
    ASSUME NEW reg, Accounted(reg), NEW owner
    PROVE  /\ Accounted(Without(reg, owner))
           /\ Without(reg, owner).bytes <= reg.bytes
           /\ DOMAIN Without(reg, owner).owners = DOMAIN reg.owners \ {owner}
<1>1. CASE owner \notin DOMAIN reg.owners
  BY <1>1, CounterIsNatural DEF Without
<1>2. CASE owner \in DOMAIN reg.owners
  <2> DEFINE D    == DOMAIN reg.owners
             kept == D \ {owner}
  <2>1. D \ kept = {owner} /\ IsFiniteSet({owner}) /\ {owner} \ {owner} = {}
    BY <1>2, FS_Singleton
  <2>2. Counted(reg)[owner] = BytesOf(reg.owners[owner]) /\ Counted(reg)[owner] \in Nat
    BY <1>2, CounterIsNatural DEF Counted
  <2>3. SumFunctionOnSet(Counted(reg), {}) = 0
    BY FS_EmptySet, SumUnfolds
  <2>4. SumFunctionOnSet(Counted(reg), {owner})
          = Counted(reg)[owner] + SumFunctionOnSet(Counted(reg), {})
    BY <2>1, <2>2, SumTakesOut
  <2>5. SumFunctionOnSet(Counted(reg), D \ kept) = BytesOf(reg.owners[owner])
    BY <2>1, <2>2, <2>3, <2>4
  <2>6. Without(reg, owner) = Keeping(reg, kept)
    BY <1>2, <2>5 DEF Without, Keeping, Counted
  <2>7. QED
    BY <2>6, KeepingIsAccounted
<1>3. QED
  BY <1>1, <1>2

LEMMA WithIsAccounted ==
    ASSUME NEW reg, Accounted(reg), NEW owner, owner \notin DOMAIN reg.owners,
           NEW state \in OwnerState
    PROVE  Accounted(With(reg, owner, state))
<1> DEFINE D    == DOMAIN reg.owners
           more == With(reg, owner, state)
           all  == D \union {owner}
<1>1. /\ DOMAIN more.owners = all /\ more.owners[owner] = state
      /\ \A o \in D : more.owners[o] = reg.owners[o]
      /\ more.bytes = reg.bytes + BytesOf(state)
  BY WithOwner DEF With
<1> HIDE DEF more
<1>2. IsFiniteSet(all) /\ owner \in all /\ all \ {owner} = D /\ IsFiniteSet(D)
  BY FS_AddElement DEF Accounted
<1>3. /\ Counted(more)[owner] = BytesOf(state)
      /\ \A o \in D : Counted(more)[o] = Counted(reg)[o]
  BY <1>1 DEF Counted
<1>4. \A o \in all : Counted(more)[o] \in Nat
  BY <1>3, BytesAreNatural, CounterIsNatural
<1>5. SumFunctionOnSet(Counted(more), all) = BytesOf(state) + SumFunctionOnSet(Counted(more), D)
  BY <1>2, <1>3, <1>4, SumTakesOut
<1>6. SumFunctionOnSet(Counted(more), D) = reg.bytes
  BY <1>2, <1>3, SumSame DEF Accounted
<1>7. more.bytes = SumFunctionOnSet(Counted(more), all)
  BY <1>1, <1>5, <1>6, BytesAreNatural, CounterIsNatural
<1>8. QED
  BY <1>1, <1>2, <1>7 DEF Accounted, more

\* Eviction ends within both limits: at the latest when no owner is left.
LEMMA EvictedIsWithin ==
    ASSUME NEW reg, Accounted(reg), NEW left \in EvictOldest(reg)
    PROVE  Accounted(left) /\ WithinBoth(left)
<1>1. CASE ~OverLimit(reg)
  <2>1. left = reg
    BY <1>1 DEF EvictOldest
  <2>2. Cardinality(DOMAIN reg.owners) \in Nat /\ reg.bytes \in Nat
    BY CounterIsNatural, FS_CardinalityType DEF Accounted
  <2>3. QED
    BY <1>1, <2>1, <2>2, ContinuationAssumption DEF OverLimit, WithinBoth
<1>2. CASE OverLimit(reg)
  <2>1. PICK kept \in SUBSET DOMAIN reg.owners :
            /\ left = Keeping(reg, kept)
            /\ kept = {} \/ ~OverLimit(Keeping(reg, kept))
    BY <1>2, Zenon DEF EvictOldest
  <2>2. Accounted(left) /\ DOMAIN left.owners = kept
    BY <2>1, KeepingIsAccounted
  <2>3. Cardinality(DOMAIN left.owners) \in Nat /\ left.bytes \in Nat
    BY <2>2, CounterIsNatural, FS_CardinalityType DEF Accounted
  <2>4. CASE kept = {}
    <3>1. Cardinality(DOMAIN left.owners) = 0
      BY <2>2, <2>4, FS_EmptySet
    <3>2. left.bytes = 0
      BY <2>2, <2>4, FS_EmptySet, SumUnfolds DEF Accounted
    <3>3. QED
      BY <2>2, <3>1, <3>2, ContinuationAssumption DEF WithinBoth
  <2>5. CASE ~OverLimit(Keeping(reg, kept))
    BY <2>1, <2>2, <2>3, <2>5, ContinuationAssumption DEF OverLimit, WithinBoth
  <2>6. QED
    BY <2>1, <2>4, <2>5
<1>3. QED
  BY <1>1, <1>2

LEMMA AbortedIsWithin ==
    ASSUME NEW reg, Accounted(reg), WithinBoth(reg), NEW owner, NEW turn
    PROVE  Accounted(Aborted(reg, owner, turn)) /\ WithinBoth(Aborted(reg, owner, turn))
<1>1. ASSUME NEW left, left = Without(reg, owner)
      PROVE  Accounted(left) /\ WithinBoth(left)
  <2>1. /\ Accounted(left) /\ left.bytes <= reg.bytes
        /\ DOMAIN left.owners \in SUBSET DOMAIN reg.owners
    BY <1>1, WithoutIsAccounted
  <2>2. /\ Cardinality(DOMAIN left.owners) <= Cardinality(DOMAIN reg.owners)
        /\ Cardinality(DOMAIN left.owners) \in Nat /\ Cardinality(DOMAIN reg.owners) \in Nat
    BY <2>1, FS_Subset, FS_CardinalityType DEF Accounted
  <2>3. left.bytes \in Nat /\ reg.bytes \in Nat
    BY <2>1, CounterIsNatural
  <2>4. QED
    BY <2>1, <2>2, <2>3, ContinuationAssumption DEF WithinBoth
<1>2. QED
  BY <1>1 DEF Aborted

\* A registry that the current turn's state, or a new one, replaces an owner's in.
LEMMA ReplacedIsWithin ==
    ASSUME NEW reg, Accounted(reg), NEW owner, NEW state \in OwnerState,
           NEW left \in EvictOldest(With(Without(reg, owner), owner, state))
    PROVE  Accounted(left) /\ WithinBoth(left)
<1> DEFINE base == Without(reg, owner)
           more == With(base, owner, state)
<1>1. Accounted(base) /\ owner \notin DOMAIN base.owners
  BY WithoutIsAccounted
<1> HIDE DEF base
<1>2. Accounted(more)
  BY <1>1, WithIsAccounted
<1>3. left \in EvictOldest(more)
  BY DEF base
<1> HIDE DEF more
<1>4. QED
  BY <1>2, <1>3, EvictedIsWithin

\* What every call leaves: the counter right and both limits kept.
InOrder == Accounted(registry) /\ WithinBoth(registry)

LEMMA InOrderInit ==
    Init => InOrder
<1> SUFFICES ASSUME Init PROVE InOrder
  OBVIOUS
<1>1. DOMAIN registry.owners = {} /\ registry.bytes = 0
  BY DEF Init
<1>2. SumFunctionOnSet(Counted(registry), {}) = 0
  BY FS_EmptySet, SumUnfolds
<1>3. QED
  BY <1>1, <1>2, FS_EmptySet, ContinuationAssumption DEF InOrder, Accounted, WithinBoth

LEMMA InOrderStep ==
    Structured /\ InOrder /\ [Next]_regVars => InOrder'
<1> SUFFICES ASSUME Structured, InOrder, [Next]_regVars PROVE InOrder'
  OBVIOUS
<1> USE DEF InOrder
<1>1. ASSUME NEW r \in Request, NEW fit \in Fits, Candidate(r, fit) PROVE InOrder'
  <2>1. res[r] \in Reservation
    BY <1>1, HeldReservation DEF Candidate
  <2>2. [turn |-> res[r].turn, continuation |-> None, updatedAt |-> res[r].at] \in OwnerState
    BY <2>1 DEF Reservation, OwnerState
  <2>3. QED
    BY <1>1, <2>2, ReplacedIsWithin DEF Candidate
<1>2. ASSUME NEW r \in Request, NEW sock \in Socket \union {None},
             NEW size \in 1 .. MaxSize, Record(r, sock, size)
      PROVE  InOrder'
  <2> DEFINE me == res[r]
             state == [response |-> me.turn, socket |-> sock, bytes |-> size,
                       updatedAt |-> now]
             mine == registry.owners[me.owner]
  <2>1. res[r] \in Reservation
    BY <1>2, HeldReservation DEF Record
  <2>2. CASE sock = None \/ size > MaxOwnerBytes
    BY <1>2, <2>2, AbortedIsWithin DEF Record
  <2>3. CASE /\ ~(sock = None \/ size > MaxOwnerBytes)
             /\ ~IsCurrent(registry, me.owner, me.turn)
    BY <1>2, <2>3 DEF Record, Store
  <2>4. CASE /\ ~(sock = None \/ size > MaxOwnerBytes)
             /\ IsCurrent(registry, me.owner, me.turn)
    <3>1. registry' \in EvictOldest(With(Without(registry, me.owner), me.owner,
                                         [mine EXCEPT !.continuation = state]))
      BY <1>2, <2>4 DEF Record, Store
    <3>2. mine \in OwnerState
      BY <2>4 DEF IsCurrent, Structured
    <3>3. state \in ContinuationState
      BY <2>1, <2>4, ContinuationAssumption
         DEF ContinuationState, Reservation, Structured
    <3>4. [mine EXCEPT !.continuation = state] \in OwnerState
      <4> HIDE DEF mine, state
      <4>1. QED
        BY <3>2, <3>3 DEF OwnerState
    <3>5. QED
      BY <3>1, <3>4, ReplacedIsWithin
  <2>5. QED
    BY <2>2, <2>3, <2>4
<1>3. ASSUME NEW r \in Request, Abort(r) PROVE InOrder'
  BY <1>3, AbortedIsWithin DEF Abort
<1>4. CASE UNCHANGED registry
  BY <1>4
<1>5. QED
  BY <1>1, <1>2, <1>3, <1>4 DEF Next, TakeTurn, FullContext, Drop, Tick

\* Through every supersession, replacement, abort and eviction the counter is
\* the sum of what the owners hold, and the registry is within MAX_STATES and
\* MAX_TOTAL_TRANSCRIPT_BYTES (evict_oldest, insert_state, remove_state).
THEOREM RegistryIsInOrder ==
    RegistrySpec => []RegistryInOrder
<1>1. Consistent /\ InOrder => RegistryInOrder
  BY CounterIsNatural
     DEF Consistent, Structured, InOrder, Accounted, Counted, WithinBoth,
         RegistryInOrder, TypeOK, BytesAccounted, WithinLimits
<1>2. Consistent /\ InOrder /\ [Next]_regVars => InOrder'
  BY InOrderStep DEF Consistent
<1>3. QED
  BY <1>1, <1>2, InOrderInit, Consistency, PTL DEF RegistrySpec

-----------------------------------------------------------------------------
(* The registry implements ContinuationService.                             *)

Lost == {o \in Owner : o \notin DOMAIN registry'.owners}

\* Owners only leave: the service forgets them.
LEMMA Forgotten ==
    ASSUME Structured, \A o \in DOMAIN registry'.owners : Unchanged(o)
    PROVE  /\ Lost \in SUBSET Owner
           /\ CurrentTurn' = [p \in Owner |-> IF p \in Lost THEN None ELSE CurrentTurn[p]]
           /\ Offer' = [p \in Owner |-> IF p \in Lost THEN None ELSE Offer[p]]
BY DEF Lost, CurrentTurn, Offer, Held, Unchanged, Structured

\* The requests' part of the service's state.
LEMMA SameRequests ==
    ASSUME res' = res
    PROVE  Waiting' = Waiting /\ Given' = Given
BY DEF Waiting, Given

LEMMA RefinesTakeTurn ==
    ASSUME Structured, NEW r \in Request, NEW owner \in Owner, TakeTurn(r, owner)
    PROVE  Service!Number(nextTurn) /\ nextTurn \in Turn
<1> USE ContinuationAssumption, NoneAssumption
<1>1. nextTurn \in Turn /\ nextTurn \notin 1 .. nextTurn - 1
  BY DEF TakeTurn, Structured, Turn
<1>2. 1 .. nextTurn' - 1 = (1 .. nextTurn - 1) \union {nextTurn}
  BY DEF TakeTurn, Structured
<1>3. /\ res[r] = None /\ res'[r] # None
      /\ res'[r].turn = nextTurn /\ ~res'[r].entered /\ res'[r].previous = None
      /\ \A q \in Request \ {r} : res'[q] = res[q]
  <2>1. [owner |-> owner, turn |-> nextTurn, at |-> now, entered |-> FALSE,
         previous |-> None, origin |-> None] \in Reservation
    BY DEF TakeTurn, Structured, Reservation, Turn
  <2>2. QED
    BY <2>1 DEF TakeTurn, Structured
<1>4. Waiting' = Waiting \union {nextTurn}
  BY <1>3 DEF Waiting
<1>5. Given' = Given
  BY <1>3 DEF Given
<1>6. UNCHANGED <<CurrentTurn, Offer>>
  BY DEF TakeTurn, CurrentTurn, Offer
<1>7. QED
  BY <1>1, <1>2, <1>4, <1>5, <1>6 DEF Service!Number

LEMMA RefinesCandidate ==
    ASSUME Consistent, NEW r \in Request, NEW fit, Candidate(r, fit)
    PROVE  /\ res[r].owner \in Owner /\ res[r].turn \in Waiting
           /\ Service!Enter(res[r].owner, res[r].turn, Lost)
<1> USE NoneAssumption
<1> DEFINE o == res[r].owner
           t == res[r].turn
<1>1. res[r] \in Reservation /\ res[r] # None /\ ~res[r].entered
  BY HeldReservation DEF Candidate, Consistent
<1>2. o \in Owner /\ t \in Waiting
  BY <1>1 DEF Reservation, Waiting
<1>3. /\ res'[r] # None /\ res'[r].turn = t /\ res'[r].entered
      /\ \A q \in Request \ {r} : res'[q] = res[q]
  BY CandidateReservation, OfferedTurn DEF Consistent, Structured
<1>4. Waiting' = Waiting \ {t}
  BY <1>1, <1>3 DEF Waiting, Consistent, Numbered
<1>5. \/ Given' = Given
      \/ Offer[o] # None /\ Given' = Given \union {<<t, Offer[o]>>}
  <2>1. res[r].previous = None
    BY <1>1 DEF Consistent, Spent
  <2>2. CASE res'[r].previous = None
    BY <1>3, <2>1, <2>2 DEF Given
  <2>3. CASE res'[r].previous # None
    <3>1. Held(registry, o) # None /\ res'[r].previous = Held(registry, o).response
      BY <2>1, <2>3, OfferedTurn DEF Consistent
    <3>2. Offer[o] = res'[r].previous
      BY <1>2, <3>1 DEF Offer
    <3>3. Given' = Given \union {<<t, res'[r].previous>>}
      BY <1>3, <2>1, <2>3 DEF Given
    <3>4. QED
      BY <2>3, <3>2, <3>3
  <2>4. QED
    BY <2>2, <2>3
<1>6. CurrentTurn' = [p \in Owner |-> IF p \in Lost THEN None
                                      ELSE IF p = o THEN t ELSE CurrentTurn[p]]
  <2>1. ASSUME NEW p \in DOMAIN registry'.owners
        PROVE  \/ p = o /\ registry'.owners[p].turn = t
               \/ p # o /\ Unchanged(p)
    <3>1. registry'.owners[p] = Entered(r) => registry'.owners[p].turn = t
      BY DEF Entered
    <3>2. QED
      BY <3>1, CandidateEffect DEF Consistent
  <2>2. QED
    BY <2>1 DEF CurrentTurn, Lost, Unchanged
<1>7. Offer' = [p \in Owner |-> IF p \in Lost \union {o} THEN None ELSE Offer[p]]
  <2>1. ASSUME NEW p \in DOMAIN registry'.owners
        PROVE  \/ p = o /\ registry'.owners[p].continuation = None
               \/ p # o /\ Unchanged(p)
    <3>1. registry'.owners[p] = Entered(r) => registry'.owners[p].continuation = None
      BY DEF Entered
    <3>2. QED
      BY <3>1, CandidateEffect DEF Consistent
  <2>2. QED
    BY <2>1 DEF Offer, Held, Lost, Unchanged
<1>8. 1 .. nextTurn' - 1 = 1 .. nextTurn - 1
  BY DEF Candidate
<1>9. QED
  BY <1>2, <1>4, <1>5, <1>6, <1>7, <1>8 DEF Service!Enter

LEMMA RefinesForget ==
    ASSUME Structured, \A o \in DOMAIN registry'.owners : Unchanged(o),
           UNCHANGED <<nextTurn, res>>
    PROVE  Lost \in SUBSET Owner /\ Service!Forget(Lost)
BY Forgotten, SameRequests DEF Service!Forget

LEMMA RefinesRecord ==
    ASSUME Consistent, NEW r \in Request, NEW sock \in Socket \union {None},
           NEW size \in 1 .. MaxSize, Record(r, sock, size)
    PROVE  /\ Lost \in SUBSET Owner
           /\ Service!Forget(Lost) \/ Service!Answer(res[r].owner, Lost)
           /\ res[r].owner \in Owner
<1> USE NoneAssumption
<1> DEFINE o == res[r].owner
           t == res[r].turn
<1>1. res[r] \in Reservation /\ UNCHANGED <<nextTurn, res>>
  BY HeldReservation DEF Record, Consistent
<1>2. o \in Owner /\ t \in Turn
  BY <1>1 DEF Reservation
<1>3. CASE \A p \in DOMAIN registry'.owners : Unchanged(p)
  BY <1>1, <1>2, <1>3, RefinesForget DEF Consistent
<1>4. CASE \E p \in DOMAIN registry'.owners : ~Unchanged(p)
  <2>1. /\ sock # None
        /\ IsCurrent(registry, o, t)
        /\ o \in DOMAIN registry'.owners
        /\ registry'.owners[o] = Answered(r, sock, size)
        /\ \A p \in DOMAIN registry'.owners : p # o => Unchanged(p)
    BY <1>4, RecordEffect DEF Consistent
  <2>2. Answered(r, sock, size).continuation \in ContinuationState
    BY <1>2, <2>1 DEF Answered, ContinuationState, Consistent, Structured
  <2>3. /\ registry'.owners[o].turn = t
        /\ registry'.owners[o].continuation # None
        /\ registry'.owners[o].continuation.response = t
    BY <2>1, <2>2 DEF Answered
  <2>4. CurrentTurn[o] = t
    BY <1>2, <2>1 DEF CurrentTurn, IsCurrent
  <2>5. CurrentTurn' = [p \in Owner |-> IF p \in Lost THEN None ELSE CurrentTurn[p]]
    BY <2>1, <2>3, <2>4 DEF CurrentTurn, Lost, Unchanged
  <2>6. Offer' = [p \in Owner |-> IF p \in Lost THEN None
                                  ELSE IF p = o THEN t ELSE Offer[p]]
    BY <2>1, <2>3 DEF Offer, Held, Lost, Unchanged
  <2>7. QED
    BY <1>1, <1>2, <2>4, <2>5, <2>6, SameRequests DEF Service!Answer, Lost
<1>5. QED
  BY <1>3, <1>4

\* A request that loses its reservation, or the offer in it.
LEMMA RefinesRelease ==
    ASSUME Consistent, NEW r \in Request, FullContext(r) \/ Drop(r)
    PROVE  \/ Service!Release(<<res[r].turn, res[r].previous>>)
              /\ <<res[r].turn, res[r].previous>> \in Given
           \/ UNCHANGED Service!vars
<1> USE NoneAssumption
<1>1. /\ res[r] # None /\ res[r] \in Reservation
      /\ res'[r] = None \/ res'[r].previous = None
      /\ \A q \in Request \ {r} : res'[q] = res[q]
  BY HeldReservation DEF FullContext, Drop, Consistent, Structured, Reservation
<1>2. Waiting' = Waiting
  <2>1. CASE Drop(r)
    BY <1>1, <2>1 DEF Drop, Waiting, Structured, Consistent
  <2>2. CASE FullContext(r)
    <3>1. /\ res'[r].turn = res[r].turn /\ res'[r].entered = res[r].entered
          /\ res[r].entered
      BY <1>1, <2>2 DEF FullContext, Structured, Reservation, Consistent, Spent
    <3>2. QED
      BY ZenonT(40), <1>1, <3>1 DEF Waiting
  <2>3. QED
    BY <2>1, <2>2
<1>3. UNCHANGED <<CurrentTurn, Offer>> /\ nextTurn' = nextTurn
  BY DEF FullContext, Drop, CurrentTurn, Offer
<1>4. CASE res[r].previous = None
  <2>1. Given' = Given
    BY <1>1, <1>4 DEF Given
  <2>2. QED
    BY <1>2, <1>3, <2>1 DEF Service!vars
<1>5. CASE res[r].previous # None
  <2>1. Given' = Given \ {<<res[r].turn, res[r].previous>>}
    BY <1>1, <1>5 DEF Given, Consistent, Numbered
  <2>2. <<res[r].turn, res[r].previous>> \in Given
    BY <1>1, <1>5 DEF Given
  <2>3. QED
    BY <1>2, <1>3, <2>1, <2>2 DEF Service!Release
<1>6. QED
  BY <1>4, <1>5

LEMMA RefinesStep ==
    Consistent /\ [Next]_regVars => [Service!Next]_(Service!vars)
<1> SUFFICES ASSUME Consistent, [Next]_regVars PROVE [Service!Next]_(Service!vars)
  OBVIOUS
<1>1. ASSUME NEW r \in Request, NEW owner \in Owner, TakeTurn(r, owner)
      PROVE  Service!Next
  BY <1>1, RefinesTakeTurn DEF Service!Next, Consistent
<1>2. ASSUME NEW r \in Request, NEW fit \in Fits, Candidate(r, fit)
      PROVE  Service!Next
  BY <1>2, RefinesCandidate DEF Service!Next, Lost
<1>3. ASSUME NEW r \in Request, Abort(r) PROVE Service!Next
  BY <1>3, AbortEffect, RefinesForget DEF Service!Next, Consistent, Abort
<1>4. ASSUME NEW r \in Request, NEW sock \in Socket \union {None},
             NEW size \in 1 .. MaxSize, Record(r, sock, size)
      PROVE  Service!Next
  BY <1>4, RefinesRecord DEF Service!Next
<1>5. ASSUME NEW r \in Request, FullContext(r) \/ Drop(r)
      PROVE  Service!Next \/ UNCHANGED Service!vars
  BY <1>5, RefinesRelease DEF Service!Next
<1>6. ASSUME Tick \/ UNCHANGED regVars PROVE UNCHANGED Service!vars
  BY <1>6, SameRequests DEF Tick, Service!vars, CurrentTurn, Offer
<1>7. QED
  BY <1>1, <1>2, <1>3, <1>4, <1>5, <1>6 DEF Next

LEMMA RefinesInit ==
    Init => Service!Init
BY DEF Init, Service!Init, Waiting, CurrentTurn, Offer, Given, Held

\* Whatever requests, clocks, limits and evictions do, the registry behaves as
\* the service: no revived turn, no second offer (continuation.rs as a whole).
THEOREM Refinement ==
    RegistrySpec => ImplementsContinuationService
<1>1. QED
  BY RefinesInit, RefinesStep, Consistency, PTL
     DEF RegistrySpec, ImplementsContinuationService, Service!Spec

-----------------------------------------------------------------------------
(* The tunnel to the upstream.                                              *)

Piece == [of : Heads \cup {"payload"}, last : BOOLEAN, byte : Nat]

\* Pieces of a head are of one kind, and only heads end.
WellCut(s) ==
    /\ s \in Seq(Piece)
    /\ \A i \in 1 .. Len(s) - 1 : ~s[i].last => s[i + 1].of = s[i].of
    /\ \A i \in 1 .. Len(s) : s[i].last => s[i].of \in Heads

EndsInHead(s) == s # <<>> /\ s[Len(s)].last

LEMMA HeadIsWellCut ==
    ASSUME NEW s \in HeadRuns
    PROVE  WellCut(s) /\ EndsInHead(s)
<1>1. PICK kind \in Heads, n \in 1 .. LongestHead : s = HeadOf(kind, n)
  BY DEF HeadRuns
<1>2. n \in Nat \ {0}
  BY ConnectTunnelAssumption
<1> DEFINE e(i) == [of |-> kind, last |-> i = n, byte |-> 0]
<1>3. \A i \in 1 .. n : e(i) \in Piece
  BY DEF Piece
<1>4. s = [i \in 1 .. n |-> e(i)]
  BY <1>1 DEF HeadOf
<1>5. \A i \in 1 .. n : e(i).of = kind /\ (e(i).last <=> i = n)
  OBVIOUS
<1> HIDE DEF e
<1>6. s \in [1 .. n -> Piece]
  BY <1>3, <1>4
<1>7. s \in Seq(Piece) /\ Len(s) = n
  BY <1>2, <1>6
<1>8. \A i \in 1 .. n : s[i].of = kind /\ (s[i].last <=> i = n)
  BY <1>4, <1>5
<1>9. WellCut(s)
  BY <1>2, <1>7, <1>8 DEF WellCut
<1> QED BY <1>2, <1>7, <1>8, <1>9 DEF EndsInHead

LEMMA PayloadIsWellCut ==
    ASSUME NEW n \in Nat
    PROVE  WellCut(Payload(n))
<1> DEFINE e(i) == [of |-> "payload", last |-> FALSE, byte |-> i]
           s == Payload(n)
<1>3. \A i \in 1 .. n : e(i) \in Piece
  BY DEF Piece
<1>4. s = [i \in 1 .. n |-> e(i)]
  BY DEF Payload
<1>5. \A i \in 1 .. n : e(i).of = "payload" /\ ~e(i).last
  OBVIOUS
<1> HIDE DEF e, s
<1>6. s \in [1 .. n -> Piece]
  BY <1>3, <1>4
<1>7. s \in Seq(Piece) /\ Len(s) = n
  BY <1>6
<1>8. \A i \in 1 .. n : s[i].of = "payload" /\ ~s[i].last
  BY <1>4, <1>5
<1>9. WellCut(s)
  BY <1>7, <1>8 DEF WellCut
<1> QED BY <1>9 DEF s

LEMMA JoinedIsWellCut ==
    ASSUME NEW s, NEW t, WellCut(s), EndsInHead(s), WellCut(t)
    PROVE  /\ WellCut(s \o t)
           /\ EndsInHead(t) => EndsInHead(s \o t)
<1> DEFINE u == s \o t
           n == Len(s)
           m == Len(t)
<1>0. s \in Seq(Piece) /\ t \in Seq(Piece)
  BY DEF WellCut
<1>1. n \in Nat /\ m \in Nat /\ n # 0
  BY <1>0, EmptySeq DEF EndsInHead
<1>2. /\ u \in Seq(Piece) /\ Len(u) = n + m
      /\ \A i \in 1 .. n + m : u[i] = IF i <= n THEN s[i] ELSE t[i - n]
  BY <1>0, ConcatProperties
<1> HIDE DEF u
<1>3. s[n].last
  BY DEF EndsInHead
<1>4. /\ \A i \in 1 .. n - 1 : ~s[i].last => s[i + 1].of = s[i].of
      /\ \A i \in 1 .. m - 1 : ~t[i].last => t[i + 1].of = t[i].of
      /\ \A i \in 1 .. n : s[i].last => s[i].of \in Heads
      /\ \A i \in 1 .. m : t[i].last => t[i].of \in Heads
  BY DEF WellCut
<1> HIDE DEF n, m
<1>5. ASSUME NEW i \in 1 .. n + m - 1, ~u[i].last PROVE u[i + 1].of = u[i].of
  <2>1. CASE i < n
    <3>1. u[i] = s[i] /\ u[i + 1] = s[i + 1] /\ i \in 1 .. n - 1
      BY <1>1, <1>2, <2>1
    <3> QED BY <1>4, <1>5, <3>1
  <2>2. CASE i = n
    BY <1>1, <1>2, <1>3, <1>5, <2>2
  <2>3. CASE i > n
    <3>1. u[i] = t[i - n] /\ u[i + 1] = t[(i + 1) - n] /\ (i + 1) - n = (i - n) + 1
      BY <1>1, <1>2, <2>3
    <3>2. i - n \in 1 .. m - 1
      BY <1>1, <2>3
    <3> QED BY <1>4, <1>5, <3>1, <3>2
  <2> QED BY <1>1, <2>1, <2>2, <2>3
<1>6. ASSUME NEW i \in 1 .. n + m, u[i].last PROVE u[i].of \in Heads
  <2>1. CASE i <= n
    <3>1. u[i] = s[i] /\ i \in 1 .. n
      BY <1>1, <1>2, <2>1
    <3> QED BY <1>4, <1>6, <3>1
  <2>2. CASE i > n
    <3>1. u[i] = t[i - n] /\ i - n \in 1 .. m
      BY <1>1, <1>2, <2>2
    <3> QED BY <1>4, <1>6, <3>1
  <2>3. i <= n \/ i > n
    BY <1>1
  <2> QED BY <2>1, <2>2, <2>3, Zenon
<1>7. WellCut(u)
  <2>1. \A i \in 1 .. Len(u) - 1 : ~u[i].last => u[i + 1].of = u[i].of
    <3>1. Len(u) - 1 = n + m - 1
      BY <1>1, <1>2
    <3> QED BY <1>5, <3>1, Zenon
  <2>2. \A i \in 1 .. Len(u) : u[i].last => u[i].of \in Heads
    BY <1>2, <1>6
  <2> QED BY <1>2, <2>1, <2>2, Zenon DEF WellCut
<1>8. ASSUME EndsInHead(t) PROVE EndsInHead(u)
  <2>1. m # 0 /\ t[m].last
    BY <1>0, <1>8, EmptySeq DEF EndsInHead, m
  <2>2. u[n + m] = t[m] /\ u # <<>>
    <3>1. n + m \in 1 .. n + m /\ ~(n + m <= n) /\ (n + m) - n = m
      BY <1>1, <2>1
    <3> QED BY <1>1, <1>2, <3>1, EmptySeq
  <2> QED BY <1>2, <2>1, <2>2 DEF EndsInHead
<1> QED BY <1>7, <1>8 DEF u

-----------------------------------------------------------------------------
(* FlattenSeq, which the community modules define by recursion.              *)

Joins(g, seqs, m) == g = [i \in 1 .. m |-> IF i = 1 THEN seqs[i] ELSE g[i - 1] \o seqs[i]]

LEMMA JoinsAt ==
    ASSUME NEW g, NEW seqs, NEW m, Joins(g, seqs, m), NEW i \in 1 .. m
    PROVE  g[i] = IF i = 1 THEN seqs[i] ELSE g[i - 1] \o seqs[i]
BY Zenon DEF Joins

LEMMA JoinsExist ==
    ASSUME NEW seqs, NEW n \in Nat \ {0}
    PROVE  \E g : Joins(g, seqs, n)
<1> DEFINE Bad == {m \in 1 .. n : ~\E g : Joins(g, seqs, m)}
<1>1. ASSUME Bad # {} PROVE FALSE
  <2>1. PICK m \in Bad : \A k \in Bad : m <= k
    <3>1. Bad \in SUBSET (0 .. n)
      OBVIOUS
    <3> HIDE DEF Bad
    <3> QED BY <1>1, <3>1, LeastOf
  <2>2. CASE m = 1
    <3>1. Joins([i \in 1 .. 1 |-> seqs[1]], seqs, 1)
      BY DEF Joins
    <3> QED BY <2>2, <3>1
  <2>3. CASE m # 1
    <3>1. m - 1 \in 1 .. n /\ m \in Nat
      BY <2>3
    <3>2. m - 1 \notin Bad
      BY <2>1, <3>1
    <3>3. PICK g : Joins(g, seqs, m - 1)
      BY <3>1, <3>2
    <3> DEFINE h == [i \in 1 .. m |-> IF i <= m - 1 THEN g[i] ELSE g[m - 1] \o seqs[m]]
    <3>4. ASSUME NEW i \in 1 .. m PROVE h[i] = IF i = 1 THEN seqs[i] ELSE h[i - 1] \o seqs[i]
      <4>1. CASE i <= m - 1
        <5>1. g[i] = IF i = 1 THEN seqs[i] ELSE g[i - 1] \o seqs[i]
          <6>1. i \in 1 .. m - 1
            BY <3>1, <4>1
          <6> QED BY <3>3, <6>1, JoinsAt
        <5>2. h[i] = g[i] /\ (i # 1 => h[i - 1] = g[i - 1])
          BY <3>1, <4>1
        <5> HIDE DEF h
        <5> QED BY <5>1, <5>2
      <4>2. CASE i = m
        <5>0. \A j \in 1 .. m : h[j] = IF j <= m - 1 THEN g[j] ELSE g[m - 1] \o seqs[m]
          OBVIOUS
        <5> HIDE DEF h
        <5>1. h[m] = g[m - 1] \o seqs[m] /\ h[m - 1] = g[m - 1]
          <6>1. m \in 1 .. m /\ m - 1 \in 1 .. m /\ ~(m <= m - 1) /\ m - 1 <= m - 1
            BY <3>1
          <6> QED BY <5>0, <6>1
        <5> HIDE DEF h
        <5> QED BY <2>3, <4>2, <5>1
      <4> QED BY <3>1, <4>1, <4>2
    <3>5. Joins(h, seqs, m)
      <4>1. h = [i \in 1 .. m |-> h[i]]
        OBVIOUS
      <4> HIDE DEF h
      <4> QED BY <3>4, <4>1 DEF Joins
    <3> QED BY <3>5
  <2> QED BY <2>2, <2>3
<1>2. n \in 1 .. n
  OBVIOUS
<1> QED BY <1>1, <1>2

LEMMA FlattenJoins ==
    ASSUME NEW seqs, NEW n \in Nat \ {0}, Len(seqs) = n
    PROVE  \E g : Joins(g, seqs, n) /\ FlattenSeq(seqs) = g[n]
<1> DEFINE F == CHOOSE g : g = [i \in 1 .. Len(seqs) |-> IF i = 1 THEN seqs[i] ELSE g[i - 1] \o seqs[i]]
<1>1. FlattenSeq(seqs) = F[Len(seqs)]
  BY DEF FlattenSeq
<1>2. \E g : g = [i \in 1 .. Len(seqs) |-> IF i = 1 THEN seqs[i] ELSE g[i - 1] \o seqs[i]]
  BY JoinsExist DEF Joins
<1>3. F = [i \in 1 .. Len(seqs) |-> IF i = 1 THEN seqs[i] ELSE F[i - 1] \o seqs[i]]
  BY <1>2, Zenon
<1> HIDE DEF F
<1>4. Joins(F, seqs, n)
  BY <1>3 DEF Joins
<1> QED BY <1>1, <1>4

LEMMA FlattenedIsWellCut ==
    ASSUME NEW k \in Nat \ {0}, NEW heads \in [1 .. k -> HeadRuns]
    PROVE  WellCut(FlattenSeq(heads)) /\ EndsInHead(FlattenSeq(heads))
<1>1. heads \in Seq(HeadRuns) /\ Len(heads) = k
  OBVIOUS
<1>2. PICK g : Joins(g, heads, k) /\ FlattenSeq(heads) = g[k]
  BY <1>1, FlattenJoins
<1>3. \A i \in 1 .. k : WellCut(heads[i]) /\ EndsInHead(heads[i])
  BY HeadIsWellCut
<1>4. \A i \in 1 .. k : g[i] = IF i = 1 THEN heads[i] ELSE g[i - 1] \o heads[i]
  BY <1>2 DEF Joins
<1> DEFINE Bad == {m \in 1 .. k : ~(WellCut(g[m]) /\ EndsInHead(g[m]))}
<1>5. ASSUME Bad # {} PROVE FALSE
  <2>1. PICK m \in Bad : \A j \in Bad : m <= j
    <3>1. Bad \in SUBSET (0 .. k)
      OBVIOUS
    <3> HIDE DEF Bad
    <3> QED BY <1>5, <3>1, LeastOf
  <2>2. CASE m = 1
    BY <1>3, <1>4, <2>2
  <2>3. CASE m # 1
    <3>1. m - 1 \in 1 .. k /\ m \in 1 .. k /\ ~(m <= m - 1)
      BY <2>3
    <3>2. WellCut(g[m - 1]) /\ EndsInHead(g[m - 1])
      BY <2>1, <3>1
    <3>3. g[m] = g[m - 1] \o heads[m]
      BY <1>4, <2>3, <3>1
    <3>4. WellCut(g[m]) /\ EndsInHead(g[m])
      BY <1>3, <3>1, <3>2, <3>3, JoinedIsWellCut
    <3> QED BY <3>4
  <2> QED BY <2>2, <2>3
<1>6. k \in 1 .. k
  OBVIOUS
<1> QED BY <1>2, <1>5, <1>6

LEMMA StreamsAreWellCut ==
    ASSUME NEW s \in Streams
    PROVE  WellCut(s)
<1>1. PICK heads \in UNION {[1 .. k -> HeadRuns] : k \in 1 .. MaxHeads}, n \in 0 .. MaxPayload :
          s = FlattenSeq(heads) \o Payload(n)
  BY DEF Streams
<1>2. PICK k \in 1 .. MaxHeads : heads \in [1 .. k -> HeadRuns]
  BY <1>1
<1>3. k \in Nat \ {0} /\ n \in Nat
  BY ConnectTunnelAssumption
<1> QED BY <1>1, <1>2, <1>3, FlattenedIsWellCut, PayloadIsWellCut, JoinedIsWellCut
-----------------------------------------------------------------------------
(* Slices of the stream.                                                     *)

Slice(i, j) == SubSeq(stream, i + 1, j)

\* Where a slice may begin and end.
Within(i, j) == i \in Nat /\ j \in Nat /\ i <= j /\ j <= Len(stream)

LEMMA SliceProperties ==
    ASSUME stream \in Seq(Piece), NEW i, NEW j, Within(i, j)
    PROVE  /\ Slice(i, j) \in Seq(Piece)
           /\ Len(Slice(i, j)) = j - i
           /\ DOMAIN Slice(i, j) = 1 .. j - i
           /\ \A x \in 1 .. j - i : Slice(i, j)[x] = stream[i + x]
<1>1. i + 1 \in Int /\ j \in Int /\ i \in Nat /\ Len(stream) \in Nat
  BY DEF Within
<1>2. \A x \in i + 1 .. j : stream[x] \in Piece
  BY <1>1 DEF Within
<1>3. /\ SubSeq(stream, i + 1, j) \in Seq(Piece)
      /\ Len(SubSeq(stream, i + 1, j)) = IF i + 1 <= j THEN j - (i + 1) + 1 ELSE 0
      /\ \A x \in 1 .. j - (i + 1) + 1 : SubSeq(stream, i + 1, j)[x] = stream[i + 1 + x - 1]
  BY <1>1, <1>2, SubSeqProperties
<1>4. Slice(i, j) \in Seq(Piece) /\ Len(Slice(i, j)) = j - i
  BY <1>1, <1>3 DEF Slice, Within
<1>5. ASSUME NEW x \in 1 .. j - i PROVE Slice(i, j)[x] = stream[i + x]
  <2>1. x \in 1 .. j - (i + 1) + 1 /\ i + 1 + x - 1 = i + x
    BY <1>1
  <2> QED BY <1>3, <2>1 DEF Slice
<1> QED BY <1>4, <1>5

LEMMA SliceOfSlice ==
    ASSUME stream \in Seq(Piece), NEW i, NEW j, Within(i, j), NEW a \in Nat, NEW b \in Nat, a <= b, b <= j - i
    PROVE  SubSeq(Slice(i, j), a + 1, b) = Slice(i + a, i + b)
<1>1. i \in Nat /\ j \in Nat /\ Within(i + a, i + b) /\ Len(stream) \in Nat
  BY DEF Within
<1>2. /\ Slice(i, j) \in Seq(Piece) /\ Len(Slice(i, j)) = j - i
      /\ \A x \in 1 .. j - i : Slice(i, j)[x] = stream[i + x]
  BY SliceProperties
<1> DEFINE s == Slice(i, j)
           t == SubSeq(s, a + 1, b)
           u == Slice(i + a, i + b)
<1>3. u \in Seq(Piece) /\ Len(u) = b - a /\ \A x \in 1 .. b - a : u[x] = stream[i + a + x]
  <2>1. /\ u \in Seq(Piece) /\ Len(u) = (i + b) - (i + a)
        /\ \A x \in 1 .. (i + b) - (i + a) : u[x] = stream[(i + a) + x]
    BY <1>1, SliceProperties
  <2>2. (i + b) - (i + a) = b - a
    BY <1>1
  <2> QED BY <2>1, <2>2
<1> HIDE DEF s, u
<1>4. \A x \in a + 1 .. b : s[x] \in Piece
  BY <1>1, <1>2 DEF s
<1>5. /\ t \in Seq(Piece) /\ Len(t) = IF a + 1 <= b THEN b - (a + 1) + 1 ELSE 0
      /\ \A x \in 1 .. b - (a + 1) + 1 : t[x] = s[a + 1 + x - 1]
  <2>1. a + 1 \in Int /\ b \in Int
    OBVIOUS
  <2> QED BY <1>4, <2>1, SubSeqProperties
<1> HIDE DEF t
<1>6. Len(t) = Len(u)
  BY <1>3, <1>5
<1>7. ASSUME NEW x \in 1 .. Len(t) PROVE t[x] = u[x]
  <2>1. x \in 1 .. b - (a + 1) + 1 /\ a + 1 + x - 1 = a + x /\ a + x \in 1 .. j - i /\ x \in 1 .. b - a
    BY <1>1, <1>5
  <2>2. t[x] = s[a + x]
    BY <1>5, <2>1
  <2>3. s[a + x] = stream[i + (a + x)]
    BY <1>2, <2>1 DEF s
  <2>4. u[x] = stream[i + a + x] /\ i + a + x = i + (a + x)
    BY <1>1, <1>3, <2>1
  <2> QED BY <2>2, <2>3, <2>4
<1>8. t = u
  BY <1>3, <1>5, <1>6, <1>7, SeqEqual
<1> QED BY <1>8 DEF s, t, u

\* What a read takes of a sequence, and what it leaves.
Taken(s, n) == SubSeq(s, 1, n)
Left(s, n)  == SubSeq(s, n + 1, Len(s))

LEMMA SliceTaken ==
    ASSUME stream \in Seq(Piece), NEW i, NEW j, Within(i, j), NEW n \in Nat, n <= Len(Slice(i, j))
    PROVE  /\ Taken(Slice(i, j), n) = Slice(i, i + n) /\ Left(Slice(i, j), n) = Slice(i + n, j)
           /\ Within(i, i + n) /\ Within(i + n, j)
<1>1. i \in Nat /\ j \in Nat /\ i <= j /\ Len(Slice(i, j)) = j - i
  BY SliceProperties DEF Within
<1>2. /\ 0 \in Nat /\ 0 <= n /\ n <= j - i /\ j - i \in Nat /\ j - i <= j - i
      /\ 0 + 1 = 1 /\ i + 0 = i /\ i + (j - i) = j
  BY <1>1
<1>3. SubSeq(Slice(i, j), 0 + 1, n) = Slice(i + 0, i + n)
  BY ZenonT(40), <1>2, SliceOfSlice
<1>4. SubSeq(Slice(i, j), n + 1, j - i) = Slice(i + n, i + (j - i))
  BY ZenonT(40), <1>2, SliceOfSlice
<1>5. Within(i, i + n) /\ Within(i + n, j)
  BY <1>1, <1>2 DEF Within
<1> QED BY <1>1, <1>2, <1>3, <1>4, <1>5 DEF Taken, Left

LEMMA SlicesJoin ==
    ASSUME stream \in Seq(Piece), NEW i, NEW j, NEW k, Within(i, j), Within(j, k)
    PROVE  Within(i, k) /\ Slice(i, j) \o Slice(j, k) = Slice(i, k)
<1>1. /\ i + 1 \in 1 .. Len(stream) + 1 /\ j \in (i + 1) - 1 .. Len(stream) /\ k \in j .. Len(stream)
      /\ Within(i, k)
  BY DEF Within
<1> QED BY <1>1, ConcatAdjacentSubSeq DEF Slice
-----------------------------------------------------------------------------
(* Where heads end.                                                          *)

\* Of a set of places, the least is what Min and CHOOSE pick.
IsLeast(i, T) == i \in T /\ \A j \in T : i <= j

LEMMA HeadEndIs ==
    ASSUME NEW bytes \in Seq(Piece)
    PROVE  \/ HeadEnd(bytes) = 0 /\ \A i \in DOMAIN bytes : ~bytes[i].last
           \/ IsLeast(HeadEnd(bytes), {i \in DOMAIN bytes : bytes[i].last})
<1> DEFINE T == {i \in DOMAIN bytes : bytes[i].last}
           n == Len(bytes)
<1>0. n \in Nat /\ DOMAIN bytes = 1 .. n
  BY LenProperties
<1>1. CASE T = {}
  BY <1>1 DEF HeadEnd
<1>2. CASE T # {}
  <2>1. T \in SUBSET (0 .. n)
    BY <1>0
  <2>2. HeadEnd(bytes) = Min(T)
    <3>1. HeadEnd(bytes) = SelectInSeq(bytes, LAMBDA piece : piece.last)
      BY <1>2 DEF HeadEnd
    <3>2. SelectInSeq(bytes, LAMBDA piece : piece.last) = Min({i \in 1 .. Len(bytes) : bytes[i].last})
      BY <1>0, <1>2 DEF SelectInSeq
    <3> QED BY <1>0, <3>1, <3>2
  <2> HIDE DEF T
  <2>3. \E i \in T : \A j \in T : i <= j
    BY <1>0, <1>2, <2>1, LeastOf
  <2>4. Min(T) \in T /\ \A j \in T : Min(T) <= j
    BY <2>3 DEF Min
  <2> QED BY <2>2, <2>4 DEF IsLeast, T
<1> QED BY <1>1, <1>2

LEMMA DecidesIs ==
    ASSUME stream \in Seq(Piece), NEW e, IsLeast(e, HeadEnds)
    PROVE  Decides = e
<1>1. HeadEnds # {}
  BY DEF IsLeast
<1>2. \A i \in HeadEnds : i \in Int
  BY DEF HeadEnds
<1>3. ASSUME NEW i \in HeadEnds, \A j \in HeadEnds : i <= j PROVE i = e
  <2>1. i <= e /\ e <= i /\ i \in Int /\ e \in Int
    BY <1>2, <1>3 DEF IsLeast
  <2> QED BY <2>1
<1>4. (CHOOSE i \in HeadEnds : \A j \in HeadEnds : i <= j) = e
  BY <1>3, Zenon DEF IsLeast
<1> QED BY <1>1, <1>4, Zenon DEF Decides

\* Up to its end a head is of one kind.
LEMMA HeadsAreOfOneKind ==
    ASSUME WellCut(stream), NEW k, NEW e, Within(k, e), k < e, \A i \in k + 1 .. e - 1 : ~stream[i].last
    PROVE  stream[k + 1].of = stream[e].of
<1>0. k \in Nat /\ e \in Nat /\ e <= Len(stream) /\ Len(stream) \in Nat
  BY DEF WellCut, Within
<1> DEFINE Bad == {i \in k + 1 .. e : stream[i].of # stream[k + 1].of}
<1>1. ASSUME Bad # {} PROVE FALSE
  <2>1. PICK i \in Bad : \A j \in Bad : i <= j
    <3>1. Bad \in SUBSET (0 .. e)
      BY <1>0
    <3> HIDE DEF Bad
    <3> QED BY <1>0, <1>1, <3>1, LeastOf
  <2>2. i # k + 1
    BY <2>1
  <2>3. i - 1 \in k + 1 .. e - 1 /\ i - 1 \in k + 1 .. e /\ ~(i <= i - 1) /\ i - 1 \in 1 .. Len(stream) - 1
    BY <1>0, <2>2
  <2>4. stream[i - 1].of = stream[k + 1].of
    BY <2>1, <2>3
  <2>5. stream[(i - 1) + 1].of = stream[i - 1].of
    BY <2>3 DEF WellCut
  <2>6. (i - 1) + 1 = i
    BY <1>0
  <2> QED BY <2>4, <2>5, <2>6
<1>2. e \in k + 1 .. e
  BY <1>0
<1> QED BY <1>1, <1>2

-----------------------------------------------------------------------------
(* The invariant.                                                            *)

\* Nothing up to k decides, and a head begins behind it.
Undecided(k) ==
    /\ k = 0 \/ stream[k].last
    /\ \A i \in 1 .. k : stream[i].last => stream[i].of = "interim"

ReadingInOrder ==
    /\ handed = <<>>
    /\ \E k, m \in Nat :
          /\ Within(k, m) /\ Within(m, Len(stream)) /\ Undecided(k)
          /\ response = Slice(k, m) /\ wire = Slice(m, Len(stream))

GivenInOrder ==
    \E e, h, p \in Nat :
        /\ Within(e, h) /\ Within(h, p) /\ Within(p, Len(stream))
        /\ IsLeast(e, HeadEnds) /\ stream[e].of = "open"
        /\ handed = Slice(e, h) /\ prefixed = Slice(h, p) /\ wire = Slice(p, Len(stream))

TunnelInv ==
    /\ WellCut(stream)
    /\ tunnel = "reading" => ReadingInOrder
    /\ tunnel = "open" => GivenInOrder
    /\ tunnel \in {"refused", "auth", "garbled"} => stream[Decides].of = tunnel
    /\ tunnel = "too_large" => \E i \in DOMAIN stream : i <= Decides /\ TooLong(i)

LEMMA TunnelInvHolds == TunnelInv => TunnelSafety
<1> SUFFICES ASSUME TunnelInv PROVE TunnelSafety
  OBVIOUS
<1>1. stream \in Seq(Piece)
  BY DEF TunnelInv, WellCut
<1>2. ASSUME tunnel = "open"
      PROVE  stream[Decides].of = "open" /\ handed \o prefixed \o wire = SubSeq(stream, Decides + 1, Len(stream))
  <2>1. PICK e, h, p \in Nat :
            /\ Within(e, h) /\ Within(h, p) /\ Within(p, Len(stream))
            /\ IsLeast(e, HeadEnds) /\ stream[e].of = "open"
            /\ handed = Slice(e, h) /\ prefixed = Slice(h, p) /\ wire = Slice(p, Len(stream))
    BY <1>2 DEF TunnelInv, GivenInOrder
  <2>2. Decides = e
    BY <1>1, <2>1, DecidesIs
  <2>3. Within(e, p) /\ handed \o prefixed = Slice(e, p)
    BY <1>1, <2>1, SlicesJoin
  <2>4. (handed \o prefixed) \o wire = Slice(e, Len(stream))
    BY <1>1, <2>1, <2>3, SlicesJoin
  <2> QED BY <2>1, <2>2, <2>4 DEF Slice
<1> QED BY <1>2 DEF TunnelInv, TunnelSafety

LEMMA TunnelStarts == TunnelInit => TunnelInv
<1> SUFFICES ASSUME TunnelInit PROVE TunnelInv
  OBVIOUS
<1>1. WellCut(stream) /\ stream \in Seq(Piece) /\ Len(stream) \in Nat
  BY StreamsAreWellCut DEF TunnelInit, WellCut
<1>2. Within(0, 0) /\ Within(0, Len(stream)) /\ Undecided(0)
  BY <1>1 DEF Within, Undecided
<1>3. Slice(0, 0) = <<>> /\ Slice(0, Len(stream)) = stream
  BY <1>1, SubSeqEmpty, SubSeqFull DEF Slice
<1>4. ReadingInOrder
  BY <1>2, <1>3 DEF ReadingInOrder, TunnelInit
<1> QED BY <1>1, <1>4 DEF TunnelInit, TunnelInv
LEMMA StillReading ==
    ASSUME stream' = stream, handed' = <<>>, NEW k \in Nat, NEW m \in Nat,
           Within(k, m), Within(m, Len(stream)), Undecided(k),
           response' = Slice(k, m), wire' = Slice(m, Len(stream))
    PROVE  ReadingInOrder'
<1>1. /\ Within(k, m)' /\ Within(m, Len(stream))' /\ Undecided(k)'
      /\ response' = Slice(k, m)' /\ wire' = Slice(m, Len(stream))'
  BY DEF Within, Undecided, Slice
<1> QED BY <1>1 DEF ReadingInOrder

LEMMA StillGiven ==
    ASSUME stream' = stream, NEW e \in Nat, NEW h \in Nat, NEW p \in Nat,
           Within(e, h), Within(h, p), Within(p, Len(stream)), IsLeast(e, HeadEnds), stream[e].of = "open",
           handed' = Slice(e, h), prefixed' = Slice(h, p), wire' = Slice(p, Len(stream))
    PROVE  GivenInOrder'
<1>1. /\ Within(e, h)' /\ Within(h, p)' /\ Within(p, Len(stream))' /\ stream'[e].of = "open"
      /\ handed' = Slice(e, h)' /\ prefixed' = Slice(h, p)' /\ wire' = Slice(p, Len(stream))'
  BY DEF Within, Slice
<1>2. IsLeast(e, HeadEnds)'
  BY DEF IsLeast, HeadEnds
<1> QED BY <1>1, <1>2 DEF GivenInOrder

LEMMA HeadReadStep == ASSUME TunnelInv, HeadRead PROVE TunnelInv'
<1> DEFINE end == HeadEnd(response)
<1>0. /\ WellCut(stream) /\ stream \in Seq(Piece) /\ stream' = stream /\ wire' = wire /\ handed' = handed
      /\ WellCut(stream)' /\ Len(stream) \in Nat
  BY DEF TunnelInv, HeadRead, WellCut
<1>1. handed = <<>> /\ tunnel = "reading" /\ end # 0
  BY DEF TunnelInv, HeadRead, ReadingInOrder
<1>2. PICK k, m \in Nat :
          /\ Within(k, m) /\ Within(m, Len(stream)) /\ Undecided(k)
          /\ response = Slice(k, m) /\ wire = Slice(m, Len(stream))
  BY DEF TunnelInv, HeadRead, ReadingInOrder
<1>3. /\ response \in Seq(Piece) /\ Len(response) = m - k /\ DOMAIN response = 1 .. m - k
      /\ \A x \in 1 .. m - k : response[x] = stream[k + x]
  BY <1>0, <1>2, SliceProperties
<1>4. IsLeast(end, {i \in DOMAIN response : response[i].last})
  BY <1>1, <1>3, HeadEndIs
<1>5. /\ end \in 1 .. m - k /\ response[end].last
      /\ \A i \in 1 .. m - k : response[i].last => end <= i
  BY <1>3, <1>4 DEF IsLeast
<1> HIDE DEF end
<1> DEFINE e == k + end
<1>6. e \in Nat /\ k < e /\ Within(k, e) /\ Within(e, m) /\ 1 \in 1 .. m - k /\ e \in 1 .. Len(stream)
  BY <1>2, <1>5 DEF Within
<1>7. stream[e].last /\ response[1] = stream[k + 1]
  BY <1>3, <1>5, <1>6
<1>8. ASSUME NEW i \in k + 1 .. e - 1 PROVE ~stream[i].last
  <2>1. i - k \in 1 .. m - k /\ ~(end <= i - k) /\ k + (i - k) = i
    BY <1>2, <1>5, <1>6
  <2> QED BY <1>3, <1>5, <2>1
<1>9. StatusIn(response) = stream[e].of /\ stream[e].of \in Heads
  BY <1>0, <1>6, <1>7, <1>8, HeadsAreOfOneKind DEF StatusIn, WellCut
<1> HIDE DEF e
<1>10. \A i \in 1 .. e : stream[i].last => i \in 1 .. k \/ i = e
  BY <1>2, <1>6, <1>8
<1>11. ASSUME stream[e].of # "interim" PROVE IsLeast(e, HeadEnds) /\ Decides = e
  <2>1. e \in HeadEnds
    BY <1>6, <1>7, <1>11 DEF HeadEnds
  <2>2. ASSUME NEW j \in HeadEnds, j < e PROVE FALSE
    <3>1. j \in 1 .. e /\ stream[j].last /\ stream[j].of # "interim"
      BY <1>0, <1>6, <2>2 DEF HeadEnds
    <3>2. j \in 1 .. k
      BY <1>6, <1>10, <2>2, <3>1
    <3> QED BY <1>2, <3>1, <3>2 DEF Undecided
  <2>3. \A j \in HeadEnds : j \in Nat
    BY <1>0 DEF HeadEnds
  <2>4. IsLeast(e, HeadEnds)
    BY <1>6, <2>1, <2>2, <2>3 DEF IsLeast
  <2> QED BY <1>0, <2>4, DecidesIs
<1>12. /\ end \in Nat /\ Len(response) \in Nat /\ Len(response) = m - k /\ end <= m - k
       /\ k + Len(response) = m /\ k + end = e
  BY <1>2, <1>3, <1>5 DEF e
<1>13. SubSeq(response, end + 1, Len(response)) = Slice(e, m)
  BY ZenonT(40), <1>0, <1>2, <1>12, SliceTaken DEF Left
<1>14. CASE StatusIn(response) = "interim"
  <2>1. response' = Slice(e, m) /\ tunnel' = "reading"
    BY <1>1, <1>13, <1>14 DEF HeadRead, end
  <2>2. Undecided(e)
    BY <1>2, <1>7, <1>9, <1>10, <1>14 DEF Undecided
  <2>3. ReadingInOrder'
    BY <1>0, <1>1, <1>2, <1>6, <2>1, <2>2, StillReading
  <2> QED BY <1>0, <2>1, <2>3 DEF TunnelInv
<1>15. CASE StatusIn(response) = "open"
  <2>1. prefixed' = Slice(e, m) /\ tunnel' = "open"
    BY <1>13, <1>15 DEF HeadRead, end
  <2>2. IsLeast(e, HeadEnds) /\ stream[e].of = "open"
    BY <1>9, <1>11, <1>15
  <2>3. Within(e, e) /\ handed = Slice(e, e)
    <3>1. Within(e, e)
      BY <1>6 DEF Within
    <3>2. Slice(e, e) = <<>>
      BY <1>6, SubSeqEmpty DEF Slice
    <3> QED BY <1>1, <3>1, <3>2
  <2>4. GivenInOrder'
    BY <1>0, <1>1, <1>2, <1>6, <2>1, <2>2, <2>3, StillGiven
  <2> QED BY <1>0, <2>1, <2>4 DEF TunnelInv
<1>16. CASE StatusIn(response) \notin {"interim", "open"}
  <2>1. tunnel' = stream[e].of
    BY <1>9, <1>16 DEF HeadRead
  <2>2. tunnel' \in {"auth", "garbled", "refused"}
    BY <1>9, <1>16, <2>1, ConnectTunnelAssumption
  <2>3. Decides = e /\ Decides' = Decides
    BY <1>0, <1>9, <1>11, <1>16 DEF Decides, HeadEnds
  <2>4. stream'[Decides'].of = tunnel'
    BY <1>0, <2>1, <2>3
  <2> QED BY <1>0, <2>2, <2>4 DEF TunnelInv
<1> QED BY <1>14, <1>15, <1>16

LEMMA HeadTooLargeStep == ASSUME TunnelInv, HeadTooLarge PROVE TunnelInv'
<1>0. /\ stream \in Seq(Piece) /\ stream' = stream /\ WellCut(stream)' /\ Len(stream) \in Nat
      /\ MaxHead \in Nat \ {0} /\ tunnel' = "too_large"
  BY ConnectTunnelAssumption DEF TunnelInv, HeadTooLarge, WellCut
<1>2. PICK k, m \in Nat :
          /\ Within(k, m) /\ Within(m, Len(stream)) /\ Undecided(k)
          /\ response = Slice(k, m) /\ wire = Slice(m, Len(stream))
  BY DEF TunnelInv, HeadTooLarge, ReadingInOrder
<1>3. /\ response \in Seq(Piece) /\ Len(response) = m - k /\ DOMAIN response = 1 .. m - k
      /\ \A x \in 1 .. m - k : response[x] = stream[k + x]
  BY <1>0, <1>2, SliceProperties
<1>4. \A i \in 1 .. m - k : ~response[i].last
  <2>1. HeadEnd(response) = 0
    BY DEF HeadTooLarge
  <2>2. ~IsLeast(0, {i \in DOMAIN response : response[i].last})
    BY <1>3 DEF IsLeast
  <2> QED BY <1>3, <2>1, <2>2, HeadEndIs
<1>5. m - k = MaxHead
  BY <1>3 DEF HeadTooLarge
<1>6. TooLong(k + 1)
  <2>1. k + 1 = 1 \/ stream[(k + 1) - 1].last
    BY <1>2 DEF Undecided
  <2>2. ASSUME NEW j \in (k + 1) .. (k + 1) + MaxHead - 1 PROVE j \in DOMAIN stream /\ ~stream[j].last
    <3>0. j \in Int /\ k + 1 <= j /\ j <= k + MaxHead /\ m = k + MaxHead /\ m <= Len(stream)
      BY <1>0, <1>2, <1>5 DEF Within
    <3>1. j - k \in 1 .. m - k
      BY <1>0, <3>0
    <3>2. k + (j - k) = j
      BY <3>0
    <3>3. j \in 1 .. Len(stream)
      BY <1>0, <3>0
    <3>4. response[j - k] = stream[j] /\ ~response[j - k].last
      BY <1>3, <1>4, <3>1, <3>2
    <3> QED BY <1>0, <3>3, <3>4
  <2> QED BY <2>1, <2>2 DEF TooLong
<1>7. k + 1 \in 1 .. Len(stream)
  BY <1>0, <1>2, <1>5 DEF Within
<1>8. k + 1 <= Decides
  <2>1. CASE HeadEnds = {}
    BY <1>7, <2>1 DEF Decides
  <2>2. CASE HeadEnds # {}
    <3>1. HeadEnds \in SUBSET (0 .. Len(stream))
      BY <1>0 DEF HeadEnds
    <3>2. PICK e \in HeadEnds : \A j \in HeadEnds : e <= j
      BY <1>0, <2>2, <3>1, LeastOf
    <3>3. Decides = e
      BY <1>0, <3>2, DecidesIs DEF IsLeast
    <3>4. e \in 1 .. Len(stream) /\ stream[e].last /\ stream[e].of # "interim"
      BY <1>0, <3>2 DEF HeadEnds
    <3>5. e \notin 1 .. k
      BY <1>2, <3>4 DEF Undecided
    <3> QED BY <1>0, <3>3, <3>4, <3>5
  <2> QED BY <2>1, <2>2
<1>9. \E i \in DOMAIN stream : i <= Decides /\ TooLong(i)
  BY <1>0, <1>6, <1>7, <1>8
<1>10. (\E i \in DOMAIN stream : i <= Decides /\ TooLong(i))'
  BY <1>0, <1>9 DEF Decides, HeadEnds, TooLong
<1> QED BY <1>0, <1>10 DEF TunnelInv

LEMMA ReadWireStep == ASSUME TunnelInv, ReadWire PROVE TunnelInv'
<1>0. /\ stream \in Seq(Piece) /\ stream' = stream /\ WellCut(stream)' /\ Len(stream) \in Nat
      /\ tunnel = "reading" /\ tunnel' = "reading" /\ handed = <<>> /\ handed' = handed
  BY DEF TunnelInv, ReadWire, WellCut, ReadingInOrder
<1>1. PICK n \in 1 .. Least(MaxHead - Len(response), MaxRead) :
          /\ n <= Len(wire)
          /\ response' = response \o SubSeq(wire, 1, n)
          /\ wire' = SubSeq(wire, n + 1, Len(wire))
  BY DEF ReadWire
<1>2. PICK k, m \in Nat :
          /\ Within(k, m) /\ Within(m, Len(stream)) /\ Undecided(k)
          /\ response = Slice(k, m) /\ wire = Slice(m, Len(stream))
  BY DEF TunnelInv, ReadWire, ReadingInOrder
<1>3. n \in Nat
  BY <1>1
<1>4. wire' = Left(wire, n) /\ response' = response \o Taken(wire, n)
  BY <1>1 DEF Left, Taken
<1>5. /\ Taken(wire, n) = Slice(m, m + n) /\ wire' = Slice(m + n, Len(stream))
      /\ Within(m, m + n) /\ Within(m + n, Len(stream))
  BY <1>0, <1>1, <1>2, <1>3, <1>4, SliceTaken
<1>7. Within(k, m + n) /\ response' = Slice(k, m + n)
  <2> DEFINE q == m + n
  <2>1. Within(k, m) /\ Within(m, q) /\ response' = Slice(k, m) \o Slice(m, q)
    BY <1>2, <1>4, <1>5
  <2> HIDE DEF q
  <2>2. Within(k, q) /\ response' = Slice(k, q)
    BY <1>0, <2>1, SlicesJoin
  <2> QED BY <2>2 DEF q
<1>8. ReadingInOrder'
  <2>1. m + n \in Nat
    BY <1>3
  <2> QED BY <1>0, <1>2, <1>5, <1>7, <2>1, StillReading
<1> QED BY <1>0, <1>8 DEF TunnelInv

LEMMA ReadThroughStep == ASSUME TunnelInv, ReadThrough PROVE TunnelInv'
<1>0. /\ stream \in Seq(Piece) /\ stream' = stream /\ WellCut(stream)' /\ Len(stream) \in Nat
      /\ tunnel = "open" /\ tunnel' = "open"
  BY DEF TunnelInv, ReadThrough, WellCut
<1>1. PICK e, h, p \in Nat :
        /\ Within(e, h) /\ Within(h, p) /\ Within(p, Len(stream))
        /\ IsLeast(e, HeadEnds) /\ stream[e].of = "open"
        /\ handed = Slice(e, h) /\ prefixed = Slice(h, p) /\ wire = Slice(p, Len(stream))
  BY DEF TunnelInv, ReadThrough, GivenInOrder
<1>2. PICK n \in 1 .. MaxRead :
          IF prefixed # <<>>
          THEN /\ n <= Len(prefixed)
               /\ handed' = handed \o SubSeq(prefixed, 1, n)
               /\ prefixed' = SubSeq(prefixed, n + 1, Len(prefixed))
               /\ UNCHANGED wire
          ELSE /\ n <= Len(wire)
               /\ handed' = handed \o SubSeq(wire, 1, n)
               /\ wire' = SubSeq(wire, n + 1, Len(wire))
               /\ UNCHANGED prefixed
  BY DEF ReadThrough
<1>3. n \in Nat
  BY <1>2
<1>4. CASE prefixed # <<>>
  <2>1. n <= Len(prefixed) /\ handed' = handed \o Taken(prefixed, n) /\ prefixed' = Left(prefixed, n) /\ wire' = wire
    BY <1>2, <1>4 DEF Taken, Left
  <2>2. /\ Taken(prefixed, n) = Slice(h, h + n) /\ prefixed' = Slice(h + n, p)
        /\ Within(h, h + n) /\ Within(h + n, p)
    BY <1>0, <1>1, <1>3, <2>1, SliceTaken
  <2>3. Within(e, h + n) /\ handed' = Slice(e, h + n) /\ h + n \in Nat
    <3> DEFINE q == h + n
    <3>1. Within(e, h) /\ Within(h, q) /\ handed' = Slice(e, h) \o Slice(h, q) /\ q \in Nat
      BY <1>1, <1>3, <2>1, <2>2
    <3> HIDE DEF q
    <3>2. Within(e, q) /\ handed' = Slice(e, q)
      BY <1>0, <3>1, SlicesJoin
    <3> QED BY <3>1, <3>2 DEF q
  <2>4. GivenInOrder'
    BY <1>0, <1>1, <2>1, <2>2, <2>3, StillGiven
  <2> QED BY <1>0, <2>4 DEF TunnelInv
<1>5. CASE prefixed = <<>>
  <2>0. h = p
    <3>0. Len(Slice(h, p)) = p - h
      BY <1>0, <1>1, SliceProperties
    <3>1. p - h = 0
      BY <1>1, <1>5, <3>0
    <3> QED BY <1>1, <3>1 DEF Within
  <2>1. n <= Len(wire) /\ handed' = handed \o Taken(wire, n) /\ wire' = Left(wire, n) /\ prefixed' = <<>>
    BY <1>2, <1>5 DEF Taken, Left
  <2>2. /\ Taken(wire, n) = Slice(p, p + n) /\ wire' = Slice(p + n, Len(stream))
        /\ Within(p, p + n) /\ Within(p + n, Len(stream))
    BY <1>0, <1>1, <1>3, <2>1, SliceTaken
  <2>3. Within(e, p + n) /\ handed' = Slice(e, p + n) /\ p + n \in Nat
    <3> DEFINE q == p + n
    <3>1. Within(e, p) /\ Within(p, q) /\ handed' = Slice(e, p) \o Slice(p, q) /\ q \in Nat
      BY <1>1, <1>3, <2>0, <2>1, <2>2
    <3> HIDE DEF q
    <3>2. Within(e, q) /\ handed' = Slice(e, q)
      BY <1>0, <3>1, SlicesJoin
    <3> QED BY <3>1, <3>2 DEF q
  <2>4. Within(p + n, p + n) /\ prefixed' = Slice(p + n, p + n)
    <3>1. Slice(p + n, p + n) = <<>>
      BY <2>3, SubSeqEmpty DEF Slice
    <3>2. Within(p + n, p + n)
      BY <2>2 DEF Within
    <3> QED BY <2>1, <3>1, <3>2
  <2>5. GivenInOrder'
    BY <1>0, <1>1, <2>2, <2>3, <2>4, StillGiven
  <2> QED BY <1>0, <2>5 DEF TunnelInv
<1> QED BY <1>4, <1>5

LEMMA TunnelStands ==
    ASSUME TunnelInv, stream' = stream,
           tunnel' = "closed_early" \/ UNCHANGED <<wire, response, tunnel, prefixed, handed>>
    PROVE  TunnelInv'
<1>1. Decides' = Decides /\ \A i : TooLong(i)' <=> TooLong(i)
  BY DEF Decides, HeadEnds, TooLong
<1>2. WellCut(stream)'
  BY DEF TunnelInv, WellCut
<1>3. CASE tunnel' = "closed_early"
  BY <1>2, <1>3 DEF TunnelInv
<1>4. CASE UNCHANGED <<wire, response, tunnel, prefixed, handed>>
  <2>1. ReadingInOrder => ReadingInOrder'
    BY <1>4 DEF ReadingInOrder, Within, Undecided, Slice
  <2>2. GivenInOrder => GivenInOrder'
    BY <1>4 DEF GivenInOrder, Within, Slice, IsLeast, HeadEnds
  <2>3. (tunnel \in {"refused", "auth", "garbled"} => stream[Decides].of = tunnel)'
    BY <1>1, <1>4 DEF TunnelInv
  <2>4. (tunnel = "too_large" => \E i \in DOMAIN stream : i <= Decides /\ TooLong(i))'
    BY <1>1, <1>4 DEF TunnelInv
  <2> QED BY <1>2, <1>4, <2>1, <2>2, <2>3, <2>4 DEF TunnelInv
<1> QED BY <1>3, <1>4

(* However the reads cut it, TLS is given what follows the head that opened the
   tunnel, and the tunnel is judged by the first head that is not interim. *)
THEOREM TunnelGivesAll == TunnelSpec => []TunnelSafety
<1>1. TunnelInv /\ [TunnelNext]_tunnelVars => TunnelInv'
  BY HeadReadStep, HeadTooLargeStep, ReadWireStep, ReadThroughStep, TunnelStands
  DEF TunnelNext, WireEnds, tunnelVars
<1> QED BY <1>1, TunnelStarts, TunnelInvHolds, PTL DEF TunnelSpec

-----------------------------------------------------------------------------
(* The calls that make sockets.                                              *)

DialStates ==
    {"unasked", "asked", "queued", "sleeping", "connecting", "cooling", "connected", "failed",
     "interrupted", "left"}
Calls  == [at : DialStates, route : Routes, attempt : {0, 1}, lease : Nat, socket : Nat,
           until : Nat, failed : {"none", "origin", "proxy"}]
Reasons == {"none", "forbidden", "refused", "timeout"}
Starts == [by : Dialler, moment : Nat, network : Nat]

DialTypeOK ==
    /\ moment \in Nat \ {0} /\ network \in Nat
    /\ gate = [holder |-> gate.holder, queue |-> gate.queue, last |-> gate.last]
    /\ gate.last \in Nat
    /\ dial \in [Dialler -> Calls]
    /\ starts \in Seq(Starts)

\* The gate: its holder is the one call that sleeps, and it sleeps long enough.
GateKept ==
    /\ \A d \in gate.holder : d \in Dialler /\ dial[d].at = "sleeping"
    /\ \A d \in Dialler : dial[d].at = "sleeping" =>
          /\ gate.holder = {d}
          /\ gate.last # 0 => dial[d].until >= gate.last + Spacing

\* What has been started, whoever did.
StartsApart ==
    /\ \A i \in DOMAIN starts : starts[i].moment \in 1 .. moment /\ starts[i].network <= network
    /\ starts = <<>> => gate.last = 0
    /\ starts # <<>> => gate.last = starts[Len(starts)].moment
    /\ \A i \in 2 .. Len(starts) : starts[i].moment >= starts[i - 1].moment + Spacing

Unstarted == {"unasked", "asked", "queued", "sleeping"}

Rested(d, m) == \A i \in StartsOf(d) : m >= starts[i].moment + Cooldown

\* What a call has started so far, and when it may start again.
StartsCounted(d) ==
    /\ dial[d].at \in {"unasked", "asked"} => dial[d].attempt = 0
    /\ dial[d].at \in Unstarted /\ dial[d].attempt = 0 => StartsOf(d) = {}
    /\ IsFiniteSet(StartsOf(d))
    /\ Cardinality(StartsOf(d)) <= dial[d].attempt + 1
    /\ dial[d].at \in Unstarted => Cardinality(StartsOf(d)) <= dial[d].attempt
    /\ dial[d].at = "cooling" =>
          dial[d].attempt = 0 /\ dial[d].failed = "origin" /\ Rested(d, dial[d].until)
    /\ dial[d].at \in {"queued", "sleeping"} /\ dial[d].attempt = 1 =>
          dial[d].failed = "origin" /\ Rested(d, moment)
    /\ \A i, j \in StartsOf(d) : i < j => starts[j].moment >= starts[i].moment + Cooldown

\* A socket's network is not younger than any that the call has started on.
OldestNetwork(d) ==
    /\ dial[d].at # "unasked" => dial[d].socket <= network
    /\ dial[d].at \in UnderWay \cup {"connected"} =>
          /\ dial[d].socket <= dial[d].lease /\ dial[d].lease <= network
          /\ \A i \in StartsOf(d) : dial[d].socket <= starts[i].network

DialInv ==
    /\ DialTypeOK /\ GateKept /\ StartsApart
    /\ \A d \in Dialler : StartsCounted(d) /\ OldestNetwork(d)

LEMMA DialInvHolds == DialInv => DialSafety
<1> SUFFICES ASSUME DialInv PROVE DialSafety
  OBVIOUS
<1>1. ASSUME NEW d \in Dialler PROVE Cardinality(StartsOf(d)) <= 2
  <2>1. dial[d].attempt \in {0, 1} /\ Cardinality(StartsOf(d)) <= dial[d].attempt + 1
    BY DEF DialInv, DialTypeOK, Calls, StartsCounted
  <2>2. Cardinality(StartsOf(d)) \in Nat
    BY FS_CardinalityType DEF DialInv, StartsCounted
  <2> QED BY <2>1, <2>2
<1>2. ASSUME NEW d \in Dialler, dial[d].at = "connected", dial[d].socket = network, NEW i \in StartsOf(d)
      PROVE  starts[i].network = network
  <2>1. starts[i].network \in Nat /\ starts[i].network <= network
    <3>1. starts \in Seq(Starts) /\ i \in DOMAIN starts
      BY DEF DialInv, DialTypeOK, StartsOf
    <3>2. starts[i] \in Starts
      BY <3>1
    <3>3. starts[i].network \in Nat
      BY <3>2 DEF Starts
    <3> QED BY <3>1, <3>3 DEF DialInv, StartsApart
  <2>2. network <= starts[i].network
    BY <1>2 DEF DialInv, OldestNetwork
  <2> QED BY <2>1, <2>2 DEF DialInv, DialTypeOK
<1>3. \A d \in gate.holder : dial[d].at = "sleeping"
  BY DEF DialInv, GateKept
<1>4. \A i \in 2 .. Len(starts) : starts[i].moment >= starts[i - 1].moment + Spacing
  BY DEF DialInv, StartsApart
<1>5. ASSUME NEW d \in Dialler
      PROVE  /\ \A i, j \in StartsOf(d) : i < j => starts[j].moment >= starts[i].moment + Cooldown
             /\ dial[d].attempt = 1 /\ dial[d].at = "queued" => dial[d].failed = "origin"
  BY DEF DialInv, StartsCounted
<1> QED BY <1>1, <1>2, <1>3, <1>4, <1>5 DEF DialSafety

LEMMA DialStarts == DialInit => DialInv
<1> SUFFICES ASSUME DialInit PROVE DialInv
  OBVIOUS
<1> USE SocketDialAssumption
<1>1. PICK route \in [Dialler -> Routes] : dial = [d \in Dialler |-> Resting(route[d])]
  BY DEF DialInit
<1>2. \A d \in Dialler : StartsOf(d) = {}
  BY DEF DialInit, StartsOf
<1>3. DialTypeOK
  <2>0. \A r \in Routes : Resting(r) \in Calls
    BY DEF Resting, Calls, DialStates
  <2>1. dial \in [Dialler -> Calls]
    BY <1>1, <2>0
  <2>2. gate = [holder |-> {}, queue |-> <<>>, last |-> 0]
    BY DEF DialInit
  <2> QED BY <2>1, <2>2 DEF DialInit, DialTypeOK
<1>4. GateKept
  BY <1>1 DEF DialInit, GateKept, Resting
<1>5. StartsApart
  BY DEF DialInit, StartsApart
<1>6. ASSUME NEW d \in Dialler PROVE StartsCounted(d)
  <2>1. dial[d].at = "unasked" /\ dial[d].attempt = 0
    BY <1>1 DEF Resting
  <2>2. IsFiniteSet(StartsOf(d)) /\ Cardinality(StartsOf(d)) = 0
    BY <1>2, FS_EmptySet
  <2> QED BY <1>2, <2>1, <2>2 DEF StartsCounted
<1>7. ASSUME NEW d \in Dialler PROVE OldestNetwork(d)
  BY <1>1 DEF OldestNetwork, Resting, UnderWay
<1> QED BY <1>3, <1>4, <1>5, <1>6, <1>7 DEF DialInv

\* A call that starts nothing keeps what is counted of it.
SameStarts == starts' = starts

LEMMA CountStays ==
    ASSUME DialInv, SameStarts, moment' = moment, network' = network, NEW e \in Dialler, dial'[e] = dial[e]
    PROVE  StartsCounted(e)' /\ OldestNetwork(e)'
<1>1. StartsOf(e)' = StartsOf(e)
  BY DEF SameStarts, StartsOf
<1>2. StartsCounted(e) /\ OldestNetwork(e)
  BY DEF DialInv
<1>3. StartsCounted(e)'
  BY <1>1, <1>2 DEF SameStarts, StartsCounted, Rested
<1>4. OldestNetwork(e)'
  BY <1>1, <1>2 DEF SameStarts, OldestNetwork
<1> QED BY <1>3, <1>4

\* Where time and what was started stay, one call at a time is looked at.
LEMMA OneCallMoves ==
    ASSUME DialInv, SameStarts, moment' = moment, network' = network, NEW d \in Dialler,
           NEW c \in Calls, dial' = [dial EXCEPT ![d] = c],
           gate' = [holder |-> gate'.holder, queue |-> gate'.queue, last |-> gate.last],
           GateKept', StartsCounted(d)', OldestNetwork(d)'
    PROVE  DialInv'
<1>1. DialTypeOK'
  BY DEF DialInv, DialTypeOK, SameStarts
<1>2. StartsApart'
  BY DEF DialInv, StartsApart, SameStarts
<1>3. ASSUME NEW e \in Dialler, e # d PROVE StartsCounted(e)' /\ OldestNetwork(e)'
  <2>1. dial'[e] = dial[e]
    BY <1>3 DEF DialInv, DialTypeOK
  <2> QED BY <2>1, CountStays
<1> QED BY <1>1, <1>2, <1>3 DEF DialInv

LEMMA AskForSocketStep == ASSUME DialInv, NEW d \in Dialler, AskForSocket(d) PROVE DialInv'
<1> DEFINE c == [dial[d] EXCEPT !.at = "asked", !.socket = network]
<1>0. dial[d] \in Calls /\ dial[d].at = "unasked" /\ StartsCounted(d) /\ OldestNetwork(d) /\ network \in Nat
  BY DEF DialInv, DialTypeOK, AskForSocket
<1>1. c \in Calls /\ c.at = "asked" /\ c.attempt = dial[d].attempt /\ c.socket = network
  BY <1>0 DEF Calls, DialStates
<1>2. dial' = [dial EXCEPT ![d] = c] /\ gate' = gate /\ SameStarts /\ moment' = moment /\ network' = network
  BY DEF AskForSocket, SameStarts
<1> HIDE DEF c
<1>3. dial'[d] = c /\ \A e \in Dialler : e # d => dial'[e] = dial[e]
  BY <1>2 DEF DialInv, DialTypeOK
<1>4. StartsOf(d)' = StartsOf(d)
  BY <1>2 DEF SameStarts, StartsOf
<1>5. GateKept'
  BY <1>0, <1>1, <1>2, <1>3 DEF DialInv, GateKept
<1>6. StartsCounted(d)'
  BY <1>0, <1>1, <1>2, <1>3, <1>4 DEF StartsCounted, Unstarted
<1>7. OldestNetwork(d)'
  BY <1>0, <1>1, <1>2, <1>3, <1>4 DEF OldestNetwork, UnderWay
<1>8. gate' = [holder |-> gate'.holder, queue |-> gate'.queue, last |-> gate.last]
  BY <1>2 DEF DialInv, DialTypeOK
<1> QED BY <1>1, <1>2, <1>5, <1>6, <1>7, <1>8, OneCallMoves
LEMMA DialStep == ASSUME DialInv, NEW d \in Dialler, Dial(d) PROVE DialInv'
<1> DEFINE c == [dial[d] EXCEPT !.at = "queued", !.lease = network]
<1>0. dial[d] \in Calls /\ dial[d].at = "asked" /\ StartsCounted(d) /\ OldestNetwork(d) /\ network \in Nat
  BY DEF DialInv, DialTypeOK, Dial
<1>1. c \in Calls /\ c.at = "queued" /\ c.attempt = dial[d].attempt /\ c.socket = dial[d].socket /\ c.lease = network
  BY <1>0 DEF Calls, DialStates
<1>2. /\ dial' = [dial EXCEPT ![d] = c] /\ SameStarts /\ moment' = moment /\ network' = network
      /\ gate' = [gate EXCEPT !.queue = Append(@, d)]
  BY DEF Dial, SameStarts
<1> HIDE DEF c
<1>3. dial'[d] = c /\ \A e \in Dialler : e # d => dial'[e] = dial[e]
  BY <1>2 DEF DialInv, DialTypeOK
<1>4. StartsOf(d)' = StartsOf(d)
  BY <1>2 DEF SameStarts, StartsOf
<1>8. gate' = [holder |-> gate.holder, queue |-> gate'.queue, last |-> gate.last]
  BY <1>2 DEF DialInv, DialTypeOK
<1>5. GateKept'
  BY <1>0, <1>1, <1>2, <1>3, <1>8 DEF DialInv, GateKept
<1>6. StartsCounted(d)'
  BY <1>0, <1>1, <1>2, <1>3, <1>4 DEF StartsCounted, Unstarted
<1>7. OldestNetwork(d)'
  <2>1. StartsOf(d) = {} /\ dial[d].socket <= network
    BY <1>0 DEF StartsCounted, OldestNetwork, Unstarted
  <2> QED BY <1>0, <1>1, <1>2, <1>3, <1>4, <2>1 DEF OldestNetwork
<1> QED BY <1>1, <1>2, <1>5, <1>6, <1>7, <1>8, OneCallMoves

LEMMA EnterGateStep == ASSUME DialInv, NEW d \in Dialler, EnterGate(d) PROVE DialInv'
<1> DEFINE wake == IF gate.last = 0 THEN moment ELSE gate.last + Spacing
           c == [dial[d] EXCEPT !.at = "sleeping", !.until = wake]
<1> USE SocketDialAssumption
<1>0. /\ dial[d] \in Calls /\ dial[d].at = "queued" /\ StartsCounted(d) /\ OldestNetwork(d)
      /\ moment \in Nat /\ gate.last \in Nat /\ Spacing \in Nat /\ gate.holder = {}
  BY DEF DialInv, DialTypeOK, EnterGate
<1>1. /\ c \in Calls /\ c.at = "sleeping" /\ c.attempt = dial[d].attempt /\ c.socket = dial[d].socket
      /\ c.lease = dial[d].lease /\ c.failed = dial[d].failed
      /\ gate.last # 0 => c.until = gate.last + Spacing
  <2>1. wake \in Nat /\ (gate.last # 0 => wake = gate.last + Spacing)
    BY <1>0
  <2> HIDE DEF wake
  <2> QED BY <1>0, <2>1 DEF Calls, DialStates
<1>2. /\ dial' = [dial EXCEPT ![d] = c] /\ SameStarts /\ moment' = moment /\ network' = network
      /\ gate' = [gate EXCEPT !.holder = {d}, !.queue = Tail(@)]
  BY DEF EnterGate, SameStarts
<1> HIDE DEF c
<1>3. dial'[d] = c /\ \A e \in Dialler : e # d => dial'[e] = dial[e]
  BY <1>2 DEF DialInv, DialTypeOK
<1>4. StartsOf(d)' = StartsOf(d)
  BY <1>2 DEF SameStarts, StartsOf
<1>8. gate' = [holder |-> {d}, queue |-> gate'.queue, last |-> gate.last]
  BY <1>2 DEF DialInv, DialTypeOK
<1>5. GateKept'
  <2>1. gate'.holder = {d} /\ gate'.last = gate.last
    BY <1>8
  <2>2. \A e \in Dialler : dial[e].at # "sleeping"
    BY <1>0 DEF DialInv, GateKept
  <2>3. c.until >= gate.last + Spacing \/ gate.last = 0
    BY <1>0, <1>1
  <2> QED BY <1>1, <1>3, <2>1, <2>2, <2>3 DEF GateKept
<1>6. StartsCounted(d)'
  BY <1>0, <1>1, <1>2, <1>3, <1>4 DEF StartsCounted, Unstarted, Rested, SameStarts
<1>7. OldestNetwork(d)'
  BY <1>0, <1>1, <1>2, <1>3, <1>4 DEF OldestNetwork, UnderWay, SameStarts
<1> QED BY <1>1, <1>2, <1>5, <1>6, <1>7, <1>8, OneCallMoves

\* What Attempt and AttemptTimesOut have in common.
SettlesAt(d, outcome) ==
    /\ dial[d].at = "connecting"
    /\ dial' = [dial EXCEPT ![d] = Settled(d, outcome)]
    /\ UNCHANGED <<moment, network, gate, starts>>

LEMMA OutcomesHaveReasons ==
    ASSUME NEW route
    PROVE  Outcomes(route) \subseteq [ok : BOOLEAN, whose : {"origin", "proxy"}, failed : Reasons]
<1>1. {[ok |-> FALSE, whose |-> "proxy", failed |-> f] : f \in {"forbidden", "refused"}}
         \subseteq [ok : BOOLEAN, whose : {"origin", "proxy"}, failed : Reasons]
  <2>1. ASSUME NEW f \in {"forbidden", "refused"}
        PROVE  [ok |-> FALSE, whose |-> "proxy", failed |-> f] \in
                   [ok : BOOLEAN, whose : {"origin", "proxy"}, failed : Reasons]
    BY DEF Reasons
  <2> QED BY <2>1
<1>2. {[ok |-> TRUE, whose |-> "origin", failed |-> "none"],
       [ok |-> FALSE, whose |-> "origin", failed |-> "forbidden"],
       [ok |-> FALSE, whose |-> "origin", failed |-> "refused"]}
         \subseteq [ok : BOOLEAN, whose : {"origin", "proxy"}, failed : Reasons]
  BY DEF Reasons
<1> DEFINE Told == [ok : BOOLEAN, whose : {"origin", "proxy"}, failed : Reasons]
           Said == {[ok |-> FALSE, whose |-> "proxy", failed |-> f] : f \in {"forbidden", "refused"}}
           Own == {[ok |-> TRUE, whose |-> "origin", failed |-> "none"],
                   [ok |-> FALSE, whose |-> "origin", failed |-> "forbidden"],
                   [ok |-> FALSE, whose |-> "origin", failed |-> "refused"]}
<1>3. Outcomes(route) = Own \cup IF route = "tunnelled" THEN Said ELSE {}
  BY DEF Outcomes
<1>4. Own \subseteq Told /\ Said \subseteq Told
  BY <1>1, <1>2
<1> HIDE DEF Told, Said, Own
<1>5. Outcomes(route) \subseteq Told
  BY <1>3, <1>4
<1> QED BY <1>5 DEF Told

LEMMA CallSettles ==
    ASSUME DialInv, NEW d \in Dialler,
           NEW outcome \in [ok : BOOLEAN, whose : {"origin", "proxy"}, failed : Reasons],
           SettlesAt(d, outcome)
    PROVE  DialInv'
<1> DEFINE c == Settled(d, outcome)
<1> USE SocketDialAssumption
<1>0. /\ dial[d] \in Calls /\ dial[d].at = "connecting" /\ StartsCounted(d) /\ OldestNetwork(d)
      /\ moment \in Nat /\ Cooldown \in Nat
  BY DEF DialInv, DialTypeOK, SettlesAt
<1>1. /\ c \in Calls /\ c.attempt = dial[d].attempt /\ c.socket = dial[d].socket
      /\ c.lease = dial[d].lease
      /\ \/ c.at = "cooling" /\ c.attempt = 0 /\ c.failed = "origin" /\ c.until = moment + Cooldown
         \/ c.at \in {"connected", "failed"}
  <2>1. CASE IsOriginForbidden(outcome) /\ dial[d].attempt = 0
    <3> DEFINE wake == moment + Cooldown
    <3>1. c = [dial[d] EXCEPT !.at = "cooling", !.until = wake, !.failed = outcome.whose]
      BY <2>1 DEF Settled
    <3>2. wake \in Nat /\ outcome.whose = "origin"
      BY <1>0, <2>1 DEF IsOriginForbidden
    <3> HIDE DEF wake
    <3>3. /\ c \in Calls /\ c.attempt = dial[d].attempt /\ c.socket = dial[d].socket
          /\ c.lease = dial[d].lease /\ c.at = "cooling" /\ c.failed = "origin" /\ c.until = wake
      BY <1>0, <3>1, <3>2 DEF Calls, DialStates
    <3> QED BY <2>1, <3>3 DEF wake
  <2>2. CASE ~(IsOriginForbidden(outcome) /\ dial[d].attempt = 0)
    <3> DEFINE end == IF outcome.ok THEN "connected" ELSE "failed"
    <3>1. c = [dial[d] EXCEPT !.at = end, !.failed = outcome.whose]
      BY <2>2 DEF Settled
    <3>2. end \in {"connected", "failed"} /\ outcome.whose \in {"origin", "proxy"}
      OBVIOUS
    <3> HIDE DEF end, c
    <3> QED BY <1>0, <3>1, <3>2 DEF Calls, DialStates
  <2> QED BY <2>1, <2>2
<1>2. /\ dial' = [dial EXCEPT ![d] = c] /\ SameStarts /\ moment' = moment /\ network' = network
      /\ gate' = gate
  BY DEF SettlesAt, SameStarts
<1> HIDE DEF c
<1>3. dial'[d] = c /\ \A e \in Dialler : e # d => dial'[e] = dial[e]
  BY <1>2 DEF DialInv, DialTypeOK
<1>4. StartsOf(d)' = StartsOf(d)
  BY <1>2 DEF SameStarts, StartsOf
<1>8. gate' = [holder |-> gate'.holder, queue |-> gate'.queue, last |-> gate.last]
  BY <1>2 DEF DialInv, DialTypeOK
<1>5. GateKept'
  BY <1>0, <1>1, <1>2, <1>3 DEF DialInv, GateKept
<1>6. StartsCounted(d)'
  <2>1. \A i \in StartsOf(d) : moment + Cooldown >= starts[i].moment + Cooldown
    <3>1. ASSUME NEW i \in StartsOf(d) PROVE starts[i].moment \in 1 .. moment
      BY DEF DialInv, StartsApart, StartsOf
    <3> QED BY <1>0, <3>1
  <2>2. c.at = "cooling" => Rested(d, c.until)
    BY <1>1, <2>1 DEF Rested
  <2>3. c.at \notin Unstarted /\ c.at \in {"cooling", "connected", "failed"}
    BY <1>1 DEF Unstarted
  <2>4. c.at = "cooling" => c.attempt = 0 /\ c.failed = "origin"
    BY <1>1
  <2> QED BY <1>0, <1>1, <1>2, <1>3, <1>4, <2>2, <2>3, <2>4 DEF StartsCounted, Rested, SameStarts
<1>7. OldestNetwork(d)'
  BY <1>0, <1>1, <1>2, <1>3, <1>4 DEF OldestNetwork, UnderWay, SameStarts
<1> QED BY <1>1, <1>2, <1>5, <1>6, <1>7, <1>8, OneCallMoves

LEMMA RedialStep == ASSUME DialInv, NEW d \in Dialler, Redial(d) PROVE DialInv'
<1> DEFINE c == [dial[d] EXCEPT !.at = "queued", !.attempt = 1]
<1> USE SocketDialAssumption
<1>0. /\ dial[d] \in Calls /\ dial[d].at = "cooling" /\ StartsCounted(d) /\ OldestNetwork(d)
      /\ moment \in Nat /\ moment >= dial[d].until /\ Cooldown \in Nat
  BY DEF DialInv, DialTypeOK, Redial
<1>1. /\ c \in Calls /\ c.at = "queued" /\ c.attempt = 1 /\ c.socket = dial[d].socket
      /\ c.lease = dial[d].lease /\ c.failed = dial[d].failed
  BY <1>0 DEF Calls, DialStates
<1>2. /\ dial' = [dial EXCEPT ![d] = c] /\ SameStarts /\ moment' = moment /\ network' = network
      /\ gate' = [gate EXCEPT !.queue = Append(@, d)]
  BY DEF Redial, SameStarts
<1> HIDE DEF c
<1>3. dial'[d] = c /\ \A e \in Dialler : e # d => dial'[e] = dial[e]
  BY <1>2 DEF DialInv, DialTypeOK
<1>4. StartsOf(d)' = StartsOf(d)
  BY <1>2 DEF SameStarts, StartsOf
<1>8. gate' = [holder |-> gate.holder, queue |-> gate'.queue, last |-> gate.last]
  BY <1>2 DEF DialInv, DialTypeOK
<1>5. GateKept'
  BY <1>0, <1>1, <1>2, <1>3, <1>8 DEF DialInv, GateKept
<1>6. StartsCounted(d)'
  <2>1. dial[d].attempt = 0 /\ dial[d].failed = "origin" /\ Rested(d, dial[d].until)
    BY <1>0 DEF StartsCounted
  <2>2. Rested(d, moment)
    <3>1. dial[d].until \in Nat
      BY <1>0 DEF Calls
    <3>2. ASSUME NEW i \in StartsOf(d) PROVE starts[i].moment \in Nat
      BY DEF DialInv, StartsApart, StartsOf
    <3> QED BY <1>0, <2>1, <3>1, <3>2 DEF Rested
  <2>3. Cardinality(StartsOf(d)) <= 1 /\ Cardinality(StartsOf(d)) <= 1 + 1
    BY <1>0, <2>1, FS_CardinalityType DEF StartsCounted
  <2> QED BY <1>0, <1>1, <1>2, <1>3, <1>4, <2>1, <2>2, <2>3 DEF StartsCounted, Rested, SameStarts
<1>7. OldestNetwork(d)'
  BY <1>0, <1>1, <1>2, <1>3, <1>4 DEF OldestNetwork, UnderWay, SameStarts
<1> QED BY <1>1, <1>2, <1>5, <1>6, <1>7, <1>8, OneCallMoves

LEMMA DroppedStep ==
    ASSUME DialInv, NEW d \in Dialler, NEW how \in {"interrupted", "left"},
           dial[d].at \in UnderWay \cup {"asked"}, Dropped(d, how)
    PROVE  DialInv'
<1> DEFINE c == [dial[d] EXCEPT !.at = how]
<1>0. dial[d] \in Calls /\ StartsCounted(d) /\ OldestNetwork(d) /\ dial[d].at # "unasked"
  BY DEF DialInv, DialTypeOK, UnderWay
<1>1. /\ c \in Calls /\ c.at = how /\ c.attempt = dial[d].attempt /\ c.socket = dial[d].socket
  BY <1>0 DEF Calls, DialStates
<1>2. /\ dial' = [dial EXCEPT ![d] = c] /\ SameStarts /\ moment' = moment /\ network' = network
      /\ gate' = [gate EXCEPT !.holder = @ \ {d}, !.queue = SelectSeq(@, LAMBDA e : e # d)]
  BY DEF Dropped, SameStarts
<1> HIDE DEF c
<1>3. dial'[d] = c /\ \A e \in Dialler : e # d => dial'[e] = dial[e]
  BY <1>2 DEF DialInv, DialTypeOK
<1>4. StartsOf(d)' = StartsOf(d)
  BY <1>2 DEF SameStarts, StartsOf
<1>8. gate' = [holder |-> gate.holder \ {d}, queue |-> gate'.queue, last |-> gate.last]
  BY <1>2 DEF DialInv, DialTypeOK
<1>5. GateKept'
  <2>1. gate'.holder = gate.holder \ {d} /\ gate'.last = gate.last
    BY <1>8
  <2> QED BY <1>1, <1>3, <2>1 DEF DialInv, GateKept
<1>6. StartsCounted(d)'
  BY <1>0, <1>1, <1>2, <1>3, <1>4 DEF StartsCounted, Unstarted, SameStarts
<1>7. OldestNetwork(d)'
  BY <1>0, <1>1, <1>2, <1>3, <1>4 DEF OldestNetwork, UnderWay, SameStarts
<1> QED BY <1>1, <1>2, <1>5, <1>6, <1>7, <1>8, OneCallMoves

LEMMA NetworkMovesStep == ASSUME DialInv, NetworkMoves PROVE DialInv'
<1>0. /\ network \in Nat /\ network' = network + 1 /\ moment' = moment /\ gate' = gate /\ dial' = dial
      /\ starts' = starts
  BY DEF DialInv, DialTypeOK, NetworkMoves
<1>1. DialTypeOK' /\ GateKept'
  BY <1>0 DEF DialInv, DialTypeOK, GateKept
<1>2. StartsApart'
  <2>1. ASSUME NEW i \in DOMAIN starts PROVE starts[i].network <= network + 1
    <3>1. starts[i] \in Starts /\ starts[i].network <= network
      BY DEF DialInv, DialTypeOK, StartsApart
    <3>2. starts[i].network \in Nat
      BY <3>1 DEF Starts
    <3> QED BY <1>0, <3>1, <3>2
  <2> QED BY <1>0, <2>1 DEF DialInv, StartsApart
<1>3. ASSUME NEW d \in Dialler PROVE StartsCounted(d)' /\ OldestNetwork(d)'
  <2>1. StartsOf(d)' = StartsOf(d) /\ dial[d] \in Calls /\ StartsCounted(d) /\ OldestNetwork(d)
    BY <1>0 DEF StartsOf, DialInv, DialTypeOK
  <2>2. StartsCounted(d)'
    BY <1>0, <2>1 DEF StartsCounted, Rested
  <2>3. dial[d].socket \in Nat /\ dial[d].lease \in Nat
    BY <2>1 DEF Calls
  <2>4. OldestNetwork(d)'
    BY <1>0, <2>1, <2>3 DEF OldestNetwork
  <2> QED BY <2>2, <2>4
<1> QED BY <1>1, <1>2, <1>3 DEF DialInv

LEMMA DialTickStep == ASSUME DialInv, DialTick PROVE DialInv'
<1> USE SocketDialAssumption
<1>0. /\ moment \in Nat \ {0} /\ moment' = moment + 1 /\ network' = network /\ gate' = gate /\ dial' = dial
      /\ starts' = starts /\ Cooldown \in Nat
  BY DEF DialInv, DialTypeOK, DialTick
<1>1. DialTypeOK' /\ GateKept'
  BY <1>0 DEF DialInv, DialTypeOK, GateKept
<1>2. StartsApart'
  <2>1. ASSUME NEW i \in DOMAIN starts PROVE starts[i].moment \in 1 .. moment + 1
    <3>1. starts[i].moment \in 1 .. moment
      BY DEF DialInv, StartsApart
    <3> QED BY <1>0, <3>1
  <2> QED BY <1>0, <2>1 DEF DialInv, StartsApart
<1>3. ASSUME NEW d \in Dialler PROVE StartsCounted(d)' /\ OldestNetwork(d)'
  <2>1. StartsOf(d)' = StartsOf(d) /\ StartsCounted(d) /\ OldestNetwork(d)
    BY <1>0 DEF StartsOf, DialInv
  <2>2. Rested(d, moment) => Rested(d, moment + 1)
    <3>1. ASSUME NEW i \in StartsOf(d) PROVE starts[i].moment \in Nat
      BY DEF DialInv, StartsApart, StartsOf
    <3> QED BY <1>0, <3>1 DEF Rested
  <2>3. StartsCounted(d)'
    BY <1>0, <2>1, <2>2 DEF StartsCounted, Rested
  <2>4. OldestNetwork(d)'
    BY <1>0, <2>1 DEF OldestNetwork
  <2> QED BY <2>3, <2>4
<1> QED BY <1>1, <1>2, <1>3 DEF DialInv
LEMMA StartDialStep == ASSUME DialInv, NEW d \in Dialler, StartDial(d) PROVE DialInv'
<1> DEFINE due == moment + ConnectTimeout
           c == [dial[d] EXCEPT !.at = "connecting", !.until = due]
           s == [by |-> d, moment |-> moment, network |-> network]
           n == Len(starts) + 1
<1> USE SocketDialAssumption
<1>0. /\ dial[d] \in Calls /\ dial[d].at = "sleeping" /\ StartsCounted(d) /\ OldestNetwork(d)
      /\ moment \in Nat \ {0} /\ moment >= dial[d].until /\ Cooldown \in Nat /\ network \in Nat
      /\ starts \in Seq(Starts) /\ gate.last \in Nat /\ Spacing \in Nat
  BY DEF DialInv, DialTypeOK, StartDial
<1>1. due \in Nat /\ s \in Starts
  BY <1>0 DEF Starts
<1> HIDE DEF due
<1>2. /\ c \in Calls /\ c.at = "connecting" /\ c.attempt = dial[d].attempt /\ c.socket = dial[d].socket
      /\ c.lease = dial[d].lease
  BY <1>0, <1>1 DEF Calls, DialStates
<1>3. /\ dial' = [dial EXCEPT ![d] = c] /\ moment' = moment /\ network' = network
      /\ gate' = [gate EXCEPT !.holder = {}, !.last = moment]
      /\ starts' = Append(starts, s)
  BY DEF StartDial, due
<1>4. s.by = d /\ s.moment = moment /\ s.network = network
  OBVIOUS
<1> HIDE DEF c, s
<1>5. dial'[d] = c /\ \A e \in Dialler : e # d => dial'[e] = dial[e]
  BY <1>3 DEF DialInv, DialTypeOK
<1>6. /\ starts' \in Seq(Starts) /\ Len(starts') = n /\ starts'[n] = s /\ DOMAIN starts' = 1 .. n
      /\ DOMAIN starts = 1 .. n - 1 /\ n \in Nat \ {0}
      /\ \A i \in DOMAIN starts : starts'[i] = starts[i]
  BY <1>0, <1>1, <1>3, AppendProperties, LenProperties
<1> HIDE DEF n
<1>7. gate' = [holder |-> {}, queue |-> gate.queue, last |-> moment]
  BY <1>3 DEF DialInv, DialTypeOK
<1>8. gate.holder = {d} /\ (gate.last # 0 => moment >= gate.last + Spacing)
  <2>1. gate.holder = {d} /\ (gate.last # 0 => dial[d].until >= gate.last + Spacing)
    BY <1>0 DEF DialInv, GateKept
  <2>2. dial[d].until \in Nat
    BY <1>0 DEF Calls
  <2> QED BY <1>0, <2>1, <2>2
<1>9. DialTypeOK'
  BY <1>0, <1>2, <1>3, <1>6, <1>7 DEF DialInv, DialTypeOK
<1>10. GateKept'
  <2>1. \A e \in Dialler : dial[e].at = "sleeping" => e = d
    BY <1>8 DEF DialInv, GateKept
  <2>2. \A e \in Dialler : dial'[e].at # "sleeping"
    BY <1>2, <1>5, <2>1
  <2> QED BY <1>7, <2>2 DEF GateKept
<1>11. StartsApart'
  <2>1. \A i \in DOMAIN starts' : starts'[i].moment \in 1 .. moment' /\ starts'[i].network <= network'
    <3>1. ASSUME NEW i \in DOMAIN starts PROVE starts'[i].moment \in 1 .. moment /\ starts'[i].network <= network
      BY <1>6 DEF DialInv, StartsApart
    <3> QED BY <1>0, <1>3, <1>4, <1>6, <3>1
  <2>2. starts' # <<>> /\ gate'.last = starts'[Len(starts')].moment
    BY <1>4, <1>6, <1>7
  <2>3. ASSUME NEW i \in 2 .. Len(starts') PROVE starts'[i].moment >= starts'[i - 1].moment + Spacing
    <3>1. CASE i \in 2 .. Len(starts)
      <4>1. starts[i].moment >= starts[i - 1].moment + Spacing
        BY <3>1 DEF DialInv, StartsApart
      <4>2. i \in DOMAIN starts /\ i - 1 \in DOMAIN starts
        BY <1>0, <3>1
      <4> QED BY <1>6, <4>1, <4>2
    <3>2. CASE i = n
      <4>1. starts # <<>> /\ n - 1 = Len(starts) /\ n - 1 \in DOMAIN starts
        BY <1>6, <1>0, <3>2 DEF n
      <4>2. gate.last = starts[n - 1].moment /\ starts[n - 1].moment \in 1 .. moment
        BY <4>1 DEF DialInv, StartsApart
      <4>3. moment >= starts[n - 1].moment + Spacing
        BY <1>8, <4>2
      <4> QED BY <1>4, <1>6, <3>2, <4>1, <4>3
    <3> QED BY <1>0, <1>6, <3>1, <3>2 DEF n
  <2> QED BY <2>1, <2>2, <2>3 DEF StartsApart
<1>12. n \notin StartsOf(d) /\ StartsOf(d)' = StartsOf(d) \cup {n}
  BY <1>4, <1>6 DEF StartsOf
<1>13. \A i \in StartsOf(d) : starts'[i] = starts[i] /\ i < n /\ i \in Nat /\ n \in Nat
  BY <1>6 DEF StartsOf
<1>14. StartsCounted(d)'
  <2>1. /\ IsFiniteSet(StartsOf(d)) /\ Cardinality(StartsOf(d)) <= dial[d].attempt
        /\ dial[d].attempt \in {0, 1}
    BY <1>0 DEF StartsCounted, Unstarted, Calls
  <2>2. IsFiniteSet(StartsOf(d))' /\ Cardinality(StartsOf(d))' = Cardinality(StartsOf(d)) + 1
    BY <1>12, <2>1, FS_AddElement
  <2>3. Cardinality(StartsOf(d))' <= c.attempt + 1
    <3>1. Cardinality(StartsOf(d)) \in Nat
      BY <2>1, FS_CardinalityType
    <3> QED BY <1>2, <2>1, <2>2, <3>1
  <2>4. Rested(d, moment)
    BY <1>0, <2>1 DEF StartsCounted, Unstarted, Rested
  <2>5. ASSUME NEW i \in StartsOf(d)', NEW j \in StartsOf(d)', i < j
        PROVE  starts'[j].moment >= starts'[i].moment + Cooldown
    <3>1. CASE i \in StartsOf(d) /\ j \in StartsOf(d)
      <4>1. starts[j].moment >= starts[i].moment + Cooldown
        BY <1>0, <2>5, <3>1 DEF StartsCounted
      <4> QED BY <1>13, <3>1, <4>1
    <3>2. CASE i = n
      BY <1>6, <1>12, <1>13, <2>5, <3>2
    <3>3. CASE i \in StartsOf(d) /\ j = n
      BY <1>4, <1>6, <1>13, <2>4, <3>3 DEF Rested
    <3> QED BY <1>12, <3>1, <3>2, <3>3
  <2>6. dial'[d].at \notin {"unasked", "asked", "queued", "sleeping", "cooling"} /\ dial'[d].attempt = c.attempt
    BY <1>2, <1>5
  <2> QED BY <2>2, <2>3, <2>5, <2>6 DEF StartsCounted, Unstarted
<1>15. OldestNetwork(d)'
  <2>1. /\ dial[d].socket <= dial[d].lease /\ dial[d].lease <= network
        /\ \A i \in StartsOf(d) : dial[d].socket <= starts[i].network
    BY <1>0 DEF OldestNetwork, UnderWay
  <2>2. dial[d].socket \in Nat /\ dial[d].lease \in Nat
    BY <1>0 DEF Calls
  <2>3. dial[d].socket <= network
    BY <1>0, <2>1, <2>2
  <2>4. \A i \in StartsOf(d)' : c.socket <= starts'[i].network
    BY <1>2, <1>4, <1>6, <1>12, <1>13, <2>1, <2>3
  <2> QED BY <1>2, <1>3, <1>5, <2>1, <2>3, <2>4 DEF OldestNetwork
<1>16. ASSUME NEW e \in Dialler, e # d PROVE StartsCounted(e)' /\ OldestNetwork(e)'
  <2>1. StartsOf(e)' = StartsOf(e) /\ \A i \in StartsOf(e) : starts'[i] = starts[i]
    BY <1>4, <1>6, <1>16 DEF StartsOf
  <2>2. StartsCounted(e) /\ OldestNetwork(e) /\ dial'[e] = dial[e]
    BY <1>5, <1>16 DEF DialInv
  <2>3. StartsCounted(e)'
    BY <1>3, <2>1, <2>2 DEF StartsCounted, Rested
  <2>4. OldestNetwork(e)'
    BY <1>3, <2>1, <2>2 DEF OldestNetwork
  <2> QED BY <2>3, <2>4
<1> QED BY <1>9, <1>10, <1>11, <1>14, <1>15, <1>16 DEF DialInv

(* Calls of sockets keep apart, rest after a refusal, and a socket of the present
   network was dialled on it. *)
THEOREM CallsKeepApart == DialSpec => []DialSafety
<1>1. DialInv /\ [DialNext]_dialVars => DialInv'
  <2> SUFFICES ASSUME DialInv, [DialNext]_dialVars PROVE DialInv'
    OBVIOUS
  <2>1. CASE UNCHANGED dialVars
    <3>1. \A d \in Dialler : StartsOf(d)' = StartsOf(d)
      BY <2>1 DEF dialVars, StartsOf
    <3>2. DialTypeOK' /\ GateKept' /\ StartsApart'
      BY <2>1 DEF dialVars, DialInv, DialTypeOK, GateKept, StartsApart
    <3>3. ASSUME NEW d \in Dialler PROVE StartsCounted(d)' /\ OldestNetwork(d)'
      BY <2>1, <3>1 DEF dialVars, DialInv, StartsCounted, OldestNetwork, Rested
    <3> QED BY <3>2, <3>3 DEF DialInv
  <2>2. ASSUME NEW d \in Dialler, Attempt(d) PROVE DialInv'
    <3>1. PICK outcome \in Outcomes(dial[d].route) : dial' = [dial EXCEPT ![d] = Settled(d, outcome)]
      BY <2>2 DEF Attempt
    <3>2. outcome \in [ok : BOOLEAN, whose : {"origin", "proxy"}, failed : Reasons]
      BY <3>1, OutcomesHaveReasons
    <3> QED BY <2>2, <3>1, <3>2, CallSettles DEF Attempt, SettlesAt
  <2>3. ASSUME NEW d \in Dialler, AttemptTimesOut(d) PROVE DialInv'
    <3> DEFINE outcome == [ok |-> FALSE, whose |-> "origin", failed |-> "timeout"]
    <3>1. outcome \in [ok : BOOLEAN, whose : {"origin", "proxy"}, failed : Reasons]
      BY DEF Reasons
    <3>2. SettlesAt(d, outcome)
      BY <2>3 DEF AttemptTimesOut, SettlesAt
    <3> HIDE DEF outcome
    <3> QED BY <3>1, <3>2, CallSettles
  <2>4. ASSUME NEW d \in Dialler, DialInterrupted(d) \/ LeaveDial(d) PROVE DialInv'
    BY <2>4, DroppedStep DEF DialInterrupted, LeaveDial
  <2> QED BY <2>1, <2>2, <2>3, <2>4, AskForSocketStep, DialStep, EnterGateStep, StartDialStep, RedialStep,
             NetworkMovesStep, DialTickStep DEF DialNext
<1> QED BY <1>1, DialStarts, DialInvHolds, PTL DEF DialSpec

-----------------------------------------------------------------------------
(* The frames on a socket.                                                   *)

Noise       == {"ping", "binary", "close"}
AnswerKinds == {"event", "control"} \cup Finals
FrameKinds       == AnswerKinds \cup Noise \cup {"pong", "request"}
Frames      == [kind : FrameKinds, of : Nat]

ExchangeTypeOK ==
    /\ DOMAIN socket = {"state", "down", "up"}
    /\ socket.state \in {"gone", "pooled", "used"} /\ socket.down \in Seq(Frames) /\ socket.up \in Seq(Frames)
    /\ DOMAIN call = {"n", "at", "way", "origin", "pooled", "nonce", "got", "started", "quiet", "still", "end"}
    /\ call.n \in Nat /\ call.got \in Seq(Frames) /\ call.quiet \in Nat
    /\ call.at \in {"over", "connecting", "pinging", "sending", "collecting"}
    /\ DOMAIN upstream = {"busy", "ended", "said", "silent"}
    /\ upstream.busy \in Nat /\ upstream.said \in Seq(Frames) /\ upstream.silent \in Nat

\* The socket and the request that uses it.
InStep ==
    /\ call.at \in {"pinging", "sending", "collecting"} <=> socket.state = "used"
    /\ socket.state = "pooled" => call.at = "over"
    /\ call.at # "over" => call.n # 0 /\ call.end = "none"
    /\ call.at \notin {"over", "collecting"} => call.got = <<>> /\ call.quiet = 0
    /\ call.at = "pinging" => call.nonce = call.n
    /\ socket.state = "gone" => socket.down = <<>> /\ socket.up = <<>>

\* Pings and their answers bear the number of the request they were sent for.
PingsNumbered ==
    /\ \A i \in DOMAIN socket.down : socket.down[i].of <= call.n
    /\ \A i \in DOMAIN socket.up : socket.up[i].kind = "pong" => socket.up[i].of <= call.n
    /\ \A i \in DOMAIN socket.up : socket.up[i].kind # "request"

\* An answer ends once.
SaidInOrder ==
    /\ \A i \in DOMAIN upstream.said : upstream.said[i].kind \in AnswerKinds
    /\ \A i \in 1 .. Len(upstream.said) - 1 : upstream.said[i].kind \notin Finals
    /\ upstream.busy # 0 /\ ~upstream.ended => \A i \in DOMAIN upstream.said : upstream.said[i].kind \notin Finals
    /\ upstream.ended => upstream.said # <<>> /\ upstream.said[Len(upstream.said)].kind \in Finals

\* Nothing of an answer is under way, and none is asked for.
NothingDue ==
    /\ upstream.busy # 0 => upstream.ended
    /\ \A i \in DOMAIN socket.down : socket.down[i].kind = "ping"
    /\ \A i \in DOMAIN socket.up : ~IsResponseEvent(socket.up[i])

\* The ping of this request is the last thing sent, and its answer the last thing said.
Pinged ==
    /\ \A i \in DOMAIN socket.down : socket.down[i].of = call.n => i = Len(socket.down)
    /\ \A i \in DOMAIN socket.up : socket.up[i] = Frame("pong", call.n) =>
          /\ socket.down = <<>> /\ upstream.busy = 0
          /\ \A j \in i + 1 .. Len(socket.up) : socket.up[j].kind \in Noise

OnlyNoise == \A i \in DOMAIN socket.up : socket.up[i].kind \in Noise

NotYetAsked == socket.down = <<>> /\ upstream.busy = 0 /\ OnlyNoise

Asked ==
    /\ socket.down # <<>> /\ socket.down[1] = Frame("request", call.n)
    /\ \A i \in 2 .. Len(socket.down) : socket.down[i].kind = "ping"
    /\ upstream.busy = 0 /\ OnlyNoise /\ call.got = <<>>

\* What is left of full after its first k frames is on its way, in order, and
\* nothing else of any answer.
OnItsWay(up, full, k, g) ==
    /\ g \in [k + 1 .. Len(full) -> DOMAIN up]
    /\ \A i, j \in k + 1 .. Len(full) : i < j => g[i] < g[j]
    /\ \A j \in k + 1 .. Len(full) : up[g[j]] = full[j]
    /\ \A p \in DOMAIN up : up[p].kind \in AnswerKinds => \E j \in k + 1 .. Len(full) : g[j] = p

Carries(up, full, k) == \E g : OnItsWay(up, full, k, g)

\* All that was said of the request, with a trailing event or without.
FullyTold(full) ==
    \/ full = upstream.said
    \/ upstream.busy = 0 /\ upstream.ended /\ full = Append(upstream.said, Frame("control", call.n))

Begins(s, t) == Len(s) <= Len(t) /\ \A i \in 1 .. Len(s) : s[i] = t[i]

Answering ==
    /\ \A i \in DOMAIN socket.down : socket.down[i].kind = "ping"
    /\ upstream.busy = call.n \/ (upstream.busy = 0 /\ upstream.ended)
    /\ \A i \in DOMAIN call.got : call.got[i].kind \notin Finals
    /\ \E full \in Seq(Frames) :
          FullyTold(full) /\ Begins(call.got, full) /\ Carries(socket.up, full, Len(call.got))

ClocksAgree ==
    /\ call.at = "collecting" => upstream.silent = call.quiet /\ call.quiet <= Budget
    /\ call.end \in {"idle", "no_answer"} => upstream.silent >= Budget

Delivered ==
    call.at = "over" /\ call.got # <<>> =>
        Begins(call.got, upstream.said) /\ (call.end = "answered" => call.got = upstream.said)

ExchangeInv ==
    /\ ExchangeTypeOK /\ InStep /\ PingsNumbered /\ SaidInOrder /\ ClocksAgree /\ Delivered
    /\ socket.state = "pooled" \/ call.at = "pinging" => NothingDue
    /\ call.at = "pinging" => Pinged
    /\ call.at = "sending" => NotYetAsked
    /\ call.at = "collecting" => Asked \/ Answering
-----------------------------------------------------------------------------
(* Frames on their way.                                                      *)

LEMMA CarriesOf ==
    ASSUME NEW up, NEW full, NEW k, Carries(up, full, k), NEW p \in DOMAIN up, up[p].kind \in AnswerKinds
    PROVE  \E j \in k + 1 .. Len(full) : up[p] = full[j]
BY DEF Carries, OnItsWay

LEMMA CarriesNothing ==
    ASSUME NEW up, NEW full \in Seq(Frames), \A p \in DOMAIN up : up[p].kind \notin AnswerKinds
    PROVE  Carries(up, full, Len(full))
<1> DEFINE n == Len(full)
           g == [j \in n + 1 .. n |-> 0]
<1>1. n \in Nat
  OBVIOUS
<1>2. n + 1 .. n = {}
  BY <1>1
<1>3. OnItsWay(up, full, n, g)
  BY <1>2 DEF OnItsWay
<1> QED BY <1>3 DEF Carries

LEMMA CarriesMore ==
    ASSUME NEW up \in Seq(Frames), NEW full, NEW k, NEW f \in Frames, f.kind \notin AnswerKinds, Carries(up, full, k)
    PROVE  Carries(Append(up, f), full, k)
<1>1. PICK g : OnItsWay(up, full, k, g)
  BY DEF Carries
<1> DEFINE u == Append(up, f)
           n == Len(up)
<1>2. /\ n \in Nat /\ DOMAIN up = 1 .. n /\ DOMAIN u = 1 .. n + 1
      /\ \A p \in 1 .. n : u[p] = up[p]
      /\ u[n + 1] = f
  BY AppendProperties, LenProperties
<1> HIDE DEF u, n
<1>3. DOMAIN up \subseteq DOMAIN u
  BY <1>2
<1>4. \A p \in DOMAIN u : u[p].kind \in AnswerKinds => p \in DOMAIN up
  BY <1>2
<1>5. \A p \in DOMAIN up : u[p] = up[p]
  BY <1>2
<1>6. OnItsWay(u, full, k, g)
  BY <1>1, <1>3, <1>4, <1>5 DEF OnItsWay
<1> QED BY <1>6 DEF Carries, u

LEMMA CarriesAnswer ==
    ASSUME NEW up \in Seq(Frames), NEW full \in Seq(Frames), NEW k \in Nat, k <= Len(full),
           NEW f \in Frames, f.kind \in AnswerKinds, Carries(up, full, k)
    PROVE  Carries(Append(up, f), Append(full, f), k)
<1>1. PICK g : OnItsWay(up, full, k, g)
  BY DEF Carries
<1> DEFINE u == Append(up, f)
           n == Len(up)
           w == Append(full, f)
           m == Len(full)
           h == [j \in k + 1 .. m + 1 |-> IF j = m + 1 THEN n + 1 ELSE g[j]]
<1>2. /\ n \in Nat /\ DOMAIN up = 1 .. n /\ DOMAIN u = 1 .. n + 1
      /\ \A p \in 1 .. n : u[p] = up[p]
      /\ u[n + 1] = f
  BY AppendProperties, LenProperties
<1>3. /\ m \in Nat /\ k <= m /\ Len(w) = m + 1
      /\ \A p \in 1 .. m : w[p] = full[p]
      /\ w[m + 1] = f
  BY AppendProperties, LenProperties
<1>4. /\ \A j \in k + 1 .. m : g[j] \in 1 .. n /\ up[g[j]] = full[j]
      /\ \A i, j \in k + 1 .. m : i < j => g[i] < g[j]
      /\ \A p \in 1 .. n : up[p].kind \in AnswerKinds => \E j \in k + 1 .. m : g[j] = p
  BY <1>1, <1>2 DEF OnItsWay
<1> HIDE DEF u, w, n, m
<1>5. \A j \in k + 1 .. m + 1 : h[j] = IF j = m + 1 THEN n + 1 ELSE g[j]
  OBVIOUS
<1>6. \A j \in k + 1 .. m : j # m + 1 /\ j \in k + 1 .. m + 1 /\ j \in 1 .. m
  BY <1>3
<1>7. m + 1 \in k + 1 .. m + 1 /\ \A j \in k + 1 .. m + 1 : j = m + 1 \/ j \in k + 1 .. m
  BY <1>3
<1>8. h \in [k + 1 .. m + 1 -> DOMAIN u]
  BY <1>2, <1>4, <1>7
<1> HIDE DEF h
<1>9. h[m + 1] = n + 1 /\ \A j \in k + 1 .. m : h[j] = g[j]
  BY <1>5, <1>6, <1>7
<1>10. ASSUME NEW i \in k + 1 .. m + 1, NEW j \in k + 1 .. m + 1, i < j PROVE h[i] < h[j]
  <2>1. i \in k + 1 .. m
    BY <1>3, <1>10
  <2>2. CASE j = m + 1
    BY <1>2, <1>4, <1>9, <2>1, <2>2
  <2>3. CASE j \in k + 1 .. m
    BY <1>4, <1>9, <1>10, <2>1, <2>3
  <2> QED BY <1>7, <2>2, <2>3
<1>11. \A j \in k + 1 .. m + 1 : u[h[j]] = w[j]
  <2>1. ASSUME NEW j \in k + 1 .. m PROVE u[h[j]] = w[j]
    BY <1>2, <1>3, <1>4, <1>6, <1>9
  <2> QED BY <1>2, <1>3, <1>7, <1>9, <2>1
<1>12. ASSUME NEW p \in DOMAIN u, u[p].kind \in AnswerKinds PROVE \E j \in k + 1 .. m + 1 : h[j] = p
  <2>1. CASE p = n + 1
    BY <1>7, <1>9, <2>1
  <2>2. CASE p \in 1 .. n
    <3>1. PICK j \in k + 1 .. m : g[j] = p
      BY <1>2, <1>4, <1>12, <2>2
    <3> QED BY <1>6, <1>9, <3>1
  <2> QED BY <1>2, <2>1, <2>2
<1>13. OnItsWay(u, w, k, h)
  BY <1>3, <1>8, <1>10, <1>11, <1>12 DEF OnItsWay
<1> QED BY <1>13 DEF Carries, u, w

AllAnswer(full) == \A i \in DOMAIN full : full[i].kind \in AnswerKinds

LEMMA CarriesOn ==
    ASSUME NEW up \in Seq(Frames), up # <<>>, NEW full \in Seq(Frames), AllAnswer(full), NEW k \in Nat,
           Carries(up, full, k), up[1].kind \notin AnswerKinds
    PROVE  Carries(Tail(up), full, k)
<1>1. PICK g : OnItsWay(up, full, k, g)
  BY DEF Carries
<1> DEFINE u == Tail(up)
           n == Len(up)
           m == Len(full)
           J == k + 1 .. m
           h == [j \in J |-> g[j] - 1]
<1>2. /\ n \in Nat \ {0} /\ DOMAIN up = 1 .. n /\ DOMAIN u = 1 .. n - 1
      /\ \A p \in 1 .. n - 1 : u[p] = up[p + 1]
  BY HeadTailProperties, LenProperties, EmptySeq
<1>3. /\ m \in Nat /\ J \subseteq 1 .. m
      /\ \A j \in 1 .. m : full[j].kind \in AnswerKinds
  BY DEF AllAnswer
<1>4. /\ \A j \in J : g[j] \in 1 .. n /\ up[g[j]] = full[j]
      /\ \A i, j \in J : i < j => g[i] < g[j]
      /\ \A p \in 1 .. n : up[p].kind \in AnswerKinds => \E j \in J : g[j] = p
  BY <1>1, <1>2 DEF OnItsWay
<1>5. \A j \in J : h[j] = g[j] - 1
  OBVIOUS
<1>6. \A i, j \in k + 1 .. m : i \in J /\ j \in J
  OBVIOUS
<1>7. DOMAIN h = k + 1 .. m /\ h = [j \in DOMAIN h |-> h[j]]
  OBVIOUS
<1> HIDE DEF u, n, h, J
<1>8. \A j \in J : g[j] \in 2 .. n
  <2>1. ASSUME NEW j \in J PROVE g[j] # 1
    BY <1>3, <1>4
  <2> QED BY <1>2, <1>4, <2>1
<1>9. \A j \in J : h[j] \in 1 .. n - 1 /\ u[h[j]] = full[j]
  <2>1. ASSUME NEW j \in J PROVE h[j] \in 1 .. n - 1 /\ h[j] + 1 = g[j]
    BY SMTT(40), <1>2, <1>5, <1>8
  <2> QED BY <1>2, <1>4, <2>1
<1>10. \A i, j \in J : i < j => h[i] < h[j]
  <2>1. ASSUME NEW i \in J, NEW j \in J, i < j PROVE h[i] < h[j]
    <3>1. g[i] < g[j]
      BY <1>4, <2>1
    <3> QED BY <1>2, <1>5, <1>8, <3>1
  <2> QED BY <2>1
<1>11. ASSUME NEW p \in DOMAIN u, u[p].kind \in AnswerKinds PROVE \E j \in J : h[j] = p
  <2>1. p + 1 \in 1 .. n /\ up[p + 1].kind \in AnswerKinds /\ p \in 1 .. n - 1
    BY <1>2, <1>11
  <2>2. PICK j \in J : g[j] = p + 1
    BY <1>4, <2>1
  <2> QED BY <1>2, <1>5, <2>1, <2>2
<1>12. OnItsWay(u, full, k, h)
  BY <1>2, <1>6, <1>7, <1>9, <1>10, <1>11 DEF OnItsWay, J
<1> QED BY <1>12 DEF Carries, u

LEMMA CarriesTaken ==
    ASSUME NEW up \in Seq(Frames), up # <<>>, NEW full \in Seq(Frames), AllAnswer(full), NEW k \in Nat,
           Carries(up, full, k), up[1].kind \in AnswerKinds
    PROVE  k + 1 <= Len(full) /\ up[1] = full[k + 1] /\ Carries(Tail(up), full, k + 1)
<1>1. PICK g : OnItsWay(up, full, k, g)
  BY DEF Carries
<1> DEFINE u == Tail(up)
           n == Len(up)
           m == Len(full)
           J == k + 1 .. m
           K == (k + 1) + 1 .. m
           h == [j \in K |-> g[j] - 1]
<1>2. /\ n \in Nat \ {0} /\ DOMAIN up = 1 .. n /\ DOMAIN u = 1 .. n - 1
      /\ \A p \in 1 .. n - 1 : u[p] = up[p + 1]
  BY HeadTailProperties, LenProperties, EmptySeq
<1>3. m \in Nat
  OBVIOUS
<1>4. /\ \A j \in J : g[j] \in 1 .. n /\ up[g[j]] = full[j]
      /\ \A i, j \in J : i < j => g[i] < g[j]
      /\ \A p \in 1 .. n : up[p].kind \in AnswerKinds => \E j \in J : g[j] = p
  BY <1>1, <1>2 DEF OnItsWay
<1>5. \A j \in K : h[j] = g[j] - 1
  OBVIOUS
<1>6. DOMAIN h = K /\ h = [j \in DOMAIN h |-> h[j]]
  OBVIOUS
<1> HIDE DEF u, n, h
<1>7. k + 1 \in J /\ g[k + 1] = 1
  <2>1. PICK j \in J : g[j] = 1
    BY <1>2, <1>4
  <2>2. k + 1 \in J /\ (j # k + 1 => k + 1 < j)
    BY <1>3, <2>1
  <2>3. g[k + 1] \in 1 .. n
    BY <1>4, <2>2
  <2>4. j # k + 1 => g[k + 1] < 1
    BY <1>4, <2>1, <2>2
  <2> QED BY <1>2, <2>1, <2>2, <2>3, <2>4
<1>8. \A j \in K : j \in J /\ k + 1 < j
  BY <1>3
<1>9. k + 1 <= m /\ up[1] = full[k + 1]
  <2>1. up[g[k + 1]] = full[k + 1]
    BY <1>4, <1>7
  <2> QED BY <1>3, <1>7, <2>1
<1>10. \A j \in J : j \in K \/ j = k + 1
  BY <1>3
<1> HIDE DEF J, K
<1>11. \A j \in K : g[j] \in 2 .. n
  <2>1. ASSUME NEW j \in K PROVE g[j] \in 1 .. n /\ g[k + 1] < g[j]
    BY <1>4, <1>7, <1>8
  <2> QED BY <1>2, <1>7, <2>1
<1>12. \A j \in K : h[j] \in 1 .. n - 1 /\ u[h[j]] = full[j]
  <2>1. ASSUME NEW j \in K PROVE h[j] \in 1 .. n - 1 /\ h[j] + 1 = g[j]
    BY <1>2, <1>5, <1>11
  <2> QED BY <1>2, <1>4, <1>8, <2>1
<1>13. \A i, j \in K : i < j => h[i] < h[j]
  <2>1. ASSUME NEW i \in K, NEW j \in K, i < j PROVE h[i] < h[j]
    <3>1. g[i] < g[j]
      BY <1>4, <1>8, <2>1
    <3> QED BY <1>2, <1>5, <1>11, <3>1
  <2> QED BY <2>1
<1>14. ASSUME NEW p \in DOMAIN u, u[p].kind \in AnswerKinds PROVE \E j \in K : h[j] = p
  <2>1. p + 1 \in 1 .. n /\ up[p + 1].kind \in AnswerKinds /\ p \in 1 .. n - 1
    BY <1>2, <1>14
  <2>2. PICK j \in J : g[j] = p + 1
    BY <1>4, <2>1
  <2>3. j # k + 1
    BY <1>7, <2>1, <2>2
  <2> QED BY <1>2, <1>5, <1>10, <2>1, <2>2, <2>3
<1>15. OnItsWay(u, full, k + 1, h)
  BY <1>2, <1>6, <1>12, <1>13, <1>14 DEF OnItsWay, K
<1> QED BY <1>9, <1>15 DEF Carries, u, m

-----------------------------------------------------------------------------
(* A frame put behind others, and the first one taken.                       *)

Behind(s, f, t) ==
    /\ t \in Seq(Frames) /\ Len(t) = Len(s) + 1 /\ t # <<>> /\ t[Len(s) + 1] = f
    /\ \A i \in DOMAIN t : (i \in DOMAIN s /\ t[i] = s[i]) \/ (i = Len(s) + 1 /\ t[i] = f)
    /\ \A i \in DOMAIN s : i \in DOMAIN t /\ t[i] = s[i]

LEMMA PutBehind ==
    ASSUME NEW s \in Seq(Frames), NEW f \in Frames
    PROVE  Behind(s, f, Append(s, f))
<1> DEFINE t == Append(s, f)
           n == Len(s)
<1>1. /\ n \in Nat /\ DOMAIN s = 1 .. n /\ DOMAIN t = 1 .. n + 1 /\ t \in Seq(Frames) /\ Len(t) = n + 1
      /\ \A p \in 1 .. n : t[p] = s[p]
      /\ t[n + 1] = f
  BY AppendProperties, LenProperties
<1>2. t # <<>>
  BY AppendProperties
<1> HIDE DEF t
<1>3. \A i \in DOMAIN t : (i \in DOMAIN s /\ t[i] = s[i]) \/ (i = n + 1 /\ t[i] = f)
  BY <1>1
<1>4. \A i \in DOMAIN s : i \in DOMAIN t /\ t[i] = s[i]
  BY <1>1
<1> QED BY <1>1, <1>2, <1>3, <1>4 DEF Behind, t

Shorter(s, t) ==
    /\ t \in Seq(Frames) /\ Len(s) = Len(t) + 1
    /\ \A i \in DOMAIN t : i \in Nat /\ i + 1 \in DOMAIN s /\ t[i] = s[i + 1]

LEMMA FirstTaken ==
    ASSUME NEW s \in Seq(Frames), s # <<>>
    PROVE  Shorter(s, Tail(s)) /\ 1 \in DOMAIN s /\ Head(s) = s[1] /\ Head(s) \in Frames
<1> DEFINE t == Tail(s)
           n == Len(s)
<1>1. /\ n \in Nat \ {0} /\ DOMAIN s = 1 .. n /\ t \in Seq(Frames) /\ Len(t) = n - 1 /\ DOMAIN t = 1 .. n - 1
      /\ \A p \in 1 .. n - 1 : t[p] = s[p + 1]
  BY HeadTailProperties, LenProperties, EmptySeq
<1>2. Head(s) = s[1] /\ Head(s) \in Frames
  BY HeadTailProperties
<1> HIDE DEF t
<1>3. \A i \in DOMAIN t : i \in Nat /\ i + 1 \in DOMAIN s /\ t[i] = s[i + 1]
  BY <1>1
<1> QED BY <1>1, <1>2, <1>3 DEF Shorter, t

LEMMA Numbers ==
    ASSUME NEW s \in Seq(Frames), NEW i \in DOMAIN s
    PROVE  s[i] \in Frames /\ s[i].of \in Nat
<1>1. s[i] \in Frames
  OBVIOUS
<1> QED BY <1>1 DEF Frames

LEMMA KindsApart ==
    /\ "event" \in AnswerKinds /\ "control" \in AnswerKinds /\ "pong" \notin AnswerKinds /\ "ping" \notin AnswerKinds
    /\ \A kind \in Noise : kind \notin AnswerKinds /\ kind # "pong" /\ kind # "request"
    /\ \A kind \in AnswerKinds : kind \in {"event"} \cup Finals \/ kind = "control"
    /\ "event" \notin Finals /\ "control" \notin Finals
BY DEF AnswerKinds, Noise, Finals

LEMMA AFrame ==
    ASSUME NEW kind \in FrameKinds, NEW of \in Nat
    PROVE  Frame(kind, of) \in Frames /\ Frame(kind, of).kind = kind /\ Frame(kind, of).of = of
BY DEF Frame, Frames

-----------------------------------------------------------------------------
(* What the upstream says.                                                   *)

\* Only of a request whose answer is awaited is anything said.
LEMMA SaidWhileAwaited ==
    ASSUME ExchangeInv, Alive, upstream.busy # 0, ~upstream.ended
    PROVE  call.at = "collecting" /\ socket.state = "used" /\ Answering /\ upstream.busy = call.n
<1>1. socket.state # "gone"
  BY DEF Alive
<1>2. socket.state # "pooled" /\ call.at # "pinging"
  BY DEF ExchangeInv, NothingDue
<1>3. call.at \in {"pinging", "sending", "collecting"}
  BY <1>1, <1>2 DEF ExchangeInv, ExchangeTypeOK, InStep
<1>4. call.at # "sending"
  BY DEF ExchangeInv, NotYetAsked
<1>5. call.at = "collecting"
  BY <1>2, <1>3, <1>4
<1>6. Answering
  BY <1>5 DEF ExchangeInv, Asked
<1> QED BY <1>1, <1>2, <1>5, <1>6 DEF Answering, ExchangeInv, ExchangeTypeOK

LEMMA FullySaid ==
    ASSUME ExchangeInv, NEW full \in Seq(Frames), FullyTold(full)
    PROVE  AllAnswer(full)
<1>1. CASE full = upstream.said
  BY <1>1 DEF AllAnswer, ExchangeInv, SaidInOrder
<1>2. CASE full = Append(upstream.said, Frame("control", call.n))
  <2>1. call.n \in Nat /\ upstream.said \in Seq(Frames)
    BY DEF ExchangeInv, ExchangeTypeOK
  <2>2. Frame("control", call.n) \in Frames /\ Frame("control", call.n).kind = "control"
    BY <2>1, AFrame, KindsApart DEF FrameKinds
  <2>3. Behind(upstream.said, Frame("control", call.n), full)
    BY <1>2, <2>1, <2>2, PutBehind
  <2>4. \A i \in DOMAIN upstream.said : upstream.said[i].kind \in AnswerKinds
    BY DEF ExchangeInv, SaidInOrder
  <2> QED BY <2>2, <2>3, <2>4, KindsApart DEF AllAnswer, Behind
<1> QED BY <1>1, <1>2 DEF FullyTold

LEMMA AnsweredNow ==
    ASSUME \A i \in DOMAIN socket'.down : socket'.down[i].kind = "ping",
           upstream'.busy = call'.n \/ (upstream'.busy = 0 /\ upstream'.ended),
           \A i \in DOMAIN call'.got : call'.got[i].kind \notin Finals,
           NEW full \in Seq(Frames),
           \/ full = upstream'.said
           \/ upstream'.busy = 0 /\ upstream'.ended /\ full = Append(upstream'.said, Frame("control", call'.n)),
           Begins(call'.got, full), Carries(socket'.up, full, Len(call'.got))
    PROVE  Answering'
<1>1. FullyTold(full)'
  BY DEF FullyTold
<1> QED BY <1>1 DEF Answering

LEMMA Saying ==
    ASSUME ExchangeInv, Alive, upstream.busy # 0, ~upstream.ended, UNCHANGED call,
           NEW kind \in AnswerKinds, Sends(Frame(kind, upstream.busy)),
           DOMAIN upstream' = DOMAIN upstream, upstream'.busy = upstream.busy, upstream'.silent = upstream.silent,
           upstream'.said = Append(upstream.said, Frame(kind, upstream.busy)),
           upstream'.ended <=> kind \in Finals
    PROVE  ExchangeInv'
<1> DEFINE f == Frame(kind, upstream.busy)
<1>1. /\ call.at = "collecting" /\ socket.state = "used" /\ Answering /\ upstream.busy = call.n
  BY SaidWhileAwaited
<1>2. /\ ExchangeTypeOK /\ InStep /\ PingsNumbered /\ SaidInOrder /\ ClocksAgree
  BY DEF ExchangeInv
<1>3. f \in Frames /\ f.kind = kind /\ f.of = upstream.busy
  BY <1>2, AFrame DEF ExchangeTypeOK, FrameKinds
<1>4. /\ DOMAIN socket' = DOMAIN socket /\ socket'.state = socket.state /\ socket'.down = socket.down
      /\ socket'.up = Append(socket.up, f)
  BY <1>2 DEF ExchangeTypeOK, Sends
<1>5. upstream'.said = Append(upstream.said, f)
  OBVIOUS
<1>6. upstream.said \in Seq(Frames) /\ socket.up \in Seq(Frames) /\ call.got \in Seq(Frames)
  BY <1>2 DEF ExchangeTypeOK
<1>7. kind # "pong" /\ kind # "request"
  BY KindsApart DEF AnswerKinds, Finals
<1> HIDE DEF f
<1>8. Behind(socket.up, f, socket'.up) /\ Behind(upstream.said, f, upstream'.said)
  BY <1>3, <1>4, <1>5, <1>6, PutBehind
<1>9. ExchangeTypeOK'
  BY <1>2, <1>4, <1>8 DEF ExchangeTypeOK, Behind
<1>10. InStep'
  BY <1>1, <1>2, <1>4 DEF InStep
<1>11. PingsNumbered'
  BY <1>2, <1>3, <1>4, <1>7, <1>8 DEF PingsNumbered, Behind
<1>12. SaidInOrder'
  <2>1. Len(upstream.said) \in Nat /\ DOMAIN upstream.said = 1 .. Len(upstream.said)
    BY <1>6
  <2>2. \A i \in DOMAIN upstream.said : upstream.said[i].kind \in AnswerKinds /\ upstream.said[i].kind \notin Finals
    BY <1>2 DEF SaidInOrder
  <2>3. \A i \in DOMAIN upstream'.said : upstream'.said[i].kind \in AnswerKinds
    BY <1>3, <1>8, <2>2 DEF Behind
  <2>4. \A i \in 1 .. Len(upstream'.said) - 1 : upstream'.said[i].kind \notin Finals
    <3>1. \A i \in 1 .. Len(upstream'.said) - 1 : i \in DOMAIN upstream.said
      BY <1>8, <2>1 DEF Behind
    <3>2. \A i \in DOMAIN upstream.said : upstream'.said[i] = upstream.said[i]
      BY <1>8 DEF Behind
    <3> QED BY <2>2, <3>1, <3>2
  <2>5. ~upstream'.ended => \A i \in DOMAIN upstream'.said : upstream'.said[i].kind \notin Finals
    BY <1>3, <1>8, <2>2 DEF Behind
  <2>6. upstream'.ended => upstream'.said # <<>> /\ upstream'.said[Len(upstream'.said)].kind \in Finals
    BY <1>3, <1>8 DEF Behind
  <2> QED BY <2>3, <2>4, <2>5, <2>6 DEF SaidInOrder
<1>13. ClocksAgree'
  BY <1>2 DEF ClocksAgree
<1>14. Answering'
  <2>1. PICK full \in Seq(Frames) : FullyTold(full) /\ Begins(call.got, full) /\ Carries(socket.up, full, Len(call.got))
    BY <1>1 DEF Answering
  <2>2. full = upstream.said
    BY <2>1 DEF FullyTold
  <2>3. Len(call.got) \in Nat /\ Len(call.got) <= Len(full) /\ \A i \in 1 .. Len(call.got) : call.got[i] = full[i]
    BY <1>6, <2>1 DEF Begins
  <2>4. Carries(socket'.up, upstream'.said, Len(call.got))
    BY <1>3, <1>4, <1>5, <1>6, <2>1, <2>2, <2>3, CarriesAnswer
  <2>5. Begins(call.got, upstream'.said)
    <3>1. Len(call.got) <= Len(upstream'.said)
      BY <1>6, <1>8, <2>2, <2>3 DEF Behind
    <3>2. \A i \in 1 .. Len(call.got) : i \in DOMAIN upstream.said
      BY <1>6, <2>2, <2>3
    <3>3. \A i \in DOMAIN upstream.said : upstream'.said[i] = upstream.said[i]
      BY <1>8 DEF Behind
    <3> QED BY <2>2, <2>3, <3>1, <3>2, <3>3 DEF Begins
  <2>6. upstream'.said \in Seq(Frames)
    BY <1>8 DEF Behind
  <2>7. /\ \A i \in DOMAIN socket'.down : socket'.down[i].kind = "ping"
        /\ upstream'.busy = call'.n
        /\ \A i \in DOMAIN call'.got : call'.got[i].kind \notin Finals
    BY <1>1, <1>4 DEF Answering
  <2> QED BY <2>4, <2>5, <2>6, <2>7, AnsweredNow
<1> QED BY <1>1, <1>4, <1>9, <1>10, <1>11, <1>12, <1>13, <1>14 DEF ExchangeInv, Delivered

\* Nothing is added to what was said, and nothing more is awaited than before.
LEMMA SaidStays ==
    ASSUME SaidInOrder, upstream'.said = upstream.said, upstream'.ended => upstream.ended,
           upstream'.busy = 0 \/ (upstream'.busy = upstream.busy /\ (upstream.ended => upstream'.ended))
    PROVE  SaidInOrder'
<1>1. /\ \A i \in DOMAIN upstream'.said : upstream'.said[i].kind \in AnswerKinds
      /\ \A i \in 1 .. Len(upstream'.said) - 1 : upstream'.said[i].kind \notin Finals
  BY DEF SaidInOrder
<1>2. upstream'.busy # 0 /\ ~upstream'.ended => \A i \in DOMAIN upstream'.said : upstream'.said[i].kind \notin Finals
  BY DEF SaidInOrder
<1>3. upstream'.ended => upstream'.said # <<>> /\ upstream'.said[Len(upstream'.said)].kind \in Finals
  BY DEF SaidInOrder
<1> QED BY <1>1, <1>2, <1>3 DEF SaidInOrder

LEMMA SayKeeps ==
    ASSUME ExchangeInv, Say \/ SayFinal
    PROVE  ExchangeInv'
<1>1. CASE Say
  <2>1. PICK kind \in {"event", "control"} :
           /\ Sends(Frame(kind, upstream.busy))
           /\ upstream' = [upstream EXCEPT !.said = Append(@, Frame(kind, upstream.busy))]
    BY <1>1 DEF Say
  <2>2. /\ DOMAIN upstream' = DOMAIN upstream /\ upstream'.busy = upstream.busy /\ upstream'.silent = upstream.silent
        /\ upstream'.said = Append(upstream.said, Frame(kind, upstream.busy))
        /\ upstream'.ended = upstream.ended
    BY <2>1 DEF ExchangeInv, ExchangeTypeOK
  <2>3. Alive /\ upstream.busy # 0 /\ ~upstream.ended /\ UNCHANGED call
    BY <1>1 DEF Say
  <2>4. kind \in AnswerKinds /\ kind \notin Finals
    BY KindsApart
  <2>5. upstream'.ended <=> kind \in Finals
    BY <2>2, <2>3, <2>4
  <2> QED BY <2>1, <2>2, <2>3, <2>4, <2>5, Saying
<1>2. CASE SayFinal
  <2>1. PICK kind \in Finals :
           /\ Sends(Frame(kind, upstream.busy))
           /\ upstream' = [upstream EXCEPT !.said = Append(@, Frame(kind, upstream.busy)), !.ended = TRUE]
    BY <1>2 DEF SayFinal
  <2>2. /\ DOMAIN upstream' = DOMAIN upstream /\ upstream'.busy = upstream.busy /\ upstream'.silent = upstream.silent
        /\ upstream'.said = Append(upstream.said, Frame(kind, upstream.busy))
        /\ upstream'.ended
    BY <2>1 DEF ExchangeInv, ExchangeTypeOK
  <2>3. Alive /\ upstream.busy # 0 /\ ~upstream.ended /\ UNCHANGED call
    BY <1>2 DEF SayFinal
  <2>4. kind \in AnswerKinds
    BY DEF AnswerKinds
  <2>5. upstream'.ended <=> kind \in Finals
    BY <2>2
  <2> QED BY <2>1, <2>2, <2>3, <2>4, <2>5, Saying
<1> QED BY <1>1, <1>2

\* It has nothing more to say of a request, except perhaps a trailing event.
LEMMA FinishSayingKeeps ==
    ASSUME ExchangeInv, FinishSaying
    PROVE  ExchangeInv'
<1> DEFINE f == Frame("control", upstream.busy)
<1>1. /\ ExchangeTypeOK /\ InStep /\ PingsNumbered /\ SaidInOrder /\ ClocksAgree /\ Delivered
  BY DEF ExchangeInv
<1>2. Alive /\ upstream.busy # 0 /\ upstream.ended /\ UNCHANGED call
  BY DEF FinishSaying
<1>3. /\ DOMAIN upstream' = DOMAIN upstream /\ upstream'.busy = 0 /\ upstream'.silent = upstream.silent
      /\ upstream'.said = upstream.said /\ upstream'.ended
  BY <1>1, <1>2 DEF ExchangeTypeOK, FinishSaying
<1>4. f \in Frames /\ f.kind = "control" /\ f.of = upstream.busy
  BY <1>1, AFrame, KindsApart DEF ExchangeTypeOK, FrameKinds
<1>5. /\ DOMAIN socket' = DOMAIN socket /\ socket'.state = socket.state /\ socket'.down = socket.down
      /\ socket'.up = socket.up \/ socket'.up = Append(socket.up, f)
  BY <1>1 DEF ExchangeTypeOK, Sends, FinishSaying
<1>6. socket.state # "gone"
  BY <1>2 DEF Alive
<1>7. upstream.said \in Seq(Frames) /\ socket.up \in Seq(Frames) /\ call.got \in Seq(Frames)
  BY <1>1 DEF ExchangeTypeOK
<1> HIDE DEF f
<1>8. socket'.up = socket.up \/ Behind(socket.up, f, socket'.up)
  BY <1>4, <1>5, <1>7, PutBehind
<1>9. ExchangeTypeOK'
  BY <1>1, <1>2, <1>3, <1>5, <1>8 DEF ExchangeTypeOK, Behind
<1>10. InStep'
  BY <1>1, <1>2, <1>5, <1>6 DEF InStep
<1>11. PingsNumbered'
  BY <1>1, <1>2, <1>4, <1>5, <1>8 DEF PingsNumbered, Behind
<1>12. SaidInOrder'
  BY <1>1, <1>2, <1>3, SaidStays
<1>13. ClocksAgree' /\ Delivered'
  BY <1>1, <1>2, <1>3 DEF ClocksAgree, Delivered
<1>14. NothingDue => NothingDue'
  BY <1>3, <1>4, <1>5, <1>8 DEF NothingDue, IsResponseEvent, Finals, Behind
<1>15. Pinged => Pinged'
  <2> HAVE Pinged
  <2>1. \A i \in DOMAIN socket.up : socket.up[i] # Frame("pong", call.n)
    BY <1>2 DEF Pinged
  <2>2. f # Frame("pong", call.n)
    BY <1>4 DEF Frame
  <2>3. \A i \in DOMAIN socket'.up : socket'.up[i] # Frame("pong", call.n)
    BY <1>8, <2>1, <2>2 DEF Behind
  <2>4. \A i \in DOMAIN socket'.down : socket'.down[i].of = call'.n => i = Len(socket'.down)
    BY <1>2, <1>5 DEF Pinged
  <2> QED BY <1>2, <2>3, <2>4 DEF Pinged
<1>16. ~NotYetAsked /\ ~Asked
  BY <1>2 DEF NotYetAsked, Asked
<1>17. Answering => Answering'
  <2> HAVE Answering
  <2>1. PICK full \in Seq(Frames) : FullyTold(full) /\ Begins(call.got, full) /\ Carries(socket.up, full, Len(call.got))
    BY DEF Answering
  <2>2. full = upstream.said /\ upstream.busy = call.n
    BY <1>2, <2>1 DEF FullyTold, Answering
  <2>3. /\ \A i \in DOMAIN socket'.down : socket'.down[i].kind = "ping"
        /\ \A i \in DOMAIN call'.got : call'.got[i].kind \notin Finals
    BY <1>2, <1>5 DEF Answering
  <2>4. CASE socket'.up = socket.up
    BY <1>2, <1>3, <2>1, <2>2, <2>3, <2>4, AnsweredNow
  <2>5. CASE socket'.up = Append(socket.up, f)
    <3> DEFINE more == Append(upstream.said, f)
    <3>1. Behind(upstream.said, f, more)
      BY <1>4, <1>7, PutBehind
    <3>2. Len(call.got) \in Nat /\ Len(call.got) <= Len(full) /\ \A i \in 1 .. Len(call.got) : call.got[i] = full[i]
      BY <1>7, <2>1 DEF Begins
    <3>3. Carries(Append(socket.up, f), Append(full, f), Len(call.got))
      BY <1>4, <1>7, <2>1, <3>2, CarriesAnswer, KindsApart
    <3>4. f = Frame("control", call'.n)
      BY <1>2, <2>2 DEF f
    <3> HIDE DEF more
    <3>5. Begins(call.got, more)
      <4>1. Len(call.got) <= Len(more)
        BY <1>7, <2>2, <3>1, <3>2 DEF Behind
      <4>2. \A i \in 1 .. Len(call.got) : i \in DOMAIN upstream.said
        BY <1>7, <2>2, <3>2
      <4>3. \A i \in DOMAIN upstream.said : more[i] = upstream.said[i]
        BY <3>1 DEF Behind
      <4> QED BY <2>2, <3>2, <4>1, <4>2, <4>3 DEF Begins
    <3>6. more = Append(upstream'.said, Frame("control", call'.n)) /\ more \in Seq(Frames)
      BY <1>3, <3>1, <3>4 DEF more, Behind
    <3>7. Carries(socket'.up, more, Len(call'.got)) /\ Begins(call'.got, more)
      BY <1>2, <2>2, <2>5, <3>3, <3>5 DEF more
    <3> QED BY <1>3, <2>3, <3>6, <3>7, AnsweredNow
  <2> QED BY <1>5, <2>4, <2>5
<1> QED BY <1>2, <1>5, <1>9, <1>10, <1>11, <1>12, <1>13, <1>14, <1>15, <1>16, <1>17 DEF ExchangeInv

LEMMA InterjectKeeps ==
    ASSUME ExchangeInv, Interject
    PROVE  ExchangeInv'
<1>1. /\ ExchangeTypeOK /\ InStep /\ PingsNumbered /\ SaidInOrder /\ ClocksAgree /\ Delivered
  BY DEF ExchangeInv
<1>2. PICK kind \in Noise : Sends(Frame(kind, 0))
  BY DEF Interject, Noise
<1>3. Alive /\ UNCHANGED <<call, upstream>>
  BY DEF Interject
<1> DEFINE f == Frame(kind, 0)
<1>4. f \in Frames /\ f.kind \in Noise /\ f.of = 0
  BY AFrame DEF FrameKinds
<1>5. /\ DOMAIN socket' = DOMAIN socket /\ socket'.state = socket.state /\ socket'.down = socket.down
      /\ socket'.up = Append(socket.up, f)
  BY <1>1, <1>2 DEF ExchangeTypeOK, Sends
<1>6. socket.state # "gone"
  BY <1>3 DEF Alive
<1>7. upstream.said \in Seq(Frames) /\ socket.up \in Seq(Frames) /\ call.got \in Seq(Frames)
  BY <1>1 DEF ExchangeTypeOK
<1>8. f.kind \notin AnswerKinds /\ f.kind # "pong" /\ f.kind # "request" /\ ~IsResponseEvent(f)
  BY <1>4, KindsApart DEF IsResponseEvent, Noise, Finals
<1> HIDE DEF f
<1>9. Behind(socket.up, f, socket'.up)
  BY <1>4, <1>5, <1>7, PutBehind
<1>10. ExchangeTypeOK'
  BY <1>1, <1>3, <1>5, <1>9 DEF ExchangeTypeOK, Behind
<1>11. InStep'
  BY <1>1, <1>3, <1>5, <1>6 DEF InStep
<1>12. PingsNumbered'
  BY <1>1, <1>3, <1>5, <1>8, <1>9 DEF PingsNumbered, Behind
<1>13. SaidInOrder' /\ ClocksAgree' /\ Delivered'
  BY <1>1, <1>3 DEF SaidInOrder, ClocksAgree, Delivered
<1>14. NothingDue => NothingDue'
  BY <1>3, <1>5, <1>8, <1>9 DEF NothingDue, Behind
<1>15. Pinged => Pinged'
  <2> HAVE Pinged
  <2>1. \A i \in DOMAIN socket'.down : socket'.down[i].of = call'.n => i = Len(socket'.down)
    BY <1>3, <1>5 DEF Pinged
  <2>2. ASSUME NEW i \in DOMAIN socket'.up, socket'.up[i] = Frame("pong", call'.n)
        PROVE  /\ socket'.down = <<>> /\ upstream'.busy = 0
               /\ \A j \in i + 1 .. Len(socket'.up) : socket'.up[j].kind \in Noise
    <3>1. f # Frame("pong", call'.n)
      BY <1>8 DEF Frame
    <3>2. i \in DOMAIN socket.up /\ socket.up[i] = Frame("pong", call.n)
      BY <1>3, <1>9, <2>2, <3>1 DEF Behind
    <3>3. socket'.down = <<>> /\ upstream'.busy = 0
      BY <1>3, <1>5, <3>2 DEF Pinged
    <3>4. \A j \in i + 1 .. Len(socket.up) : socket.up[j].kind \in Noise
      BY <3>2 DEF Pinged
    <3>5. ASSUME NEW j \in i + 1 .. Len(socket'.up) PROVE socket'.up[j].kind \in Noise
      <4>1. DOMAIN socket.up = 1 .. Len(socket.up) /\ Len(socket.up) \in Nat /\ Len(socket'.up) = Len(socket.up) + 1
        BY <1>7, <1>9 DEF Behind
      <4>2. j = Len(socket.up) + 1 \/ (j \in i + 1 .. Len(socket.up) /\ j \in DOMAIN socket.up)
        BY <3>2, <4>1
      <4> QED BY <1>4, <1>9, <3>4, <4>2 DEF Behind
    <3> QED BY <3>3, <3>5
  <2> QED BY <2>1, <2>2 DEF Pinged
<1>16. OnlyNoise => OnlyNoise'
  BY <1>4, <1>9 DEF OnlyNoise, Behind
<1>17. (NotYetAsked => NotYetAsked') /\ (Asked => Asked')
  BY <1>3, <1>5, <1>16 DEF NotYetAsked, Asked
<1>18. Answering => Answering'
  <2> HAVE Answering
  <2>1. PICK full \in Seq(Frames) : FullyTold(full) /\ Begins(call.got, full) /\ Carries(socket.up, full, Len(call.got))
    BY DEF Answering
  <2>2. Carries(socket'.up, full, Len(call'.got))
    BY <1>3, <1>4, <1>5, <1>7, <1>8, <2>1, CarriesMore
  <2>3. /\ \A i \in DOMAIN socket'.down : socket'.down[i].kind = "ping"
        /\ upstream'.busy = call'.n \/ (upstream'.busy = 0 /\ upstream'.ended)
        /\ \A i \in DOMAIN call'.got : call'.got[i].kind \notin Finals
        /\ Begins(call'.got, full)
    BY <1>3, <1>5, <2>1 DEF Answering
  <2>4. \/ full = upstream'.said
        \/ upstream'.busy = 0 /\ upstream'.ended /\ full = Append(upstream'.said, Frame("control", call'.n))
    BY <1>3, <2>1 DEF FullyTold
  <2> QED BY <2>2, <2>3, <2>4, AnsweredNow
<1> QED BY <1>3, <1>5, <1>10, <1>11, <1>12, <1>13, <1>14, <1>15, <1>17, <1>18 DEF ExchangeInv

\* It answers a ping.
LEMMA AnswerPingKeeps ==
    ASSUME ExchangeInv, Alive, socket.down # <<>>, upstream.busy = 0, Head(socket.down).kind = "ping",
           socket' = [socket EXCEPT !.down = Tail(@), !.up = Append(@, Frame("pong", Head(socket.down).of))],
           UNCHANGED <<call, upstream>>
    PROVE  ExchangeInv'
<1> DEFINE h == Head(socket.down)
           f == Frame("pong", h.of)
<1>1. /\ ExchangeTypeOK /\ InStep /\ PingsNumbered /\ SaidInOrder /\ ClocksAgree /\ Delivered
  BY DEF ExchangeInv
<1>2. upstream.said \in Seq(Frames) /\ socket.up \in Seq(Frames) /\ call.got \in Seq(Frames) /\ socket.down \in Seq(Frames)
  BY <1>1 DEF ExchangeTypeOK
<1>3. /\ DOMAIN socket' = DOMAIN socket /\ socket'.state = socket.state /\ socket'.down = Tail(socket.down)
      /\ socket'.up = Append(socket.up, f)
  BY <1>1 DEF ExchangeTypeOK
<1>4. Shorter(socket.down, socket'.down) /\ 1 \in DOMAIN socket.down /\ h = socket.down[1] /\ h \in Frames
  BY <1>2, <1>3, FirstTaken
<1>5. h.of \in Nat /\ h.of <= call.n /\ h.kind = "ping"
  BY <1>1, <1>4 DEF PingsNumbered, Frames
<1>6. f \in Frames /\ f.kind = "pong" /\ f.of = h.of
  BY <1>5, AFrame DEF FrameKinds
<1>7. socket.state # "gone"
  BY DEF Alive
<1>8. f.kind \notin AnswerKinds /\ ~IsResponseEvent(f)
  BY <1>6, KindsApart DEF IsResponseEvent, Finals
<1> HIDE DEF f, h
<1>9. Behind(socket.up, f, socket'.up)
  BY <1>2, <1>3, <1>6, PutBehind
<1>10. ExchangeTypeOK'
  BY <1>1, <1>3, <1>4, <1>9 DEF ExchangeTypeOK, Behind, Shorter
<1>11. InStep'
  BY <1>1, <1>3, <1>7 DEF InStep
<1>12. PingsNumbered'
  <2>1. \A i \in DOMAIN socket'.down : socket'.down[i].of <= call'.n
    BY <1>1, <1>4 DEF PingsNumbered, Shorter
  <2>2. \A i \in DOMAIN socket'.up : /\ socket'.up[i].kind = "pong" => socket'.up[i].of <= call'.n
                                     /\ socket'.up[i].kind # "request"
    BY <1>1, <1>5, <1>6, <1>9 DEF PingsNumbered, Behind
  <2> QED BY <2>1, <2>2 DEF PingsNumbered
<1>13. SaidInOrder' /\ ClocksAgree' /\ Delivered'
  BY <1>1 DEF SaidInOrder, ClocksAgree, Delivered
<1>14. \A i \in DOMAIN socket'.down : \E j \in DOMAIN socket.down : socket'.down[i] = socket.down[j]
  BY <1>4 DEF Shorter
<1>15. NothingDue => NothingDue'
  BY <1>8, <1>9, <1>14 DEF NothingDue, Behind
<1>16. Pinged => Pinged'
  <2> HAVE Pinged
  <2>1. Len(socket.down) \in Nat /\ Len(socket'.down) = Len(socket.down) - 1
    BY <1>2, <1>4 DEF Shorter
  <2>2. ASSUME NEW i \in DOMAIN socket'.down, socket'.down[i].of = call'.n PROVE i = Len(socket'.down)
    <3>1. i \in Nat /\ i + 1 \in DOMAIN socket.down /\ socket.down[i + 1].of = call.n
      BY <1>4, <2>2 DEF Shorter
    <3>2. i + 1 = Len(socket.down)
      BY <3>1 DEF Pinged
    <3> QED BY <2>1, <3>1, <3>2
  <2>3. ASSUME NEW i \in DOMAIN socket'.up, socket'.up[i] = Frame("pong", call'.n)
        PROVE  /\ socket'.down = <<>> /\ upstream'.busy = 0
               /\ \A j \in i + 1 .. Len(socket'.up) : socket'.up[j].kind \in Noise
    <3>1. i = Len(socket.up) + 1 /\ f = Frame("pong", call.n)
      BY <1>9, <2>3 DEF Behind, Pinged
    <3>2. h.of = call.n
      BY <1>6, <3>1 DEF Frame
    <3>3. 1 = Len(socket.down)
      BY <1>4, <3>2 DEF Pinged
    <3>4. socket'.down = <<>>
      BY <1>4, <2>1, <3>3, EmptySeq DEF Shorter
    <3>5. \A j \in i + 1 .. Len(socket'.up) : FALSE
      BY <1>2, <1>9, <3>1 DEF Behind
    <3> QED BY <3>4, <3>5
  <2> QED BY <2>2, <2>3 DEF Pinged
<1>17. ~NotYetAsked /\ ~Asked
  BY <1>4, <1>5 DEF NotYetAsked, Asked, Frame
<1>18. Answering => Answering'
  <2> HAVE Answering
  <2>1. PICK full \in Seq(Frames) : FullyTold(full) /\ Begins(call.got, full) /\ Carries(socket.up, full, Len(call.got))
    BY DEF Answering
  <2>2. Carries(socket'.up, full, Len(call'.got))
    BY <1>2, <1>3, <1>6, <1>8, <2>1, CarriesMore
  <2>3. /\ \A i \in DOMAIN socket'.down : socket'.down[i].kind = "ping"
        /\ upstream'.busy = call'.n \/ (upstream'.busy = 0 /\ upstream'.ended)
        /\ \A i \in DOMAIN call'.got : call'.got[i].kind \notin Finals
        /\ Begins(call'.got, full)
    BY <1>14, <2>1 DEF Answering
  <2>4. \/ full = upstream'.said
        \/ upstream'.busy = 0 /\ upstream'.ended /\ full = Append(upstream'.said, Frame("control", call'.n))
    BY <2>1 DEF FullyTold
  <2> QED BY <2>2, <2>3, <2>4, AnsweredNow
<1> QED BY <1>3, <1>10, <1>11, <1>12, <1>13, <1>15, <1>16, <1>17, <1>18 DEF ExchangeInv

\* It turns to a request.
LEMMA TakeRequestKeeps ==
    ASSUME ExchangeInv, Alive, socket.down # <<>>, upstream.busy = 0, Head(socket.down).kind # "ping",
           socket' = [socket EXCEPT !.down = Tail(@)],
           upstream' = [upstream EXCEPT !.busy = Head(socket.down).of, !.ended = FALSE, !.said = <<>>],
           UNCHANGED call
    PROVE  ExchangeInv'
<1> DEFINE h == Head(socket.down)
<1>1. /\ ExchangeTypeOK /\ InStep /\ PingsNumbered /\ SaidInOrder /\ ClocksAgree /\ Delivered
  BY DEF ExchangeInv
<1>2. upstream.said \in Seq(Frames) /\ socket.up \in Seq(Frames) /\ call.got \in Seq(Frames) /\ socket.down \in Seq(Frames)
  BY <1>1 DEF ExchangeTypeOK
<1>3. /\ DOMAIN socket' = DOMAIN socket /\ socket'.state = socket.state /\ socket'.down = Tail(socket.down)
      /\ socket'.up = socket.up
  BY <1>1 DEF ExchangeTypeOK
<1>4. Shorter(socket.down, socket'.down) /\ 1 \in DOMAIN socket.down /\ h = socket.down[1] /\ h \in Frames
  BY <1>2, <1>3, FirstTaken
<1>5. /\ DOMAIN upstream' = DOMAIN upstream /\ upstream'.busy = h.of /\ ~upstream'.ended
      /\ upstream'.said = <<>> /\ upstream'.silent = upstream.silent
  BY <1>1 DEF ExchangeTypeOK
<1>6. socket.state # "gone" /\ h.kind # "ping"
  BY DEF Alive
<1> HIDE DEF h
<1>7. ~NothingDue
  BY <1>4, <1>6 DEF NothingDue
<1>8. call.at = "collecting"
  <2>1. call.at # "sending"
    BY DEF ExchangeInv, NotYetAsked
  <2>2. socket.state = "used" /\ call.at # "pinging"
    BY <1>1, <1>6, <1>7 DEF ExchangeInv, ExchangeTypeOK
  <2> QED BY <1>1, <2>1, <2>2 DEF InStep
<1>9. Asked
  BY <1>4, <1>6, <1>8 DEF ExchangeInv, Answering
<1>10. h.of = call.n /\ call.n \in Nat
  BY <1>1, <1>4, <1>9 DEF ExchangeTypeOK, Asked, Frame
<1>11. ExchangeTypeOK'
  BY <1>1, <1>3, <1>4, <1>5, <1>10 DEF ExchangeTypeOK, Shorter
<1>12. InStep'
  BY <1>1, <1>3, <1>6 DEF InStep
<1>13. PingsNumbered'
  <2>1. \A i \in DOMAIN socket'.down : socket'.down[i].of <= call'.n
    BY <1>1, <1>4 DEF PingsNumbered, Shorter
  <2> QED BY <1>1, <1>3, <2>1 DEF PingsNumbered
<1>14. SaidInOrder'
  BY <1>5 DEF SaidInOrder
<1>15. ClocksAgree' /\ Delivered'
  BY <1>1, <1>5, <1>8 DEF ClocksAgree, Delivered
<1>16. Answering'
  <2>1. <<>> \in Seq(Frames) /\ Len(<<>>) = 0 /\ call.got = <<>>
    BY <1>9 DEF Asked
  <2>2. \A p \in DOMAIN socket.up : socket.up[p].kind \notin AnswerKinds
    BY <1>9, KindsApart DEF Asked, OnlyNoise
  <2>3. Carries(socket.up, <<>>, Len(<<>>))
    BY <2>1, <2>2, CarriesNothing
  <2>4. Carries(socket'.up, <<>>, Len(call'.got)) /\ Begins(call'.got, <<>>)
    BY <1>3, <2>1, <2>3 DEF Begins
  <2>5. \A i \in DOMAIN socket'.down : socket'.down[i].kind = "ping"
    <3>1. ASSUME NEW i \in DOMAIN socket'.down PROVE i + 1 \in 2 .. Len(socket.down) /\ socket'.down[i] = socket.down[i + 1]
      <4>1. i \in Nat /\ i + 1 \in DOMAIN socket.down /\ socket'.down[i] = socket.down[i + 1]
        BY <1>4 DEF Shorter
      <4>2. i # 0 /\ DOMAIN socket.down = 1 .. Len(socket.down) /\ Len(socket.down) \in Nat
        BY <1>2, <1>4 DEF Shorter
      <4> QED BY <4>1, <4>2
    <3> QED BY <1>9, <3>1 DEF Asked
  <2>6. upstream'.busy = call'.n /\ \A i \in DOMAIN call'.got : call'.got[i].kind \notin Finals
    BY <1>5, <1>10, <2>1
  <2> QED BY <1>5, <2>1, <2>4, <2>5, <2>6, AnsweredNow
<1> QED BY <1>3, <1>6, <1>8, <1>11, <1>12, <1>13, <1>14, <1>15, <1>16 DEF ExchangeInv, InStep

LEMMA TakeFrameKeeps ==
    ASSUME ExchangeInv, TakeFrame
    PROVE  ExchangeInv'
<1>1. Alive /\ socket.down # <<>> /\ upstream.busy = 0 /\ UNCHANGED call
  BY DEF TakeFrame
<1>2. CASE Head(socket.down).kind = "ping"
  BY <1>1, <1>2, AnswerPingKeeps DEF TakeFrame
<1>3. CASE Head(socket.down).kind # "ping"
  BY <1>1, <1>3, TakeRequestKeeps DEF TakeFrame
<1> QED BY <1>2, <1>3

-----------------------------------------------------------------------------
(* The request.                                                              *)

CallFields == {"n", "at", "way", "origin", "pooled", "nonce", "got", "started", "quiet", "still", "end"}

\* A request that begins has collected nothing.
Anew(c, n) == DOMAIN c = CallFields /\ c.n = n /\ c.got = <<>> /\ c.quiet = 0

LEMMA BeginKeeps ==
    ASSUME ExchangeInv, BeginExchange
    PROVE  ExchangeInv'
<1>1. /\ ExchangeTypeOK /\ InStep /\ PingsNumbered /\ SaidInOrder /\ ClocksAgree /\ Delivered
  BY DEF ExchangeInv
<1>2. call.at = "over" /\ UNCHANGED <<upstream, trouble>>
  BY DEF BeginExchange
<1>3. call.n \in Nat /\ socket.up \in Seq(Frames) /\ socket.down \in Seq(Frames)
  BY <1>1 DEF ExchangeTypeOK
<1>4. PICK way \in {"buffered", "stream"}, origin \in BOOLEAN :
          LET next == [NoCall EXCEPT !.n = call.n + 1, !.way = way, !.origin = origin] IN
          CASE socket.state = "pooled" ->
                 /\ call' = [next EXCEPT !.at = "pinging", !.pooled = TRUE, !.nonce = call.n + 1]
                 /\ socket' = [socket EXCEPT !.state = "used", !.down = Append(@, Frame("ping", call.n + 1))]
            [] socket.state = "gone" /\ origin ->
                 call' = [next EXCEPT !.end = "origin_missing"] /\ UNCHANGED socket
            [] OTHER -> call' = [next EXCEPT !.at = "connecting"] /\ UNCHANGED socket
  BY DEF BeginExchange
<1> DEFINE next == [NoCall EXCEPT !.n = call.n + 1, !.way = way, !.origin = origin]
           f == Frame("ping", call.n + 1)
<1>5. Anew(next, call.n + 1) /\ next.at = "over" /\ next.end = "none"
  BY DEF NoCall, Anew, CallFields
<1> HIDE DEF next
<1>6. CASE socket.state = "pooled"
  <2>1. /\ call' = [next EXCEPT !.at = "pinging", !.pooled = TRUE, !.nonce = call.n + 1]
        /\ socket' = [socket EXCEPT !.state = "used", !.down = Append(@, f)]
    BY <1>4, <1>6 DEF next
  <2>2. Anew(call', call.n + 1) /\ call'.at = "pinging" /\ call'.nonce = call.n + 1 /\ call'.end = "none"
    BY <1>5, <2>1 DEF Anew, CallFields
  <2>3. DOMAIN socket' = DOMAIN socket /\ socket'.state = "used" /\ socket'.down = Append(socket.down, f) /\ socket'.up = socket.up
    BY <1>1, <2>1 DEF ExchangeTypeOK
  <2>4. f \in Frames /\ f.kind = "ping" /\ f.of = call.n + 1
    <3>1. call.n + 1 \in Nat /\ "ping" \in FrameKinds
      BY <1>3 DEF FrameKinds, Noise
    <3> QED BY <3>1, AFrame
  <2> HIDE DEF f
  <2>5. Behind(socket.down, f, socket'.down)
    BY <1>3, <2>3, <2>4, PutBehind
  <2>6. ExchangeTypeOK'
    BY <1>1, <1>2, <1>3, <2>2, <2>3, <2>5 DEF ExchangeTypeOK, Behind, Anew, CallFields
  <2>7. InStep'
    BY <1>3, <2>2, <2>3 DEF InStep, Anew
  <2>8. PingsNumbered'
    <3>1. \A i \in DOMAIN socket'.down : socket'.down[i].of \in Nat /\ socket'.down[i].of <= call'.n
      <4>1. \A i \in DOMAIN socket.down : socket.down[i].of \in Nat
        BY <1>3, Numbers
      <4> QED BY <1>1, <1>3, <2>2, <2>4, <2>5, <4>1 DEF PingsNumbered, Behind, Anew
    <3>2. \A i \in DOMAIN socket.up : socket.up[i].of \in Nat
      BY <1>3, Numbers
    <3>3. \A i \in DOMAIN socket.up : socket.up[i].kind = "pong" => socket.up[i].of <= call.n
      BY <1>1 DEF PingsNumbered
    <3>4. \A i \in DOMAIN socket.up : socket.up[i].kind = "pong" => socket.up[i].of <= call.n + 1
      BY <1>3, <3>2, <3>3
    <3> QED BY <1>1, <2>2, <2>3, <3>1, <3>4 DEF PingsNumbered, Anew
  <2>9. SaidInOrder' /\ ClocksAgree' /\ Delivered'
    BY <1>1, <1>2, <2>2 DEF SaidInOrder, ClocksAgree, Delivered
  <2>10. NothingDue'
    <3>1. NothingDue
      BY <1>6 DEF ExchangeInv
    <3> QED BY <1>2, <2>3, <2>4, <2>5, <3>1 DEF NothingDue, Behind
  <2>11. Pinged'
    <3>1. \A i \in DOMAIN socket'.down : socket'.down[i].of = call'.n => i = Len(socket'.down)
      <4>1. \A i \in DOMAIN socket.down : socket.down[i].of \in Nat /\ socket.down[i].of <= call.n
        BY <1>1, <1>3, Numbers DEF PingsNumbered
      <4>2. \A i \in DOMAIN socket.down : socket.down[i].of # call.n + 1
        BY <1>3, <4>1
      <4> QED BY <2>2, <2>5, <4>2 DEF Behind, Anew
    <3>2. \A i \in DOMAIN socket'.up : socket'.up[i] # Frame("pong", call'.n)
      <4>1. Frame("pong", call.n + 1).kind = "pong" /\ Frame("pong", call.n + 1).of = call.n + 1
        BY DEF Frame
      <4>2. ASSUME NEW i \in DOMAIN socket.up, socket.up[i] = Frame("pong", call.n + 1) PROVE FALSE
        <5>1. call.n + 1 <= call.n
          BY <1>1, <4>1, <4>2 DEF PingsNumbered
        <5> QED BY <1>3, <5>1
      <4> QED BY <2>2, <2>3, <4>2 DEF Anew
    <3> QED BY <3>1, <3>2 DEF Pinged
  <2> QED BY <2>2, <2>3, <2>6, <2>7, <2>8, <2>9, <2>10, <2>11 DEF ExchangeInv
<1>7. CASE socket.state # "pooled"
  <2>1. UNCHANGED socket /\ \/ call' = [next EXCEPT !.end = "origin_missing"]
                            \/ call' = [next EXCEPT !.at = "connecting"]
    BY <1>4, <1>7 DEF next
  <2>2. /\ Anew(call', call.n + 1) /\ call'.at \in {"over", "connecting"} /\ call'.end \in {"none", "origin_missing"}
        /\ call'.at = "connecting" => call'.end = "none"
    BY <1>5, <2>1 DEF Anew, CallFields
  <2>3. socket.state = "gone" /\ socket.down = <<>> /\ socket.up = <<>>
    BY <1>1, <1>2, <1>7 DEF ExchangeTypeOK, InStep
  <2>4. ExchangeTypeOK'
    BY <1>1, <1>2, <1>3, <2>1, <2>2 DEF ExchangeTypeOK, Anew, CallFields
  <2>5. InStep'
    BY <1>3, <2>1, <2>2, <2>3 DEF InStep, Anew
  <2>6. PingsNumbered'
    BY <2>1, <2>3 DEF PingsNumbered
  <2>7. SaidInOrder' /\ ClocksAgree' /\ Delivered'
    BY <1>1, <1>2, <2>2 DEF SaidInOrder, ClocksAgree, Delivered, Anew
  <2> QED BY <2>1, <2>2, <2>3, <2>4, <2>5, <2>6, <2>7 DEF ExchangeInv
<1> QED BY <1>6, <1>7

LEMMA SocketMadeKeeps ==
    ASSUME ExchangeInv, SocketMade
    PROVE  ExchangeInv'
<1>1. /\ ExchangeTypeOK /\ InStep /\ PingsNumbered /\ SaidInOrder /\ ClocksAgree /\ Delivered
  BY DEF ExchangeInv
<1>2. /\ call.at = "connecting" /\ socket' = [Gone EXCEPT !.state = "used"]
      /\ call' = [call EXCEPT !.at = "sending"] /\ upstream' = [upstream EXCEPT !.busy = 0, !.ended = FALSE]
  BY DEF SocketMade
<1>3. DOMAIN socket' = {"state", "down", "up"} /\ socket'.state = "used" /\ socket'.down = <<>> /\ socket'.up = <<>>
  BY <1>2 DEF Gone
<1>4. /\ DOMAIN call' = DOMAIN call /\ call'.n = call.n /\ call'.at = "sending" /\ call'.got = call.got
      /\ call'.quiet = call.quiet /\ call'.end = call.end
  BY <1>1, <1>2 DEF ExchangeTypeOK
<1>5. /\ DOMAIN upstream' = DOMAIN upstream /\ upstream'.busy = 0 /\ ~upstream'.ended
      /\ upstream'.said = upstream.said /\ upstream'.silent = upstream.silent
  BY <1>1, <1>2 DEF ExchangeTypeOK
<1>6. ExchangeTypeOK'
  BY <1>1, <1>3, <1>4, <1>5 DEF ExchangeTypeOK
<1>7. InStep'
  BY <1>1, <1>2, <1>3, <1>4 DEF InStep
<1>8. PingsNumbered' /\ OnlyNoise'
  BY <1>3 DEF PingsNumbered, OnlyNoise
<1>9. SaidInOrder'
  BY <1>1, <1>5, SaidStays
<1>10. ClocksAgree' /\ Delivered'
  BY <1>1, <1>4, <1>5 DEF ClocksAgree, Delivered
<1> QED BY <1>3, <1>4, <1>5, <1>6, <1>7, <1>8, <1>9, <1>10 DEF ExchangeInv, NotYetAsked

\* The socket is dropped, and the request ends or dials another.
LEMMA RejectedKeeps ==
    ASSUME ExchangeInv, call.at = "pinging", Rejected, UNCHANGED upstream
    PROVE  ExchangeInv'
<1>1. /\ ExchangeTypeOK /\ InStep /\ PingsNumbered /\ SaidInOrder /\ ClocksAgree /\ Delivered
  BY DEF ExchangeInv
<1>2. DOMAIN socket' = {"state", "down", "up"} /\ socket'.state = "gone" /\ socket'.down = <<>> /\ socket'.up = <<>>
  BY DEF Rejected, Gone
<1>3. \/ call' = [call EXCEPT !.at = "over", !.end = "origin_missing"]
      \/ call' = [call EXCEPT !.at = "over", !.end = "stale_socket"]
      \/ call' = [call EXCEPT !.at = "connecting", !.pooled = FALSE]
  BY DEF Rejected
<1>4. /\ DOMAIN call' = DOMAIN call /\ call'.n = call.n /\ call'.got = call.got /\ call'.quiet = call.quiet
      /\ call'.at \in {"over", "connecting"} /\ call'.end \in {call.end, "origin_missing", "stale_socket"}
      /\ call'.at = "connecting" => call'.end = call.end
  BY ZenonT(40), <1>1, <1>3 DEF ExchangeTypeOK
<1>5. call.got = <<>> /\ call.end = "none" /\ call.n # 0 /\ call.quiet = 0
  BY <1>1 DEF InStep
<1>6. ExchangeTypeOK'
  BY <1>1, <1>2, <1>4 DEF ExchangeTypeOK
<1>7. InStep'
  BY <1>2, <1>4, <1>5 DEF InStep
<1>8. PingsNumbered'
  BY <1>2 DEF PingsNumbered
<1>9. SaidInOrder'
  BY <1>1 DEF SaidInOrder
<1>10. ClocksAgree' /\ Delivered'
  BY <1>4, <1>5 DEF ClocksAgree, Delivered
<1> QED BY <1>2, <1>4, <1>6, <1>7, <1>8, <1>9, <1>10 DEF ExchangeInv

LEMMA PingAnsweredKeeps ==
    ASSUME ExchangeInv, PingAnswered
    PROVE  ExchangeInv'
<1> DEFINE f == Head(socket.up)
<1>1. /\ ExchangeTypeOK /\ InStep /\ PingsNumbered /\ SaidInOrder /\ ClocksAgree /\ Delivered
  BY DEF ExchangeInv
<1>2. call.at = "pinging" /\ socket.up # <<>> /\ UNCHANGED <<upstream, trouble>> /\ NothingDue /\ Pinged
  BY DEF PingAnswered, ExchangeInv
<1>3. \/ /\ f.kind = "pong" /\ f.of = call.nonce
         /\ call' = [call EXCEPT !.at = "sending"] /\ socket' = [socket EXCEPT !.up = Tail(@)]
      \/ f.kind = "ping" /\ UNCHANGED call /\ socket' = [socket EXCEPT !.up = Tail(@)]
      \/ Rejected
  BY DEF PingAnswered
<1>4. socket.up \in Seq(Frames) /\ socket.state = "used" /\ call.nonce = call.n
  BY <1>1, <1>2 DEF ExchangeTypeOK, InStep
<1>5. Shorter(socket.up, Tail(socket.up)) /\ 1 \in DOMAIN socket.up /\ f = socket.up[1] /\ f \in Frames
  BY <1>2, <1>4, FirstTaken
<1>6. CASE Rejected
  BY <1>2, <1>6, RejectedKeeps
<1>7. CASE socket' = [socket EXCEPT !.up = Tail(@)] /\ (call' = call \/ call' = [call EXCEPT !.at = "sending"])
  <2>1. DOMAIN socket' = DOMAIN socket /\ socket'.state = socket.state /\ socket'.down = socket.down /\ socket'.up = Tail(socket.up)
    BY <1>1, <1>7 DEF ExchangeTypeOK
  <2>2. /\ DOMAIN call' = DOMAIN call /\ call'.n = call.n /\ call'.got = call.got /\ call'.quiet = call.quiet
        /\ call'.at \in {"pinging", "sending"} /\ call'.nonce = call.nonce /\ call'.end = call.end
    BY <1>1, <1>2, <1>7 DEF ExchangeTypeOK
  <2>3. Shorter(socket.up, socket'.up)
    BY <1>5, <2>1
  <2>4. ExchangeTypeOK'
    BY <1>1, <1>2, <2>1, <2>2, <2>3 DEF ExchangeTypeOK, Shorter
  <2>5. InStep'
    BY <1>1, <1>2, <1>4, <2>1, <2>2 DEF InStep
  <2>6. PingsNumbered'
    BY <1>1, <2>1, <2>2, <2>3 DEF PingsNumbered, Shorter
  <2>7. SaidInOrder'
    BY <1>1, <1>2 DEF SaidInOrder
  <2>8. ClocksAgree' /\ Delivered'
    BY <1>1, <1>2, <2>2 DEF InStep, ClocksAgree, Delivered
  <2>9. NothingDue'
    BY <1>2, <2>1, <2>3 DEF NothingDue, Shorter
  <2>10. CASE UNCHANGED call
    <3>1. \A i \in DOMAIN socket'.down : socket'.down[i].of = call'.n => i = Len(socket'.down)
      BY <1>2, <2>1, <2>10 DEF Pinged
    <3>2. ASSUME NEW i \in DOMAIN socket'.up, socket'.up[i] = Frame("pong", call'.n)
          PROVE  /\ socket'.down = <<>> /\ upstream'.busy = 0
                 /\ \A j \in i + 1 .. Len(socket'.up) : socket'.up[j].kind \in Noise
      <4>1. i \in Nat /\ i + 1 \in DOMAIN socket.up /\ socket.up[i + 1] = Frame("pong", call.n)
        BY <2>2, <2>3, <3>2 DEF Shorter
      <4>2. socket.down = <<>> /\ upstream.busy = 0 /\ \A j \in (i + 1) + 1 .. Len(socket.up) : socket.up[j].kind \in Noise
        BY <1>2, <4>1 DEF Pinged
      <4>3. ASSUME NEW j \in i + 1 .. Len(socket'.up) PROVE socket'.up[j].kind \in Noise
        <5>1. Len(socket'.up) \in Nat /\ DOMAIN socket'.up = 1 .. Len(socket'.up) /\ Len(socket.up) = Len(socket'.up) + 1
          BY <2>3 DEF Shorter
        <5>2. j \in DOMAIN socket'.up /\ j + 1 \in (i + 1) + 1 .. Len(socket.up)
          BY <4>1, <5>1
        <5> QED BY <2>3, <4>2, <5>2 DEF Shorter
      <4> QED BY <1>2, <2>1, <4>2, <4>3
    <3>3. Pinged'
      BY <3>1, <3>2 DEF Pinged
    <3>4. call'.at = "pinging"
      BY <1>2, <2>10
    <3> QED BY <2>4, <2>5, <2>6, <2>7, <2>8, <2>9, <3>3, <3>4 DEF ExchangeInv
  <2>11. CASE ~UNCHANGED call
    <3>1. f.kind = "pong" /\ f.of = call.n /\ call' = [call EXCEPT !.at = "sending"]
      <4>1. ~Rejected
        <5>1. Rejected => socket'.state = "gone"
          BY DEF Rejected, Gone
        <5> QED BY <1>4, <2>1, <5>1
      <4> QED BY <1>3, <1>4, <2>11, <4>1
    <3>2. call'.at = "sending"
      BY <1>1, <3>1 DEF ExchangeTypeOK
    <3>3. socket.up[1] = Frame("pong", call.n)
      BY <1>5, <3>1 DEF Frame, Frames
    <3>4. socket.down = <<>> /\ upstream.busy = 0 /\ \A j \in 1 + 1 .. Len(socket.up) : socket.up[j].kind \in Noise
      BY <1>2, <1>5, <3>3 DEF Pinged
    <3>5. ASSUME NEW i \in DOMAIN socket'.up PROVE socket'.up[i].kind \in Noise
      <4>1. i \in Nat /\ i + 1 \in DOMAIN socket.up /\ socket'.up[i] = socket.up[i + 1] /\ i # 0
        BY <2>3 DEF Shorter
      <4>2. i + 1 \in 1 + 1 .. Len(socket.up)
        BY <1>4, <4>1
      <4> QED BY <3>4, <4>1, <4>2
    <3>6. NotYetAsked'
      BY <1>2, <2>1, <3>4, <3>5 DEF NotYetAsked, OnlyNoise
    <3> QED BY <2>4, <2>5, <2>6, <2>7, <2>8, <2>9, <3>2, <3>6 DEF ExchangeInv
  <2> QED BY <2>10, <2>11
<1> QED BY <1>3, <1>6, <1>7

LEMMA PingTimesOutKeeps ==
    ASSUME ExchangeInv, PingTimesOut
    PROVE  ExchangeInv'
BY RejectedKeeps DEF PingTimesOut

\* What was collected is a beginning of what was said, and short of its end.
LEMMA CollectedSoFar ==
    ASSUME ExchangeInv, call.at = "collecting"
    PROVE  Begins(call.got, upstream.said)
<1>1. CASE Asked
  <2>1. call.got = <<>> /\ Len(<<>>) = 0 /\ Len(upstream.said) \in Nat
    BY <1>1 DEF Asked, ExchangeInv, ExchangeTypeOK
  <2> QED BY <2>1 DEF Begins
<1>2. CASE Answering
  <2>1. PICK full \in Seq(Frames) : FullyTold(full) /\ Begins(call.got, full)
    BY <1>2 DEF Answering
  <2>2. CASE full = upstream.said
    BY <2>1, <2>2
  <2>3. CASE upstream.ended /\ full = Append(upstream.said, Frame("control", call.n))
    <3> DEFINE f == Frame("control", call.n)
               n == Len(upstream.said)
               k == Len(call.got)
    <3>1. upstream.said \in Seq(Frames) /\ call.got \in Seq(Frames) /\ call.n \in Nat
      BY DEF ExchangeInv, ExchangeTypeOK
    <3>2. f \in Frames
      BY <3>1, AFrame DEF FrameKinds, AnswerKinds
    <3>3. Behind(upstream.said, f, full)
      BY <2>3, <3>1, <3>2, PutBehind
    <3> HIDE DEF f
    <3>4. n \in Nat /\ DOMAIN upstream.said = 1 .. n /\ k \in Nat /\ DOMAIN call.got = 1 .. k /\ Len(full) = n + 1
      BY <3>1, <3>3 DEF Behind
    <3>5. n # 0 /\ upstream.said[n].kind \in Finals
      BY <2>3, <3>1, EmptySeq DEF ExchangeInv, SaidInOrder
    <3>6. k <= n + 1 /\ \A i \in 1 .. k : call.got[i] = full[i]
      BY <2>1, <3>4 DEF Begins
    <3>7. \A i \in 1 .. n : full[i] = upstream.said[i]
      BY <3>3, <3>4 DEF Behind
    <3> HIDE DEF n, k
    <3>8. n \notin 1 .. k
      <4> SUFFICES ASSUME n \in 1 .. k PROVE FALSE
        OBVIOUS
      <4>1. call.got[n].kind \in Finals
        BY <3>4, <3>5, <3>6, <3>7
      <4> QED BY <1>2, <3>4, <4>1 DEF Answering
    <3>9. k <= n /\ \A i \in 1 .. k : i \in 1 .. n
      BY <3>4, <3>5, <3>6, <3>8
    <3> QED BY <3>6, <3>7, <3>9 DEF Begins, n, k
  <2> QED BY <2>1, <2>2, <2>3 DEF FullyTold
<1> QED BY <1>1, <1>2 DEF ExchangeInv

\* The request ends without an answer, and its socket is dropped.
LEMMA OverKeeps ==
    ASSUME ExchangeInv, NEW end, end # "answered", Over(end), call.at # "over",
           end \in {"idle", "no_answer"} => upstream.silent >= Budget,
           DOMAIN upstream' = DOMAIN upstream, upstream'.busy = upstream.busy, upstream'.said = upstream.said,
           upstream'.ended = upstream.ended, upstream'.silent = upstream.silent
    PROVE  ExchangeInv'
<1>1. /\ ExchangeTypeOK /\ InStep /\ PingsNumbered /\ SaidInOrder /\ ClocksAgree /\ Delivered
  BY DEF ExchangeInv
<1>2. DOMAIN socket' = {"state", "down", "up"} /\ socket'.state = "gone" /\ socket'.down = <<>> /\ socket'.up = <<>>
  BY DEF Over, Gone
<1>3. /\ DOMAIN call' = DOMAIN call /\ call'.n = call.n /\ call'.got = call.got /\ call'.quiet = call.quiet
      /\ call'.at = "over" /\ call'.end = end
  BY <1>1 DEF ExchangeTypeOK, Over
<1>4. ExchangeTypeOK'
  BY <1>1, <1>2, <1>3 DEF ExchangeTypeOK
<1>5. InStep'
  BY <1>2, <1>3 DEF InStep
<1>6. PingsNumbered'
  BY <1>2 DEF PingsNumbered
<1>7. SaidInOrder'
  BY <1>1, SaidStays
<1>8. ClocksAgree'
  BY <1>3 DEF ClocksAgree
<1>9. Delivered'
  <2>1. call.got # <<>> => call.at = "collecting"
    BY <1>1 DEF InStep
  <2>2. call.got # <<>> => Begins(call.got, upstream.said)
    BY <2>1, CollectedSoFar
  <2> QED BY <1>3, <2>2 DEF Delivered
<1> QED BY <1>2, <1>3, <1>4, <1>5, <1>6, <1>7, <1>8, <1>9 DEF ExchangeInv

LEMMA SendFrameKeeps ==
    ASSUME ExchangeInv, SendFrame
    PROVE  ExchangeInv'
<1> DEFINE f == Frame("request", call.n)
<1>1. /\ ExchangeTypeOK /\ InStep /\ PingsNumbered /\ SaidInOrder /\ ClocksAgree /\ Delivered /\ call.at = "sending" /\ NotYetAsked
  BY DEF ExchangeInv, SendFrame
<1>2. CASE Over("not_sent") /\ UNCHANGED upstream
  BY <1>1, <1>2, OverKeeps
<1>3. CASE /\ socket' = [socket EXCEPT !.down = Append(@, f)]
           /\ call' = [call EXCEPT !.at = "collecting"]
           /\ upstream' = [upstream EXCEPT !.silent = 0]
  <2>1. /\ DOMAIN socket' = DOMAIN socket /\ socket'.state = socket.state /\ socket'.down = Append(socket.down, f)
        /\ socket'.up = socket.up
    BY <1>1, <1>3 DEF ExchangeTypeOK
  <2>2. /\ DOMAIN call' = DOMAIN call /\ call'.n = call.n /\ call'.got = call.got /\ call'.quiet = call.quiet
        /\ call'.at = "collecting" /\ call'.end = call.end
    BY <1>1, <1>3 DEF ExchangeTypeOK
  <2>3. /\ DOMAIN upstream' = DOMAIN upstream /\ upstream'.busy = upstream.busy /\ upstream'.ended = upstream.ended
        /\ upstream'.said = upstream.said /\ upstream'.silent = 0
    BY <1>1, <1>3 DEF ExchangeTypeOK
  <2>4. call.n \in Nat /\ socket.down \in Seq(Frames) /\ socket.down = <<>> /\ call.got = <<>> /\ call.quiet = 0
    BY <1>1 DEF ExchangeTypeOK, NotYetAsked, InStep
  <2>5. f \in Frames /\ f.of = call.n
    BY <2>4, AFrame DEF FrameKinds
  <2> HIDE DEF f
  <2>6. socket'.down = <<f>> /\ DOMAIN <<f>> = {1} /\ <<f>>[1] = f /\ Len(<<f>>) = 1 /\ <<f>> \in Seq(Frames)
    BY <2>1, <2>4, <2>5
  <2>7. ExchangeTypeOK'
    BY <1>1, <2>1, <2>2, <2>3, <2>6 DEF ExchangeTypeOK
  <2>8. InStep'
    BY <1>1, <2>1, <2>2 DEF InStep
  <2>9. PingsNumbered'
    <3>1. \A i \in DOMAIN socket'.down : socket'.down[i].of <= call'.n
      BY <2>2, <2>4, <2>5, <2>6
    <3> QED BY <1>1, <2>1, <2>2, <3>1 DEF PingsNumbered
  <2>10. SaidInOrder'
    BY <1>1, <2>3, SaidStays
  <2>11. ClocksAgree' /\ Delivered'
    BY <1>1, <2>2, <2>3, <2>4, SocketExchangeAssumption DEF ClocksAgree, Delivered, InStep
  <2>12. Asked'
    <3>1. \A i \in 2 .. Len(socket'.down) : socket'.down[i].kind = "ping"
      BY <2>6
    <3>2. socket'.down # <<>> /\ socket'.down[1] = Frame("request", call'.n)
      BY <2>2, <2>6 DEF f
    <3> QED BY <1>1, <2>1, <2>2, <2>3, <2>4, <3>1, <3>2 DEF Asked, NotYetAsked, OnlyNoise
  <2> QED BY <1>1, <2>1, <2>2, <2>7, <2>8, <2>9, <2>10, <2>11, <2>12 DEF ExchangeInv, InStep
<1> QED BY <1>1, <1>2, <1>3 DEF SendFrame

\* Nothing was heard: the socket is pinged while the answer is awaited.
LEMMA KeepaliveKeeps ==
    ASSUME ExchangeInv, KeepaliveSent
    PROVE  ExchangeInv'
<1> DEFINE f == Frame("ping", 0)
<1>1. /\ ExchangeTypeOK /\ InStep /\ PingsNumbered /\ SaidInOrder /\ ClocksAgree /\ Delivered /\ call.at = "collecting"
      /\ UNCHANGED upstream
  BY DEF ExchangeInv, KeepaliveSent
<1>2. CASE Over("keepalive")
  BY <1>1, <1>2, OverKeeps
<1>3. CASE socket' = [socket EXCEPT !.down = Append(@, f)] /\ call' = [call EXCEPT !.still = 0]
  <2>1. /\ DOMAIN socket' = DOMAIN socket /\ socket'.state = socket.state /\ socket'.down = Append(socket.down, f)
        /\ socket'.up = socket.up
    BY <1>1, <1>3 DEF ExchangeTypeOK
  <2>2. /\ DOMAIN call' = DOMAIN call /\ call'.n = call.n /\ call'.got = call.got /\ call'.quiet = call.quiet
        /\ call'.at = "collecting" /\ call'.end = call.end
    BY <1>1, <1>3 DEF ExchangeTypeOK
  <2>3. call.n \in Nat /\ socket.down \in Seq(Frames)
    BY <1>1 DEF ExchangeTypeOK
  <2>4. f \in Frames /\ f.of = 0 /\ f.kind = "ping"
    BY AFrame DEF FrameKinds, Noise
  <2> HIDE DEF f
  <2>5. Behind(socket.down, f, socket'.down)
    BY <2>1, <2>3, <2>4, PutBehind
  <2>6. ExchangeTypeOK'
    BY <1>1, <2>1, <2>2, <2>5 DEF ExchangeTypeOK, Behind
  <2>7. InStep'
    BY <1>1, <2>1, <2>2 DEF InStep
  <2>8. PingsNumbered'
    <3>1. \A i \in DOMAIN socket'.down : socket'.down[i].of <= call'.n
      BY <1>1, <2>2, <2>3, <2>4, <2>5 DEF PingsNumbered, Behind
    <3> QED BY <1>1, <2>1, <2>2, <3>1 DEF PingsNumbered
  <2>9. SaidInOrder' /\ ClocksAgree' /\ Delivered'
    BY <1>1, <2>2 DEF SaidInOrder, ClocksAgree, Delivered
  <2>10. Asked => Asked'
    <3> HAVE Asked
    <3>1. Len(socket.down) \in Nat /\ DOMAIN socket.down = 1 .. Len(socket.down) /\ Len(socket'.down) = Len(socket.down) + 1
      BY <2>3, <2>5 DEF Behind
    <3>2. Len(socket.down) # 0
      BY <2>3, EmptySeq DEF Asked
    <3>3. socket'.down[1] = Frame("request", call'.n) /\ socket'.down # <<>>
      BY <2>2, <2>5, <3>1, <3>2 DEF Behind, Asked
    <3>4. ASSUME NEW i \in 2 .. Len(socket'.down) PROVE socket'.down[i].kind = "ping"
      <4>1. i = Len(socket.down) + 1 \/ (i \in 2 .. Len(socket.down) /\ i \in DOMAIN socket.down)
        BY <3>1
      <4> QED BY <2>4, <2>5, <4>1 DEF Behind, Asked
    <3> QED BY <1>1, <2>1, <2>2, <3>3, <3>4 DEF Asked, OnlyNoise
  <2>11. Answering => Answering'
    <3> HAVE Answering
    <3>1. PICK full \in Seq(Frames) : FullyTold(full) /\ Begins(call.got, full) /\ Carries(socket.up, full, Len(call.got))
      BY DEF Answering
    <3>2. \A i \in DOMAIN socket'.down : socket'.down[i].kind = "ping"
      BY <2>4, <2>5 DEF Behind, Answering
    <3>3. /\ upstream'.busy = call'.n \/ (upstream'.busy = 0 /\ upstream'.ended)
          /\ \A i \in DOMAIN call'.got : call'.got[i].kind \notin Finals
          /\ Begins(call'.got, full) /\ Carries(socket'.up, full, Len(call'.got))
      BY <1>1, <2>1, <2>2, <3>1 DEF Answering
    <3>4. \/ full = upstream'.said
          \/ upstream'.busy = 0 /\ upstream'.ended /\ full = Append(upstream'.said, Frame("control", call'.n))
      BY <1>1, <2>2, <3>1 DEF FullyTold
    <3> QED BY <3>2, <3>3, <3>4, AnsweredNow
  <2> QED BY <1>1, <2>1, <2>2, <2>6, <2>7, <2>8, <2>9, <2>10, <2>11 DEF ExchangeInv, InStep
<1> QED BY <1>2, <1>3 DEF KeepaliveSent

LEMMA OverdueKeeps ==
    ASSUME ExchangeInv, AnswerOverdue
    PROVE  ExchangeInv'
<1>1. call.at = "collecting" /\ call.quiet = Budget /\ UNCHANGED upstream
  BY DEF AnswerOverdue
<1>2. PICK end \in {"idle", "no_answer"} : Over(end)
  BY DEF AnswerOverdue
<1>3. upstream.silent = Budget /\ Budget \in Nat
  BY <1>1, SocketExchangeAssumption DEF ExchangeInv, ClocksAgree
<1>4. upstream.silent >= Budget
  BY <1>3
<1>5. end # "answered"
  OBVIOUS
<1> QED BY <1>1, <1>2, <1>4, <1>5, OverKeeps

LEMMA BrokenOffKeeps ==
    ASSUME ExchangeInv, BrokenOff
    PROVE  ExchangeInv'
<1>1. call.at # "over" /\ Over("broken_off") /\ UNCHANGED upstream
  BY DEF BrokenOff
<1> QED BY <1>1, OverKeeps

LEMMA TickKeeps ==
    ASSUME ExchangeInv, ExchangeTick
    PROVE  ExchangeInv'
<1>1. /\ ExchangeTypeOK /\ InStep /\ PingsNumbered /\ SaidInOrder /\ ClocksAgree /\ Delivered /\ call.at = "collecting"
      /\ UNCHANGED socket /\ call.quiet < Budget
      /\ call' = [call EXCEPT !.quiet = @ + 1, !.still = @ + 1]
      /\ upstream' = [upstream EXCEPT !.silent = @ + 1]
  BY DEF ExchangeInv, ExchangeTick
<1>2. /\ DOMAIN call' = DOMAIN call /\ call'.n = call.n /\ call'.got = call.got /\ call'.quiet = call.quiet + 1
      /\ call'.at = "collecting" /\ call'.end = call.end
  BY <1>1 DEF ExchangeTypeOK
<1>3. /\ DOMAIN upstream' = DOMAIN upstream /\ upstream'.busy = upstream.busy /\ upstream'.ended = upstream.ended
      /\ upstream'.said = upstream.said /\ upstream'.silent = upstream.silent + 1
  BY <1>1 DEF ExchangeTypeOK
<1>4. call.quiet \in Nat /\ upstream.silent \in Nat /\ Budget \in Nat /\ upstream.silent = call.quiet
  BY <1>1, SocketExchangeAssumption DEF ExchangeTypeOK, ClocksAgree
<1>5. call'.quiet \in Nat /\ call'.quiet <= Budget /\ upstream'.silent \in Nat /\ upstream'.silent = call'.quiet
  BY <1>1, <1>2, <1>3, <1>4
<1>6. ExchangeTypeOK'
  BY <1>1, <1>2, <1>3, <1>5 DEF ExchangeTypeOK
<1>7. InStep'
  BY <1>1, <1>2 DEF InStep
<1>8. PingsNumbered'
  BY <1>1, <1>2 DEF PingsNumbered
<1>9. SaidInOrder'
  BY <1>1, <1>3, SaidStays
<1>10. ClocksAgree' /\ Delivered'
  BY <1>1, <1>2, <1>5 DEF ClocksAgree, Delivered, InStep
<1>11. Asked => Asked'
  BY <1>1, <1>2, <1>3 DEF Asked, OnlyNoise
<1>12. Answering => Answering'
  <2> HAVE Answering
  <2>1. PICK full \in Seq(Frames) : FullyTold(full) /\ Begins(call.got, full) /\ Carries(socket.up, full, Len(call.got))
    BY DEF Answering
  <2>2. /\ \A i \in DOMAIN socket'.down : socket'.down[i].kind = "ping"
        /\ upstream'.busy = call'.n \/ (upstream'.busy = 0 /\ upstream'.ended)
        /\ \A i \in DOMAIN call'.got : call'.got[i].kind \notin Finals
        /\ Begins(call'.got, full) /\ Carries(socket'.up, full, Len(call'.got))
    BY <1>1, <1>2, <1>3, <2>1 DEF Answering
  <2>3. \/ full = upstream'.said
        \/ upstream'.busy = 0 /\ upstream'.ended /\ full = Append(upstream'.said, Frame("control", call'.n))
    BY <1>2, <1>3, <2>1 DEF FullyTold
  <2> QED BY <2>2, <2>3, AnsweredNow
<1> QED BY <1>1, <1>2, <1>6, <1>7, <1>8, <1>9, <1>10, <1>11, <1>12 DEF ExchangeInv, InStep

\* A ping or the answer to one, while the answer is awaited.
LEMMA CollectNoiseKeeps ==
    ASSUME ExchangeInv, call.at = "collecting", socket.up # <<>>, socket.up[1].kind \in {"ping", "pong"},
           call' = [call EXCEPT !.still = 0], socket' = [socket EXCEPT !.up = Tail(@)],
           DOMAIN upstream' = DOMAIN upstream, upstream'.busy = upstream.busy, upstream'.said = upstream.said,
           upstream'.ended = upstream.ended, upstream'.silent = upstream.silent
    PROVE  ExchangeInv'
<1>1. /\ ExchangeTypeOK /\ InStep /\ PingsNumbered /\ SaidInOrder /\ ClocksAgree /\ Delivered
  BY DEF ExchangeInv
<1>2. /\ DOMAIN socket' = DOMAIN socket /\ socket'.state = socket.state /\ socket'.down = socket.down
      /\ socket'.up = Tail(socket.up)
  BY <1>1 DEF ExchangeTypeOK
<1>3. /\ DOMAIN call' = DOMAIN call /\ call'.n = call.n /\ call'.got = call.got /\ call'.quiet = call.quiet
      /\ call'.at = "collecting" /\ call'.end = call.end
  BY <1>1 DEF ExchangeTypeOK
<1>4. socket.up \in Seq(Frames) /\ call.got \in Seq(Frames) /\ Len(call.got) \in Nat
  BY <1>1 DEF ExchangeTypeOK
<1>5. Shorter(socket.up, socket'.up)
  BY <1>2, <1>4, FirstTaken
<1>6. ExchangeTypeOK'
  BY <1>1, <1>2, <1>3, <1>5 DEF ExchangeTypeOK, Shorter
<1>7. InStep'
  BY <1>1, <1>2, <1>3 DEF InStep
<1>8. PingsNumbered'
  BY <1>1, <1>2, <1>3, <1>5 DEF PingsNumbered, Shorter
<1>9. SaidInOrder'
  BY <1>1, SaidStays
<1>10. ClocksAgree' /\ Delivered'
  BY <1>1, <1>3 DEF ClocksAgree, Delivered
<1>11. Asked => Asked'
  <2>1. OnlyNoise => OnlyNoise'
    BY <1>5 DEF OnlyNoise, Shorter
  <2> QED BY <1>2, <1>3, <2>1 DEF Asked
<1>12. Answering => Answering'
  <2> HAVE Answering
  <2>1. PICK full \in Seq(Frames) : FullyTold(full) /\ Begins(call.got, full) /\ Carries(socket.up, full, Len(call.got))
    BY DEF Answering
  <2>2. AllAnswer(full)
    BY <2>1, FullySaid
  <2>3. socket.up[1].kind \notin AnswerKinds
    BY KindsApart
  <2>4. Carries(socket'.up, full, Len(call'.got))
    BY <1>2, <1>3, <1>4, <2>1, <2>2, <2>3, CarriesOn
  <2>5. /\ \A i \in DOMAIN socket'.down : socket'.down[i].kind = "ping"
        /\ upstream'.busy = call'.n \/ (upstream'.busy = 0 /\ upstream'.ended)
        /\ \A i \in DOMAIN call'.got : call'.got[i].kind \notin Finals
        /\ Begins(call'.got, full)
    BY <1>2, <1>3, <2>1 DEF Answering
  <2>6. \/ full = upstream'.said
        \/ upstream'.busy = 0 /\ upstream'.ended /\ full = Append(upstream'.said, Frame("control", call'.n))
    BY <1>3, <2>1 DEF FullyTold
  <2> QED BY <2>4, <2>5, <2>6, AnsweredNow
<1> QED BY <1>2, <1>3, <1>6, <1>7, <1>8, <1>9, <1>10, <1>11, <1>12 DEF ExchangeInv, InStep

\* The frame that comes first is the next one of what was said.
LEMMA NextOfAnswer ==
    ASSUME ExchangeInv, call.at = "collecting", socket.up # <<>>, socket.up[1].kind \in AnswerKinds
    PROVE  /\ Answering /\ call.got \in Seq(Frames)
           /\ \E full \in Seq(Frames) :
                 /\ FullyTold(full) /\ AllAnswer(full)
                 /\ Behind(call.got, socket.up[1], Append(call.got, socket.up[1]))
                 /\ Len(call.got) + 1 <= Len(full) /\ socket.up[1] = full[Len(call.got) + 1]
                 /\ Begins(Append(call.got, socket.up[1]), full)
                 /\ Carries(Tail(socket.up), full, Len(Append(call.got, socket.up[1])))
<1> DEFINE f == socket.up[1]
           k == Len(call.got)
           t == Append(call.got, f)
<1>1. socket.up \in Seq(Frames) /\ call.got \in Seq(Frames) /\ k \in Nat
  BY DEF ExchangeInv, ExchangeTypeOK
<1>2. 1 \in DOMAIN socket.up /\ f \in Frames
  BY <1>1, FirstTaken
<1>3. Answering
  BY <1>2, KindsApart DEF ExchangeInv, Asked, OnlyNoise
<1>4. PICK full \in Seq(Frames) : FullyTold(full) /\ Begins(call.got, full) /\ Carries(socket.up, full, k)
  BY <1>3 DEF Answering
<1>5. AllAnswer(full)
  BY <1>4, FullySaid
<1>6. k + 1 <= Len(full) /\ f = full[k + 1] /\ Carries(Tail(socket.up), full, k + 1)
  BY <1>1, <1>4, <1>5, CarriesTaken
<1>7. Behind(call.got, f, t)
  BY <1>1, <1>2, PutBehind
<1> HIDE DEF f, t
<1>8. Len(t) = k + 1
  BY <1>7 DEF Behind
<1>9. Begins(t, full)
  <2>1. ASSUME NEW i \in 1 .. Len(t) PROVE t[i] = full[i]
    <3>1. i \in DOMAIN t
      BY <1>7, <2>1 DEF Behind
    <3>2. CASE i \in DOMAIN call.got
      BY <1>1, <1>4, <1>7, <3>2 DEF Behind, Begins
    <3>3. CASE i = k + 1
      BY <1>6, <1>7, <3>3 DEF Behind
    <3> QED BY <1>7, <3>1, <3>2, <3>3 DEF Behind
  <2> QED BY <1>6, <1>8, <2>1 DEF Begins
<1> HIDE DEF k
<1>10. Carries(Tail(socket.up), full, Len(t))
  BY <1>6, <1>8
<1> QED BY <1>1, <1>3, <1>4, <1>5, <1>6, <1>7, <1>9, <1>10 DEF f, t, k

LEMMA CollectMoreKeeps ==
    ASSUME ExchangeInv, call.at = "collecting", socket.up # <<>>, call.quiet < Budget,
           socket.up[1].kind \in {"event", "control"},
           call' = Gathered(socket.up[1]), socket' = [socket EXCEPT !.up = Tail(@)],
           DOMAIN upstream' = DOMAIN upstream, upstream'.busy = upstream.busy, upstream'.said = upstream.said,
           upstream'.ended = upstream.ended,
           upstream'.silent = IF socket.up[1].kind \in {"event"} \cup Finals THEN 0 ELSE upstream.silent
    PROVE  ExchangeInv'
<1> DEFINE f == socket.up[1]
<1>1. /\ ExchangeTypeOK /\ InStep /\ PingsNumbered /\ SaidInOrder /\ ClocksAgree /\ Delivered
  BY DEF ExchangeInv
<1>2. /\ DOMAIN socket' = DOMAIN socket /\ socket'.state = socket.state /\ socket'.down = socket.down
      /\ socket'.up = Tail(socket.up)
  BY <1>1 DEF ExchangeTypeOK
<1>3. /\ DOMAIN call' = DOMAIN call /\ call'.n = call.n /\ call'.got = Append(call.got, f)
      /\ call'.quiet = IF IsResponseEvent(f) THEN 0 ELSE call.quiet
      /\ call'.at = "collecting" /\ call'.end = call.end
  BY <1>1 DEF ExchangeTypeOK, Gathered
<1>4. f.kind \in AnswerKinds /\ f.kind \notin Finals
  BY KindsApart
<1>5. Answering /\ call.got \in Seq(Frames)
  BY <1>4, NextOfAnswer
<1>6. PICK full \in Seq(Frames) :
         /\ FullyTold(full) /\ Behind(call.got, f, Append(call.got, f))
         /\ Begins(Append(call.got, f), full) /\ Carries(Tail(socket.up), full, Len(Append(call.got, f)))
  BY <1>4, NextOfAnswer
<1> HIDE DEF f
<1>7. Behind(call.got, f, call'.got)
  BY <1>3, <1>6
<1>8. Shorter(socket.up, socket'.up)
  BY <1>1, <1>2, FirstTaken DEF ExchangeTypeOK
<1>9. call'.quiet \in Nat /\ upstream'.silent \in Nat /\ upstream'.silent = call'.quiet /\ call'.quiet <= Budget
  <2>1. call.quiet \in Nat /\ upstream.silent = call.quiet /\ call.quiet <= Budget /\ Budget \in Nat
    BY <1>1, SocketExchangeAssumption DEF ExchangeTypeOK, ClocksAgree
  <2>2. call'.quiet = upstream'.silent /\ call'.quiet \in {0, call.quiet}
    BY <1>3, <2>1 DEF IsResponseEvent, f
  <2> QED BY <2>1, <2>2
<1>10. ExchangeTypeOK'
  BY <1>1, <1>2, <1>3, <1>7, <1>8, <1>9 DEF ExchangeTypeOK, Behind, Shorter
<1>11. InStep'
  BY <1>1, <1>2, <1>3 DEF InStep
<1>12. PingsNumbered'
  BY <1>1, <1>2, <1>3, <1>8 DEF PingsNumbered, Shorter
<1>13. SaidInOrder'
  BY <1>1, SaidStays
<1>14. ClocksAgree' /\ Delivered'
  BY <1>1, <1>3, <1>9 DEF ClocksAgree, Delivered, InStep
<1>15. Answering'
  <2>1. \A i \in DOMAIN call'.got : call'.got[i].kind \notin Finals
    BY <1>4, <1>5, <1>7 DEF Behind, Answering
  <2>2. /\ \A i \in DOMAIN socket'.down : socket'.down[i].kind = "ping"
        /\ upstream'.busy = call'.n \/ (upstream'.busy = 0 /\ upstream'.ended)
    BY <1>2, <1>3, <1>5 DEF Answering
  <2>3. Begins(call'.got, full) /\ Carries(socket'.up, full, Len(call'.got))
    BY <1>2, <1>3, <1>6
  <2>4. \/ full = upstream'.said
        \/ upstream'.busy = 0 /\ upstream'.ended /\ full = Append(upstream'.said, Frame("control", call'.n))
    BY <1>3, <1>6 DEF FullyTold
  <2> QED BY <2>1, <2>2, <2>3, <2>4, AnsweredNow
<1> QED BY <1>1, <1>2, <1>3, <1>10, <1>11, <1>12, <1>13, <1>14, <1>15 DEF ExchangeInv, InStep

\* An answer has one end, and what comes behind it is a trailing event.
LEMMA EndOfAnswer ==
    ASSUME ExchangeInv, NEW full \in Seq(Frames), FullyTold(full), NEW q \in 1 .. Len(full), full[q].kind \in Finals
    PROVE  /\ q = Len(upstream.said) /\ \A i \in 1 .. q : full[i] = upstream.said[i]
           /\ upstream.busy # 0 => upstream.ended
           /\ \A i \in q + 1 .. Len(full) : full[i].kind = "control"
<1> DEFINE n == Len(upstream.said)
           m == Len(full)
           f == Frame("control", call.n)
<1>1. upstream.said \in Seq(Frames) /\ call.n \in Nat /\ n \in Nat /\ DOMAIN upstream.said = 1 .. n /\ m \in Nat
  BY DEF ExchangeInv, ExchangeTypeOK
<1>2. /\ \A i \in 1 .. n - 1 : upstream.said[i].kind \notin Finals
      /\ upstream.busy # 0 /\ ~upstream.ended => \A i \in 1 .. n : upstream.said[i].kind \notin Finals
  BY <1>1 DEF ExchangeInv, SaidInOrder
<1>3. /\ m = n \/ m = n + 1
      /\ \A i \in 1 .. n : full[i] = upstream.said[i]
      /\ m = n + 1 => full[n + 1].kind = "control"
  <2>1. CASE full = upstream.said
    BY <1>1, <2>1
  <2>2. CASE full = Append(upstream.said, f)
    <3>1. f \in Frames /\ f.kind = "control"
      BY <1>1, AFrame DEF FrameKinds, AnswerKinds
    <3>2. Behind(upstream.said, f, full)
      BY <1>1, <2>2, <3>1, PutBehind
    <3> QED BY <1>1, <3>1, <3>2 DEF Behind
  <2> QED BY <2>1, <2>2 DEF FullyTold
<1> HIDE DEF n, m
<1>4. q \in 1 .. n
  <2>1. q \in 1 .. m
    BY DEF m
  <2>2. full[q].kind # "control"
    BY KindsApart
  <2> QED BY <1>1, <1>3, <2>1, <2>2
<1>5. upstream.said[q].kind \in Finals
  BY <1>3, <1>4
<1>6. q \notin 1 .. n - 1
  BY <1>2, <1>5
<1>7. q = n
  BY <1>1, <1>4, <1>6
<1>8. upstream.busy # 0 => upstream.ended
  BY <1>2, <1>4, <1>5
<1>9. \A i \in q + 1 .. m : full[i].kind = "control"
  BY <1>1, <1>3, <1>7
<1> QED BY <1>3, <1>7, <1>8, <1>9 DEF n, m

LEMMA CollectFinalKeeps ==
    ASSUME ExchangeInv, call.at = "collecting", socket.up # <<>>, call.quiet < Budget,
           socket.up[1].kind \in Finals, NEW end \in {"answered", "unknown"},
           call' = [Gathered(socket.up[1]) EXCEPT !.at = "over", !.end = end],
           socket' \in {Gone, [socket EXCEPT !.up = Tail(@), !.state = "pooled"]},
           DOMAIN upstream' = DOMAIN upstream, upstream'.busy = upstream.busy, upstream'.said = upstream.said,
           upstream'.ended = upstream.ended, upstream'.silent = 0
    PROVE  ExchangeInv'
<1> DEFINE f == socket.up[1]
           k == Len(call.got)
<1>1. /\ ExchangeTypeOK /\ InStep /\ PingsNumbered /\ SaidInOrder /\ ClocksAgree /\ Delivered
  BY DEF ExchangeInv
<1>2. /\ DOMAIN call' = DOMAIN call /\ call'.n = call.n /\ call'.got = Append(call.got, f)
      /\ call'.quiet = 0 /\ call'.at = "over" /\ call'.end = end
  <2> DEFINE c == Gathered(f)
  <2>1. /\ DOMAIN c = DOMAIN call /\ c.n = call.n /\ c.got = Append(call.got, f)
        /\ c.quiet = IF IsResponseEvent(f) THEN 0 ELSE call.quiet
    BY <1>1 DEF ExchangeTypeOK, Gathered
  <2>2. IsResponseEvent(f)
    BY DEF IsResponseEvent
  <2> HIDE DEF c
  <2>3. call' = [c EXCEPT !.at = "over", !.end = end]
    BY DEF c
  <2> QED BY ZenonT(40), <1>1, <2>1, <2>2, <2>3 DEF ExchangeTypeOK
<1>3. f.kind \in AnswerKinds
  BY DEF AnswerKinds
<1>4. Answering /\ call.got \in Seq(Frames) /\ k \in Nat
  BY <1>3, NextOfAnswer
<1>5. PICK full \in Seq(Frames) :
         /\ FullyTold(full) /\ Behind(call.got, f, Append(call.got, f))
         /\ k + 1 <= Len(full) /\ f = full[k + 1]
         /\ Begins(Append(call.got, f), full) /\ Carries(Tail(socket.up), full, Len(Append(call.got, f)))
  BY <1>3, NextOfAnswer
<1>6. /\ k + 1 = Len(upstream.said) /\ \A i \in 1 .. k + 1 : full[i] = upstream.said[i]
      /\ upstream.busy # 0 => upstream.ended
      /\ \A i \in (k + 1) + 1 .. Len(full) : full[i].kind = "control"
  <2>1. k + 1 \in 1 .. Len(full)
    BY <1>4, <1>5
  <2> QED BY <1>5, <2>1, EndOfAnswer
<1> HIDE DEF f
<1>7. Behind(call.got, f, call'.got)
  BY <1>2, <1>5
<1>8. call'.got \in Seq(Frames) /\ Len(call'.got) = k + 1 /\ upstream.said \in Seq(Frames)
  BY <1>1, <1>7 DEF Behind, ExchangeTypeOK
<1>9. \A i \in 1 .. k + 1 : call'.got[i] = upstream.said[i]
  <2>1. \A i \in 1 .. k + 1 : call'.got[i] = full[i]
    BY <1>2, <1>5, <1>8 DEF Begins
  <2> QED BY <1>6, <2>1
<1>10. call'.got = upstream'.said /\ Begins(call'.got, upstream'.said)
  <2>1. call'.got = upstream.said
    BY <1>6, <1>8, <1>9, SeqEqual
  <2>2. Len(upstream.said) \in Nat
    BY <1>8
  <2> QED BY <2>1, <2>2 DEF Begins
<1>11. /\ DOMAIN socket' = {"state", "down", "up"} /\ socket'.down \in Seq(Frames) /\ socket'.up \in Seq(Frames)
       /\ \/ socket'.state = "gone" /\ socket'.down = <<>> /\ socket'.up = <<>>
          \/ socket'.state = "pooled" /\ socket'.down = socket.down /\ socket'.up = Tail(socket.up)
  <2>1. CASE socket' = Gone
    BY <2>1 DEF Gone
  <2>2. CASE socket' = [socket EXCEPT !.up = Tail(@), !.state = "pooled"]
    <3>1. DOMAIN socket' = DOMAIN socket /\ socket'.state = "pooled" /\ socket'.down = socket.down /\ socket'.up = Tail(socket.up)
      BY <1>1, <2>2 DEF ExchangeTypeOK
    <3>2. Shorter(socket.up, Tail(socket.up))
      BY <1>1, FirstTaken DEF ExchangeTypeOK
    <3> QED BY <1>1, <3>1, <3>2 DEF ExchangeTypeOK, Shorter
  <2> QED BY <2>1, <2>2
<1>12. ExchangeTypeOK'
  <2>1. /\ DOMAIN call' = DOMAIN call /\ call'.n \in Nat /\ call'.got \in Seq(Frames) /\ call'.quiet \in Nat
        /\ call'.at \in {"over", "connecting", "pinging", "sending", "collecting"}
    BY <1>1, <1>2, <1>8 DEF ExchangeTypeOK
  <2>2. upstream'.busy \in Nat /\ upstream'.said \in Seq(Frames) /\ upstream'.silent \in Nat
    BY <1>1 DEF ExchangeTypeOK
  <2>3. socket'.state \in {"gone", "pooled", "used"}
    BY <1>11
  <2> QED BY <1>1, <1>11, <2>1, <2>2, <2>3 DEF ExchangeTypeOK
<1>13. InStep'
  BY <1>2, <1>11 DEF InStep
<1>14. PingsNumbered'
  <2>1. CASE socket'.down = <<>> /\ socket'.up = <<>>
    BY <2>1 DEF PingsNumbered
  <2>2. CASE socket'.down = socket.down /\ socket'.up = Tail(socket.up)
    <3>1. Shorter(socket.up, socket'.up)
      BY <1>1, <2>2, FirstTaken DEF ExchangeTypeOK
    <3> QED BY <1>1, <1>2, <2>2, <3>1 DEF PingsNumbered, Shorter
  <2> QED BY <1>11, <2>1, <2>2
<1>15. SaidInOrder'
  BY <1>1, SaidStays
<1>16. ClocksAgree' /\ Delivered'
  BY <1>2, <1>10 DEF ClocksAgree, Delivered
<1>17. socket'.state = "pooled" => NothingDue'
  <2> HAVE socket'.state = "pooled"
  <2>1. socket'.down = socket.down /\ socket'.up = Tail(socket.up)
    BY <1>11
  <2>2. \A i \in DOMAIN socket'.down : socket'.down[i].kind = "ping"
    BY <1>4, <2>1 DEF Answering
  <2>3. ASSUME NEW i \in DOMAIN socket'.up PROVE ~IsResponseEvent(socket'.up[i])
    <3>1. CASE socket'.up[i].kind \in AnswerKinds
      <4>1. Carries(socket'.up, full, Len(call'.got))
        BY <1>2, <1>5, <2>1
      <4>2. \E j \in Len(call'.got) + 1 .. Len(full) : socket'.up[i] = full[j]
        BY <3>1, <4>1, CarriesOf
      <4>3. socket'.up[i].kind = "control"
        BY <1>6, <1>8, <4>2
      <4> QED BY <4>3 DEF IsResponseEvent, Finals
    <3>2. CASE socket'.up[i].kind \notin AnswerKinds
      BY <3>2 DEF IsResponseEvent, AnswerKinds
    <3> QED BY <3>1, <3>2
  <2> QED BY <1>6, <2>2, <2>3 DEF NothingDue
<1> QED BY <1>2, <1>12, <1>13, <1>14, <1>15, <1>16, <1>17 DEF ExchangeInv

LEMMA CollectFrameKeeps ==
    ASSUME ExchangeInv, CollectFrame
    PROVE  ExchangeInv'
<1> DEFINE f == socket.up[1]
<1>1. ExchangeTypeOK /\ PingsNumbered /\ call.at = "collecting" /\ socket.up # <<>> /\ call.quiet < Budget
  BY DEF ExchangeInv, CollectFrame
<1>2. Head(socket.up) = f /\ 1 \in DOMAIN socket.up /\ f \in Frames
  BY <1>1, FirstTaken DEF ExchangeTypeOK
<1>3. /\ DOMAIN upstream' = DOMAIN upstream /\ upstream'.busy = upstream.busy /\ upstream'.said = upstream.said
      /\ upstream'.ended = upstream.ended
      /\ upstream'.silent = IF f.kind \in {"event"} \cup Finals THEN 0 ELSE upstream.silent
  BY <1>1, <1>2 DEF ExchangeTypeOK, CollectFrame
<1>4. f.kind \in FrameKinds /\ f.kind # "request"
  BY <1>1, <1>2 DEF Frames, PingsNumbered
<1>5. CASE f.kind \in {"event", "control"}
  <2>1. call' = Gathered(f) /\ socket' = [socket EXCEPT !.up = Tail(@)]
    BY <1>2, <1>5 DEF CollectFrame
  <2> QED BY <1>1, <1>3, <1>5, <2>1, CollectMoreKeeps
<1>6. CASE f.kind \in Finals
  <2>1. upstream'.silent = 0
    BY <1>3, <1>6
  <2>2. PICK end \in {"answered", "unknown"} :
           /\ call' = [Gathered(f) EXCEPT !.at = "over", !.end = end]
           /\ socket' \in {Gone, [socket EXCEPT !.up = Tail(@), !.state = "pooled"]}
    BY <1>2, <1>6 DEF CollectFrame, Finals
  <2> QED BY <1>1, <1>3, <1>6, <2>1, <2>2, CollectFinalKeeps
<1>7. CASE f.kind \in {"ping", "pong"}
  <2>1. call' = [call EXCEPT !.still = 0] /\ socket' = [socket EXCEPT !.up = Tail(@)]
    BY <1>2, <1>7 DEF CollectFrame
  <2>2. upstream'.silent = upstream.silent
    BY <1>3, <1>7 DEF Finals
  <2> QED BY <1>1, <1>3, <1>7, <2>1, <2>2, CollectNoiseKeeps
<1>8. CASE f.kind \in {"binary", "close"}
  <2>1. PICK end \in {"binary", "cut_off"} : Over(end)
    BY <1>2, <1>8 DEF CollectFrame
  <2>2. upstream'.silent = upstream.silent
    BY <1>3, <1>8 DEF Finals
  <2>3. end # "answered" /\ end \notin {"idle", "no_answer"} /\ call.at # "over"
    BY <1>1
  <2> QED BY <1>3, <2>1, <2>2, <2>3, OverKeeps
<1> QED BY <1>4, <1>5, <1>6, <1>7, <1>8 DEF FrameKinds, AnswerKinds, Noise

-----------------------------------------------------------------------------
(* The theorem.                                                              *)

LEMMA ExchangeStarts ==
    ASSUME ExchangeInit
    PROVE  ExchangeInv
<1>1. ExchangeTypeOK /\ InStep /\ PingsNumbered
  BY DEF ExchangeInit, ExchangeTypeOK, InStep, PingsNumbered, Gone, NoCall
<1>2. SaidInOrder
  <2>1. upstream.said = <<>> /\ upstream.busy = 0 /\ ~upstream.ended
    BY DEF ExchangeInit
  <2> QED BY <2>1 DEF SaidInOrder
<1>3. ClocksAgree /\ Delivered
  BY DEF ExchangeInit, NoCall, ClocksAgree, Delivered
<1> QED BY <1>1, <1>2, <1>3 DEF ExchangeInv, ExchangeInit, Gone, NoCall

LEMMA ExchangeKeeps ==
    ASSUME ExchangeInv, [ExchangeNext]_exchangeVars
    PROVE  ExchangeInv'
<1>1. CASE UNCHANGED exchangeVars
  BY SMTT(40), <1>1 DEF exchangeVars, ExchangeInv, ExchangeTypeOK, InStep, PingsNumbered, SaidInOrder, ClocksAgree, Delivered,
              NothingDue, Pinged, NotYetAsked, OnlyNoise, Asked, Answering, FullyTold
<1>2. CASE ExchangeNext
  BY <1>2, TakeFrameKeeps, SayKeeps, FinishSayingKeeps, InterjectKeeps, BeginKeeps, SocketMadeKeeps,
     PingAnsweredKeeps, PingTimesOutKeeps, SendFrameKeeps, CollectFrameKeeps, KeepaliveKeeps, OverdueKeeps,
     BrokenOffKeeps, TickKeeps DEF ExchangeNext
<1> QED BY <1>1, <1>2

LEMMA ExchangeInvIsSafe ==
    ASSUME ExchangeInv
    PROVE  ExchangeSafety
<1>1. OwnAnswer
  <2>1. Begins(call.got, upstream.said) => IsPrefix(call.got, upstream.said)
    <3>1. call.got \in Seq(Frames) /\ upstream.said \in Seq(Frames)
      BY DEF ExchangeInv, ExchangeTypeOK
    <3> QED BY <3>1 DEF Begins, IsPrefix
  <2>2. call.got # <<>> => call.at \in {"over", "collecting"}
    BY DEF ExchangeInv, InStep
  <2>3. call.at = "collecting" => Begins(call.got, upstream.said) /\ call.end # "answered"
    BY CollectedSoFar DEF ExchangeInv, InStep
  <2>4. call.at = "over" /\ call.got # <<>> =>
            Begins(call.got, upstream.said) /\ (call.end = "answered" => call.got = upstream.said)
    BY DEF ExchangeInv, Delivered
  <2> QED BY <2>1, <2>2, <2>3, <2>4 DEF OwnAnswer
<1>2. HeardOut
  BY DEF ExchangeInv, ClocksAgree, HeardOut
<1>3. KeptClean
  BY DEF ExchangeInv, NothingDue, KeptClean
<1> QED BY <1>1, <1>2, <1>3 DEF ExchangeSafety

\* What a request collects is what was said of it, whole when it ends with an answer;
\* none is given up before the upstream has been silent for the whole budget; and no
\* socket is kept on which something of an answer is still to come.
THEOREM AnswersKeepToTheirRequests == ExchangeSpec => []ExchangeSafety
<1>1. ExchangeInit => ExchangeInv
  BY ExchangeStarts
<1>2. ExchangeInv /\ [ExchangeNext]_exchangeVars => ExchangeInv'
  BY ExchangeKeeps
<1>3. ExchangeInv => ExchangeSafety
  BY ExchangeInvIsSafe
<1> QED BY <1>1, <1>2, <1>3, PTL DEF ExchangeSpec

-----------------------------------------------------------------------------
(* All that lies under a turn.                                               *)

\* A request's answer is its own from the byte to the frame: the tunnel gives TLS the
\* upstream's bytes whole, the calls that make sockets keep apart and on their network
\* generation, and a socket gives each request what was said of it and nothing else.
THEOREM SocketsAreSafe == TunnelSpec /\ DialSpec /\ ExchangeSpec => []SocketSafety
<1>1. TunnelSafety /\ DialSafety /\ ExchangeSafety => SocketSafety
  BY DEF SocketSafety
<1> QED BY <1>1, TunnelGivesAll, CallsKeepApart, AnswersKeepToTheirRequests, PTL
================================================================================
