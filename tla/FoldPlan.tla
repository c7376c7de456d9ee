------------------------------- MODULE FoldPlan -------------------------------
(***************************************************************************)
(* The plan of a hierarchical compaction: which messages of a conversation   *)
(* go into which round of the fold.                                          *)
(*                                                                          *)
(* A fold has the token counts of the messages, tells at which of them a     *)
(* round may open, and carries the limits of the request.  A round is a pair *)
(* of its first and its last message.                                        *)
(***************************************************************************)
EXTENDS Naturals, Sequences, SequencesExt, FiniteSetsExt

CONSTANTS
    FramingReserve,  \* tokens held back for the framing of a request
    Conversations    \* the folds that may be planned

ASSUME FoldPlanAssumption ==
    /\ FramingReserve \in Nat
    /\ \A fold \in Conversations :
          fold.counts \in Seq(Nat) /\ {fold.ceiling, fold.overhead, fold.output} \subseteq Nat

Tokens(fold, first, last) == FoldLeft(LAMBDA sum, n : sum + n, 0, SubSeq(fold.counts, first, last))

\* What a round may hold: per_round().  The code's None is 0 here; both mean no plan.
PerRound(fold) ==
    LET taken == fold.overhead + fold.output + FramingReserve
    IN  IF fold.ceiling < taken THEN 0 ELSE fold.ceiling - taken

\* A later round also holds the summary it carries in.
LaterCapacity(fold) ==
    IF PerRound(fold) < fold.output THEN 0 ELSE PerRound(fold) - fold.output

\* Mutant: the summary that is carried in needs no room.
CapacityWithoutCarry(fold, first) == PerRound(fold)

Capacity(fold, first) == IF first = 1 THEN PerRound(fold) ELSE LaterCapacity(fold)

\* The last message that fits when a round opens at `first`.
Reach(fold, first) ==
    Max({last \in first - 1 .. Len(fold.counts) :
            Tokens(fold, first, last) <= Capacity(fold, first)})

\* Where the next round may open: at the message that no longer fits, or else at
\* the last boundary before it; empty if there is none.
NextOpening(fold, first, last) ==
    LET safe == {m \in first + 1 .. last + 1 : fold.open[m]}
    IN  IF safe = {} THEN {} ELSE {Max(safe)}

\* The rounds, <<>> if there is no plan.
Plan(fold) ==
    LET n == Len(fold.counts)
        rounds[first \in 1 .. n] ==
            IF Reach(fold, first) = n THEN << <<first, n>> >>
            ELSE LET next == NextOpening(fold, first, Reach(fold, first))
                     rest == IF next = {} THEN <<>> ELSE rounds[CHOOSE m \in next : TRUE]
                 IN  IF rest = <<>> THEN <<>> ELSE << <<first, rest[1][1] - 1>> >> \o rest
    IN  IF \/ n = 0
           \/ LaterCapacity(fold) = 0
           \/ \E m \in 1 .. n : fold.counts[m] > LaterCapacity(fold)
        THEN <<>>
        ELSE rounds[1]

-----------------------------------------------------------------------------
(* A call of the planner. *)

VARIABLE planned  \* a fold and its plan, once there is one; <<>> before

PlannerInit == planned = <<>>

PlanFold ==
    /\ planned = <<>>
    /\ \E fold \in Conversations : planned' = <<fold, Plan(fold)>>

PlannerSpec == PlannerInit /\ [][PlanFold]_planned

-----------------------------------------------------------------------------
(* What a plan has to be, without the algorithm. *)

\* Every way to cut the conversation at boundaries: sets of first messages.
Cuttings(fold) ==
    {firsts \in SUBSET (1 .. Len(fold.counts)) :
        /\ 1 \in firsts
        /\ \A m \in firsts \ {1} : fold.open[m]}

\* Where the round that opens at `first` ends under such a cutting.
EndUnder(fold, firsts, first) ==
    Min({m - 1 : m \in {k \in firsts : k > first}} \union {Len(fold.counts)})

\* What a round asks of the model: its messages, what every round repeats, its own
\* output and, but for the first round, the summary of the round before.
Asked(fold, firsts, first) ==
    Tokens(fold, first, EndUnder(fold, firsts, first)) + fold.overhead + fold.output
        + FramingReserve + IF first = 1 THEN 0 ELSE fold.output

FittingCuttings(fold) ==
    {firsts \in Cuttings(fold) : \A first \in firsts : Asked(fold, firsts, first) <= fold.ceiling}

Firsts(rounds) == {rounds[i][1] : i \in 1 .. Len(rounds)}

\* README: the rounds "each fit by construction" and "never split a `tool_use`
\* from its `tool_result`"; and no fold has fewer rounds.  A plan is a fitting
\* cutting at boundaries, and a shortest one; where there is no plan, there is no
\* such cutting, unless a message is too long for a later round.
IsBest(fold, plan) ==
    LET fitting == FittingCuttings(fold)
    IN  IF plan = <<>>
        THEN \/ fitting = {} \/ LaterCapacity(fold) = 0
             \/ \E m \in 1 .. Len(fold.counts) : fold.counts[m] > LaterCapacity(fold)
        ELSE /\ Firsts(plan) \in fitting
             /\ \A firsts \in fitting : Len(plan) <= Cardinality(firsts)

\* Every conversation gets the best plan there is.
PlannerIsBest == planned # <<>> => IsBest(planned[1], planned[2])
===============================================================================
