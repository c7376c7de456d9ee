---------------------------- MODULE Launcher_proofs ----------------------------
(***************************************************************************)
(* What the processes of one launch rely on: the fast bridge's safety and its *)
(* planner of folds, for any conversations, folds and limits; and the shared *)
(* proxy lifecycle, for any sets of launchers and process slots, any number  *)
(* of faults and crashes and either timing assumption.                       *)
(*                                                                          *)
(* A fold's summary grows by the messages of a round at a time, so that a    *)
(* fold is whole rests on the planner: the rounds of a plan follow each       *)
(* other without a gap, from the first message to the last.  The planner is  *)
(* a recursion towards the end of the conversation, and what holds of it is  *)
(* shown by induction over the rounds' distance from there, by way of the    *)
(* least counterexample.  That no way of cutting takes fewer rounds is an    *)
(* exchange: the second opening of any other way may give way to the         *)
(* planner's, which is never before it.                                      *)
(***************************************************************************)
EXTENDS FastBridge, Supervisor, FiniteSums_proofs

-----------------------------------------------------------------------------
(* Sets of numbers. *)

\* Max is what its name says.
LEMMA MaxIs ==
    ASSUME NEW n \in Nat, NEW T \in SUBSET (0 .. n), T # {}
    PROVE  Max(T) \in T /\ \A k \in T : Max(T) >= k
PROOF
<1> DEFINE Turned == {n - t : t \in T}
<1>1. Turned \in SUBSET (0 .. n) /\ Turned # {}
  <2>1. \A t \in 0 .. n : n - t \in 0 .. n
    OBVIOUS
  <2>2. \A t \in T : t \in 0 .. n
    OBVIOUS
  <2>3. PICK t \in T : TRUE
    BY Zenon
  <2>4. n - t \in Turned
    OBVIOUS
  <2>5. Turned \in SUBSET (0 .. n)
    <3> SUFFICES ASSUME NEW k \in Turned PROVE k \in 0 .. n
      OBVIOUS
    <3>1. PICK s \in T : k = n - s
      OBVIOUS
    <3> HIDE DEF Turned
    <3> QED BY <2>1, <2>2, <3>1
  <2> QED BY <2>4, <2>5
<1> HIDE DEF Turned
<1>2. PICK m \in Turned : \A k \in Turned : m <= k
  BY <1>1, LeastOf, Zenon
<1> USE DEF Turned
<1>3. PICK t \in T : m = n - t
  BY <1>2
<1>4. ASSUME NEW k \in T PROVE t >= k
  <2>1. n - k \in Turned
    OBVIOUS
  <2>2. m <= n - k
    BY <1>2, <2>1
  <2>3. n \in Nat /\ t \in Nat /\ k \in Nat
    OBVIOUS
  <2> HIDE DEF Turned
  <2> QED BY <1>3, <2>2, <2>3
<1> QED BY <1>4, Zenon DEF Max

-----------------------------------------------------------------------------
(* The planner. *)

\* What a fold is given by.
IsFold(fold) ==
    /\ fold.counts \in Seq(Nat)
    /\ fold.ceiling \in Nat /\ fold.overhead \in Nat /\ fold.output \in Nat

\* Rounds that follow each other, from a first message to a last one.
Covers(plan, first, last) ==
    /\ plan \in Seq(Nat \X Nat) /\ plan # <<>>
    /\ plan[1][1] = first /\ plan[Len(plan)][2] = last
    /\ \A i \in 1 .. Len(plan) : plan[i][1] <= plan[i][2]
    /\ \A i \in 1 .. Len(plan) - 1 : plan[i + 1][1] = plan[i][2] + 1

LEMMA NoTokens == ASSUME NEW fold, IsFold(fold), NEW first \in Nat \ {0}
                  PROVE  Tokens(fold, first, first - 1) = 0
PROOF
<1>1. SubSeq(fold.counts, first, first - 1) = <<>>
  BY DEF IsFold
<1>2. FoldLeft(LAMBDA sum, n : sum + n, 0, <<>>) = 0
  <2> DEFINE Iter(g) == g = [s \in SUBSET DOMAIN <<>> |->
                               IF s = {} THEN 0 ELSE g[s \ {Max(s)}] + <<>>[Max(s)]]
  <2>1. DOMAIN <<>> = {}
    OBVIOUS
  <2>2. Iter([s \in {{}} |-> 0])
    BY <2>1
  <2>3. Iter(CHOOSE g : Iter(g))
    BY <2>2, Zenon
  <2>4. (CHOOSE g : Iter(g))[{}] = 0
    BY <2>1, <2>3, Zenon
  <2> QED BY <2>1, <2>4, Zenon DEF FoldLeft, MapThenFoldSet
<1> QED BY <1>1, <1>2 DEF Tokens

LEMMA ReachIs ==
    ASSUME NEW fold, IsFold(fold), NEW first \in 1 .. Len(fold.counts)
    PROVE  Reach(fold, first) \in first - 1 .. Len(fold.counts)
PROOF
<1> DEFINE n == Len(fold.counts)
           T == {last \in first - 1 .. n : Tokens(fold, first, last) <= Capacity(fold, first)}
<1>1. n \in Nat
  BY DEF IsFold
<1>2. Capacity(fold, first) \in Nat
  <2>1. PerRound(fold) \in Nat
    BY FoldPlanAssumption DEF PerRound, IsFold
  <2>2. LaterCapacity(fold) \in Nat
    BY <2>1 DEF LaterCapacity, IsFold
  <2> QED BY <2>1, <2>2 DEF Capacity
<1>3. first - 1 \in T
  BY <1>1, <1>2, NoTokens
<1>4. T \in SUBSET (0 .. n) /\ T # {}
  BY <1>1, <1>3
<1> HIDE DEF T
<1>5. Max(T) \in T
  BY <1>1, <1>4, MaxIs, Zenon
<1> QED BY <1>5 DEF Reach, T

LEMMA OpeningIs ==
    ASSUME NEW fold, IsFold(fold), NEW first \in 1 .. Len(fold.counts),
           NEW last \in first - 1 .. Len(fold.counts), NEW m \in NextOpening(fold, first, last)
    PROVE  m \in first + 1 .. last + 1
PROOF
<1> DEFINE safe == {k \in first + 1 .. last + 1 : fold.open[k]}
<1>1. Len(fold.counts) + 1 \in Nat /\ safe \in SUBSET (0 .. Len(fold.counts) + 1)
  BY DEF IsFold
<1>2. safe # {} /\ m = Max(safe)
  BY DEF NextOpening
<1> HIDE DEF safe
<1>3. m \in safe
  BY <1>1, <1>2, MaxIs, Zenon
<1> QED BY <1>3 DEF safe

\* What the planner's recursion makes of the rounds g at the opening `first`.
RoundsFrom(fold, g, first) ==
    IF Reach(fold, first) = Len(fold.counts) THEN << <<first, Len(fold.counts)>> >>
    ELSE LET next == NextOpening(fold, first, Reach(fold, first))
             rest == IF next = {} THEN <<>> ELSE g[CHOOSE m \in next : TRUE]
         IN  IF rest = <<>> THEN <<>> ELSE << <<first, rest[1][1] - 1>> >> \o rest

Solution(fold, g) == g = [first \in 1 .. Len(fold.counts) |-> RoundsFrom(fold, g, first)]

Rounds(fold) == CHOOSE g : Solution(fold, g)

LEMMA PlanIs ==
    ASSUME NEW fold, IsFold(fold)
    PROVE  Plan(fold) = <<>> \/ (1 \in 1 .. Len(fold.counts) /\ Plan(fold) = Rounds(fold)[1])
PROOF
<1>1. Plan(fold) = <<>> \/ (Len(fold.counts) # 0 /\ Plan(fold) = Rounds(fold)[1])
  BY Zenon DEF Plan, Rounds, Solution, RoundsFrom
<1>2. Len(fold.counts) \in Nat
  BY DEF IsFold
<1> QED BY <1>1, <1>2

\* The recursion looks only at later openings.
LEMMA LooksAhead ==
    ASSUME NEW fold, IsFold(fold), NEW first \in 1 .. Len(fold.counts), NEW g, NEW h,
           \A m \in first + 1 .. Len(fold.counts) : g[m] = h[m]
    PROVE  RoundsFrom(fold, g, first) = RoundsFrom(fold, h, first)
PROOF
<1> DEFINE next == NextOpening(fold, first, Reach(fold, first))
<1>1. CASE Reach(fold, first) = Len(fold.counts)
  BY <1>1 DEF RoundsFrom
<1>2. CASE Reach(fold, first) # Len(fold.counts) /\ next # {}
  <2>1. Reach(fold, first) \in first - 1 .. Len(fold.counts) /\ Len(fold.counts) \in Nat
    BY ReachIs DEF IsFold
  <2>2. (CHOOSE m \in next : TRUE) \in next
    BY <1>2
  <2>3. (CHOOSE m \in next : TRUE) \in first + 1 .. Reach(fold, first) + 1
    BY <2>1, <2>2, OpeningIs
  <2>4. (CHOOSE m \in next : TRUE) \in first + 1 .. Len(fold.counts)
    BY <1>2, <2>1, <2>3
  <2>5. g[CHOOSE m \in next : TRUE] = h[CHOOSE m \in next : TRUE]
    BY <2>4
  <2> QED BY <2>5, Zenon DEF RoundsFrom
<1>3. CASE Reach(fold, first) # Len(fold.counts) /\ next = {}
  BY <1>3, Zenon DEF RoundsFrom
<1> QED BY <1>1, <1>2, <1>3

\* The recursion is well defined.
LEMMA RoundsSolve == ASSUME NEW fold, IsFold(fold) PROVE Solution(fold, Rounds(fold))
PROOF
<1> DEFINE n == Len(fold.counts)
           FromHere(g, k) == \A first \in n + 1 - k .. n : g[first] = RoundsFrom(fold, g, first)
           Bad == {k \in 0 .. n : ~\E g : FromHere(g, k)}
<1>1. n \in Nat
  BY DEF IsFold
<1>2. ASSUME Bad # {} PROVE FALSE
  <2> Bad \in SUBSET (0 .. n)
    OBVIOUS
  <2> HIDE DEF Bad
  <2>1. PICK k \in Bad : \A j \in Bad : k <= j
    BY <1>1, <1>2, LeastOf, Zenon
  <2> USE DEF Bad
  <2>2. k # 0
    <3>1. n + 1 - 0 .. n = {}
      BY <1>1
    <3>2. ASSUME NEW g PROVE FromHere(g, 0)
      BY <3>1
    <3> HIDE DEF FromHere
    <3> QED BY <2>1, <3>2
  <2>3. k \in 1 .. n /\ k - 1 \in 0 .. n
    BY <1>1, <2>1, <2>2
  <2>4. PICK g : FromHere(g, k - 1)
    <3>1. k - 1 \notin Bad
      <4> HIDE DEF Bad
      <4> QED BY <2>1, <2>3
    <3> HIDE DEF FromHere
    <3> QED BY <2>3, <3>1
  <2> DEFINE first == n + 1 - k
             h == [m \in 1 .. n |-> IF m = first THEN RoundsFrom(fold, g, m) ELSE g[m]]
  <2>5. first \in 1 .. n
    BY <1>1, <2>3
  <2>6. ASSUME NEW m \in first .. n PROVE h[m] = RoundsFrom(fold, h, m)
    <3>1. m \in 1 .. n /\ \A j \in m + 1 .. n : j \in 1 .. n /\ j # first
      BY <1>1, <2>3, <2>5, <2>6
    <3>2. \A j \in m + 1 .. n : g[j] = h[j]
      BY <3>1
    <3>3. RoundsFrom(fold, g, m) = RoundsFrom(fold, h, m)
      BY <3>1, <3>2, LooksAhead, Zenon
    <3>4. CASE m = first
      BY <2>5, <3>3, <3>4
    <3>5. CASE m # first
      <4>1. m \in n + 1 - (k - 1) .. n
        BY <1>1, <2>3, <2>6, <3>5
      <4>2. g[m] = RoundsFrom(fold, g, m)
        BY <2>4, <4>1
      <4> QED BY <3>1, <3>3, <3>5, <4>2
    <3> QED BY <3>4, <3>5
  <2> HIDE DEF h
  <2>7. FromHere(h, k)
    BY <2>6
  <2> HIDE DEF FromHere
  <2> QED BY <2>1, <2>7
<1>3. \E g : FromHere(g, n)
  <2>1. n \in 0 .. n
    BY <1>1
  <2> HIDE DEF FromHere
  <2> QED BY <1>2, <2>1
<1>4. PICK g : \A first \in 1 .. n : g[first] = RoundsFrom(fold, g, first)
  <2>1. n + 1 - n = 1
    BY <1>1
  <2> QED BY <1>3, <2>1
<1> DEFINE h == [first \in 1 .. n |-> g[first]]
<1>5. ASSUME NEW first \in 1 .. n PROVE h[first] = RoundsFrom(fold, h, first)
  <2>1. \A j \in first + 1 .. n : g[j] = h[j]
    BY <1>1
  <2> QED BY <1>4, <2>1, LooksAhead
<1> HIDE DEF Bad, FromHere
<1>6. Solution(fold, h)
  BY <1>5 DEF Solution
<1> QED BY <1>6 DEF Rounds

\* A round before the others.
LEMMA CoversOneMore ==
    ASSUME NEW plan, NEW first \in Nat, NEW m \in Nat, NEW last \in Nat, first < m, Covers(plan, m, last)
    PROVE  Covers(<< <<first, m - 1>> >> \o plan, first, last)
PROOF
<1> DEFINE x == <<first, m - 1>>
           longer == <<x>> \o plan
<1>1. x \in Nat \X Nat /\ x[1] = first /\ x[2] = m - 1 /\ x[1] <= x[2]
  OBVIOUS
<1>2. plan \in Seq(Nat \X Nat) /\ Len(plan) \in Nat \ {0}
  BY DEF Covers
<1> HIDE DEF x
<1>3. longer \in Seq(Nat \X Nat) /\ Len(longer) = Len(plan) + 1 /\ longer # <<>>
  BY <1>1, <1>2
<1>4. longer[1] = x /\ \A i \in 1 .. Len(plan) : longer[i + 1] = plan[i]
  BY <1>1, <1>2
<1>5. \A i \in 2 .. Len(longer) : i - 1 \in 1 .. Len(plan) /\ longer[i] = plan[i - 1]
  <2> TAKE i \in 2 .. Len(longer)
  <2>1. i - 1 \in 1 .. Len(plan) /\ (i - 1) + 1 = i
    BY <1>2, <1>3
  <2> QED BY <1>4, <2>1
<1> HIDE DEF longer
<1>6. longer[Len(longer)][2] = last
  <2>1. Len(longer) \in 2 .. Len(longer) /\ Len(longer) - 1 = Len(plan)
    BY <1>2, <1>3
  <2>2. longer[Len(longer)] = plan[Len(plan)]
    BY <1>5, <2>1
  <2> QED BY <2>2 DEF Covers
<1>7. ASSUME NEW i \in 1 .. Len(longer) PROVE longer[i][1] <= longer[i][2]
  <2>1. CASE i = 1
    BY <1>1, <1>4, <2>1
  <2>2. CASE i # 1
    <3>1. i \in 2 .. Len(longer)
      BY <1>2, <1>3, <2>2
    <3> QED BY <1>5, <3>1, Zenon DEF Covers
  <2> QED BY <2>1, <2>2
<1>8. ASSUME NEW i \in 1 .. Len(longer) - 1 PROVE longer[i + 1][1] = longer[i][2] + 1
  <2>1. i + 1 \in 2 .. Len(longer) /\ longer[i + 1] = plan[i] /\ i \in 1 .. Len(plan)
    BY <1>2, <1>3, <1>4
  <2>2. CASE i = 1
    BY <1>1, <1>4, <2>1, <2>2 DEF Covers
  <2>3. CASE i # 1
    <3>1. i \in 2 .. Len(longer) /\ i - 1 \in 1 .. Len(plan) - 1 /\ (i - 1) + 1 = i
      BY <1>2, <1>3, <2>1, <2>3
    <3>2. longer[i] = plan[i - 1]
      BY <1>5, <3>1
    <3>3. plan[i][1] = plan[i - 1][2] + 1
      BY <3>1 DEF Covers
    <3> QED BY <2>1, <3>2, <3>3
  <2> QED BY <2>2, <2>3
<1>9. longer[1][1] = first
  BY <1>1, <1>4
<1>10. longer = << <<first, m - 1>> >> \o plan
  BY DEF longer, x
<1>11. Covers(longer, first, last)
  BY <1>3, <1>6, <1>7, <1>8, <1>9 DEF Covers
<1> QED BY <1>10, <1>11

\* The rounds from an opening on go through the conversation to its last message.
LEMMA RoundsCover ==
    ASSUME NEW fold, IsFold(fold), NEW opening \in 1 .. Len(fold.counts)
    PROVE  Rounds(fold)[opening] = <<>> \/ Covers(Rounds(fold)[opening], opening, Len(fold.counts))
PROOF
<1> DEFINE n == Len(fold.counts)
           Right(first) == Rounds(fold)[first] = <<>> \/ Covers(Rounds(fold)[first], first, n)
           Bad == {k \in 0 .. n : \E first \in 1 .. n : first = n - k /\ ~Right(first)}
<1>1. n \in Nat
  BY DEF IsFold
<1>2. ASSUME Bad # {} PROVE FALSE
  <2> Bad \in SUBSET (0 .. n)
    OBVIOUS
  <2> HIDE DEF Bad
  <2>1. PICK k \in Bad : \A j \in Bad : k <= j
    BY <1>1, <1>2, LeastOf, Zenon
  <2> USE DEF Bad
  <2>2. PICK first \in 1 .. n : first = n - k /\ ~Right(first)
    <3> HIDE DEF Right
    <3> QED BY <2>1
  <2>3. ASSUME NEW m \in first + 1 .. n PROVE Right(m)
    <3>1. n - m \in 0 .. n /\ m \in 1 .. n /\ m = n - (n - m) /\ n - m < k
      BY SMTT(20), <1>1, <2>1, <2>2
    <3>2. n - m \notin Bad
      <4> HIDE DEF Bad
      <4> QED BY <1>1, <2>1, <3>1
    <3> HIDE DEF Right
    <3> QED BY <3>1, <3>2, Zenon
  <2> DEFINE next == NextOpening(fold, first, Reach(fold, first))
             m == CHOOSE i \in next : TRUE
             rest == Rounds(fold)[m]
  <2>4. Rounds(fold)[first] = RoundsFrom(fold, Rounds(fold), first)
    BY RoundsSolve DEF Solution
  <2>5. CASE Reach(fold, first) = n
    <3>1. Rounds(fold)[first] = << <<first, n>> >>
      BY <2>4, <2>5 DEF RoundsFrom
    <3>2. Covers(<< <<first, n>> >>, first, n)
      BY SMTT(20), <1>1 DEF Covers
    <3> QED BY <2>2, <3>1, <3>2
  <2>6. CASE Reach(fold, first) # n /\ (next = {} \/ rest = <<>>)
    <3>1. Rounds(fold)[first] = <<>>
      BY <2>4, <2>6, Zenon DEF RoundsFrom
    <3> QED BY <2>2, <3>1
  <2>7. CASE Reach(fold, first) # n /\ next # {} /\ rest # <<>>
    <3>1. Reach(fold, first) \in first - 1 .. n
      BY ReachIs
    <3>2. m \in next
      BY <2>7
    <3>3. m \in first + 1 .. Reach(fold, first) + 1
      BY <3>1, <3>2, OpeningIs, Zenon
    <3>4. m \in first + 1 .. n
      BY <1>1, <2>7, <3>1, <3>3
    <3>5. Covers(rest, m, n)
      BY <2>3, <2>7, <3>4
    <3>6. Rounds(fold)[first] = << <<first, rest[1][1] - 1>> >> \o rest
      BY <2>4, <2>7, Zenon DEF RoundsFrom
    <3> HIDE DEF m, rest, next
    <3>7. Rounds(fold)[first] = << <<first, m - 1>> >> \o rest
      BY <3>5, <3>6 DEF Covers
    <3>8. Covers(<< <<first, m - 1>> >> \o rest, first, n)
      BY <1>1, <3>4, <3>5, CoversOneMore
    <3> QED BY <2>2, <3>7, <3>8
  <2> QED BY <2>5, <2>6, <2>7
<1>3. Right(opening)
  <2>1. n - opening \in 0 .. n /\ opening = n - (n - opening)
    BY <1>1
  <2>2. n - opening \notin Bad
    <3> HIDE DEF Bad
    <3> QED BY <1>2
  <2> HIDE DEF Right
  <2> QED BY <2>1, <2>2
<1> QED BY <1>3

\* A plan goes through the conversation from its first message to its last.
LEMMA PlanCovers ==
    ASSUME NEW fold, IsFold(fold)
    PROVE  Plan(fold) = <<>> \/ Covers(Plan(fold), 1, Len(fold.counts))
BY PlanIs, RoundsCover

-----------------------------------------------------------------------------
(* What a round holds: the planner adds counts up from left to right, which is
   the sum over the messages of the round. *)

\* Min is what its name says.
LEMMA MinIs ==
    ASSUME NEW n \in Nat, NEW T \in SUBSET (0 .. n), T # {}
    PROVE  Min(T) \in T /\ \A k \in T : Min(T) <= k
BY LeastOf, Zenon DEF Min

\* The sum from left to right is the sum over the places.
LEMMA FoldIsSum ==
    ASSUME NEW s \in Seq(Nat)
    PROVE  FoldLeft(LAMBDA sum, n : sum + n, 0, s) = SumFunctionOnSet(s, 1 .. Len(s))
PROOF
<1> DEFINE D == DOMAIN s
           Iter(g) == g = [S \in SUBSET D |-> IF S = {} THEN 0 ELSE g[S \ {Max(S)}] + s[Max(S)]]
           G == CHOOSE g : Iter(g)
           Sum == [S \in SUBSET D |-> SumFunctionOnSet(s, S)]
<1>1. FoldLeft(LAMBDA sum, n : sum + n, 0, s) = G[D]
  BY Zenon DEF FoldLeft, MapThenFoldSet
<1>2. D = 1 .. Len(s) /\ Len(s) \in Nat /\ IsFiniteSet(D) /\ \A i \in D : s[i] \in Nat
  BY FS_Interval
<1> HIDE DEF D
<1>3. ASSUME NEW S \in SUBSET D, S # {}
      PROVE  /\ Max(S) \in S /\ S \ {Max(S)} \in SUBSET D
             /\ SumFunctionOnSet(s, S) = SumFunctionOnSet(s, S \ {Max(S)}) + s[Max(S)]
  <2>1. S \in SUBSET (0 .. Len(s))
    BY <1>2
  <2>2. Max(S) \in S
    BY <1>2, <1>3, <2>1, MaxIs, Zenon
  <2>3. IsFiniteSet(S) /\ IsFiniteSet(S \ {Max(S)}) /\ \A i \in S : s[i] \in Nat
    BY <1>2, <1>3, FS_Subset, Zenon
  <2>4. SumFunctionOnSet(s, S) = s[Max(S)] + SumFunctionOnSet(s, S \ {Max(S)})
    BY <2>2, <2>3, SumTakesOut
  <2>5. s[Max(S)] \in Nat /\ SumFunctionOnSet(s, S \ {Max(S)}) \in Nat
    <3>1. \A i \in S \ {Max(S)} : s[i] \in Nat
      BY <2>3
    <3> QED BY <2>2, <2>3, <3>1, SumType
  <2> QED BY <2>2, <2>4, <2>5
<1>4. SumFunctionOnSet(s, {}) = 0
  BY SumUnfolds, FS_EmptySet, Zenon
<1>5. ASSUME NEW S \in SUBSET D PROVE Sum[S] = IF S = {} THEN 0 ELSE Sum[S \ {Max(S)}] + s[Max(S)]
  <2>1. CASE S = {}
    BY <1>4, <2>1
  <2>2. CASE S # {}
    BY <1>3, <2>2
  <2> QED BY <2>1, <2>2
<1> HIDE DEF Sum
<1>6. Iter(Sum)
  BY <1>5, Zenon DEF Sum
<1>7. Iter(G)
  <2> HIDE DEF Iter
  <2> QED BY <1>6
<1>8. ASSUME NEW S \in SUBSET D PROVE G[S] = IF S = {} THEN 0 ELSE G[S \ {Max(S)}] + s[Max(S)]
  <2> HIDE DEF G
  <2> QED BY <1>7, Zenon
<1> HIDE DEF G, Iter
<1> DEFINE Bad == {S \in SUBSET D : G[S] # SumFunctionOnSet(s, S)}
<1>9. ASSUME Bad # {} PROVE FALSE
  <2> Bad \subseteq SUBSET D
    OBVIOUS
  <2> HIDE DEF Bad
  <2>1. PICK S \in Bad : \A t \in Bad : t \subseteq S => t = S
    <3>1. IsFiniteSet(D)
      BY <1>2
    <3> QED BY <1>9, <3>1, MinimalSubset
  <2> USE DEF Bad
  <2>2. S # {}
    BY <1>4, <1>8, <2>1, Zenon
  <2>3. G[S \ {Max(S)}] = SumFunctionOnSet(s, S \ {Max(S)})
    <3>1. Max(S) \in S /\ S \ {Max(S)} \in SUBSET D
      BY <1>3, <2>1, <2>2
    <3>2. S \ {Max(S)} \notin Bad
      <4> HIDE DEF Bad
      <4> QED BY <2>1, <3>1
    <3> QED BY <3>1, <3>2
  <2>4. G[S] = SumFunctionOnSet(s, S)
    BY <1>3, <1>8, <2>1, <2>2, <2>3, Zenon
  <2> QED BY <2>1, <2>4
<1>10. G[D] = SumFunctionOnSet(s, D)
  BY <1>9
<1> QED BY <1>1, <1>2, <1>10

\* The k places after the first a, and a function that has their values.
Span(a, k) == a + 1 .. a + k

Shifted(g, f, a, k) == \A i \in 1 .. k : g[i] = f[a + i] /\ g[i] \in Nat

\* A sum does not depend on where the numbers are counted from.
LEMMA SumMoves ==
    ASSUME NEW f, NEW g, NEW a \in Nat, NEW k \in Nat,
           Shifted(g, f, a, k)
    PROVE  SumFunctionOnSet(g, 1 .. k) = SumFunctionOnSet(f, Span(a, k))
PROOF
<1>0. \A i \in 1 .. k : g[i] = f[a + i] /\ g[i] \in Nat
  BY DEF Shifted
<1> DEFINE Here(j) == SumFunctionOnSet(g, 1 .. j)
           There(j) == SumFunctionOnSet(f, a + 1 .. a + j)
           Bad == {j \in 0 .. k : Here(j) # There(j)}
<1>1. ASSUME Bad # {} PROVE FALSE
  <2> Bad \in SUBSET (0 .. k)
    OBVIOUS
  <2> HIDE DEF Bad
  <2>1. PICK j \in Bad : \A i \in Bad : j <= i
    BY <1>1, LeastOf, Zenon
  <2>2. j \in 0 .. k
    BY <2>1
  <2>3. j # 0
    <3>1. 1 .. 0 = {} /\ a + 1 .. a + 0 = {}
      OBVIOUS
    <3>2. Here(0) = There(0)
      BY <3>1, SumUnfolds, FS_EmptySet, Zenon
    <3>3. 0 \notin Bad
      BY <3>2 DEF Bad
    <3> QED BY <2>1, <3>3
  <2>4. j - 1 \in 0 .. k /\ j - 1 \notin Bad /\ j \in 1 .. k
    BY <2>1, <2>2, <2>3
  <2>5. Here(j - 1) = There(j - 1)
    <3> HIDE DEF Here, There
    <3> QED BY <2>4 DEF Bad
  <2>6. /\ 1 .. j - 1 = (1 .. j) \ {j} /\ j \in 1 .. j
        /\ a + 1 .. a + (j - 1) = (a + 1 .. a + j) \ {a + j} /\ a + j \in a + 1 .. a + j
    BY <2>2, <2>3
  <2>7. IsFiniteSet(1 .. j) /\ IsFiniteSet(a + 1 .. a + j)
    BY <2>2, FS_Interval
  <2>8. \A i \in 1 .. j : g[i] \in Nat
    BY <1>0, <2>4
  <2>9. \A i \in a + 1 .. a + j : f[i] \in Nat
    <3> SUFFICES ASSUME NEW i \in a + 1 .. a + j PROVE f[i] \in Nat
      OBVIOUS
    <3>1. i - a \in 1 .. k /\ a + (i - a) = i
      BY <2>4
    <3> QED BY <1>0, <3>1
  <2>10. Here(j) = g[j] + Here(j - 1)
    <3>1. SumFunctionOnSet(g, 1 .. j) = g[j] + SumFunctionOnSet(g, (1 .. j) \ {j})
      BY <2>6, <2>7, <2>8, SumTakesOut, Zenon
    <3> QED BY <2>6, <3>1, Zenon
  <2>11. There(j) = f[a + j] + There(j - 1)
    <3> DEFINE S == a + 1 .. a + j
               e == a + j
    <3>1. IsFiniteSet(S) /\ e \in S /\ \A i \in S : f[i] \in Nat
      BY <2>6, <2>7, <2>9, Zenon
    <3>2. S \ {e} = a + 1 .. a + (j - 1)
      BY <2>6, Zenon
    <3> HIDE DEF S, e
    <3>3. SumFunctionOnSet(f, S) = f[e] + SumFunctionOnSet(f, S \ {e})
      BY <3>1, SumTakesOut, Zenon
    <3> QED BY <3>2, <3>3, Zenon DEF S, e
  <2>12. g[j] = f[a + j]
    BY <1>0, <2>4
  <2> HIDE DEF Here, There
  <2>13. Here(j) # There(j)
    BY <2>1 DEF Bad
  <2> QED BY <2>5, <2>10, <2>11, <2>12, <2>13
<1>2. k \in 0 .. k
  OBVIOUS
<1>3. Here(k) = There(k)
  <2> HIDE DEF Here, There
  <2> QED BY <1>1, <1>2
<1> QED BY <1>3 DEF Span

\* A part of a sequence, counted from where it begins.
LEMMA SubSeqHolds ==
    ASSUME NEW q \in Seq(Nat), NEW first \in Nat, NEW last \in Int, first >= 1, last <= Len(q)
    PROVE  \A i \in 1 .. last - (first - 1) : SubSeq(q, first, last)[i] = q[first - 1 + i]
BY SMTT(20)

\* What a round holds is the sum of the counts of its messages.
LEMMA TokensAreSum ==
    ASSUME NEW fold, IsFold(fold),
           NEW first \in 1 .. Len(fold.counts), NEW last \in first - 1 .. Len(fold.counts)
    PROVE  Tokens(fold, first, last) = SumFunctionOnSet(fold.counts, first .. last)
PROOF
<1> DEFINE held == SubSeq(fold.counts, first, last)
           before == first - 1
           size == last - before
<1>1. fold.counts \in Seq(Nat) /\ Len(fold.counts) \in Nat
  BY DEF IsFold
<1>2. before \in Nat /\ size \in Nat /\ before + 1 = first /\ before + size = last
  BY <1>1
<1>3. held \in Seq(Nat) /\ Len(held) = size /\ \A i \in 1 .. size : held[i] = fold.counts[before + i]
  <2>1. last <= Len(fold.counts) /\ first >= 1 /\ first \in Int /\ last \in Int
    BY <1>1
  <2>2. held \in Seq(Nat)
    BY <1>1, <1>2
  <2>3. Len(held) = size
    BY <1>1, <1>2, <2>1
  <2>4. \A i \in 1 .. size : held[i] = fold.counts[before + i]
    BY SMTT(40), <1>1, <1>2, <2>1, SubSeqHolds
  <2> QED BY <2>2, <2>3, <2>4, Zenon
<1> HIDE DEF held, before, size
<1>4. \A i \in 1 .. size : held[i] = fold.counts[before + i] /\ held[i] \in Nat
  BY SMTT(40), <1>3
<1>5. SumFunctionOnSet(held, 1 .. size) = SumFunctionOnSet(fold.counts, before + 1 .. before + size)
  <2>1. before \in Nat /\ size \in Nat
    BY <1>2
  <2> DEFINE c == fold.counts
  <2>2. Shifted(held, c, before, size)
    BY <1>4 DEF Shifted
  <2> HIDE DEF c
  <2>3. SumFunctionOnSet(held, 1 .. size) = SumFunctionOnSet(c, Span(before, size))
    BY <2>1, <2>2, SumMoves
  <2> QED BY <2>3 DEF c, Span
<1>6. Tokens(fold, first, last) = SumFunctionOnSet(held, 1 .. size)
  BY <1>3, FoldIsSum DEF Tokens, held
<1> QED BY <1>2, <1>5, <1>6

\* A round holds no less than any part of it.
LEMMA TokensGrow ==
    ASSUME NEW fold, IsFold(fold),
           NEW first \in 1 .. Len(fold.counts), NEW last \in first - 1 .. Len(fold.counts),
           NEW f \in first .. Len(fold.counts), NEW l \in f - 1 .. last
    PROVE  /\ Tokens(fold, f, l) <= Tokens(fold, first, last)
           /\ Tokens(fold, f, l) \in Nat /\ Tokens(fold, first, last) \in Nat
PROOF
<1> DEFINE S == first .. last
           T == f .. l
           c == fold.counts
<1>1. Len(c) \in Nat /\ T \in SUBSET S /\ (\A i \in S : c[i] \in Nat)
  BY SMTT(20) DEF IsFold
<1>2. IsFiniteSet(S) /\ IsFiniteSet(T) /\ IsFiniteSet(S \ T)
  <2>1. first \in Int /\ last \in Int /\ f \in Int /\ l \in Int
    BY <1>1
  <2>2. IsFiniteSet(S) /\ IsFiniteSet(T)
    BY <2>1, FS_Interval
  <2> QED BY <2>2, FS_Subset
<1>3. Tokens(fold, first, last) = SumFunctionOnSet(c, S)
  BY TokensAreSum
<1>4. Tokens(fold, f, l) = SumFunctionOnSet(c, T)
  <2>1. f \in 1 .. Len(fold.counts) /\ l \in f - 1 .. Len(fold.counts)
    BY <1>1
  <2> QED BY <2>1, TokensAreSum
<1> HIDE DEF S, T
<1>5. SumFunctionOnSet(c, S) = SumFunctionOnSet(c, T) + SumFunctionOnSet(c, S \ T)
  BY <1>1, <1>2, SumSplits
<1>6. SumFunctionOnSet(c, S) \in Nat /\ SumFunctionOnSet(c, T) \in Nat /\ SumFunctionOnSet(c, S \ T) \in Nat
  <2>1. (\A i \in T : c[i] \in Nat) /\ (\A i \in S \ T : c[i] \in Nat)
    BY <1>1
  <2> QED BY <1>1, <1>2, <2>1, SumType
<1> QED BY <1>3, <1>4, <1>5, <1>6

-----------------------------------------------------------------------------
(* The planner's rounds are the fewest: whatever way there is to cut the
   conversation, its openings never get ahead of the planner's. *)

\* A round may hold some number of tokens.
LEMMA CapacityIs ==
    ASSUME NEW fold, IsFold(fold), NEW first
    PROVE  Capacity(fold, first) \in Nat
PROOF
<1>1. PerRound(fold) \in Nat
  BY FoldPlanAssumption DEF PerRound, IsFold
<1>2. LaterCapacity(fold) \in Nat
  BY <1>1 DEF LaterCapacity, IsFold
<1> QED BY <1>1, <1>2 DEF Capacity

\* A round reaches as far as it may.
LEMMA ReachIsFarthest ==
    ASSUME NEW fold, IsFold(fold), NEW first \in 1 .. Len(fold.counts)
    PROVE  /\ Reach(fold, first) \in first - 1 .. Len(fold.counts)
           /\ Tokens(fold, first, Reach(fold, first)) <= Capacity(fold, first)
           /\ \A last \in first - 1 .. Len(fold.counts) :
                 Tokens(fold, first, last) <= Capacity(fold, first) => last <= Reach(fold, first)
PROOF
<1> DEFINE n == Len(fold.counts)
           T == {last \in first - 1 .. n : Tokens(fold, first, last) <= Capacity(fold, first)}
<1>1. n \in Nat
  BY DEF IsFold
<1>2. first - 1 \in T
  BY <1>1, NoTokens, CapacityIs
<1>3. T \in SUBSET (0 .. n) /\ T # {}
  BY <1>1, <1>2
<1>4. \A last \in first - 1 .. n : Tokens(fold, first, last) <= Capacity(fold, first) => last \in T
  OBVIOUS
<1> HIDE DEF T
<1>5. Max(T) \in T /\ \A k \in T : Max(T) >= k
  BY <1>1, <1>3, MaxIs, Zenon
<1>6. Reach(fold, first) = Max(T)
  BY DEF Reach, T
<1>7. Reach(fold, first) \in first - 1 .. n /\ Tokens(fold, first, Reach(fold, first)) <= Capacity(fold, first)
  BY <1>5, <1>6 DEF T
<1>8. ASSUME NEW last \in first - 1 .. n, Tokens(fold, first, last) <= Capacity(fold, first)
      PROVE  last <= Reach(fold, first)
  <2>1. last \in T
    BY <1>4, <1>8
  <2> QED BY <1>1, <1>5, <1>6, <1>7, <2>1
<1> QED BY <1>7, <1>8

\* The next round opens at the last boundary there is for it.
LEMMA OpeningIsLast ==
    ASSUME NEW fold, IsFold(fold), NEW first \in 1 .. Len(fold.counts),
           NEW last \in first - 1 .. Len(fold.counts)
    PROVE  /\ \A m \in NextOpening(fold, first, last) :
                 /\ m \in first + 1 .. last + 1 /\ fold.open[m]
                 /\ \A k \in first + 1 .. last + 1 : fold.open[k] => k <= m
           /\ \A k \in first + 1 .. last + 1 : fold.open[k] => NextOpening(fold, first, last) # {}
PROOF
<1> DEFINE safe == {k \in first + 1 .. last + 1 : fold.open[k]}
<1>1. Len(fold.counts) + 1 \in Nat /\ safe \in SUBSET (0 .. Len(fold.counts) + 1)
  BY DEF IsFold
<1>2. \A k \in first + 1 .. last + 1 : fold.open[k] => k \in safe
  OBVIOUS
<1>3. \A k \in safe : k \in first + 1 .. last + 1 /\ fold.open[k]
  OBVIOUS
<1>4. NextOpening(fold, first, last) = IF safe = {} THEN {} ELSE {Max(safe)}
  BY DEF NextOpening
<1> HIDE DEF safe
<1>5. CASE safe = {}
  BY <1>2, <1>4, <1>5
<1>6. CASE safe # {}
  <2>1. Max(safe) \in safe /\ \A k \in safe : Max(safe) >= k
    BY <1>1, <1>6, MaxIs, Zenon
  <2>2. \A k \in first + 1 .. last + 1 : fold.open[k] => k <= Max(safe)
    BY <1>2, <1>3, <2>1
  <2> QED BY <1>3, <1>4, <1>6, <2>1, <2>2
<1> QED BY <1>5, <1>6

\* Where a round ends under a cutting: before the next opening, or with the conversation.
LEMMA EndIs ==
    ASSUME NEW fold, IsFold(fold), NEW F \in SUBSET (1 .. Len(fold.counts)), NEW m \in 1 .. Len(fold.counts)
    PROVE  /\ EndUnder(fold, F, m) \in m .. Len(fold.counts)
           /\ \A k \in F : k > m => EndUnder(fold, F, m) < k
           /\ EndUnder(fold, F, m) # Len(fold.counts) =>
                 EndUnder(fold, F, m) + 1 \in F /\ EndUnder(fold, F, m) + 1 > m
PROOF
<1> DEFINE n == Len(fold.counts)
           T == {j - 1 : j \in {k \in F : k > m}} \union {n}
<1>1. n \in Nat
  BY DEF IsFold
<1>2. \A k \in F : k > m => k - 1 \in T
  OBVIOUS
<1>3. ASSUME NEW t \in T PROVE t = n \/ (t + 1 \in F /\ t + 1 > m /\ t \in Nat)
  <2>1. CASE t = n
    BY <2>1
  <2>2. CASE t # n
    <3>1. PICK k \in F : k > m /\ t = k - 1
      BY <2>2
    <3>2. k \in Nat /\ m \in Nat /\ t + 1 = k /\ t \in Nat
      BY <1>1, <3>1
    <3> QED BY <3>1, <3>2
  <2> QED BY <2>1, <2>2
<1>4. n \in T
  OBVIOUS
<1> HIDE DEF T
<1>5. T \in SUBSET (0 .. n) /\ \A t \in T : t \in m .. n
  <2> SUFFICES ASSUME NEW t \in T PROVE t \in m .. n /\ t \in 0 .. n
    OBVIOUS
  <2> QED BY <1>1, <1>3
<1>6. Min(T) \in T /\ \A k \in T : Min(T) <= k
  BY <1>1, <1>4, <1>5, MinIs, Zenon
<1>7. EndUnder(fold, F, m) = Min(T)
  BY DEF EndUnder, T
<1> DEFINE e == Min(T)
<1>8. e \in m .. n
  BY <1>5, <1>6, Zenon
<1>9. ASSUME NEW k \in F, k > m PROVE e < k
  <2>1. e <= k - 1 /\ k \in Nat /\ e \in Nat
    BY <1>1, <1>2, <1>6, <1>8, <1>9
  <2> HIDE DEF e
  <2> QED BY <2>1
<1>10. e # n => e + 1 \in F /\ e + 1 > m
  BY <1>3, <1>6
<1> QED BY <1>7, <1>8, <1>9, <1>10

\* Nothing else is where that round ends.
LEMMA EndIsOnly ==
    ASSUME NEW fold, IsFold(fold), NEW F \in SUBSET (1 .. Len(fold.counts)), NEW m \in 1 .. Len(fold.counts),
           NEW e \in m .. Len(fold.counts),
           \A k \in F : k > m => e < k,
           e # Len(fold.counts) => e + 1 \in F
    PROVE  EndUnder(fold, F, m) = e
PROOF
<1> DEFINE d == EndUnder(fold, F, m)
<1>1. /\ d \in m .. Len(fold.counts)
      /\ \A k \in F : k > m => d < k
      /\ d # Len(fold.counts) => d + 1 \in F /\ d + 1 > m
  BY EndIs
<1> HIDE DEF d
<1>2. Len(fold.counts) \in Nat
  BY DEF IsFold
<1>3. ASSUME d < e PROVE FALSE
  <2>1. d # Len(fold.counts)
    BY <1>1, <1>2, <1>3
  <2>2. e < d + 1
    BY <1>1, <2>1
  <2> QED BY <1>1, <1>2, <1>3, <2>2
<1>4. ASSUME e < d PROVE FALSE
  <2>1. e # Len(fold.counts) /\ e + 1 > m
    BY <1>1, <1>2, <1>4
  <2>2. d < e + 1
    BY <1>1, <2>1
  <2> QED BY <1>1, <1>2, <1>4, <2>2
<1>5. d = e
  BY <1>1, <1>2, <1>3, <1>4
<1> QED BY <1>5 DEF d

\* A way to cut what is left of the conversation from an opening on.
CutsFrom(fold, first, F) ==
    /\ F \in SUBSET (first .. Len(fold.counts)) /\ first \in F
    /\ \A m \in F \ {first} : fold.open[m]
    /\ \A m \in F : Tokens(fold, m, EndUnder(fold, F, m)) <= Capacity(fold, m)

\* The second opening of a cutting is one that the planner looks at too.
LEMMA SecondOpening ==
    ASSUME NEW fold, IsFold(fold), NEW first \in 1 .. Len(fold.counts),
           Reach(fold, first) # Len(fold.counts), NEW F, CutsFrom(fold, first, F)
    PROVE  \E k \in F : k \in first + 1 .. Reach(fold, first) + 1 /\ fold.open[k]
PROOF
<1> DEFINE e == EndUnder(fold, F, first)
           n == Len(fold.counts)
<1>1. n \in Nat /\ F \in SUBSET (1 .. n)
  BY DEF IsFold, CutsFrom
<1>2. e \in first .. n /\ (e # n => e + 1 \in F /\ e + 1 > first)
  BY <1>1, EndIs
<1>3. Tokens(fold, first, e) <= Capacity(fold, first)
  BY DEF CutsFrom
<1> HIDE DEF e
<1>4. e <= Reach(fold, first) /\ Reach(fold, first) \in first - 1 .. n
  <2>1. e \in first - 1 .. n
    BY <1>1, <1>2
  <2> QED BY <1>3, <2>1, ReachIsFarthest
<1>5. e # n
  BY <1>1, <1>2, <1>4
<1>6. e + 1 \in F /\ e + 1 # first /\ e + 1 \in first + 1 .. Reach(fold, first) + 1
  BY <1>1, <1>2, <1>4, <1>5
<1>7. fold.open[e + 1]
  BY <1>6 DEF CutsFrom
<1> QED BY <1>6, <1>7

\* The openings of a cutting that come after the message g.
After(F, g) == {m \in F : m > g}

\* A cutting loses nothing when its second opening, or a later one, gives way to
\* a boundary behind it: the round ends where it did, and holds less.
LEMMA LaterCut ==
    ASSUME NEW fold, IsFold(fold), NEW first \in 1 .. Len(fold.counts),
           NEW F, CutsFrom(fold, first, F),
           NEW g \in first + 1 .. Len(fold.counts), fold.open[g],
           NEW second \in F, second \in first + 1 .. g
    PROVE  /\ CutsFrom(fold, g, {g} \union After(F, g))
           /\ Cardinality({g} \union After(F, g)) + 1 <= Cardinality(F)
PROOF
<1> DEFINE n == Len(fold.counts)
           G == {g} \union After(F, g)
           A == {m \in F : m <= g}
           M == Max(A)
           e == EndUnder(fold, F, M)
<1>1. n \in Nat /\ F \in SUBSET (1 .. n) /\ first \in Nat /\ g \in 1 .. n /\ first \in F
      /\ F \in SUBSET (first .. n)
  BY SMTT(20) DEF IsFold, CutsFrom
<1>2. /\ \A m \in F \ {first} : fold.open[m]
      /\ \A m \in F : Tokens(fold, m, EndUnder(fold, F, m)) <= Capacity(fold, m)
  BY DEF CutsFrom
<1>3. M \in F /\ M <= g /\ first < M /\ \A k \in F : k <= g => k <= M
  <2>1. A \in SUBSET (0 .. n) /\ second \in A
    <3>1. \A k \in 1 .. n : k \in 0 .. n
      OBVIOUS
    <3>2. second <= g
      BY <1>1
    <3> QED BY <1>1, <3>1, <3>2, Zenon
  <2>2. \A k \in A : k \in F /\ k <= g /\ k \in Nat
    BY <1>1
  <2>3. \A k \in F : k <= g => k \in A
    OBVIOUS
  <2> HIDE DEF A
  <2>4. Max(A) \in A /\ \A k \in A : Max(A) >= k
    BY <1>1, <2>1, MaxIs, Zenon
  <2>5. Max(A) >= second /\ second > first /\ second \in Nat
    BY <1>1, <2>1, <2>4
  <2>6. Max(A) \in F /\ Max(A) <= g /\ Max(A) \in Nat
    BY <2>2, <2>4
  <2>7. first < Max(A)
    BY <1>1, <2>5, <2>6
  <2>8. \A k \in F : k <= g => k <= Max(A)
    BY <2>2, <2>3, <2>4
  <2> QED BY <2>6, <2>7, <2>8
<1> HIDE DEF M, A
<1>4. M \in 1 .. n /\ M # 1 /\ g # 1
  BY <1>1, <1>3
<1>5. /\ e \in M .. n /\ \A k \in F : k > M => e < k
      /\ e # n => e + 1 \in F /\ e + 1 > M
  BY <1>1, <1>4, EndIs
<1>6. Tokens(fold, M, e) <= Capacity(fold, M)
  BY <1>2, <1>3
<1> HIDE DEF e
<1>7. g <= e
  <2> SUFFICES ASSUME e < g PROVE FALSE
    BY <1>1, <1>5
  <2>1. e + 1 \in F /\ e + 1 <= g /\ e \in Nat
    BY <1>1, <1>4, <1>5
  <2>2. e + 1 <= M /\ M <= e
    BY <1>3, <1>5, <2>1
  <2> QED BY <1>4, <2>1, <2>2
<1>8. G \in SUBSET (1 .. n) /\ G \in SUBSET (g .. n) /\ g \in G
  <2>1. ASSUME NEW k \in F, k > g PROVE k \in g .. n
    <3>1. k \in Nat /\ k <= n /\ g \in Nat
      BY <1>1
    <3> QED BY <2>1, <3>1
  <2>2. \A k \in After(F, g) : k \in F /\ k > g
    BY Zenon DEF After
  <2>3. g \in g .. n /\ F \subseteq 1 .. n
    BY <1>1
  <2>4. \A k \in G : k \in g .. n /\ k \in 1 .. n
    BY <1>1, <2>1, <2>2, <2>3
  <2> QED BY <2>4, Zenon
<1>9. \A k \in G : k # g => k \in F /\ k > g /\ k # first
  BY <1>1 DEF After
<1>10. \A k \in F : k > g => k \in G
  BY DEF After
<1> HIDE DEF G
<1>11. EndUnder(fold, G, g) = e
  <2>1. e \in g .. n
    BY <1>1, <1>5, <1>7
  <2>2. \A k \in G : k > g => e < k
    <3> SUFFICES ASSUME NEW k \in G, k > g PROVE e < k
      OBVIOUS
    <3>1. k \in F /\ k \in Nat
      BY <1>1, <1>8, <1>9
    <3>2. k > M
      BY <1>1, <1>3, <1>4, <3>1
    <3> QED BY <1>5, <3>1, <3>2
  <2>3. e # n => e + 1 \in G
    BY <1>1, <1>5, <1>7, <1>10
  <2> QED BY <1>1, <1>8, <2>1, <2>2, <2>3, EndIsOnly, Zenon
<1>12. Tokens(fold, g, e) <= Capacity(fold, g)
  <2>1. g \in M .. n /\ e \in g - 1 .. e /\ e \in M - 1 .. n
    BY <1>1, <1>3, <1>4, <1>5, <1>7
  <2>2. /\ Tokens(fold, g, e) <= Tokens(fold, M, e)
        /\ Tokens(fold, g, e) \in Nat /\ Tokens(fold, M, e) \in Nat
    BY <1>4, <2>1, TokensGrow
  <2>3. Capacity(fold, M) = Capacity(fold, g) /\ Capacity(fold, g) \in Nat
    BY <1>4, CapacityIs, Zenon DEF Capacity
  <2> QED BY <1>6, <2>2, <2>3
<1>13. ASSUME NEW m \in G, m # g
       PROVE  EndUnder(fold, G, m) = EndUnder(fold, F, m)
  <2>1. m \in F /\ m > g /\ m \in 1 .. n
    BY <1>1, <1>9, <1>13, Zenon
  <2> DEFINE d == EndUnder(fold, F, m)
  <2>2. d \in m .. n /\ (\A k \in F : k > m => d < k) /\ (d # n => d + 1 \in F /\ d + 1 > m)
    BY <1>1, <2>1, EndIs
  <2> HIDE DEF d
  <2>3. \A k \in G : k > m => d < k
    BY <1>1, <1>8, <1>9, <2>1, <2>2
  <2>4. d # n => d + 1 \in G
    BY <1>1, <1>10, <2>1, <2>2
  <2>5. EndUnder(fold, G, m) = d
    BY <1>8, <2>1, <2>2, <2>3, <2>4, EndIsOnly, Zenon
  <2> QED BY <2>5 DEF d
<1>14. CutsFrom(fold, g, G)
  <2>1. ASSUME NEW m \in G PROVE Tokens(fold, m, EndUnder(fold, G, m)) <= Capacity(fold, m)
    <3>1. CASE m = g
      BY <1>11, <1>12, <3>1
    <3>2. CASE m # g
      BY <1>2, <1>9, <1>13, <3>2, Zenon
    <3> QED BY <3>1, <3>2
  <2>2. \A m \in G \ {g} : fold.open[m]
    BY <1>2, <1>9
  <2> QED BY <1>8, <2>1, <2>2 DEF CutsFrom
<1>15. Cardinality(G) + 1 <= Cardinality(F)
  <2> DEFINE L == After(F, g)
  <2>1. 1 \in Int /\ n \in Int /\ F \subseteq 1 .. n
    BY <1>1
  <2>2. IsFiniteSet(F)
    <3> HIDE DEF n
    <3>1. IsFiniteSet(1 .. n)
      BY <2>1, FS_Interval
    <3> QED BY <2>1, <3>1, FS_Subset
  <2>3. L \subseteq F /\ (\A k \in L : k > g)
    BY DEF After
  <2>4. IsFiniteSet(L)
    BY <2>2, <2>3, FS_Subset
  <2>5. g \notin L /\ M \notin L /\ {M} \union L \subseteq F \ {first}
    BY <1>1, <1>3, <1>4, <2>3
  <2> HIDE DEF L
  <2>6. Cardinality({g} \union L) = Cardinality(L) + 1
    <3>1. L \union {g} = {g} \union L
      OBVIOUS
    <3> QED BY <2>4, <2>5, <3>1, FS_AddElement, Zenon
  <2>7. Cardinality({M} \union L) = Cardinality(L) + 1
    <3>1. L \union {M} = {M} \union L
      OBVIOUS
    <3> QED BY <2>4, <2>5, <3>1, FS_AddElement, Zenon
  <2>8. IsFiniteSet(F \ {first}) /\ Cardinality(F \ {first}) = Cardinality(F) - 1
    BY <1>1, <2>2, FS_RemoveElement, Zenon
  <2>9. Cardinality({M} \union L) <= Cardinality(F \ {first})
    BY <2>5, <2>8, FS_Subset
  <2>10. Cardinality(L) \in Nat /\ Cardinality(F) \in Nat
    BY <2>2, <2>4, FS_CardinalityType
  <2>11. Cardinality(G) = Cardinality(L) + 1
    BY <2>6 DEF G, L
  <2> QED BY <2>7, <2>8, <2>9, <2>10, <2>11
<1> QED BY <1>14, <1>15 DEF G

\* A round that reaches to where a cutting begins is one more round of it.
LEMMA OneMoreCut ==
    ASSUME NEW fold, IsFold(fold), NEW first \in 1 .. Len(fold.counts),
           NEW m \in first + 1 .. Reach(fold, first) + 1, fold.open[m],
           NEW R, CutsFrom(fold, m, R)
    PROVE  CutsFrom(fold, first, {first} \union R)
PROOF
<1> DEFINE n == Len(fold.counts)
           F == {first} \union R
<1>1. n \in Nat /\ R \in SUBSET (m .. n) /\ m \in R /\ first \in Nat /\ m \in Nat /\ first < m /\ m <= n
  BY DEF IsFold, CutsFrom
<1>2. /\ \A k \in R \ {m} : fold.open[k]
      /\ \A k \in R : Tokens(fold, k, EndUnder(fold, R, k)) <= Capacity(fold, k)
  BY DEF CutsFrom
<1>3. /\ F \in SUBSET (1 .. n) /\ F \in SUBSET (first .. n) /\ R \in SUBSET (1 .. n)
      /\ first \in F /\ R \subseteq F
  <2>1. \A k \in m .. n : k \in first .. n
    BY <1>1
  <2>2. \A k \in first .. n : k \in 1 .. n
    BY <1>1
  <2>3. first \in first .. n
    BY <1>1
  <2> QED BY <1>1, <2>1, <2>2, <2>3
<1>4. \A k \in F : k # first => k \in R
  OBVIOUS
<1> HIDE DEF F
<1>5. EndUnder(fold, F, first) = m - 1
  <2>1. m - 1 \in first .. n
    BY <1>1
  <2>2. \A k \in F : k > first => m - 1 < k
    <3> SUFFICES ASSUME NEW k \in F, k > first PROVE m - 1 < k
      OBVIOUS
    <3>1. k \in R
      BY <1>1, <1>4
    <3>2. k \in m .. n
      BY <1>1, <3>1
    <3> QED BY <1>1, <3>2
  <2>3. (m - 1) + 1 \in F
    BY <1>1, <1>3
  <2> QED BY <1>3, <2>1, <2>2, <2>3, EndIsOnly, Zenon
<1>6. Tokens(fold, first, m - 1) <= Capacity(fold, first)
  <2>1. /\ Reach(fold, first) \in first - 1 .. n
        /\ Tokens(fold, first, Reach(fold, first)) <= Capacity(fold, first)
    BY ReachIsFarthest
  <2>2. m - 1 \in first - 1 .. Reach(fold, first) /\ first \in first .. n
    BY <1>1, <2>1
  <2> DEFINE r == Reach(fold, first)
             l == m - 1
  <2>3. r \in first - 1 .. n /\ l \in first - 1 .. r
    BY <2>1, <2>2
  <2> HIDE DEF r, l
  <2>4. /\ Tokens(fold, first, l) <= Tokens(fold, first, r)
        /\ Tokens(fold, first, l) \in Nat /\ Tokens(fold, first, r) \in Nat
    BY <2>2, <2>3, TokensGrow
  <2>5. Tokens(fold, first, r) <= Capacity(fold, first)
    BY <2>1 DEF r
  <2>6. Capacity(fold, first) \in Nat
    BY CapacityIs
  <2>7. Tokens(fold, first, l) <= Capacity(fold, first)
    BY <2>4, <2>5, <2>6
  <2> QED BY <2>7 DEF l
<1>7. ASSUME NEW k \in R PROVE EndUnder(fold, F, k) = EndUnder(fold, R, k)
  <2> DEFINE d == EndUnder(fold, R, k)
  <2>1. k \in 1 .. n /\ k >= m
    BY <1>1, <1>3
  <2>2. d \in k .. n /\ (\A j \in R : j > k => d < j) /\ (d # n => d + 1 \in R /\ d + 1 > k)
    BY <1>3, <2>1, EndIs
  <2> HIDE DEF d
  <2>3. \A j \in F : j > k => d < j
    <3> SUFFICES ASSUME NEW j \in F, j > k PROVE d < j
      OBVIOUS
    <3>1. j # first
      BY <1>1, <2>1
    <3> QED BY <1>4, <2>2, <3>1
  <2>4. d # n => d + 1 \in F
    BY <1>3, <2>2
  <2>5. EndUnder(fold, F, k) = d
    BY <1>3, <2>1, <2>2, <2>3, <2>4, EndIsOnly, Zenon
  <2> QED BY <2>5 DEF d
<1>8. ASSUME NEW k \in F PROVE Tokens(fold, k, EndUnder(fold, F, k)) <= Capacity(fold, k)
  <2>1. CASE k = first
    BY <1>5, <1>6, <2>1
  <2>2. CASE k # first
    BY <1>2, <1>4, <1>7, <2>2
  <2> QED BY <2>1, <2>2
<1>9. \A k \in F \ {first} : fold.open[k]
  BY <1>2, <1>4
<1>10. CutsFrom(fold, first, F)
  BY <1>3, <1>8, <1>9 DEF CutsFrom
<1> QED BY <1>10 DEF F

-----------------------------------------------------------------------------
(* The planner's rounds from an opening on are the fewest, and it finds them
   whenever there are any. *)

\* The rounds from an opening on are a way to cut what is left, and a shortest one;
\* if there are none, there is no way.
BestFrom(fold, first) ==
    /\ Rounds(fold)[first] = <<>> => \A F : ~CutsFrom(fold, first, F)
    /\ Rounds(fold)[first] # <<>> =>
          /\ CutsFrom(fold, first, Firsts(Rounds(fold)[first]))
          /\ \A F : CutsFrom(fold, first, F) => Len(Rounds(fold)[first]) <= Cardinality(F)

\* A cutting has finitely many openings, and one at least.
LEMMA CutsFinite ==
    ASSUME NEW fold, IsFold(fold), NEW first \in 1 .. Len(fold.counts), NEW F, CutsFrom(fold, first, F)
    PROVE  IsFiniteSet(F) /\ Cardinality(F) \in Nat /\ Cardinality(F) >= 1
PROOF
<1> DEFINE n == Len(fold.counts)
<1>1. first \in Int /\ n \in Int /\ F \subseteq first .. n /\ first \in F
  BY DEF IsFold, CutsFrom
<1> HIDE DEF n
<1>2. IsFiniteSet(first .. n)
  BY <1>1, FS_Interval
<1>3. IsFiniteSet(F)
  BY <1>1, <1>2, FS_Subset, Zenon
<1>4. Cardinality(F) \in Nat /\ Cardinality(F) # 0
  BY <1>1, <1>3, FS_CardinalityType, FS_EmptySet
<1> QED BY <1>3, <1>4

\* The first messages of one more round.
LEMMA FirstsOfMore ==
    ASSUME NEW x, NEW plan, plan \in Seq(Nat \X Nat), x \in Nat \X Nat
    PROVE  Firsts(<<x>> \o plan) = {x[1]} \union Firsts(plan) /\ Len(<<x>> \o plan) = Len(plan) + 1
PROOF
<1> DEFINE longer == <<x>> \o plan
<1>1. Len(plan) \in Nat /\ Len(longer) = Len(plan) + 1 /\ longer[1] = x
      /\ \A i \in 1 .. Len(plan) : longer[i + 1] = plan[i]
  OBVIOUS
<1> HIDE DEF longer
<1>2. ASSUME NEW y \in Firsts(longer) PROVE y \in {x[1]} \union Firsts(plan)
  <2>1. PICK i \in 1 .. Len(longer) : y = longer[i][1]
    BY DEF Firsts
  <2>2. CASE i = 1
    BY <1>1, <2>1, <2>2
  <2>3. CASE i # 1
    <3>1. i - 1 \in 1 .. Len(plan) /\ (i - 1) + 1 = i
      BY <1>1, <2>1, <2>3
    <3>2. y = plan[i - 1][1]
      BY <1>1, <2>1, <3>1, Zenon
    <3> QED BY <3>1, <3>2, Zenon DEF Firsts
  <2> QED BY <2>2, <2>3
<1>3. x[1] \in Firsts(longer)
  <2>1. 1 \in 1 .. Len(longer)
    BY <1>1
  <2> QED BY <1>1, <2>1 DEF Firsts
<1>4. ASSUME NEW y \in Firsts(plan) PROVE y \in Firsts(longer)
  <2>1. PICK i \in 1 .. Len(plan) : y = plan[i][1]
    BY Zenon DEF Firsts
  <2>2. i + 1 \in 1 .. Len(longer) /\ longer[i + 1] = plan[i]
    BY <1>1, <2>1
  <2> QED BY <2>1, <2>2, Zenon DEF Firsts
<1>5. Firsts(longer) = {x[1]} \union Firsts(plan) /\ Len(longer) = Len(plan) + 1
  BY <1>1, <1>2, <1>3, <1>4
<1> QED BY <1>5 DEF longer

\* What is left fits into one round.
LEMMA OneRound ==
    ASSUME NEW fold, IsFold(fold), NEW first \in 1 .. Len(fold.counts), Reach(fold, first) = Len(fold.counts)
    PROVE  BestFrom(fold, first)
PROOF
<1> DEFINE n == Len(fold.counts)
           round == << <<first, n>> >>
<1>1. /\ n \in Nat /\ first \in first .. n /\ n \in first .. n
      /\ {first} \in SUBSET (1 .. n) /\ {first} \in SUBSET (first .. n)
  BY DEF IsFold
<1>2. Rounds(fold)[first] = round
  <2>1. Rounds(fold)[first] = RoundsFrom(fold, Rounds(fold), first)
    BY RoundsSolve DEF Solution
  <2> QED BY <2>1 DEF RoundsFrom
<1>3. round # <<>> /\ Len(round) = 1 /\ round[1][1] = first
  OBVIOUS
<1> HIDE DEF round
<1>4. Firsts(round) = {first}
  <2>1. 1 .. Len(round) = {1}
    BY <1>3
  <2> QED BY <1>3, <2>1 DEF Firsts
<1>5. EndUnder(fold, {first}, first) = n
  <2>1. \A k \in {first} : k > first => n < k
    BY <1>1
  <2>2. n # Len(fold.counts) => n + 1 \in {first}
    OBVIOUS
  <2> HIDE DEF n
  <2>3. n \in first .. Len(fold.counts)
    BY <1>1 DEF n
  <2>4. {first} \in SUBSET (1 .. Len(fold.counts))
    BY <1>1 DEF n
  <2> QED BY <2>1, <2>2, <2>3, <2>4, EndIsOnly, Zenon
<1>6. Tokens(fold, first, n) <= Capacity(fold, first)
  BY ReachIsFarthest
<1>7. CutsFrom(fold, first, {first})
  BY <1>1, <1>5, <1>6 DEF CutsFrom
<1>8. ASSUME NEW F, CutsFrom(fold, first, F) PROVE Len(round) <= Cardinality(F)
  BY <1>3, <1>8, CutsFinite
<1> QED BY <1>2, <1>3, <1>4, <1>7, <1>8 DEF BestFrom

\* What is left takes more than one round.
LEMMA MoreRounds ==
    ASSUME NEW fold, IsFold(fold), NEW first \in 1 .. Len(fold.counts), Reach(fold, first) # Len(fold.counts),
           \A m \in first + 1 .. Len(fold.counts) : BestFrom(fold, m)
    PROVE  BestFrom(fold, first)
PROOF
<1> DEFINE n == Len(fold.counts)
           next == NextOpening(fold, first, Reach(fold, first))
           m == CHOOSE i \in next : TRUE
           rest == Rounds(fold)[m]
<1>1. n \in Nat /\ Reach(fold, first) \in first - 1 .. n /\ Reach(fold, first) + 1 <= n
  <2>1. n \in Nat /\ Reach(fold, first) \in first - 1 .. n
    BY ReachIs DEF IsFold
  <2> QED BY <2>1
<1>2. Rounds(fold)[first] = RoundsFrom(fold, Rounds(fold), first)
  BY RoundsSolve DEF Solution
<1>3. /\ \A k \in next : /\ k \in first + 1 .. Reach(fold, first) + 1 /\ fold.open[k]
                         /\ \A j \in first + 1 .. Reach(fold, first) + 1 : fold.open[j] => j <= k
      /\ \A k \in first + 1 .. Reach(fold, first) + 1 : fold.open[k] => next # {}
  BY <1>1, OpeningIsLast
<1>4. ASSUME NEW F, CutsFrom(fold, first, F)
      PROVE  /\ next # {}
             /\ \E G : CutsFrom(fold, m, G) /\ Cardinality(G) + 1 <= Cardinality(F)
  <2>1. PICK k \in F : k \in first + 1 .. Reach(fold, first) + 1 /\ fold.open[k]
    BY <1>4, SecondOpening
  <2>2. next # {}
    BY <1>3, <2>1
  <2>3. m \in next
    BY <2>2
  <2> HIDE DEF m, next
  <2>4. m \in first + 1 .. Reach(fold, first) + 1 /\ fold.open[m] /\ k <= m
    BY <1>3, <2>1, <2>3
  <2>5. m \in first + 1 .. n /\ k \in first + 1 .. m
    BY <1>1, <2>1, <2>4
  <2>6. /\ CutsFrom(fold, m, {m} \union After(F, m))
        /\ Cardinality({m} \union After(F, m)) + 1 <= Cardinality(F)
    BY <1>4, <2>1, <2>4, <2>5, LaterCut
  <2> QED BY <2>2, <2>6
<1>5. CASE next = {}
  <2>1. Rounds(fold)[first] = <<>>
    BY <1>2, <1>5, Zenon DEF RoundsFrom
  <2> QED BY <1>4, <1>5, <2>1 DEF BestFrom
<1>6. CASE next # {}
  <2>1. m \in next
    BY <1>6
  <2> HIDE DEF m
  <2>2. m \in first + 1 .. Reach(fold, first) + 1 /\ fold.open[m] /\ m \in first + 1 .. n /\ m \in 1 .. n
        /\ m \in Nat /\ first \in Nat /\ first < m
    BY <1>1, <1>3, <2>1
  <2>3. BestFrom(fold, m)
    BY <2>2
  <2>4. CASE rest = <<>>
    <3>1. Rounds(fold)[first] = <<>>
      BY <1>2, <1>6, <2>4, Zenon DEF RoundsFrom, m
    <3>2. \A F : ~CutsFrom(fold, m, F)
      BY <2>3, <2>4 DEF BestFrom
    <3>3. \A F : ~CutsFrom(fold, first, F)
      BY <1>4, <3>2
    <3> QED BY <3>1, <3>3 DEF BestFrom
  <2>5. CASE rest # <<>>
    <3> DEFINE x == <<first, m - 1>>
    <3>1. Covers(rest, m, n)
      BY <2>2, <2>5, RoundsCover
    <3>2. rest[1][1] = m /\ rest \in Seq(Nat \X Nat) /\ Len(rest) \in Nat
      BY <3>1 DEF Covers
    <3>3. Rounds(fold)[first] = << <<first, rest[1][1] - 1>> >> \o rest
      BY <1>2, <1>6, <2>5, Zenon DEF RoundsFrom, m
    <3>4. x \in Nat \X Nat /\ x[1] = first
      BY <2>2
    <3> HIDE DEF rest
    <3>5. Rounds(fold)[first] = <<x>> \o rest
      BY <3>2, <3>3
    <3> HIDE DEF x
    <3>6. /\ Firsts(Rounds(fold)[first]) = {first} \union Firsts(rest)
          /\ Len(Rounds(fold)[first]) = Len(rest) + 1
      BY <3>2, <3>4, <3>5, FirstsOfMore
    <3>7. Rounds(fold)[first] # <<>>
      <4>1. Len(Rounds(fold)[first]) # Len(<<>>)
        BY <3>2, <3>6
      <4> QED BY <4>1
    <3>8. /\ CutsFrom(fold, m, Firsts(rest))
          /\ \A F : CutsFrom(fold, m, F) => Len(rest) <= Cardinality(F)
      BY <2>3, <2>5 DEF BestFrom, rest
    <3>9. CutsFrom(fold, first, {first} \union Firsts(rest))
      BY <2>2, <3>8, OneMoreCut
    <3>10. ASSUME NEW F, CutsFrom(fold, first, F) PROVE Len(rest) + 1 <= Cardinality(F)
      <4>1. PICK G : CutsFrom(fold, m, G) /\ Cardinality(G) + 1 <= Cardinality(F)
        BY <1>4, <3>10
      <4>2. Len(rest) <= Cardinality(G)
        BY <3>8, <4>1
      <4>3. Cardinality(G) \in Nat /\ Cardinality(F) \in Nat
        BY <2>2, <3>10, <4>1, CutsFinite
      <4> QED BY <3>2, <4>1, <4>2, <4>3
    <3> QED BY <3>6, <3>7, <3>9, <3>10 DEF BestFrom
  <2> QED BY <2>4, <2>5
<1> QED BY <1>5, <1>6

\* From every opening on, by way of the last one for which it is not so.
LEMMA RoundsBest ==
    ASSUME NEW fold, IsFold(fold), NEW opening \in 1 .. Len(fold.counts)
    PROVE  BestFrom(fold, opening)
PROOF
<1> DEFINE n == Len(fold.counts)
           Bad == {k \in 0 .. n : \E first \in 1 .. n : first = n - k /\ ~BestFrom(fold, first)}
<1>1. n \in Nat
  BY DEF IsFold
<1>2. ASSUME Bad # {} PROVE FALSE
  <2> Bad \in SUBSET (0 .. n)
    OBVIOUS
  <2> HIDE DEF Bad
  <2>1. PICK k \in Bad : \A j \in Bad : k <= j
    BY <1>1, <1>2, LeastOf, Zenon
  <2> USE DEF Bad
  <2>2. PICK first \in 1 .. n : first = n - k /\ ~BestFrom(fold, first)
    BY <2>1
  <2>3. ASSUME NEW m \in first + 1 .. n PROVE BestFrom(fold, m)
    <3>1. n - m \in 0 .. n /\ m \in 1 .. n /\ m = n - (n - m) /\ n - m < k
      BY <1>1, <2>1, <2>2
    <3>2. n - m \notin Bad
      <4> HIDE DEF Bad
      <4> QED BY <1>1, <2>1, <3>1
    <3> QED BY <3>1, <3>2, Zenon
  <2>4. BestFrom(fold, first)
    BY <2>3, OneRound, MoreRounds
  <2> QED BY <2>2, <2>4
<1>3. n - opening \in 0 .. n /\ opening = n - (n - opening)
  BY <1>1
<1>4. n - opening \notin Bad
  <2> HIDE DEF Bad
  <2> QED BY <1>2
<1> QED BY <1>3, <1>4

\* Where a later round holds anything, what fits the ceiling is what fits a round.
LEMMA FitsIs ==
    ASSUME NEW fold, IsFold(fold), LaterCapacity(fold) # 0, NEW firsts, NEW first,
           Tokens(fold, first, EndUnder(fold, firsts, first)) \in Nat
    PROVE  Asked(fold, firsts, first) <= fold.ceiling
              <=> Tokens(fold, first, EndUnder(fold, firsts, first)) <= Capacity(fold, first)
PROOF
<1> DEFINE t == Tokens(fold, first, EndUnder(fold, firsts, first))
           taken == fold.overhead + fold.output + FramingReserve
<1>1. t \in Nat /\ fold.overhead \in Nat /\ fold.output \in Nat /\ fold.ceiling \in Nat /\ FramingReserve \in Nat
  BY FoldPlanAssumption DEF IsFold
<1>2. Asked(fold, firsts, first) = t + fold.overhead + fold.output + FramingReserve
                                     + (IF first = 1 THEN 0 ELSE fold.output)
  BY DEF Asked
<1>3. PerRound(fold) = IF fold.ceiling < taken THEN 0 ELSE fold.ceiling - taken
  BY DEF PerRound
<1>4. LaterCapacity(fold) = IF PerRound(fold) < fold.output THEN 0 ELSE PerRound(fold) - fold.output
  BY DEF LaterCapacity
<1>5. Capacity(fold, first) = IF first = 1 THEN PerRound(fold) ELSE LaterCapacity(fold)
  BY DEF Capacity
<1> HIDE DEF t
<1>6. PerRound(fold) = fold.ceiling - taken /\ LaterCapacity(fold) = fold.ceiling - taken - fold.output
  BY <1>1, <1>3, <1>4
<1>7. CASE first = 1
  <2>1. Asked(fold, firsts, first) = t + taken
    BY <1>1, <1>2, <1>7
  <2>2. Capacity(fold, first) = fold.ceiling - taken
    BY <1>5, <1>6, <1>7
  <2>3. Asked(fold, firsts, first) <= fold.ceiling <=> t <= Capacity(fold, first)
    BY <1>1, <2>1, <2>2
  <2> QED BY <2>3 DEF t
<1>8. CASE first # 1
  <2>1. Asked(fold, firsts, first) = t + taken + fold.output
    BY <1>1, <1>2, <1>8
  <2>2. Capacity(fold, first) = fold.ceiling - taken - fold.output
    BY <1>5, <1>6, <1>8
  <2>3. Asked(fold, firsts, first) <= fold.ceiling <=> t <= Capacity(fold, first)
    BY <1>1, <2>1, <2>2
  <2> QED BY <2>3 DEF t
<1> QED BY <1>7, <1>8

\* The fitting cuttings are the ways to cut from the first message on.
LEMMA FittingIs ==
    ASSUME NEW fold, IsFold(fold), LaterCapacity(fold) # 0, 1 \in 1 .. Len(fold.counts), NEW F
    PROVE  F \in FittingCuttings(fold) <=> CutsFrom(fold, 1, F)
PROOF
<1> DEFINE n == Len(fold.counts)
<1>1. n \in Nat
  BY DEF IsFold
<1>2. ASSUME F \in SUBSET (1 .. n), NEW m \in F
      PROVE  Asked(fold, F, m) <= fold.ceiling <=> Tokens(fold, m, EndUnder(fold, F, m)) <= Capacity(fold, m)
  <2> DEFINE e == EndUnder(fold, F, m)
  <2>1. m \in 1 .. n /\ e \in m .. n
    BY <1>2, EndIs
  <2> HIDE DEF e
  <2>2. e \in m - 1 .. n /\ m \in m .. n /\ e \in m - 1 .. e
    BY <1>1, <2>1
  <2>3. Tokens(fold, m, e) \in Nat
    BY <2>1, <2>2, TokensGrow
  <2> QED BY <2>3, FitsIs DEF e
<1>3. F \in FittingCuttings(fold) <=>
         /\ F \in SUBSET (1 .. n) /\ 1 \in F
         /\ \A m \in F \ {1} : fold.open[m]
         /\ \A m \in F : Asked(fold, F, m) <= fold.ceiling
  BY DEF FittingCuttings, Cuttings
<1> QED BY <1>2, <1>3 DEF CutsFrom

\* A plan is a fitting cutting at boundaries and a shortest one, and there is no such
\* cutting where plan() finds none, unless a message is too long for a later round.
LEMMA PlanIsBest ==
    ASSUME NEW fold, IsFold(fold)
    PROVE  IsBest(fold, Plan(fold))
PROOF
<1> SUFFICES IF Plan(fold) = <<>>
             THEN \/ FittingCuttings(fold) = {} \/ LaterCapacity(fold) = 0
                  \/ \E m \in 1 .. Len(fold.counts) : fold.counts[m] > LaterCapacity(fold)
             ELSE /\ Firsts(Plan(fold)) \in FittingCuttings(fold)
                  /\ \A firsts \in FittingCuttings(fold) : Len(Plan(fold)) <= Cardinality(firsts)
  BY Zenon DEF IsBest
<1> DEFINE n == Len(fold.counts)
           none == \/ n = 0
                   \/ LaterCapacity(fold) = 0
                   \/ \E m \in 1 .. n : fold.counts[m] > LaterCapacity(fold)
<1>1. IsFold(fold)
  OBVIOUS
<1>2. n \in Nat
  BY DEF IsFold
<1>3. Plan(fold) = IF none THEN <<>> ELSE Rounds(fold)[1]
  BY Zenon DEF Plan, Rounds, Solution, RoundsFrom
<1>4. CASE n = 0
  <2>1. 1 \notin 1 .. n
    BY <1>4
  <2>2. FittingCuttings(fold) = {}
    BY <2>1 DEF FittingCuttings, Cuttings
  <2> QED BY <1>3, <1>4, <2>2
<1>5. CASE none /\ n # 0
  BY <1>3, <1>5
<1>6. CASE ~none
  <2>1. 1 \in 1 .. n /\ LaterCapacity(fold) # 0
    BY <1>2, <1>6
  <2>2. Plan(fold) = Rounds(fold)[1]
    BY <1>3, <1>6
  <2>3. BestFrom(fold, 1)
    BY <1>1, <2>1, RoundsBest
  <2>4. \A F : F \in FittingCuttings(fold) <=> CutsFrom(fold, 1, F)
    BY <1>1, <2>1, FittingIs
  <2> HIDE DEF n, none
  <2>5. CASE Plan(fold) = <<>>
    BY <2>2, <2>3, <2>4, <2>5 DEF BestFrom
  <2>6. CASE Plan(fold) # <<>>
    BY <2>2, <2>3, <2>4, <2>6 DEF BestFrom
  <2> QED BY <2>5, <2>6
<1> QED BY <1>4, <1>5, <1>6

\* Whatever the conversation, plan() cuts it at boundaries into rounds that fit, and
\* into as few of them as there can be.
THEOREM PlansAreBest == PlannerSpec => []PlannerIsBest
PROOF
<1> DEFINE Made == planned = <<>> \/ \E fold \in Conversations : planned = <<fold, Plan(fold)>>
<1>1. PlannerInit => Made
  BY DEF PlannerInit
<1>2. Made /\ [PlanFold]_planned => Made'
  BY DEF PlanFold
<1>3. Made => PlannerIsBest
  <2> SUFFICES ASSUME NEW fold \in Conversations, planned = <<fold, Plan(fold)>>
               PROVE  IsBest(planned[1], planned[2])
    BY DEF PlannerIsBest
  <2>1. IsFold(fold)
    BY FoldPlanAssumption DEF IsFold
  <2>2. IsBest(fold, Plan(fold))
    BY <2>1, PlanIsBest
  <2> QED BY <2>2
<1> QED BY <1>1, <1>2, <1>3, PTL DEF PlannerSpec

\* A plan without its first round goes on where that one ends.
LEMMA CoversRest ==
    ASSUME NEW plan, NEW first \in Nat, NEW last \in Nat, Covers(plan, first, last)
    PROVE  /\ Head(plan) \in Nat \X Nat /\ Head(plan)[1] = first /\ Head(plan)[2] >= first
           /\ Tail(plan) \in Seq(Nat \X Nat)
           /\ Len(plan) > 1 => Covers(Tail(plan), Head(plan)[2] + 1, last)
           /\ ~(Len(plan) > 1) => Head(plan)[2] = last
PROOF
<1>1. plan \in Seq(Nat \X Nat) /\ plan # <<>> /\ Len(plan) \in Nat \ {0} /\ Head(plan) = plan[1]
  BY DEF Covers
<1>6. 1 \in 1 .. Len(plan) /\ plan[1] \in Nat \X Nat
  BY <1>1
<1>7. plan[1][1] = first /\ plan[1][1] <= plan[1][2] /\ plan[Len(plan)][2] = last
  BY <1>6 DEF Covers
<1>8. Tail(plan) \in Seq(Nat \X Nat) /\ Len(Tail(plan)) = Len(plan) - 1
  BY <1>1
<1>9. plan[1][2] \in Nat /\ plan[1][2] >= first
  BY <1>6, <1>7
<1>2. /\ Head(plan) \in Nat \X Nat /\ Head(plan)[1] = first /\ Head(plan)[2] >= first
      /\ Tail(plan) \in Seq(Nat \X Nat) /\ Len(Tail(plan)) = Len(plan) - 1
  BY <1>1, <1>6, <1>7, <1>8, <1>9
<1>3. \A i \in 1 .. Len(plan) - 1 : Tail(plan)[i] = plan[i + 1]
  BY <1>1
<1>4. CASE Len(plan) > 1
  <2> DEFINE rest == Tail(plan)
  <2>0. Len(rest) = Len(plan) - 1 /\ Len(rest) \in Nat \ {0} /\ rest \in Seq(Nat \X Nat)
    <3>1. \A n \in Nat \ {0} : n > 1 => n - 1 \in Nat \ {0}
      OBVIOUS
    <3> QED BY <1>1, <1>4, <1>8, <3>1, Zenon
  <2>1. Len(rest) = Len(plan) - 1 /\ Len(rest) \in Nat \ {0} /\ rest # <<>> /\ rest \in Seq(Nat \X Nat)
    <3> HIDE DEF rest
    <3> QED BY <2>0
  <2>2. \A i \in 1 .. Len(rest) : rest[i] = plan[i + 1] /\ i + 1 \in 1 .. Len(plan)
    BY <1>1, <1>3, <2>1
  <2> HIDE DEF rest
  <2>3. rest[1][1] = Head(plan)[2] + 1
    <3>1. 1 \in 1 .. Len(rest) /\ 1 \in 1 .. Len(plan) - 1
      BY <2>1
    <3>2. plan[1 + 1][1] = plan[1][2] + 1
      BY <3>1 DEF Covers
    <3> QED BY <1>1, <2>2, <3>1, <3>2, Zenon
  <2>4. rest[Len(rest)][2] = last
    <3>1. Len(rest) \in 1 .. Len(rest) /\ Len(rest) + 1 = Len(plan)
      BY <1>1, <2>1
    <3> QED BY <2>2, <3>1, Zenon DEF Covers
  <2>5. \A i \in 1 .. Len(rest) : rest[i][1] <= rest[i][2]
    BY <2>2, Zenon DEF Covers
  <2>6. ASSUME NEW i \in 1 .. Len(rest) - 1 PROVE rest[i + 1][1] = rest[i][2] + 1
    <3>1. /\ i \in 1 .. Len(rest) /\ i + 1 \in 1 .. Len(rest) /\ i + 1 \in 1 .. Len(plan) - 1
      BY <1>1, <2>1
    <3>2. rest[i] = plan[i + 1] /\ rest[i + 1] = plan[(i + 1) + 1]
      BY <2>2, <3>1
    <3>3. plan[(i + 1) + 1][1] = plan[i + 1][2] + 1
      BY <3>1 DEF Covers
    <3> QED BY <3>2, <3>3
  <2>7. Covers(rest, Head(plan)[2] + 1, last)
    BY <2>1, <2>3, <2>4, <2>5, <2>6 DEF Covers
  <2> QED BY <1>2, <1>4, <2>7 DEF rest
<1>5. CASE ~(Len(plan) > 1)
  <2>1. Len(plan) = 1
    <3>1. \A n \in Nat \ {0} : ~(n > 1) => n = 1
      OBVIOUS
    <3> QED BY <1>1, <1>5, <3>1, Zenon
  <2> QED BY <1>1, <1>2, <1>5, <1>7, <2>1
<1> QED BY <1>4, <1>5, Zenon

-----------------------------------------------------------------------------
(* The invariant. *)

\* The messages a summary stands for, when they are the first n in order.
UpTo(n) == [m \in 1 .. n |-> m]

\* What BridgeTypeOK does not say of the types.
MoreTypes ==
    /\ rounds \in [Request -> Seq(Nat \X Nat)] /\ summary \in [Request -> Seq(Nat)]
    /\ hooks \in [BridgeSession -> Nat] /\ folds \in [BridgeSession -> Nat]
    /\ overlapped \in [BridgeSession -> BOOLEAN] /\ tries \in [Request -> Nat]
    /\ IsFiniteSet({c \in Conversation : route[c] # Nil})

\* What Claude Code asks for.
Asks(a) ==
    /\ a.fast => a.kind \in MainKind /\ a.model = Shadow
    /\ a.kind \in MainKind => a.model \in {Shadow, a.want}
    /\ a.kind = "compact" => a.fold \in Folds
    /\ a.kind = "aux" => a.model \in Codex

\* Where a request stands, what was asked, whether it has been forwarded, and tried.
Stands(r) ==
    /\ ask[r] = Nil <=> pc[r] = "idle"
    /\ ask[r] # Nil => Asks(ask[r])
    /\ pc[r] \in {"count", "fold", "lost"} => ask[r].kind = "compact"
    /\ pc[r] \in {"idle", "new", "count", "fold", "lost"} => sent[r] = Nil
    /\ pc[r] \in {"send", "stream"} => sent[r] # Nil
    /\ pc[r] \in {"idle", "new", "count"} => tries[r] = 0

\* A fold has summarised what comes before its rounds.
Folded(r) ==
    /\ pc[r] \in {"idle", "new", "count"} => summary[r] = <<>>
    /\ Folding(r) => \E k \in Nat : /\ summary[r] = UpTo(k)
                                    /\ Covers(rounds[r], k + 1, Len(ask[r].fold.counts))
    /\ pc[r] = "done" /\ sent[r] = Nil => summary[r] = UpTo(Len(ask[r].fold.counts))

\* An arming that may still be taken, or that a request counts for, is of a hook
\* whose fold is yet to come.
Counting(s) == {q \in Request : pc[q] = "count" /\ SessionOf[ask[q].of] = s}

Armings(s) ==
    ~overlapped[s] =>
        /\ folds[s] <= hooks[s]
        /\ armed[s] # "no" \/ Counting(s) # {} => folds[s] < hooks[s]
        /\ \A q, p \in Counting(s) : q = p

\* What the bridge was told is in its table.
Knows(c) ==
    /\ "pick" \in learned[c] => Entry(c).selected = pick[c]
    /\ "shadow" \in learned[c] => Entry(c).on /\ Entry(c).shadow = Shadow
    /\ Entry(c).shadow \in {Nil, Shadow}

Keeps(r) ==
    sent[r] # Nil /\ ask[r].kind \in MainKind /\ sent[r].knows => sent[r].model = ask[r].want

BridgeInv ==
    /\ BridgeTypeOK /\ MoreTypes
    /\ \A r \in Request : Stands(r)
    /\ \A r \in Request : Folded(r)
    /\ \A s \in BridgeSession : Armings(s)
    /\ \A c \in Conversation : Knows(c)
    /\ \A r \in Request : Keeps(r)

LEMMA Limits == MaxRoutes \in Nat \ {0} /\ MaxTries \in Nat \ {0} /\ MaxSends \in Nat \ {0}
BY BridgeAssumption, Zenon

LEMMA InitEstablishes == BridgeInit => BridgeInv
PROOF
<1> SUFFICES ASSUME BridgeInit PROVE BridgeInv
  OBVIOUS
<1> USE DEF BridgeInit
<1>1. {c \in Conversation : route[c] # Nil} = {}
  OBVIOUS
<1>2. IsFiniteSet({c \in Conversation : route[c] # Nil})
  BY <1>1, FS_EmptySet, Zenon
<1>3. Cardinality({c \in Conversation : route[c] # Nil}) <= MaxRoutes
  <2>1. Cardinality({}) = 0 /\ 0 <= MaxRoutes
    BY FS_EmptySet, Limits
  <2> QED BY <1>1, <2>1, Zenon
<1>4. \A r \in Request : tries[r] \in 0 .. (IF pc[r] \in {"fold", "lost"} THEN MaxTries ELSE MaxSends) - 1
  BY Limits
<1>5. BridgeTypeOK
  BY <1>3, <1>4, BridgeAssumption DEF BridgeTypeOK, Ended
<1>6. MoreTypes
  BY <1>2 DEF MoreTypes
<1>7. ASSUME NEW r \in Request PROVE Stands(r) /\ Folded(r) /\ Keeps(r)
  BY DEF Stands, Folded, Keeps, Folding
<1>8. ASSUME NEW s \in BridgeSession PROVE Armings(s)
  BY DEF Armings, Counting
<1>9. ASSUME NEW c \in Conversation PROVE Knows(c)
  BY DEF Knows, Entry
<1> QED BY <1>5, <1>6, <1>7, <1>8, <1>9 DEF BridgeInv

-----------------------------------------------------------------------------
(* Steps of Claude Code. *)

\* Where no request, arming or fold changes, what is said of them stays.
LEMMA ToggleKeeps == ASSUME BridgeInv, NEW c \in Conversation, Toggle(c) PROVE BridgeInv'
PROOF
<1> USE DEF Toggle, tables, work, counts
<1>1. BridgeTypeOK'
  BY DEF BridgeInv, BridgeTypeOK, Set
<1>2. MoreTypes' /\ (\A r \in Request : Stands(r))' /\ (\A r \in Request : Folded(r))'
  BY DEF BridgeInv, MoreTypes, Stands, Folded, Folding
<1>3. (\A s \in BridgeSession : Armings(s))'
  BY DEF BridgeInv, Armings, Counting
<1>4. (\A d \in Conversation : Knows(d))' /\ (\A r \in Request : Keeps(r))'
  BY DEF BridgeInv, Knows, Entry, Keeps
<1> QED BY <1>1, <1>2, <1>3, <1>4 DEF BridgeInv

\* A new selection is one the bridge has not been told of.
LEMMA PickKeeps ==
    ASSUME BridgeInv, NEW c \in Conversation, NEW m \in Model, Pick(c, m) PROVE BridgeInv'
PROOF
<1> USE DEF Pick, tables, work, counts
<1>1. BridgeTypeOK'
  BY DEF BridgeInv, BridgeTypeOK, Set
<1>2. MoreTypes' /\ (\A r \in Request : Stands(r))' /\ (\A r \in Request : Folded(r))'
  BY DEF BridgeInv, MoreTypes, Stands, Folded, Folding
<1>3. (\A s \in BridgeSession : Armings(s))'
  BY DEF BridgeInv, Armings, Counting
<1>4. ASSUME NEW d \in Conversation PROVE Knows(d)'
  BY DEF BridgeInv, BridgeTypeOK, Knows, Entry, Set
<1>5. (\A r \in Request : Keeps(r))'
  BY DEF BridgeInv, Keeps
<1> QED BY <1>1, <1>2, <1>3, <1>4, <1>5 DEF BridgeInv

LEMMA ArriveKeeps ==
    ASSUME BridgeInv, NEW r \in Request, NEW c \in Conversation,
           NEW kind \in {"prompt", "aux", "review", "compact"}, NEW fold \in Folds \union {Nil},
           Arrive(r, c, kind, fold)
    PROVE  BridgeInv'
PROOF
<1>1. /\ pc[r] = "idle" /\ ask \in [Request -> Ask \union {Nil}]
      /\ pc \in [Request -> Ended \union {"new", "count", "send", "stream", "fold", "lost"}]
  BY DEF BridgeInv, Stands, BridgeTypeOK, Arrive
<1>2. PICK a : /\ ask' = [ask EXCEPT ![r] = a] /\ a \in Ask /\ Asks(a)
  <2> DEFINE a(m) == [of |-> c, kind |-> kind, model |-> m, want |-> pick[c],
                      fast |-> kind \in MainKind /\ mode[c] = "fast", fold |-> fold]
  <2>1. PICK m \in CASE kind = "aux" -> Codex [] kind = "review" -> {Judge}
                     [] OTHER -> {IF mode[c] = "plain" THEN pick[c] ELSE Shadow} : ask' = [ask EXCEPT ![r] = a(m)]
    BY Zenon DEF Arrive, Set
  <2>2. /\ m \in Model \union {Shadow, Judge}
        /\ kind = "aux" => m \in Codex
        /\ kind \in MainKind => m = IF mode[c] = "plain" THEN pick[c] ELSE Shadow
    BY <2>1 DEF BridgeInv, BridgeTypeOK, Model, MainKind
  <2>3. a(m) \in Ask
    BY <2>2 DEF BridgeInv, BridgeTypeOK, Ask
  <2>4. Asks(a(m))
    BY <2>2, Zenon DEF Asks, Arrive, MainKind
  <2> QED BY <2>1, <2>3, <2>4, Zenon
<1>3. a # Nil
  BY <1>2, NilAssumption
<1>4. pc' = [pc EXCEPT ![r] = "new"] /\ UNCHANGED <<tables, users, sent, tries, rounds, summary, counts>>
  BY DEF Arrive, Goes, Set
<1>5. BridgeTypeOK'
  BY <1>1, <1>2, <1>4 DEF BridgeInv, BridgeTypeOK, tables, users
<1>6. MoreTypes'
  BY <1>4 DEF BridgeInv, MoreTypes, tables, counts
<1>7. ASSUME NEW q \in Request PROVE Stands(q)' /\ Folded(q)' /\ Keeps(q)'
  <2>1. CASE q # r
    <3>1. /\ ask'[q] = ask[q] /\ pc'[q] = pc[q] /\ sent' = sent /\ tries' = tries
          /\ summary' = summary /\ rounds' = rounds
      BY <1>1, <1>2, <1>4, <2>1
    <3> QED BY <3>1 DEF BridgeInv, Stands, Folded, Folding, Keeps
  <2>2. CASE q = r
    <3>1. /\ ask'[r] = a /\ pc'[r] = "new" /\ sent'[r] = Nil /\ summary'[r] = <<>> /\ tries'[r] = 0
      BY <1>1, <1>2, <1>4 DEF BridgeInv, Stands, Folded
    <3> QED BY <1>2, <1>3, <2>2, <3>1 DEF Stands, Folded, Folding, Keeps
  <2> QED BY <2>1, <2>2
<1>8. ASSUME NEW s \in BridgeSession PROVE Armings(s)'
  <2>1. Counting(s)' = Counting(s)
    BY <1>1, <1>2, <1>4 DEF Counting
  <2> QED BY <1>4, <2>1 DEF BridgeInv, Armings, tables, counts
<1>9. (\A d \in Conversation : Knows(d))'
  BY <1>4 DEF BridgeInv, Knows, Entry, tables, users
<1> QED BY <1>5, <1>6, <1>7, <1>8, <1>9 DEF BridgeInv

\* A hook arms its session once more, and ends what is stale.
LEMMA HookKeeps == ASSUME BridgeInv, NEW s \in BridgeSession, Hook(s) \/ Lapse(s) PROVE BridgeInv'
PROOF
<1>1. UNCHANGED <<route, users, work, folds, overlapped>>
  BY DEF Hook, Lapse, counts
<1>2. BridgeTypeOK'
  BY <1>1 DEF BridgeInv, BridgeTypeOK, Hook, Lapse, Set, users, work
<1>3. MoreTypes'
  <2>1. hooks' \in [BridgeSession -> Nat]
    <3>1. hooks \in [BridgeSession -> Nat]
      BY DEF BridgeInv, MoreTypes
    <3>2. hooks' = hooks \/ hooks' = [hooks EXCEPT ![s] = hooks[s] + 1]
      BY DEF Hook, Lapse, Set, counts
    <3> QED BY <3>1, <3>2
  <2> QED BY <1>1, <2>1 DEF BridgeInv, MoreTypes, work
<1>4. ASSUME NEW q \in Request PROVE Stands(q)' /\ Folded(q)' /\ Keeps(q)'
  BY <1>1 DEF BridgeInv, Stands, Folded, Folding, Keeps, work
<1>5. ASSUME NEW t \in BridgeSession PROVE Armings(t)'
  <2>1. Counting(t)' = Counting(t)
    BY <1>1 DEF Counting, work
  <2>2. folds[t] \in Nat /\ hooks[t] \in Nat
    BY DEF BridgeInv, MoreTypes
  <2>3. \/ hooks'[t] = hooks[t] + 1
        \/ hooks'[t] = hooks[t] /\ (armed'[t] # "no" => armed[t] # "no")
    <3>1. hooks \in [BridgeSession -> Nat] /\ armed \in [BridgeSession -> {"no", "live", "stale"}]
      BY DEF BridgeInv, BridgeTypeOK, MoreTypes
    <3>2. CASE Hook(s)
      <4>1. CASE t = s
        BY <3>1, <3>2, <4>1 DEF Hook, Set
      <4>2. CASE t # s
        <5>1. hooks'[t] = hooks[t]
          BY <3>1, <3>2, <4>2 DEF Hook, Set
        <5>2. armed'[t] = IF armed[t] = "stale" THEN "no" ELSE armed[t]
          BY <3>1, <3>2, <4>2 DEF Hook
        <5> QED BY <5>1, <5>2
      <4> QED BY <4>1, <4>2
    <3>3. CASE Lapse(s)
      <4>1. hooks' = hooks
        BY <3>3 DEF Lapse, counts
      <4>2. armed' = [armed EXCEPT ![s] = "stale"] /\ armed[s] = "live"
        BY <3>3 DEF Lapse, Set
      <4> QED BY <3>1, <4>1, <4>2
    <3> QED BY <3>2, <3>3
  <2> QED BY <1>1, <2>1, <2>2, <2>3 DEF BridgeInv, Armings
<1>6. (\A d \in Conversation : Knows(d))'
  BY <1>1 DEF BridgeInv, Knows, Entry, users
<1> QED BY <1>2, <1>3, <1>4, <1>5, <1>6 DEF BridgeInv

-----------------------------------------------------------------------------
(* Requests that are rewritten and sent on. *)

LEMMA EntryTyped ==
    ASSUME BridgeTypeOK, NEW c \in Conversation PROVE Entry(c) \in RouteState
PROOF
<1>1. [selected |-> Launch[c], shadow |-> Nil, on |-> FALSE] \in RouteState
  BY BridgeAssumption DEF RouteState
<1> QED BY <1>1 DEF Entry, BridgeTypeOK

\* The table after the request a.
Rewritten(a) == Set(IF Full(a.of) THEN [d \in Conversation |-> Nil] ELSE route, a.of, EntryAfter(a))

LEMMA RewrittenTyped ==
    ASSUME BridgeTypeOK, MoreTypes, NEW a \in Ask, Asks(a), a.kind # "review"
    PROVE  /\ EntryAfter(a) \in RouteState
           /\ Rewritten(a) \in [Conversation -> RouteState \union {Nil}]
           /\ IsFiniteSet({c \in Conversation : Rewritten(a)[c] # Nil})
           /\ Cardinality({c \in Conversation : Rewritten(a)[c] # Nil}) <= MaxRoutes
PROOF
<1> DEFINE Known(t) == {c \in Conversation : t[c] # Nil}
<1>1. a.of \in Conversation
  BY DEF Ask
<1>2. EntryAfter(a) \in RouteState
  <2>1. Entry(a.of) \in RouteState
    BY <1>1, EntryTyped
  <2>2. CASE a.fast
    <3>1. a.model = Shadow
      BY <2>2 DEF Asks
    <3>2. EntryAfter(a) = [Entry(a.of) EXCEPT !.shadow = Shadow, !.on = TRUE]
      BY <2>2, <3>1 DEF EntryAfter
    <3> QED BY <2>1, <3>2, Zenon DEF RouteState
  <2>3. CASE ~a.fast /\ Tools(a) /\ ~IsShadow(a) /\ a.model \in Model
    <3>1. EntryAfter(a) = [selected |-> a.model, shadow |-> Nil, on |-> FALSE]
      BY <2>3 DEF EntryAfter
    <3> QED BY <2>3, <3>1 DEF RouteState
  <2>4. CASE ~a.fast /\ ~(Tools(a) /\ ~IsShadow(a) /\ a.model \in Model)
    BY <2>1, <2>4 DEF EntryAfter
  <2> QED BY <2>2, <2>3, <2>4
<1>3. route \in [Conversation -> RouteState \union {Nil}]
  BY DEF BridgeTypeOK
<1>4. EntryAfter(a) # Nil
  BY <1>2, NilAssumption
<1>5. Rewritten(a) \in [Conversation -> RouteState \union {Nil}]
  BY <1>1, <1>2, <1>3 DEF Rewritten, Set
<1>6. CASE Full(a.of)
  <2>1. Rewritten(a) = [[d \in Conversation |-> Nil] EXCEPT ![a.of] = EntryAfter(a)]
    BY <1>6 DEF Rewritten, Set
  <2>2. Known(Rewritten(a)) = {a.of}
    BY <1>1, <1>4, <2>1
  <2>3. IsFiniteSet({a.of}) /\ Cardinality({a.of}) = 1
    BY FS_Singleton, Zenon
  <2> QED BY <1>2, <1>5, <2>2, <2>3, Limits
<1>7. CASE ~Full(a.of)
  <2>1. Rewritten(a) = [route EXCEPT ![a.of] = EntryAfter(a)]
    BY <1>7 DEF Rewritten, Set
  <2>2. Known(Rewritten(a)) = Known(route) \union {a.of}
    BY <1>1, <1>3, <1>4, <2>1
  <2>3. IsFiniteSet(Known(route)) /\ Cardinality(Known(route)) <= MaxRoutes
    BY DEF BridgeTypeOK, MoreTypes
  <2>4. /\ IsFiniteSet(Known(route) \union {a.of}) /\ Cardinality(Known(route)) \in Nat
        /\ Cardinality(Known(route) \union {a.of}) = IF a.of \in Known(route) THEN Cardinality(Known(route))
                                                     ELSE Cardinality(Known(route)) + 1
    BY <2>3, FS_AddElement, FS_CardinalityType, Zenon
  <2>5. a.of \notin Known(route) => Cardinality(Known(route)) < MaxRoutes
    BY <1>1, <1>7, <2>4, Limits DEF Full
  <2> HIDE DEF Known
  <2>6. IsFiniteSet(Known(Rewritten(a))) /\ Cardinality(Known(Rewritten(a))) <= MaxRoutes
    BY <2>2, <2>3, <2>4, <2>5, Limits
  <2> QED BY <1>2, <1>5, <2>6 DEF Known
<1> QED BY <1>6, <1>7

\* A rewriting leaves the table and what it was told in agreement, and keeps the
\* route of a request that names the shadow if it was told enough.
LEMMA ForwardRoutes ==
    ASSUME BridgeInv, NEW r \in Request, pc[r] \in {"new", "count"}, ask[r].kind # "review",
           Forward(r), UNCHANGED <<pick, mode, switches, ask>>
    PROVE  /\ \A c \in Conversation : Knows(c)'
           /\ Keeps(r)'
PROOF
<1> DEFINE a == ask[r]
           c == ask[r].of
<1>1. a \in Ask /\ Asks(a) /\ c \in Conversation
  BY DEF BridgeInv, BridgeTypeOK, Stands, Ask
<1>2. /\ EntryAfter(a) \in RouteState /\ EntryAfter(a) # Nil
      /\ route \in [Conversation -> RouteState \union {Nil}] /\ sent \in [Request -> Sent \union {Nil}]
      /\ learned \in [Conversation -> SUBSET {"pick", "shadow"}] /\ Entry(c) \in RouteState
  BY ZenonT(40), <1>1, RewrittenTyped, EntryTyped, NilAssumption DEF BridgeInv, BridgeTypeOK
<1>3. route' = Rewritten(a) /\ learned' = Told(a)
  BY DEF Forward, Rewritten
<1>4. Shadow \notin Model /\ Nil \notin Model \union {Shadow}
  BY BridgeAssumption
<1>5. Knows(c) /\ \A d \in Conversation : Knows(d)
  BY <1>1 DEF BridgeInv
<1>6. Entry(c)' = EntryAfter(a)
  BY <1>1, <1>2, <1>3 DEF Entry, Rewritten, Set
<1>7. ASSUME NEW d \in Conversation, d # c PROVE Knows(d)'
  <2>1. CASE Full(c)
    <3>1. route'[d] = Nil
      BY <1>1, <1>3, <1>7, <2>1 DEF Rewritten, Set
    <3>2. learned'[d] = IF pick[d] = Launch[d] THEN {"pick"} ELSE {}
      BY <1>1, <1>3, <1>7, <2>1, Zenon DEF Told, Set
    <3>3. Entry(d)' = [selected |-> Launch[d], shadow |-> Nil, on |-> FALSE]
      BY <3>1 DEF Entry
    <3> QED BY <3>2, <3>3 DEF Knows
  <2>2. CASE ~Full(c)
    <3>1. route'[d] = route[d]
      BY <1>1, <1>2, <1>3, <1>7, <2>2 DEF Rewritten, Set
    <3>2. learned'[d] = learned[d]
      BY <1>1, <1>2, <1>3, <1>7, <2>2 DEF Told, Set
    <3> QED BY <1>5, <3>1, <3>2 DEF Knows, Entry
  <2> QED BY <2>1, <2>2
<1> DEFINE before == IF Full(c) THEN IF pick[c] = Launch[c] THEN {"pick"} ELSE {} ELSE learned[c]
<1>8. learned'[c] = IF a.fast THEN before \union {"shadow"}
                    ELSE IF Tools(a) /\ a.model \in Model THEN {x \in {"pick"} : a.model = pick[c]} ELSE before
  BY <1>1, <1>2, <1>3, Zenon DEF Told, Set
<1>9. /\ "pick" \in before => Entry(c).selected = pick[c]
      /\ "shadow" \in before => Entry(c).on /\ Entry(c).shadow = Shadow
      /\ Entry(c).shadow \in {Nil, Shadow}
  <2>1. CASE Full(c)
    <3>1. Entry(c) = [selected |-> Launch[c], shadow |-> Nil, on |-> FALSE]
      BY <2>1 DEF Full, Entry
    <3> QED BY <2>1, <3>1
  <2>2. CASE ~Full(c)
    BY <1>5, <2>2 DEF Knows
  <2> QED BY <2>1, <2>2
<1>10. Knows(c)'
  <2>1. CASE a.fast
    <3>1. EntryAfter(a) = [Entry(c) EXCEPT !.shadow = Shadow, !.on = TRUE]
      BY <1>1, <2>1, Zenon DEF EntryAfter, Asks
    <3>2. EntryAfter(a).selected = Entry(c).selected /\ EntryAfter(a).shadow = Shadow /\ EntryAfter(a).on
      BY <1>2, <3>1 DEF RouteState
    <3>3. learned'[c] = before \union {"shadow"} /\ pick' = pick
      BY <1>8, <2>1
    <3> HIDE DEF before
    <3> QED BY <1>6, <1>9, <3>2, <3>3 DEF Knows
  <2>2. CASE ~a.fast /\ Tools(a) /\ a.model \in Model
    <3>1. ~IsShadow(a)
      BY <1>4, <1>9, <2>2 DEF IsShadow
    <3>2. EntryAfter(a) = [selected |-> a.model, shadow |-> Nil, on |-> FALSE]
      BY <2>2, <3>1 DEF EntryAfter
    <3>3. learned'[c] = {x \in {"pick"} : a.model = pick[c]} /\ pick' = pick
      BY <1>8, <2>2
    <3> QED BY <1>6, <3>2, <3>3 DEF Knows
  <2>3. CASE ~a.fast /\ ~(Tools(a) /\ a.model \in Model)
    <3>1. EntryAfter(a) = Entry(c)
      BY <2>3 DEF EntryAfter
    <3>2. learned'[c] = before /\ pick' = pick
      BY <1>8, <2>3
    <3> HIDE DEF before
    <3> QED BY <1>6, <1>9, <3>1, <3>2 DEF Knows
  <2> QED BY <2>1, <2>2, <2>3
<1>11. Keeps(r)'
  <2> DEFINE sure == /\ "pick" \in learned[c] /\ ~Full(c)
                     /\ a.model = Shadow => a.want = pick[c]
                     /\ a.model = Shadow /\ ~a.fast => "shadow" \in learned[c]
  <2>1. sent'[r].model = Routed(a) /\ sent'[r].knows = sure /\ ask' = ask
    BY <1>2 DEF Forward, Set
  <2>2. ASSUME sure, a.kind \in MainKind PROVE Routed(a) = a.want
    <3>1. Entry(c).selected = pick[c]
      BY <1>5, <2>2 DEF Knows
    <3>2. CASE a.model = Shadow
      <4>1. ~a.fast => IsShadow(a)
        BY <1>5, <2>2, <3>2 DEF Knows, IsShadow
      <4> QED BY <2>2, <3>1, <3>2, <4>1 DEF Routed, Tools
    <3>3. CASE a.model # Shadow
      <4>1. a.model = a.want /\ a.model \in Model /\ ~a.fast
        BY <1>1, <2>2, <3>3 DEF Asks, Ask
      <4>2. ~IsShadow(a)
        BY <1>4, <1>5, <4>1 DEF Knows, IsShadow
      <4> QED BY <4>1, <4>2 DEF Routed
    <3> QED BY <3>2, <3>3
  <2> HIDE DEF sure
  <2> QED BY <2>1, <2>2 DEF Keeps
<1> QED BY <1>7, <1>10, <1>11

\* A request is forwarded by one of three ways to the same rewriting.
LEMMA ForwardKeeps ==
    ASSUME BridgeInv, NEW r \in Request, pc[r] \in {"new", "count"}, ask[r].kind # "review", Forward(r),
           UNCHANGED <<armed, pick, mode, switches, ask, tries, rounds, summary, counts>>
    PROVE  BridgeInv'
PROOF
<1> DEFINE a == ask[r]
<1>1. a \in Ask /\ Asks(a) /\ a.of \in Conversation
  BY DEF BridgeInv, BridgeTypeOK, Stands, Ask
<1>2. /\ sent \in [Request -> Sent \union {Nil}] /\ learned \in [Conversation -> SUBSET {"pick", "shadow"}]
      /\ pc \in [Request -> Ended \union {"new", "count", "send", "stream", "fold", "lost"}]
  BY DEF BridgeInv, BridgeTypeOK
<1>3. /\ route' \in [Conversation -> RouteState \union {Nil}]
      /\ IsFiniteSet({c \in Conversation : route'[c] # Nil})
      /\ Cardinality({c \in Conversation : route'[c] # Nil}) <= MaxRoutes
  BY <1>1, RewrittenTyped, Zenon DEF Forward, Rewritten, BridgeInv
<1>4. PICK x \in Sent : sent' = [sent EXCEPT ![r] = x]
  <2>1. Routed(a) \in Model \union {Shadow, Judge}
    <3>1. Entry(a.of).selected \in Model
      BY <1>1, EntryTyped DEF BridgeInv, RouteState
    <3> QED BY <1>1, <3>1 DEF Routed, Ask
  <2>2. a.fast \in BOOLEAN
    BY <1>1 DEF Ask
  <2> DEFINE sure == /\ "pick" \in learned[a.of] /\ ~Full(a.of)
                     /\ a.model = Shadow => a.want = pick[a.of]
                     /\ a.model = Shadow /\ ~a.fast => "shadow" \in learned[a.of]
             x == [model |-> Routed(a), fast |-> a.fast /\ Routed(a) \in Codex, knows |-> sure]
  <2>3. sure \in BOOLEAN
    OBVIOUS
  <2>4. sent' = [sent EXCEPT ![r] = x]
    BY DEF Forward, Set
  <2> HIDE DEF sure
  <2>5. x \in Sent
    BY <2>1, <2>2, <2>3 DEF Sent
  <2> QED BY <2>4, <2>5, Zenon
<1>5. learned' \in [Conversation -> SUBSET {"pick", "shadow"}]
  <2> DEFINE before == IF Full(a.of)
                       THEN [d \in Conversation |-> IF pick[d] = Launch[d] THEN {"pick"} ELSE {}]
                       ELSE learned
             mine == IF a.fast THEN before[a.of] \union {"shadow"}
                     ELSE IF Tools(a) /\ a.model \in Model THEN {y \in {"pick"} : a.model = pick[a.of]}
                     ELSE before[a.of]
  <2>1. before \in [Conversation -> SUBSET {"pick", "shadow"}]
    BY <1>2
  <2>2. learned' = [before EXCEPT ![a.of] = mine]
    BY Zenon DEF Forward, Told, Set
  <2> HIDE DEF before
  <2>3. mine \in SUBSET {"pick", "shadow"}
    BY <1>1, <2>1
  <2> HIDE DEF mine
  <2> QED BY <2>1, <2>2, <2>3, Zenon
<1>6. pc' = [pc EXCEPT ![r] = "send"] /\ x # Nil
  BY <1>4, NilAssumption DEF Forward, Goes, Set
<1>7. BridgeTypeOK'
  <2>2. ASSUME NEW q \in Request
        PROVE  tries'[q] \in 0 .. (IF pc'[q] \in {"fold", "lost"} THEN MaxTries ELSE MaxSends) - 1
    <3>1. tries[q] \in 0 .. (IF pc[q] \in {"fold", "lost"} THEN MaxTries ELSE MaxSends) - 1 /\ tries' = tries
      BY DEF BridgeInv, BridgeTypeOK
    <3>2. pc'[q] \in {"fold", "lost"} <=> pc[q] \in {"fold", "lost"}
      BY <1>2, <1>6
    <3> QED BY <3>1, <3>2
  <2>3. /\ pc' \in [Request -> Ended \union {"new", "count", "send", "stream", "fold", "lost"}]
        /\ sent' \in [Request -> Sent \union {Nil}]
    BY <1>2, <1>4, <1>6
  <2>4. /\ armed \in [BridgeSession -> {"no", "live", "stale"}] /\ pick \in [Conversation -> Model]
        /\ mode \in [Conversation -> {"plain", "fast", "back"}] /\ ask \in [Request -> Ask \union {Nil}]
    BY DEF BridgeInv, BridgeTypeOK
  <2> QED BY <1>3, <1>5, <2>2, <2>3, <2>4 DEF BridgeTypeOK
<1>8. MoreTypes'
  BY <1>3 DEF BridgeInv, MoreTypes, counts
<1>9. ASSUME NEW q \in Request, q # r PROVE Stands(q)' /\ Folded(q)' /\ Keeps(q)'
  <2>1. pc'[q] = pc[q] /\ sent'[q] = sent[q] /\ UNCHANGED <<ask, summary, rounds>>
    BY <1>2, <1>4, <1>6, <1>9
  <2> QED BY <2>1 DEF BridgeInv, Stands, Folded, Folding, Keeps
<1>10. Stands(r)' /\ Folded(r)'
  <2>1. pc'[r] = "send" /\ sent'[r] # Nil /\ ask'[r] = a
    BY <1>2, <1>4, <1>6
  <2> QED BY <1>1, <2>1 DEF BridgeInv, Stands, Folded, Folding
<1>11. Keeps(r)' /\ \A c \in Conversation : Knows(c)'
  BY ForwardRoutes
<1>12. ASSUME NEW s \in BridgeSession PROVE Armings(s)'
  <2>1. Counting(s)' \subseteq Counting(s)
    BY <1>2, <1>6 DEF Counting
  <2>2. UNCHANGED <<armed, overlapped, folds, hooks>>
    BY DEF counts
  <2> QED BY <2>1, <2>2 DEF BridgeInv, Armings
<1> QED BY <1>7, <1>8, <1>9, <1>10, <1>11, <1>12 DEF BridgeInv

\* A permission classifier is sent on as it is.
LEMMA ReviewKeeps ==
    ASSUME BridgeInv, NEW r \in Request, pc[r] = "new", ask[r].kind = "review",
           sent' = Set(sent, r, [model |-> Judge, fast |-> FALSE, knows |-> FALSE]), Goes(r, "send"),
           UNCHANGED <<tables, users, ask, tries, rounds, summary, counts>>
    PROVE  BridgeInv'
PROOF
<1> DEFINE x == [model |-> Judge, fast |-> FALSE, knows |-> FALSE]
<1>1. x \in Sent /\ x # Nil /\ x.knows = FALSE /\ sent' = [sent EXCEPT ![r] = x] /\ pc' = [pc EXCEPT ![r] = "send"]
  <2>1. x \in Sent
    BY DEF Sent
  <2> QED BY <2>1, NilAssumption, Zenon DEF Set, Goes
<1> HIDE DEF x
<1>2. /\ sent \in [Request -> Sent \union {Nil}]
      /\ pc \in [Request -> Ended \union {"new", "count", "send", "stream", "fold", "lost"}]
  BY DEF BridgeInv, BridgeTypeOK
<1>3. BridgeTypeOK'
  <2>1. ASSUME NEW q \in Request
        PROVE  tries'[q] \in 0 .. (IF pc'[q] \in {"fold", "lost"} THEN MaxTries ELSE MaxSends) - 1
    <3>1. tries[q] \in 0 .. (IF pc[q] \in {"fold", "lost"} THEN MaxTries ELSE MaxSends) - 1 /\ tries' = tries
      BY DEF BridgeInv, BridgeTypeOK
    <3>2. pc'[q] \in {"fold", "lost"} <=> pc[q] \in {"fold", "lost"}
      BY <1>1, <1>2
    <3> QED BY <3>1, <3>2
  <2>2. /\ pc' \in [Request -> Ended \union {"new", "count", "send", "stream", "fold", "lost"}]
        /\ sent' \in [Request -> Sent \union {Nil}]
    BY <1>1, <1>2, Zenon
  <2> QED BY <2>1, <2>2, Zenon DEF BridgeInv, BridgeTypeOK, tables, users
<1>4. MoreTypes'
  BY DEF BridgeInv, MoreTypes, tables, counts
<1>5. ASSUME NEW q \in Request PROVE Stands(q)' /\ Folded(q)' /\ Keeps(q)'
  <2>1. CASE q # r
    <3>1. pc'[q] = pc[q] /\ sent'[q] = sent[q]
      BY <1>1, <1>2, <2>1, Zenon
    <3> QED BY <3>1 DEF BridgeInv, Stands, Folded, Folding, Keeps
  <2>2. CASE q = r
    <3>1. pc'[r] = "send" /\ sent'[r] = x
      BY <1>1, <1>2
    <3> QED BY <1>1, <2>2, <3>1 DEF BridgeInv, Stands, Folded, Folding, Keeps
  <2> QED BY <2>1, <2>2
<1>6. ASSUME NEW s \in BridgeSession PROVE Armings(s)'
  <2>1. Counting(s)' = Counting(s)
    BY <1>1, <1>2 DEF Counting
  <2> QED BY <2>1 DEF BridgeInv, Armings, tables, counts
<1>7. (\A c \in Conversation : Knows(c))'
  BY DEF BridgeInv, Knows, Entry, tables, users
<1> QED BY <1>3, <1>4, <1>5, <1>6, <1>7 DEF BridgeInv

\* A compaction that may fold has its tokens counted: it is the only one, or the
\* session's compactions overlap.
LEMMA CountKeeps ==
    ASSUME BridgeInv, NEW r \in Request, pc[r] = "new", MayFold(ask[r]), Goes(r, "count"),
           overlapped' = IF Counting(SessionOf[ask[r].of]) = {} THEN overlapped
                         ELSE Set(overlapped, SessionOf[ask[r].of], TRUE),
           UNCHANGED <<tables, users, ask, sent, tries, rounds, summary, hooks, folds>>
    PROVE  BridgeInv'
PROOF
<1> DEFINE mine == SessionOf[ask[r].of]
<1>1. /\ pc \in [Request -> Ended \union {"new", "count", "send", "stream", "fold", "lost"}]
      /\ overlapped \in [BridgeSession -> BOOLEAN] /\ pc' = [pc EXCEPT ![r] = "count"]
  BY DEF BridgeInv, BridgeTypeOK, MoreTypes, Goes, Set
<1>2. ask[r].of \in Conversation /\ mine \in BridgeSession
  BY DEF BridgeInv, BridgeTypeOK, Stands, Ask, BridgeSession
<1>3. BridgeTypeOK'
  <2>1. ASSUME NEW q \in Request
        PROVE  tries'[q] \in 0 .. (IF pc'[q] \in {"fold", "lost"} THEN MaxTries ELSE MaxSends) - 1
    <3>1. tries[q] \in 0 .. (IF pc[q] \in {"fold", "lost"} THEN MaxTries ELSE MaxSends) - 1 /\ tries' = tries
      BY DEF BridgeInv, BridgeTypeOK
    <3>2. pc'[q] \in {"fold", "lost"} <=> pc[q] \in {"fold", "lost"}
      BY <1>1
    <3> QED BY <3>1, <3>2
  <2>2. pc' \in [Request -> Ended \union {"new", "count", "send", "stream", "fold", "lost"}]
    BY <1>1
  <2> QED BY <2>1, <2>2 DEF BridgeInv, BridgeTypeOK, tables, users
<1>4. MoreTypes'
  <2>1. overlapped' \in [BridgeSession -> BOOLEAN]
    BY <1>1, Zenon DEF Set
  <2> QED BY <2>1, Zenon DEF BridgeInv, MoreTypes, tables
<1>5. ASSUME NEW q \in Request PROVE Stands(q)' /\ Folded(q)' /\ Keeps(q)'
  <2>1. CASE q # r
    <3>1. pc'[q] = pc[q]
      BY <1>1, <2>1
    <3> QED BY <3>1 DEF BridgeInv, Stands, Folded, Folding, Keeps
  <2>2. CASE q = r
    <3>1. pc'[r] = "count" /\ ask[r].kind = "compact"
      BY <1>1 DEF MayFold
    <3> QED BY <2>2, <3>1 DEF BridgeInv, Stands, Folded, Folding, Keeps
  <2> QED BY <2>1, <2>2
<1>6. ASSUME NEW s \in BridgeSession PROVE Armings(s)'
  <2>1. UNCHANGED <<armed, folds, hooks, ask>>
    BY DEF tables
  <2>2. CASE s # mine
    <3>1. Counting(s)' = Counting(s) /\ overlapped'[s] = overlapped[s]
      BY <1>1, <2>2 DEF Counting, Set
    <3> QED BY <2>1, <3>1, Zenon DEF BridgeInv, Armings
  <2>3. CASE s = mine /\ Counting(mine) = {}
    <3>1. Counting(s)' = {r} /\ overlapped' = overlapped
      BY <1>1, <2>3, Zenon DEF Counting
    <3>2. armed[s] = "live"
      BY <2>3 DEF MayFold
    <3> QED BY <2>1, <3>1, <3>2, Zenon DEF BridgeInv, Armings
  <2>4. CASE s = mine /\ Counting(mine) # {}
    <3>1. overlapped'[s]
      BY <1>1, <1>2, <2>4 DEF Set
    <3> QED BY <3>1, Zenon DEF Armings
  <2> QED BY <2>2, <2>3, <2>4
<1>7. (\A c \in Conversation : Knows(c))'
  BY DEF BridgeInv, Knows, Entry, tables, users
<1> QED BY <1>3, <1>4, <1>5, <1>6, <1>7 DEF BridgeInv

LEMMA EnterKeeps == ASSUME BridgeInv, NEW r \in Request, Enter(r) PROVE BridgeInv'
PROOF
<1>1. pc[r] = "new" /\ UNCHANGED <<armed, pick, mode, switches, ask, tries, rounds, summary, hooks, folds>>
  BY DEF Enter
<1>2. CASE /\ ask[r].kind = "review" /\ Goes(r, "send")
           /\ sent' = Set(sent, r, [model |-> Judge, fast |-> FALSE, knows |-> FALSE])
           /\ UNCHANGED <<route, learned, overlapped>>
  BY <1>1, <1>2, ReviewKeeps DEF tables, users, counts
<1>3. CASE /\ MayFold(ask[r]) /\ Goes(r, "count") /\ UNCHANGED <<route, learned, sent>>
           /\ overlapped' = IF Counting(SessionOf[ask[r].of]) = {} THEN overlapped
                            ELSE Set(overlapped, SessionOf[ask[r].of], TRUE)
  BY <1>1, <1>3, CountKeeps, Zenon DEF tables, users
<1>4. CASE ask[r].kind # "review" /\ Forward(r) /\ UNCHANGED overlapped
  BY <1>1, <1>4, ForwardKeeps DEF counts
<1>5. \/ /\ ask[r].kind = "review" /\ Goes(r, "send")
         /\ sent' = Set(sent, r, [model |-> Judge, fast |-> FALSE, knows |-> FALSE])
         /\ UNCHANGED <<route, learned, overlapped>>
      \/ /\ MayFold(ask[r]) /\ Goes(r, "count") /\ UNCHANGED <<route, learned, sent>>
         /\ overlapped' = IF Counting(SessionOf[ask[r].of]) = {} THEN overlapped
                          ELSE Set(overlapped, SessionOf[ask[r].of], TRUE)
      \/ ask[r].kind # "review" /\ Forward(r) /\ UNCHANGED overlapped
  BY Zenon DEF Enter, Counting
<1> QED BY <1>2, <1>3, <1>4, <1>5, Zenon

\* Without a fold the compaction is rewritten like everything else.
LEMMA UnfoldedKeeps == ASSUME BridgeInv, NEW r \in Request, CountFails(r) \/ NoFold(r) PROVE BridgeInv'
PROOF
<1>1. /\ pc[r] = "count" /\ Forward(r)
      /\ UNCHANGED <<armed, pick, mode, switches, ask, tries, rounds, summary, counts>>
  BY DEF CountFails, NoFold
<1>2. ask[r].kind # "review"
  BY <1>1 DEF BridgeInv, Stands
<1> QED BY <1>1, <1>2, ForwardKeeps

-----------------------------------------------------------------------------
(* Folds. *)

\* The fold takes the arming, and has a plan for the whole conversation.
LEMMA CommitKeeps == ASSUME BridgeInv, NEW r \in Request, Commit(r) PROVE BridgeInv'
PROOF
<1> DEFINE mine == SessionOf[ask[r].of]
           fold == ask[r].fold
           n == Len(fold.counts)
<1>1. /\ pc \in [Request -> Ended \union {"new", "count", "send", "stream", "fold", "lost"}]
      /\ armed \in [BridgeSession -> {"no", "live", "stale"}] /\ folds \in [BridgeSession -> Nat]
      /\ rounds \in [Request -> Seq(Nat \X Nat)] /\ hooks \in [BridgeSession -> Nat]
  BY DEF BridgeInv, BridgeTypeOK, MoreTypes
<1>2. /\ pc[r] = "count" /\ pc' = [pc EXCEPT ![r] = "fold"] /\ NeedsFold(fold)
      /\ armed' = [armed EXCEPT ![mine] = "no"] /\ folds' = [folds EXCEPT ![mine] = folds[mine] + 1]
      /\ rounds' = [rounds EXCEPT ![r] = Plan(fold)]
      /\ UNCHANGED <<route, users, ask, sent, tries, summary, hooks, overlapped>>
  BY DEF Commit, Goes, Set
<1>3. ask[r].of \in Conversation /\ mine \in BridgeSession /\ ask[r].kind = "compact" /\ fold \in Folds
  BY <1>2 DEF BridgeInv, BridgeTypeOK, Stands, Ask, Asks, BridgeSession
<1>4. IsFold(fold) /\ n \in Nat
  BY <1>3, BridgeAssumption DEF IsFold
<1>5. Covers(Plan(fold), 1, n)
  <2>1. Plan(fold) # <<>>
    BY <1>2 DEF NeedsFold
  <2> QED BY <1>4, <2>1, PlanCovers
<1>6. BridgeTypeOK'
  <2>1. ASSUME NEW q \in Request
        PROVE  tries'[q] \in 0 .. (IF pc'[q] \in {"fold", "lost"} THEN MaxTries ELSE MaxSends) - 1
    <3>1. tries[q] \in 0 .. (IF pc[q] \in {"fold", "lost"} THEN MaxTries ELSE MaxSends) - 1 /\ tries' = tries
      BY <1>2 DEF BridgeInv, BridgeTypeOK
    <3>2. CASE q # r
      BY <1>1, <1>2, <3>1, <3>2
    <3>3. CASE q = r
      <4>1. tries[r] = 0
        BY <1>2 DEF BridgeInv, Stands
      <4>2. 0 \in 0 .. MaxTries - 1
        BY Limits
      <4>3. pc'[r] = "fold"
        BY <1>1, <1>2
      <4>4. tries'[q] = 0 /\ pc'[q] = "fold"
        BY <3>1, <3>3, <4>1, <4>3
      <4> QED BY <4>2, <4>4
    <3> QED BY <3>2, <3>3
  <2>2. /\ pc' \in [Request -> Ended \union {"new", "count", "send", "stream", "fold", "lost"}]
        /\ armed' \in [BridgeSession -> {"no", "live", "stale"}]
    BY <1>1, <1>2, Zenon
  <2> QED BY <1>2, <2>1, <2>2 DEF BridgeInv, BridgeTypeOK, users
<1>7. MoreTypes'
  <2>1. rounds' \in [Request -> Seq(Nat \X Nat)]
    BY <1>1, <1>2, <1>5 DEF Covers
  <2>2. folds' \in [BridgeSession -> Nat]
    BY <1>1, <1>2, <1>3
  <2> QED BY <1>2, <2>1, <2>2 DEF BridgeInv, MoreTypes
<1>8. ASSUME NEW q \in Request, q # r PROVE Stands(q)' /\ Folded(q)' /\ Keeps(q)'
  <2>1. pc'[q] = pc[q] /\ rounds'[q] = rounds[q]
    BY <1>1, <1>2, <1>8
  <2> QED BY <1>2, <2>1 DEF BridgeInv, Stands, Folded, Folding, Keeps
<1>9. Stands(r)' /\ Keeps(r)'
  <2>1. pc'[r] = "fold"
    BY <1>1, <1>2
  <2> QED BY <1>2, <2>1 DEF BridgeInv, Stands, Keeps
<1>10. Folded(r)'
  <2>1. pc'[r] = "fold" /\ rounds'[r] = Plan(fold) /\ ask' = ask
    BY <1>1, <1>2
  <2>2. summary'[r] = <<>>
    BY <1>2 DEF BridgeInv, Folded
  <2>3. UpTo(0) = <<>>
    BY DEF UpTo
  <2>4. Covers(Plan(fold), 0 + 1, n)
    BY <1>5
  <2> HIDE DEF fold, n
  <2>5. Folding(r)' => \E k \in Nat : summary'[r] = UpTo(k) /\ Covers(rounds'[r], k + 1, n)
    BY <2>1, <2>2, <2>3, <2>4
  <2> QED BY <2>1, <2>5 DEF Folded, fold, n
<1>11. ASSUME NEW s \in BridgeSession PROVE Armings(s)'
  <2>1. CASE s # mine
    <3>1. Counting(s)' = Counting(s)
      BY <1>1, <1>2, <2>1 DEF Counting
    <3>2. armed'[s] = armed[s] /\ folds'[s] = folds[s]
      BY <1>1, <1>2, <2>1
    <3> QED BY <1>2, <3>1, <3>2 DEF BridgeInv, Armings
  <2>2. CASE s = mine /\ ~overlapped[s]
    <3>1. r \in Counting(s) /\ Armings(s)
      BY <1>2, <2>2 DEF Counting, BridgeInv
    <3>2. folds[s] < hooks[s] /\ Counting(s) = {r}
      BY <2>2, <3>1 DEF Armings
    <3>3. Counting(s)' = {}
      BY <1>1, <1>2, <3>2 DEF Counting
    <3>4. armed'[s] = "no" /\ folds'[s] = folds[s] + 1 /\ hooks' = hooks
      BY <1>1, <1>2, <2>2
    <3>5. folds'[s] <= hooks'[s]
      BY <1>1, <3>2, <3>4
    <3> QED BY <3>3, <3>4, <3>5 DEF Armings
  <2>3. CASE s = mine /\ overlapped[s]
    BY <1>2, <2>3 DEF Armings
  <2> QED BY <2>1, <2>2, <2>3
<1>12. (\A c \in Conversation : Knows(c))'
  BY <1>2 DEF BridgeInv, Knows, Entry, users
<1> QED BY <1>6, <1>7, <1>8, <1>9, <1>10, <1>11, <1>12 DEF BridgeInv

\* The messages of a round follow those that the summary stands for.
LEMMA SummaryGrows ==
    ASSUME NEW k \in Nat, NEW last \in Nat, last >= k
    PROVE  UpTo(k) \o Messages(<<k + 1, last>>) = UpTo(last)
PROOF
<1> DEFINE more == Messages(<<k + 1, last>>)
<1>1. last - (k + 1) + 1 = last - k /\ last - k \in Nat
  OBVIOUS
<1>2. more = [i \in 1 .. last - k |-> k + i]
  <2>1. \A i \in 1 .. last - k : (k + 1) + i - 1 = k + i
    OBVIOUS
  <2> QED BY <1>1, <2>1 DEF Messages
<1>3. more \in Seq(Nat) /\ Len(more) = last - k /\ UpTo(k) \in Seq(Nat) /\ Len(UpTo(k)) = k
  <2>1. \A i \in 1 .. last - k : k + i \in Nat
    OBVIOUS
  <2> QED BY SMTT(40), <1>1, <1>2, <2>1 DEF UpTo
<1>4. UpTo(last) \in Seq(Nat) /\ Len(UpTo(last)) = last
  BY DEF UpTo
<1> DEFINE whole == UpTo(k) \o more
<1>5. whole \in Seq(Nat) /\ Len(whole) = last
  <2>1. k + (last - k) = last
    OBVIOUS
  <2> HIDE DEF more
  <2> QED BY <1>3, <2>1
<1>6. ASSUME NEW i \in 1 .. last PROVE whole[i] = i
  <2>1. CASE i <= k
    BY <1>3, <2>1 DEF UpTo
  <2>2. CASE i > k
    <3>1. i - k \in 1 .. last - k /\ k + (i - k) = i
      BY <2>2
    <3>2. whole[i] = more[i - k]
      <4>1. \A s, t \in Seq(Nat) : \A j \in Len(s) + 1 .. Len(s) + Len(t) : (s \o t)[j] = t[j - Len(s)]
        OBVIOUS
      <4>2. i \in k + 1 .. k + (last - k)
        BY <2>2
      <4> HIDE DEF more
      <4> QED BY <1>3, <4>1, <4>2
    <3> QED BY <1>2, <3>1, <3>2, Zenon
  <2>3. i <= k \/ i > k
    OBVIOUS
  <2> HIDE DEF whole
  <2> QED BY <2>1, <2>2, <2>3
<1>7. \A i \in 1 .. last : UpTo(last)[i] = i
  BY DEF UpTo
<1> HIDE DEF whole
<1>8. whole = UpTo(last)
  BY <1>4, <1>5, <1>6, <1>7
<1> QED BY <1>8, Zenon DEF whole

\* A round that is done is one the summary stands for from now on.
LEMMA RoundDoneKeeps == ASSUME BridgeInv, NEW r \in Request, RoundDone(r) PROVE BridgeInv'
PROOF
<1> DEFINE n == Len(ask[r].fold.counts)
           round == Head(rounds[r])
           last == Head(rounds[r])[2]
           over == IF pc[r] = "lost" THEN "gone" ELSE "done"
<1>1. /\ pc \in [Request -> Ended \union {"new", "count", "send", "stream", "fold", "lost"}]
      /\ rounds \in [Request -> Seq(Nat \X Nat)] /\ summary \in [Request -> Seq(Nat)]
      /\ tries \in [Request -> Nat]
  BY DEF BridgeInv, BridgeTypeOK, MoreTypes
<1>2. /\ pc[r] \in {"fold", "lost"} /\ pc' = [pc EXCEPT ![r] = IF Len(rounds[r]) > 1 THEN pc[r] ELSE over]
      /\ summary' = [summary EXCEPT ![r] = summary[r] \o Messages(round)]
      /\ rounds' = [rounds EXCEPT ![r] = Tail(rounds[r])] /\ tries' = [tries EXCEPT ![r] = 0]
      /\ UNCHANGED <<tables, users, ask, sent, counts>>
  BY DEF RoundDone, Folding, Goes, Set
<1>3. ask[r].kind = "compact" /\ n \in Nat /\ sent[r] = Nil
  <2>1. ask[r].kind = "compact" /\ ask[r].fold \in Folds /\ sent[r] = Nil
    BY <1>2 DEF BridgeInv, Stands, Asks
  <2> QED BY <2>1, BridgeAssumption
<1>4. PICK k \in Nat : summary[r] = UpTo(k) /\ Covers(rounds[r], k + 1, n)
  BY <1>2 DEF BridgeInv, Folded, Folding
<1>5. /\ round \in Nat \X Nat /\ round[1] = k + 1 /\ last \in Nat /\ last >= k + 1
      /\ Tail(rounds[r]) \in Seq(Nat \X Nat)
      /\ Len(rounds[r]) > 1 => Covers(Tail(rounds[r]), last + 1, n)
      /\ ~(Len(rounds[r]) > 1) => last = n
  <2>1. k + 1 \in Nat
    BY <1>4
  <2> DEFINE plan == rounds[r]
  <2>2. Covers(plan, k + 1, n)
    BY <1>4
  <2> HIDE DEF plan, n
  <2>3. /\ Head(plan) \in Nat \X Nat /\ Head(plan)[1] = k + 1 /\ Head(plan)[2] >= k + 1
        /\ Tail(plan) \in Seq(Nat \X Nat)
        /\ Len(plan) > 1 => Covers(Tail(plan), Head(plan)[2] + 1, n)
        /\ ~(Len(plan) > 1) => Head(plan)[2] = n
    BY <1>3, <2>1, <2>2, CoversRest, Zenon
  <2>4. Head(plan)[2] \in Nat
    BY <2>3
  <2> QED BY <2>3, <2>4 DEF plan
<1>6. summary'[r] = UpTo(last) /\ summary'[r] \in Seq(Nat)
  <2>1. Messages(round) = Messages(<<k + 1, last>>)
    BY <1>5 DEF Messages
  <2>2. summary'[r] = UpTo(k) \o Messages(<<k + 1, last>>)
    BY <1>1, <1>2, <1>4, <2>1, Zenon
  <2>3. last >= k
    BY <1>5
  <2>4. UpTo(last) \in Seq(Nat)
    BY <1>5 DEF UpTo
  <2> HIDE DEF last
  <2> QED BY <1>5, <2>2, <2>3, <2>4, SummaryGrows, Zenon
<1>7. BridgeTypeOK'
  <2>1. ASSUME NEW q \in Request
        PROVE  tries'[q] \in 0 .. (IF pc'[q] \in {"fold", "lost"} THEN MaxTries ELSE MaxSends) - 1
    <3>1. tries[q] \in 0 .. (IF pc[q] \in {"fold", "lost"} THEN MaxTries ELSE MaxSends) - 1
      BY DEF BridgeInv, BridgeTypeOK
    <3>2. CASE q # r
      <4>1. tries'[q] = tries[q] /\ pc'[q] = pc[q]
        BY <1>1, <1>2, <3>2
      <4> QED BY <3>1, <4>1
    <3>3. CASE q = r
      <4>1. tries'[q] = 0
        BY <1>1, <1>2, <3>3
      <4>2. 0 \in 0 .. MaxTries - 1 /\ 0 \in 0 .. MaxSends - 1
        BY Limits
      <4> QED BY <4>1, <4>2
    <3> QED BY <3>2, <3>3
  <2>2. pc' \in [Request -> Ended \union {"new", "count", "send", "stream", "fold", "lost"}]
    BY <1>1, <1>2 DEF Ended
  <2> QED BY <1>2, <2>1, <2>2 DEF BridgeInv, BridgeTypeOK, users, tables
<1>8. MoreTypes'
  <2>1. rounds' \in [Request -> Seq(Nat \X Nat)]
    BY <1>1, <1>2, <1>5
  <2>2. summary' \in [Request -> Seq(Nat)]
    BY <1>1, <1>2, <1>6
  <2>3. tries' \in [Request -> Nat]
    BY <1>1, <1>2
  <2> QED BY <1>2, <2>1, <2>2, <2>3, Zenon DEF BridgeInv, MoreTypes, tables, counts
<1>9. ASSUME NEW q \in Request, q # r PROVE Stands(q)' /\ Folded(q)' /\ Keeps(q)'
  <2>1. pc'[q] = pc[q] /\ rounds'[q] = rounds[q] /\ summary'[q] = summary[q] /\ tries'[q] = tries[q]
    BY <1>1, <1>2, <1>9
  <2> QED BY <1>2, <2>1, Zenon DEF BridgeInv, Stands, Folded, Folding, Keeps
<1>10. pc'[r] = IF Len(rounds[r]) > 1 THEN pc[r] ELSE over
  BY <1>1, <1>2
<1>11. Stands(r)' /\ Keeps(r)'
  <2>1. tries'[r] = 0
    BY <1>1, <1>2
  <2> QED BY <1>2, <1>3, <1>10, <2>1 DEF BridgeInv, Stands, Keeps
<1>12. Folded(r)'
  <2>1. rounds'[r] = Tail(rounds[r]) /\ ask' = ask
    BY <1>1, <1>2
  <2>2. CASE Len(rounds[r]) > 1
    <3>1. pc'[r] \in {"fold", "lost"}
      BY <1>2, <1>10, <2>2
    <3>2. Covers(rounds'[r], last + 1, n)
      BY <1>5, <2>1, <2>2
    <3> HIDE DEF last
    <3> QED BY <1>5, <1>6, <2>1, <3>1, <3>2, Zenon DEF Folded
  <2>3. CASE ~(Len(rounds[r]) > 1)
    <3>1. pc'[r] \in {"gone", "done"}
      BY <1>10, <2>3
    <3>2. summary'[r] = UpTo(n)
      BY <1>5, <1>6, <2>3
    <3> QED BY <2>1, <3>1, <3>2 DEF Folded, Folding
  <2> QED BY <2>2, <2>3
<1>13. ASSUME NEW s \in BridgeSession PROVE Armings(s)'
  <2>1. Counting(s)' = Counting(s)
    BY <1>1, <1>2, <1>10, Zenon DEF Counting
  <2> QED BY <1>2, <2>1 DEF BridgeInv, Armings, tables, counts
<1>14. (\A c \in Conversation : Knows(c))'
  BY <1>2 DEF BridgeInv, Knows, Entry, tables, users
<1> QED BY <1>7, <1>8, <1>9, <1>11, <1>12, <1>13, <1>14 DEF BridgeInv

-----------------------------------------------------------------------------
(* Requests that go on or end. *)

\* From where a request may move to where, while nothing else changes but tries.
Moves(from, to) ==
    \/ from \in {"new", "count", "send", "stream"} /\ to = "gone"
    \/ from = "send" /\ to \in {"stream", "failed"}
    \/ from = "stream" /\ to \in {"done", "failed"}
    \/ from = "fold" /\ to \in {"lost", "failed"}
    \/ from = "lost" /\ to = "gone"

LEMMA MovesKeep ==
    ASSUME BridgeInv, UNCHANGED <<tables, users, ask, sent, rounds, summary, counts>>,
           pc' \in [Request -> Ended \union {"new", "count", "send", "stream", "fold", "lost"}],
           tries' \in [Request -> Nat],
           \A q \in Request :
               /\ pc'[q] = pc[q] \/ Moves(pc[q], pc'[q])
               /\ tries'[q] # tries[q] => pc[q] \in {"send", "fold", "lost"}
               /\ tries'[q] \in 0 .. (IF pc'[q] \in {"fold", "lost"} THEN MaxTries ELSE MaxSends) - 1
    PROVE  BridgeInv'
PROOF
<1>1. BridgeTypeOK'
  BY DEF BridgeInv, BridgeTypeOK, tables, users
<1>2. MoreTypes'
  BY DEF BridgeInv, MoreTypes, tables, counts
<1>3. ASSUME NEW q \in Request PROVE Stands(q)' /\ Folded(q)' /\ Keeps(q)'
  <2>1. Stands(q)'
    BY DEF Moves, BridgeInv, Stands
  <2>2. Folded(q)'
    BY DEF Moves, BridgeInv, Stands, Folded, Folding
  <2>3. Keeps(q)'
    BY DEF BridgeInv, Keeps
  <2> QED BY <2>1, <2>2, <2>3
<1>4. ASSUME NEW s \in BridgeSession PROVE Armings(s)'
  <2>1. Counting(s)' \subseteq Counting(s)
    BY DEF Counting, Moves
  <2> QED BY <2>1 DEF BridgeInv, Armings, tables, counts
<1>5. (\A c \in Conversation : Knows(c))'
  BY DEF BridgeInv, Knows, Entry, tables, users
<1> QED BY <1>1, <1>2, <1>3, <1>4, <1>5 DEF BridgeInv

\* Its premises, for a step of one request.
LEMMA OneMoves ==
    ASSUME BridgeInv, NEW r \in Request, UNCHANGED <<tables, users, ask, sent, rounds, summary, counts>>,
           NEW to \in Ended \union {"new", "count", "send", "stream", "fold", "lost"}, NEW n \in Nat,
           pc' = [pc EXCEPT ![r] = to], tries' = [tries EXCEPT ![r] = n],
           to = pc[r] \/ Moves(pc[r], to), n # tries[r] => pc[r] \in {"send", "fold", "lost"},
           n \in 0 .. (IF to \in {"fold", "lost"} THEN MaxTries ELSE MaxSends) - 1
    PROVE  BridgeInv'
PROOF
<1>1. /\ pc \in [Request -> Ended \union {"new", "count", "send", "stream", "fold", "lost"}]
      /\ tries \in [Request -> Nat]
  BY DEF BridgeInv, BridgeTypeOK, MoreTypes
<1>2. /\ pc' \in [Request -> Ended \union {"new", "count", "send", "stream", "fold", "lost"}]
      /\ tries' \in [Request -> Nat]
  BY <1>1
<1>3. ASSUME NEW q \in Request
      PROVE  /\ pc'[q] = pc[q] \/ Moves(pc[q], pc'[q])
             /\ tries'[q] # tries[q] => pc[q] \in {"send", "fold", "lost"}
             /\ tries'[q] \in 0 .. (IF pc'[q] \in {"fold", "lost"} THEN MaxTries ELSE MaxSends) - 1
  <2>1. CASE q = r
    <3>1. pc'[r] = to /\ tries'[r] = n
      BY <1>1
    <3> QED BY <2>1, <3>1
  <2>2. CASE q # r
    <3>1. pc'[q] = pc[q] /\ tries'[q] = tries[q]
      BY <1>1, <2>2
    <3> QED BY <3>1 DEF BridgeInv, BridgeTypeOK
  <2> QED BY <2>1, <2>2
<1> QED BY <1>2, <1>3, MovesKeep

LEMMA ForwardedKeeps ==
    ASSUME BridgeInv, NEW r \in Request,
           Answered(r) \/ SendFails(r) \/ StreamEnds(r) \/ CallerLeaves(r) \/ RoundFails(r)
    PROVE  BridgeInv'
PROOF
<1> DEFINE Places == Ended \union {"new", "count", "send", "stream", "fold", "lost"}
<1>1. /\ pc \in [Request -> Places] /\ tries \in [Request -> Nat] /\ tries[r] \in Nat
      /\ tries[r] \in 0 .. (IF pc[r] \in {"fold", "lost"} THEN MaxTries ELSE MaxSends) - 1
  BY DEF BridgeInv, BridgeTypeOK, MoreTypes
<1>2. tries = [tries EXCEPT ![r] = tries[r]] /\ pc = [pc EXCEPT ![r] = pc[r]]
  BY <1>1
<1>3. CASE Answered(r)
  <2>1. /\ pc[r] = "send" /\ pc' = [pc EXCEPT ![r] = "stream"] /\ tries' = tries
        /\ UNCHANGED <<tables, users, ask, sent, rounds, summary, counts>>
    BY <1>3 DEF Answered, Goes, Set
  <2> QED BY <1>1, <1>2, <2>1, OneMoves, Zenon DEF Moves
<1>4. CASE SendFails(r)
  <2>1. /\ pc[r] = "send" /\ UNCHANGED <<tables, users, ask, sent, rounds, summary, counts>>
        /\ \/ tries[r] + 1 < MaxSends /\ tries' = [tries EXCEPT ![r] = tries[r] + 1] /\ pc' = pc
           \/ pc' = [pc EXCEPT ![r] = "failed"] /\ tries' = tries
    BY <1>4 DEF SendFails, Goes, Set
  <2>2. CASE tries[r] + 1 < MaxSends /\ tries' = [tries EXCEPT ![r] = tries[r] + 1] /\ pc' = pc
    <3>1. tries[r] + 1 \in 0 .. MaxSends - 1 /\ tries[r] + 1 \in Nat
      BY <1>1, <2>2, Limits
    <3> QED BY <1>1, <1>2, <2>1, <2>2, <3>1, OneMoves, Zenon
  <2>3. CASE pc' = [pc EXCEPT ![r] = "failed"] /\ tries' = tries
    BY <1>1, <1>2, <2>1, <2>3, OneMoves, Zenon DEF Moves, Ended
  <2> QED BY <2>1, <2>2, <2>3
<1>5. CASE StreamEnds(r)
  <2>1. /\ pc[r] = "stream" /\ UNCHANGED <<tables, users, ask, sent, rounds, summary, counts>>
        /\ tries' = [tries EXCEPT ![r] = tries[r]]
        /\ \E to \in {"done", "failed"} : pc' = [pc EXCEPT ![r] = to]
    BY <1>2, <1>5 DEF StreamEnds, Goes, Set
  <2>2. PICK to \in {"done", "failed"} : pc' = [pc EXCEPT ![r] = to]
    BY <2>1, Zenon
  <2>3. to \in Places /\ Moves(pc[r], to) /\ to \notin {"fold", "lost"} /\ tries[r] \in 0 .. MaxSends - 1
    BY <1>1, <2>1 DEF Moves, Ended
  <2>4. UNCHANGED <<tables, users, ask, sent, rounds, summary, counts>>
    BY <2>1
  <2> QED BY <1>1, <2>1, <2>2, <2>3, <2>4, OneMoves, Zenon
<1>6. CASE CallerLeaves(r)
  <2> DEFINE to == IF pc[r] = "fold" THEN "lost" ELSE "gone"
  <2>1. /\ pc[r] \in {"new", "count", "send", "stream", "fold"} /\ pc' = [pc EXCEPT ![r] = to]
        /\ tries' = tries /\ UNCHANGED <<tables, users, ask, sent, rounds, summary, counts>>
    BY <1>6 DEF CallerLeaves, Goes, Set
  <2>2. to \in Places /\ Moves(pc[r], to)
    BY <2>1 DEF Moves, Ended
  <2>3. tries[r] \in 0 .. (IF to \in {"fold", "lost"} THEN MaxTries ELSE MaxSends) - 1
    BY <1>1, <2>1
  <2> QED BY <1>1, <1>2, <2>1, <2>2, <2>3, OneMoves, Zenon
<1>7. CASE RoundFails(r)
  <2> DEFINE to == IF pc[r] = "lost" THEN "gone" ELSE "failed"
  <2>1. /\ pc[r] \in {"fold", "lost"} /\ UNCHANGED <<tables, users, ask, sent, rounds, summary, counts>>
        /\ \/ tries[r] + 1 < MaxTries /\ tries' = [tries EXCEPT ![r] = tries[r] + 1] /\ pc' = pc
           \/ pc' = [pc EXCEPT ![r] = to] /\ tries' = [tries EXCEPT ![r] = 0]
    BY <1>7 DEF RoundFails, Folding, Goes, Set
  <2>2. CASE tries[r] + 1 < MaxTries /\ tries' = [tries EXCEPT ![r] = tries[r] + 1] /\ pc' = pc
    <3>1. tries[r] + 1 \in 0 .. MaxTries - 1 /\ tries[r] + 1 \in Nat
      BY <1>1, <2>2, Limits
    <3>2. pc[r] \in Places /\ pc' = [pc EXCEPT ![r] = pc[r]]
      BY <1>1, <1>2, <2>2
    <3>3. tries[r] + 1 \in 0 .. (IF pc[r] \in {"fold", "lost"} THEN MaxTries ELSE MaxSends) - 1
      BY <2>1, <3>1
    <3> QED BY <2>1, <2>2, <3>1, <3>2, <3>3, OneMoves, Zenon
  <2>3. CASE pc' = [pc EXCEPT ![r] = to] /\ tries' = [tries EXCEPT ![r] = 0]
    <3>1. to \in Places /\ Moves(pc[r], to) /\ to \notin {"fold", "lost"} /\ 0 \in 0 .. MaxSends - 1 /\ 0 \in Nat
      BY <2>1, Limits DEF Moves, Ended
    <3> HIDE DEF to
    <3> QED BY <2>1, <2>3, <3>1, OneMoves, Zenon
  <2> QED BY <2>1, <2>2, <2>3
<1> QED BY <1>3, <1>4, <1>5, <1>6, <1>7

LEMMA NetworkKeeps == ASSUME BridgeInv, NetworkChanges PROVE BridgeInv'
PROOF
<1>1. /\ pc \in [Request -> Ended \union {"new", "count", "send", "stream", "fold", "lost"}]
      /\ tries \in [Request -> Nat]
  BY DEF BridgeInv, BridgeTypeOK, MoreTypes
<1>2. /\ tries' = tries /\ UNCHANGED <<tables, users, ask, sent, rounds, summary, counts>>
      /\ pc' = [r \in Request |-> IF pc[r] \in {"send", "stream"} /\ ToAnthropic(r) THEN "failed" ELSE pc[r]]
  BY DEF NetworkChanges
<1>3. pc' \in [Request -> Ended \union {"new", "count", "send", "stream", "fold", "lost"}]
  BY <1>1, <1>2 DEF Ended
<1>4. ASSUME NEW q \in Request
      PROVE  /\ pc'[q] = pc[q] \/ Moves(pc[q], pc'[q])
             /\ tries'[q] \in 0 .. (IF pc'[q] \in {"fold", "lost"} THEN MaxTries ELSE MaxSends) - 1
  <2>1. tries[q] \in 0 .. (IF pc[q] \in {"fold", "lost"} THEN MaxTries ELSE MaxSends) - 1
    BY DEF BridgeInv, BridgeTypeOK
  <2>2. pc'[q] = pc[q] \/ (pc[q] \in {"send", "stream"} /\ pc'[q] = "failed")
    BY <1>2
  <2> QED BY <1>2, <2>1, <2>2 DEF Moves
<1> QED BY <1>1, <1>2, <1>3, <1>4, MovesKeep

-----------------------------------------------------------------------------
(* Together. *)

LEMMA BridgeInvAlways == BridgeSpec => []BridgeInv
PROOF
<1>1. BridgeInv /\ [BridgeNext]_bridgeVars => BridgeInv'
  <2> SUFFICES ASSUME BridgeInv, [BridgeNext]_bridgeVars PROVE BridgeInv'
    OBVIOUS
  <2>1. CASE UNCHANGED bridgeVars
    <3>1. /\ UNCHANGED <<tables, users, ask, sent, rounds, summary, counts>> /\ pc' = pc /\ tries' = tries
      BY <2>1 DEF bridgeVars, work
    <3>2. \A q \in Request : tries[q] \in 0 .. (IF pc[q] \in {"fold", "lost"} THEN MaxTries ELSE MaxSends) - 1
      BY DEF BridgeInv, BridgeTypeOK
    <3>3. /\ pc \in [Request -> Ended \union {"new", "count", "send", "stream", "fold", "lost"}]
          /\ tries \in [Request -> Nat]
      BY DEF BridgeInv, BridgeTypeOK, MoreTypes
    <3> QED BY <3>1, <3>2, <3>3, MovesKeep
  <2>2. CASE \E c \in Conversation : Toggle(c) \/ \E m \in Model : Pick(c, m)
    BY <2>2, ToggleKeeps, PickKeeps
  <2>3. CASE \E r \in Request, c \in Conversation, kind \in {"prompt", "aux", "review", "compact"},
                fold \in Folds \union {Nil} : Arrive(r, c, kind, fold)
    BY <2>3, ArriveKeeps
  <2>4. CASE \E s \in BridgeSession : Hook(s) \/ Lapse(s)
    BY <2>4, HookKeeps
  <2>5. CASE \E r \in Request : \/ Enter(r) \/ CountFails(r) \/ NoFold(r) \/ Commit(r)
                                \/ RoundDone(r) \/ RoundFails(r)
                                \/ Answered(r) \/ SendFails(r) \/ StreamEnds(r) \/ CallerLeaves(r)
    BY <2>5, EnterKeeps, UnfoldedKeeps, CommitKeeps, RoundDoneKeeps, ForwardedKeeps
  <2>6. CASE NetworkChanges
    BY <2>6, NetworkKeeps
  <2> QED BY <2>1, <2>2, <2>3, <2>4, <2>5, <2>6 DEF BridgeNext
<1> QED BY <1>1, InitEstablishes, PTL DEF BridgeSpec

\* The bridge's tables are in order, a full one too, and what a fold gives the
\* client as a summary stands for every message once and in order, whatever the
\* plan and whichever rounds were tried again.
THEOREM FoldsAreWhole == BridgeSpec => []BridgeInOrder
PROOF
<1>1. BridgeInv => BridgeInOrder
  BY Zenon DEF BridgeInv, BridgeInOrder, FoldIsWhole, Folded, UpTo
<1> QED BY <1>1, BridgeInvAlways, PTL

\* One PreCompact hook arms one fold, while compactions of a session are not
\* counted at the same time.
THEOREM OneFoldPerHook == BridgeSpec => []ArmsOneFold
PROOF
<1>1. BridgeInv => ArmsOneFold
  BY DEF BridgeInv, ArmsOneFold, Armings
<1> QED BY <1>1, BridgeInvAlways, PTL

\* The fast mode does not change where a conversation's prompts and compactions go.
THEOREM FastModeKeepsRoute == BridgeSpec => []FastKeepsRoute
PROOF
<1>1. BridgeInv => FastKeepsRoute
  BY DEF BridgeInv, FastKeepsRoute, Keeps
<1> QED BY <1>1, BridgeInvAlways, PTL

-----------------------------------------------------------------------------
(* The shared proxy lifecycle. *)


USE DEF files, serverVars, clientVars, budget, LGo, SGo

-----------------------------------------------------------------------------
(* Type correctness.                                                        *)

\* What an iteration does to the shared state, whichever way it leaves the loop.
LEMMA TendEffect ==
    ASSUME TypeOK, NEW s \in Supervisors, Tend(s)
    PROVE  /\ spc[s] = "tend"
           /\ \/ /\ spc' = [spc EXCEPT ![s] = "stop"]
                 /\ translator[s] = "exited" \/ OpenLeases(s) = {}
              \/ spc' = [spc EXCEPT ![s] = "top"]
           /\ leases' = [leases EXCEPT ![s] = OpenLeases(s)]
           /\ elapsed' \in [Supervisors -> BOOLEAN]
           /\ auth' \in BOOLEAN /\ (auth => auth')
           /\ UNCHANGED <<lock, socket, snapshot, listening, shutdown, translator,
                          hadLease, lpc, conn, granted, late, cooling, faults, crashes>>
<1>1. elapsed' \in [Supervisors -> BOOLEAN]
  BY DEF Tend, TypeOK, JustEmptied
<1>2. auth' \in BOOLEAN /\ (auth => auth')
  BY DEF Tend, TypeOK
<1>3. QED
  BY <1>1, <1>2 DEF Tend, IdleExit

\* A step of any process keeps every variable in its type.
LEMMA TypeStep ==
    TypeOK /\ [Next]_vars => TypeOK'
<1> SUFFICES ASSUME TypeOK, [Next]_vars PROVE TypeOK'
  OBVIOUS
<1> USE SupervisorAssumption DEF TypeOK, Booting, Starting, Serving, Draining, Owning, ServerPC, Acquiring, LauncherPC
<1>1. ASSUME NEW l \in Launchers, Begin(l) PROVE TypeOK'
  BY <1>1 DEF Begin
<1>2. ASSUME NEW l \in Launchers, Connect(l) PROVE TypeOK'
  BY <1>2 DEF Connect, Connectable
<1>3. ASSUME NEW l \in Launchers, ConnectFails(l) PROVE TypeOK'
  BY <1>3 DEF ConnectFails, AfterFailure
<1>4. ASSUME NEW l \in Launchers, ReadReady(l) PROVE TypeOK'
  BY <1>4 DEF ReadReady
<1>5. ASSUME NEW l \in Launchers, NoReady(l) PROVE TypeOK'
  BY <1>5 DEF NoReady, AfterFailure
<1>6. ASSUME NEW l \in Launchers, Snapshot(l) PROVE TypeOK'
  BY <1>6 DEF Snapshot
<1>7. ASSUME NEW l \in Launchers, SpawnFails(l) PROVE TypeOK'
  BY <1>7 DEF SpawnFails, AfterSpawn
<1>8. ASSUME NEW l \in Launchers, Sync(l) PROVE TypeOK'
  BY <1>8 DEF Sync
<1>9. ASSUME NEW l \in Launchers, Close(l) PROVE TypeOK'
  BY <1>9 DEF Close, Leave
<1>10. ASSUME NEW l \in Launchers, Kill(l) PROVE TypeOK'
  BY <1>10 DEF Kill, Leave
<1>11. ASSUME NEW l \in Launchers, Late(l) PROVE TypeOK'
  BY <1>11 DEF Late
<1>12. ASSUME NEW l \in Launchers, Cool(l) PROVE TypeOK'
  BY <1>12 DEF Cool
<1>13. ASSUME NEW l \in Launchers, NEW s \in Supervisors, Spawn(l, s) PROVE TypeOK'
  BY <1>13 DEF Spawn, AfterSpawn
<1>14. ASSUME NEW l \in Launchers, NEW s \in Supervisors, Accept(s, l) PROVE TypeOK'
  BY <1>14 DEF Accept, Pending
<1>15. ASSUME NEW l \in Launchers, NEW s \in Supervisors, Reject(s, l) PROVE TypeOK'
  BY <1>15 DEF Reject, Pending, Fault
<1>16. ASSUME NEW s \in Supervisors, OpenSelf(s) PROVE TypeOK'
  BY <1>16 DEF OpenSelf
<1>17. ASSUME NEW s \in Supervisors, Prepare(s) PROVE TypeOK'
  BY <1>17 DEF Prepare
<1>18. ASSUME NEW s \in Supervisors, TryLock(s) PROVE TypeOK'
  BY <1>18 DEF TryLock
<1>19. ASSUME NEW s \in Supervisors, Bind(s) PROVE TypeOK'
  BY <1>19 DEF Bind
<1>20. ASSUME NEW s \in Supervisors, WriteAuth(s) PROVE TypeOK'
  BY <1>20 DEF WriteAuth
<1>21. ASSUME NEW s \in Supervisors, StartTranslator(s) PROVE TypeOK'
  BY <1>21 DEF StartTranslator
<1>22. ASSUME NEW s \in Supervisors, Healthy(s) PROVE TypeOK'
  BY <1>22 DEF Healthy
<1>23. ASSUME NEW s \in Supervisors, StartupStops(s) PROVE TypeOK'
  BY <1>23 DEF StartupStops, Abort, HangUp
<1>24. ASSUME NEW s \in Supervisors, StepFails(s) PROVE TypeOK'
  BY <1>24 DEF StepFails, Abort, HangUp, Fault
<1>25. ASSUME NEW s \in Supervisors, Top(s) PROVE TypeOK'
  BY <1>25 DEF Top
<1>26. ASSUME NEW s \in Supervisors, WouldBlock(s) PROVE TypeOK'
  BY <1>26 DEF WouldBlock
<1>27. ASSUME NEW s \in Supervisors, Tend(s) PROVE TypeOK'
  BY SMTT(40), <1>27, TendEffect DEF OpenLeases
<1>28. ASSUME NEW s \in Supervisors, TimerRunsOut(s) PROVE TypeOK'
  BY <1>28 DEF TimerRunsOut
<1>29. ASSUME NEW s \in Supervisors, StopTranslator(s) PROVE TypeOK'
  BY <1>29 DEF StopTranslator
<1>30. ASSUME NEW s \in Supervisors, RemoveSocket(s) PROVE TypeOK'
  BY <1>30 DEF RemoveSocket
<1>31. ASSUME NEW s \in Supervisors, RemoveAuth(s) PROVE TypeOK'
  BY <1>31 DEF RemoveAuth
<1>32. ASSUME NEW s \in Supervisors, RemoveSnapshot(s) PROVE TypeOK'
  BY <1>32 DEF RemoveSnapshot
<1>33. ASSUME NEW s \in Supervisors, Unlock(s) PROVE TypeOK'
  BY <1>33 DEF Unlock
<1>34. ASSUME NEW s \in Supervisors, Exit(s) PROVE TypeOK'
  BY <1>34 DEF Exit, Gone, HangUp
<1>35. ASSUME NEW s \in Supervisors, Terminate(s) PROVE TypeOK'
  BY <1>35 DEF Terminate, Fault
<1>36. ASSUME NEW s \in Supervisors, TranslatorDies(s) PROVE TypeOK'
  BY <1>36 DEF TranslatorDies, Fault
<1>37. ASSUME NEW s \in Supervisors, Crash(s) PROVE TypeOK'
  BY <1>37 DEF Crash, Gone, HangUp
<1>38. CASE UNCHANGED vars
  BY <1>38 DEF vars
<1>39. QED
  BY <1>1, <1>2, <1>3, <1>4, <1>5, <1>6, <1>7, <1>8, <1>9, <1>10,
     <1>11, <1>12, <1>13, <1>14, <1>15, <1>16, <1>17, <1>18, <1>19, <1>20,
     <1>21, <1>22, <1>23, <1>24, <1>25, <1>26, <1>27, <1>28, <1>29, <1>30,
     <1>31, <1>32, <1>33, <1>34, <1>35, <1>36, <1>37, <1>38
     DEF Next, LauncherStep, Session, ServerStep, FaultStep

\* Every reachable state of the lifecycle of src/supervisor.rs is well typed.
THEOREM Typing == Spec => []TypeOK
<1>1. Init => TypeOK
  <2>1. "absent" \in ServerPC /\ "idle" \in LauncherPC
    BY DEF ServerPC, LauncherPC
  <2>2. SUFFICES ASSUME Init PROVE TypeOK
    OBVIOUS
  <2>3. /\ spc \in [Supervisors -> ServerPC]
        /\ lpc \in [Launchers -> LauncherPC]
        /\ conn \in [Launchers -> Supervisors \union {None}]
    BY <2>1, <2>2 DEF Init
  <2>4. /\ translator \in [Supervisors -> {"none", "running", "exited"}]
        /\ leases \in [Supervisors -> SUBSET Launchers]
    BY <2>2 DEF Init
  <2>5. QED
    BY <2>2, <2>3, <2>4 DEF Init, TypeOK
<1>2. QED
  BY <1>1, TypeStep, PTL DEF Spec

-----------------------------------------------------------------------------
(* Mutual exclusion of supervisors.                                         *)

\* Only the holder moves inside Owning, and only None lets another one in.
LEMMA LockStep ==
    TypeOK /\ LockOwnsRuntime /\ [Next]_vars => LockOwnsRuntime'
<1> SUFFICES ASSUME TypeOK, LockOwnsRuntime, [Next]_vars PROVE LockOwnsRuntime'
  OBVIOUS
<1> USE SupervisorAssumption DEF TypeOK, Booting, Starting, Serving, Draining, Owning, ServerPC, Acquiring, LauncherPC
<1>1. ASSUME NEW l \in Launchers, Begin(l) PROVE LockOwnsRuntime'
  BY <1>1 DEF Begin, LockOwnsRuntime
<1>2. ASSUME NEW l \in Launchers, Connect(l) PROVE LockOwnsRuntime'
  BY <1>2 DEF Connect, Connectable, LockOwnsRuntime
<1>3. ASSUME NEW l \in Launchers, ConnectFails(l) PROVE LockOwnsRuntime'
  BY <1>3 DEF ConnectFails, AfterFailure, LockOwnsRuntime
<1>4. ASSUME NEW l \in Launchers, ReadReady(l) PROVE LockOwnsRuntime'
  BY <1>4 DEF ReadReady, LockOwnsRuntime
<1>5. ASSUME NEW l \in Launchers, NoReady(l) PROVE LockOwnsRuntime'
  BY <1>5 DEF NoReady, AfterFailure, LockOwnsRuntime
<1>6. ASSUME NEW l \in Launchers, Snapshot(l) PROVE LockOwnsRuntime'
  BY <1>6 DEF Snapshot, LockOwnsRuntime
<1>7. ASSUME NEW l \in Launchers, SpawnFails(l) PROVE LockOwnsRuntime'
  BY <1>7 DEF SpawnFails, AfterSpawn, LockOwnsRuntime
<1>8. ASSUME NEW l \in Launchers, Sync(l) PROVE LockOwnsRuntime'
  BY <1>8 DEF Sync, LockOwnsRuntime
<1>9. ASSUME NEW l \in Launchers, Close(l) PROVE LockOwnsRuntime'
  BY <1>9 DEF Close, Leave, LockOwnsRuntime
<1>10. ASSUME NEW l \in Launchers, Kill(l) PROVE LockOwnsRuntime'
  BY <1>10 DEF Kill, Leave, LockOwnsRuntime
<1>11. ASSUME NEW l \in Launchers, Late(l) PROVE LockOwnsRuntime'
  BY <1>11 DEF Late, LockOwnsRuntime
<1>12. ASSUME NEW l \in Launchers, Cool(l) PROVE LockOwnsRuntime'
  BY <1>12 DEF Cool, LockOwnsRuntime
<1>13. ASSUME NEW l \in Launchers, NEW s \in Supervisors, Spawn(l, s) PROVE LockOwnsRuntime'
  BY <1>13 DEF Spawn, AfterSpawn, LockOwnsRuntime
<1>14. ASSUME NEW l \in Launchers, NEW s \in Supervisors, Accept(s, l) PROVE LockOwnsRuntime'
  BY <1>14 DEF Accept, Pending, LockOwnsRuntime
<1>15. ASSUME NEW l \in Launchers, NEW s \in Supervisors, Reject(s, l) PROVE LockOwnsRuntime'
  BY <1>15 DEF Reject, Pending, Fault, LockOwnsRuntime
<1>16. ASSUME NEW s \in Supervisors, OpenSelf(s) PROVE LockOwnsRuntime'
  BY <1>16 DEF OpenSelf, LockOwnsRuntime
<1>17. ASSUME NEW s \in Supervisors, Prepare(s) PROVE LockOwnsRuntime'
  BY <1>17 DEF Prepare, LockOwnsRuntime
<1>18. ASSUME NEW s \in Supervisors, TryLock(s) PROVE LockOwnsRuntime'
  BY <1>18 DEF TryLock, LockOwnsRuntime
<1>19. ASSUME NEW s \in Supervisors, Bind(s) PROVE LockOwnsRuntime'
  BY <1>19 DEF Bind, LockOwnsRuntime
<1>20. ASSUME NEW s \in Supervisors, WriteAuth(s) PROVE LockOwnsRuntime'
  BY <1>20 DEF WriteAuth, LockOwnsRuntime
<1>21. ASSUME NEW s \in Supervisors, StartTranslator(s) PROVE LockOwnsRuntime'
  BY <1>21 DEF StartTranslator, LockOwnsRuntime
<1>22. ASSUME NEW s \in Supervisors, Healthy(s) PROVE LockOwnsRuntime'
  BY <1>22 DEF Healthy, LockOwnsRuntime
<1>23. ASSUME NEW s \in Supervisors, StartupStops(s) PROVE LockOwnsRuntime'
  BY <1>23 DEF StartupStops, Abort, HangUp, LockOwnsRuntime
<1>24. ASSUME NEW s \in Supervisors, StepFails(s) PROVE LockOwnsRuntime'
  BY <1>24 DEF StepFails, Abort, HangUp, Fault, LockOwnsRuntime
<1>25. ASSUME NEW s \in Supervisors, Top(s) PROVE LockOwnsRuntime'
  BY <1>25 DEF Top, LockOwnsRuntime
<1>26. ASSUME NEW s \in Supervisors, WouldBlock(s) PROVE LockOwnsRuntime'
  BY <1>26 DEF WouldBlock, LockOwnsRuntime
<1>27. ASSUME NEW s \in Supervisors, Tend(s) PROVE LockOwnsRuntime'
  BY <1>27, TendEffect DEF OpenLeases, LockOwnsRuntime
<1>28. ASSUME NEW s \in Supervisors, TimerRunsOut(s) PROVE LockOwnsRuntime'
  BY <1>28 DEF TimerRunsOut, LockOwnsRuntime
<1>29. ASSUME NEW s \in Supervisors, StopTranslator(s) PROVE LockOwnsRuntime'
  BY <1>29 DEF StopTranslator, LockOwnsRuntime
<1>30. ASSUME NEW s \in Supervisors, RemoveSocket(s) PROVE LockOwnsRuntime'
  BY <1>30 DEF RemoveSocket, LockOwnsRuntime
<1>31. ASSUME NEW s \in Supervisors, RemoveAuth(s) PROVE LockOwnsRuntime'
  BY <1>31 DEF RemoveAuth, LockOwnsRuntime
<1>32. ASSUME NEW s \in Supervisors, RemoveSnapshot(s) PROVE LockOwnsRuntime'
  BY <1>32 DEF RemoveSnapshot, LockOwnsRuntime
<1>33. ASSUME NEW s \in Supervisors, Unlock(s) PROVE LockOwnsRuntime'
  BY <1>33 DEF Unlock, LockOwnsRuntime
<1>34. ASSUME NEW s \in Supervisors, Exit(s) PROVE LockOwnsRuntime'
  BY <1>34 DEF Exit, Gone, HangUp, LockOwnsRuntime
<1>35. ASSUME NEW s \in Supervisors, Terminate(s) PROVE LockOwnsRuntime'
  BY <1>35 DEF Terminate, Fault, LockOwnsRuntime
<1>36. ASSUME NEW s \in Supervisors, TranslatorDies(s) PROVE LockOwnsRuntime'
  BY <1>36 DEF TranslatorDies, Fault, LockOwnsRuntime
<1>37. ASSUME NEW s \in Supervisors, Crash(s) PROVE LockOwnsRuntime'
  BY <1>37 DEF Crash, Gone, HangUp, LockOwnsRuntime
<1>38. CASE UNCHANGED vars
  BY <1>38 DEF vars, LockOwnsRuntime
<1>39. QED
  BY <1>1, <1>2, <1>3, <1>4, <1>5, <1>6, <1>7, <1>8, <1>9, <1>10,
     <1>11, <1>12, <1>13, <1>14, <1>15, <1>16, <1>17, <1>18, <1>19, <1>20,
     <1>21, <1>22, <1>23, <1>24, <1>25, <1>26, <1>27, <1>28, <1>29, <1>30,
     <1>31, <1>32, <1>33, <1>34, <1>35, <1>36, <1>37, <1>38
     DEF Next, LauncherStep, Session, ServerStep, FaultStep

\* Between lock and unlock a supervisor is the only one: nobody else starts a
\* translator, serves leases or removes files.
THEOREM MutualExclusion == Spec => []LockOwnsRuntime
<1>1. Init => LockOwnsRuntime
  BY SupervisorAssumption DEF Init, LockOwnsRuntime, Owning, Starting, Serving, Draining
<1>2. QED
  BY <1>1, LockStep, Typing, PTL DEF Spec

\* For any number of launchers and supervisors, the state is well formed and the
\* lock's holder is the one process that is past it: TypeOK and LockOwnsRuntime.
THEOREM RuntimeIsInOrder == Spec => []RuntimeInOrder
<1>1. TypeOK /\ LockOwnsRuntime => RuntimeInOrder
  BY DEF RuntimeInOrder
<1> QED BY <1>1, Typing, MutualExclusion, PTL

-----------------------------------------------------------------------------
(* What a serving supervisor owns.  run() establishes the three parts one     *)
(* after the other, and only the holder of the lock can take them away.       *)

Published == {"auth", "start", "wait"} \union Serving

Owned ==
    \A s \in Supervisors :
        /\ spc[s] \in Published => socket = s /\ listening[s]
        /\ spc[s] \in Published \ {"auth"} => auth
        /\ spc[s] \in Published \ {"auth", "start"} => translator[s] # "none"

\* Whoever removes one of the parts holds the lock, hence is not another supervisor.
LEMMA OwnedStep ==
    TypeOK /\ LockOwnsRuntime /\ Owned /\ [Next]_vars => Owned'
<1> SUFFICES ASSUME TypeOK, LockOwnsRuntime, Owned, [Next]_vars PROVE Owned'
  OBVIOUS
<1> USE SupervisorAssumption DEF TypeOK, Booting, Starting, Serving, Draining, Owning, ServerPC, Acquiring, LauncherPC
<1>1. ASSUME NEW l \in Launchers, Begin(l) PROVE Owned'
  BY <1>1 DEF Begin, LockOwnsRuntime, Owned, Published
<1>2. ASSUME NEW l \in Launchers, Connect(l) PROVE Owned'
  BY <1>2 DEF Connect, Connectable, LockOwnsRuntime, Owned, Published
<1>3. ASSUME NEW l \in Launchers, ConnectFails(l) PROVE Owned'
  BY <1>3 DEF ConnectFails, AfterFailure, LockOwnsRuntime, Owned, Published
<1>4. ASSUME NEW l \in Launchers, ReadReady(l) PROVE Owned'
  BY <1>4 DEF ReadReady, LockOwnsRuntime, Owned, Published
<1>5. ASSUME NEW l \in Launchers, NoReady(l) PROVE Owned'
  BY <1>5 DEF NoReady, AfterFailure, LockOwnsRuntime, Owned, Published
<1>6. ASSUME NEW l \in Launchers, Snapshot(l) PROVE Owned'
  BY <1>6 DEF Snapshot, LockOwnsRuntime, Owned, Published
<1>7. ASSUME NEW l \in Launchers, SpawnFails(l) PROVE Owned'
  BY <1>7 DEF SpawnFails, AfterSpawn, LockOwnsRuntime, Owned, Published
<1>8. ASSUME NEW l \in Launchers, Sync(l) PROVE Owned'
  BY <1>8 DEF Sync, LockOwnsRuntime, Owned, Published
<1>9. ASSUME NEW l \in Launchers, Close(l) PROVE Owned'
  BY <1>9 DEF Close, Leave, LockOwnsRuntime, Owned, Published
<1>10. ASSUME NEW l \in Launchers, Kill(l) PROVE Owned'
  BY <1>10 DEF Kill, Leave, LockOwnsRuntime, Owned, Published
<1>11. ASSUME NEW l \in Launchers, Late(l) PROVE Owned'
  BY <1>11 DEF Late, LockOwnsRuntime, Owned, Published
<1>12. ASSUME NEW l \in Launchers, Cool(l) PROVE Owned'
  BY <1>12 DEF Cool, LockOwnsRuntime, Owned, Published
<1>13. ASSUME NEW l \in Launchers, NEW s \in Supervisors, Spawn(l, s) PROVE Owned'
  BY <1>13 DEF Spawn, AfterSpawn, LockOwnsRuntime, Owned, Published
<1>14. ASSUME NEW l \in Launchers, NEW s \in Supervisors, Accept(s, l) PROVE Owned'
  BY <1>14 DEF Accept, Pending, LockOwnsRuntime, Owned, Published
<1>15. ASSUME NEW l \in Launchers, NEW s \in Supervisors, Reject(s, l) PROVE Owned'
  BY <1>15 DEF Reject, Pending, Fault, LockOwnsRuntime, Owned, Published
<1>16. ASSUME NEW s \in Supervisors, OpenSelf(s) PROVE Owned'
  BY <1>16 DEF OpenSelf, LockOwnsRuntime, Owned, Published
<1>17. ASSUME NEW s \in Supervisors, Prepare(s) PROVE Owned'
  BY <1>17 DEF Prepare, LockOwnsRuntime, Owned, Published
<1>18. ASSUME NEW s \in Supervisors, TryLock(s) PROVE Owned'
  BY <1>18 DEF TryLock, LockOwnsRuntime, Owned, Published
<1>19. ASSUME NEW s \in Supervisors, Bind(s) PROVE Owned'
  BY <1>19 DEF Bind, LockOwnsRuntime, Owned, Published
<1>20. ASSUME NEW s \in Supervisors, WriteAuth(s) PROVE Owned'
  BY <1>20 DEF WriteAuth, LockOwnsRuntime, Owned, Published
<1>21. ASSUME NEW s \in Supervisors, StartTranslator(s) PROVE Owned'
  BY <1>21 DEF StartTranslator, LockOwnsRuntime, Owned, Published
<1>22. ASSUME NEW s \in Supervisors, Healthy(s) PROVE Owned'
  BY <1>22 DEF Healthy, LockOwnsRuntime, Owned, Published
<1>23. ASSUME NEW s \in Supervisors, StartupStops(s) PROVE Owned'
  BY <1>23 DEF StartupStops, Abort, HangUp, LockOwnsRuntime, Owned, Published
<1>24. ASSUME NEW s \in Supervisors, StepFails(s) PROVE Owned'
  BY <1>24 DEF StepFails, Abort, HangUp, Fault, LockOwnsRuntime, Owned, Published
<1>25. ASSUME NEW s \in Supervisors, Top(s) PROVE Owned'
  BY <1>25 DEF Top, LockOwnsRuntime, Owned, Published
<1>26. ASSUME NEW s \in Supervisors, WouldBlock(s) PROVE Owned'
  BY <1>26 DEF WouldBlock, LockOwnsRuntime, Owned, Published
<1>27. ASSUME NEW s \in Supervisors, Tend(s) PROVE Owned'
  BY <1>27, TendEffect DEF OpenLeases, LockOwnsRuntime, Owned, Published
<1>28. ASSUME NEW s \in Supervisors, TimerRunsOut(s) PROVE Owned'
  BY <1>28 DEF TimerRunsOut, LockOwnsRuntime, Owned, Published
<1>29. ASSUME NEW s \in Supervisors, StopTranslator(s) PROVE Owned'
  BY <1>29 DEF StopTranslator, LockOwnsRuntime, Owned, Published
<1>30. ASSUME NEW s \in Supervisors, RemoveSocket(s) PROVE Owned'
  BY <1>30 DEF RemoveSocket, LockOwnsRuntime, Owned, Published
<1>31. ASSUME NEW s \in Supervisors, RemoveAuth(s) PROVE Owned'
  BY <1>31 DEF RemoveAuth, LockOwnsRuntime, Owned, Published
<1>32. ASSUME NEW s \in Supervisors, RemoveSnapshot(s) PROVE Owned'
  BY <1>32 DEF RemoveSnapshot, LockOwnsRuntime, Owned, Published
<1>33. ASSUME NEW s \in Supervisors, Unlock(s) PROVE Owned'
  BY <1>33 DEF Unlock, LockOwnsRuntime, Owned, Published
<1>34. ASSUME NEW s \in Supervisors, Exit(s) PROVE Owned'
  BY <1>34 DEF Exit, Gone, HangUp, LockOwnsRuntime, Owned, Published
<1>35. ASSUME NEW s \in Supervisors, Terminate(s) PROVE Owned'
  BY <1>35 DEF Terminate, Fault, LockOwnsRuntime, Owned, Published
<1>36. ASSUME NEW s \in Supervisors, TranslatorDies(s) PROVE Owned'
  BY <1>36 DEF TranslatorDies, Fault, LockOwnsRuntime, Owned, Published
<1>37. ASSUME NEW s \in Supervisors, Crash(s) PROVE Owned'
  BY <1>37 DEF Crash, Gone, HangUp, LockOwnsRuntime, Owned, Published
<1>38. CASE UNCHANGED vars
  BY <1>38 DEF vars, LockOwnsRuntime, Owned, Published
<1>39. QED
  BY <1>1, <1>2, <1>3, <1>4, <1>5, <1>6, <1>7, <1>8, <1>9, <1>10,
     <1>11, <1>12, <1>13, <1>14, <1>15, <1>16, <1>17, <1>18, <1>19, <1>20,
     <1>21, <1>22, <1>23, <1>24, <1>25, <1>26, <1>27, <1>28, <1>29, <1>30,
     <1>31, <1>32, <1>33, <1>34, <1>35, <1>36, <1>37, <1>38
     DEF Next, LauncherStep, Session, ServerStep, FaultStep

\* A serving supervisor is reachable, has its token file and its translator.
THEOREM Whole == Spec => []ServingIsWhole
<1>1. Init => Owned
  BY DEF Init, Owned, Published, Serving
<1>2. Owned => ServingIsWhole
  BY DEF Owned, ServingIsWhole, Published, Serving
<1>3. QED
  BY <1>1, <1>2, OwnedStep, Typing, MutualExclusion, PTL DEF Spec

-----------------------------------------------------------------------------
(* Leases.  Fresh: a process that has not bound its listener has no peers,   *)
(* and one that is not serving yet has granted nothing.                       *)

Fresh == {"absent", "bind"} \union Booting

Granting ==
    /\ \A l \in Launchers :
        /\ granted[l] => lpc[l] \in {"await", "sync", "leased"}
        /\ lpc[l] \in {"sync", "leased"} => granted[l]
        /\ lpc[l] \in {"idle", "connect", "snapshot", "exec"} => conn[l] = None
    /\ \A s \in Supervisors : spc[s] \in Fresh => ~listening[s]
    /\ \A s \in Supervisors, l \in Launchers : conn[l] = s =>
        /\ spc[s] \notin Fresh
        /\ spc[s] \in {"auth", "start", "wait"} => ~granted[l]
        /\ spc[s] \in Serving /\ granted[l] => l \in leases[s]

\* READY is written only to a stream that is then in the lease list.
LEMMA GrantingStep ==
    TypeOK /\ Granting /\ [Next]_vars => Granting'
<1> SUFFICES ASSUME TypeOK, Granting, [Next]_vars PROVE Granting'
  OBVIOUS
<1> USE SupervisorAssumption DEF TypeOK, Booting, Starting, Serving, Draining, Owning, ServerPC, Acquiring, LauncherPC
<1>1. ASSUME NEW l \in Launchers, Begin(l) PROVE Granting'
  BY <1>1 DEF Begin, Granting, Fresh
<1>2. ASSUME NEW l \in Launchers, Connect(l) PROVE Granting'
  BY <1>2 DEF Connect, Connectable, Granting, Fresh
<1>3. ASSUME NEW l \in Launchers, ConnectFails(l) PROVE Granting'
  BY <1>3 DEF ConnectFails, AfterFailure, Granting, Fresh
<1>4. ASSUME NEW l \in Launchers, ReadReady(l) PROVE Granting'
  BY <1>4 DEF ReadReady, Granting, Fresh
<1>5. ASSUME NEW l \in Launchers, NoReady(l) PROVE Granting'
  BY <1>5 DEF NoReady, AfterFailure, Granting, Fresh
<1>6. ASSUME NEW l \in Launchers, Snapshot(l) PROVE Granting'
  BY <1>6 DEF Snapshot, Granting, Fresh
<1>7. ASSUME NEW l \in Launchers, SpawnFails(l) PROVE Granting'
  BY <1>7 DEF SpawnFails, AfterSpawn, Granting, Fresh
<1>8. ASSUME NEW l \in Launchers, Sync(l) PROVE Granting'
  BY <1>8 DEF Sync, Granting, Fresh
<1>9. ASSUME NEW l \in Launchers, Close(l) PROVE Granting'
  BY <1>9 DEF Close, Leave, Granting, Fresh
<1>10. ASSUME NEW l \in Launchers, Kill(l) PROVE Granting'
  BY <1>10 DEF Kill, Leave, Granting, Fresh
<1>11. ASSUME NEW l \in Launchers, Late(l) PROVE Granting'
  BY <1>11 DEF Late, Granting, Fresh
<1>12. ASSUME NEW l \in Launchers, Cool(l) PROVE Granting'
  BY <1>12 DEF Cool, Granting, Fresh
<1>13. ASSUME NEW l \in Launchers, NEW s \in Supervisors, Spawn(l, s) PROVE Granting'
  BY <1>13 DEF Spawn, AfterSpawn, Granting, Fresh
<1>14. ASSUME NEW l \in Launchers, NEW s \in Supervisors, Accept(s, l) PROVE Granting'
  BY <1>14 DEF Accept, Pending, Granting, Fresh
<1>15. ASSUME NEW l \in Launchers, NEW s \in Supervisors, Reject(s, l) PROVE Granting'
  BY <1>15 DEF Reject, Pending, Fault, Granting, Fresh
<1>16. ASSUME NEW s \in Supervisors, OpenSelf(s) PROVE Granting'
  BY <1>16 DEF OpenSelf, Granting, Fresh
<1>17. ASSUME NEW s \in Supervisors, Prepare(s) PROVE Granting'
  BY <1>17 DEF Prepare, Granting, Fresh
<1>18. ASSUME NEW s \in Supervisors, TryLock(s) PROVE Granting'
  BY <1>18 DEF TryLock, Granting, Fresh
<1>19. ASSUME NEW s \in Supervisors, Bind(s) PROVE Granting'
  BY <1>19 DEF Bind, Granting, Fresh
<1>20. ASSUME NEW s \in Supervisors, WriteAuth(s) PROVE Granting'
  BY <1>20 DEF WriteAuth, Granting, Fresh
<1>21. ASSUME NEW s \in Supervisors, StartTranslator(s) PROVE Granting'
  BY <1>21 DEF StartTranslator, Granting, Fresh
<1>22. ASSUME NEW s \in Supervisors, Healthy(s) PROVE Granting'
  BY <1>22 DEF Healthy, Granting, Fresh
<1>23. ASSUME NEW s \in Supervisors, StartupStops(s) PROVE Granting'
  BY <1>23 DEF StartupStops, Abort, HangUp, Granting, Fresh
<1>24. ASSUME NEW s \in Supervisors, StepFails(s) PROVE Granting'
  BY <1>24 DEF StepFails, Abort, HangUp, Fault, Granting, Fresh
<1>25. ASSUME NEW s \in Supervisors, Top(s) PROVE Granting'
  BY <1>25 DEF Top, Granting, Fresh
<1>26. ASSUME NEW s \in Supervisors, WouldBlock(s) PROVE Granting'
  BY <1>26 DEF WouldBlock, Granting, Fresh
<1>27. ASSUME NEW s \in Supervisors, Tend(s) PROVE Granting'
  BY <1>27, TendEffect DEF OpenLeases, Granting, Fresh
<1>28. ASSUME NEW s \in Supervisors, TimerRunsOut(s) PROVE Granting'
  BY <1>28 DEF TimerRunsOut, Granting, Fresh
<1>29. ASSUME NEW s \in Supervisors, StopTranslator(s) PROVE Granting'
  BY <1>29 DEF StopTranslator, Granting, Fresh
<1>30. ASSUME NEW s \in Supervisors, RemoveSocket(s) PROVE Granting'
  BY <1>30 DEF RemoveSocket, Granting, Fresh
<1>31. ASSUME NEW s \in Supervisors, RemoveAuth(s) PROVE Granting'
  BY <1>31 DEF RemoveAuth, Granting, Fresh
<1>32. ASSUME NEW s \in Supervisors, RemoveSnapshot(s) PROVE Granting'
  BY <1>32 DEF RemoveSnapshot, Granting, Fresh
<1>33. ASSUME NEW s \in Supervisors, Unlock(s) PROVE Granting'
  BY <1>33 DEF Unlock, Granting, Fresh
<1>34. ASSUME NEW s \in Supervisors, Exit(s) PROVE Granting'
  BY <1>34 DEF Exit, Gone, HangUp, Granting, Fresh
<1>35. ASSUME NEW s \in Supervisors, Terminate(s) PROVE Granting'
  BY <1>35 DEF Terminate, Fault, Granting, Fresh
<1>36. ASSUME NEW s \in Supervisors, TranslatorDies(s) PROVE Granting'
  BY <1>36 DEF TranslatorDies, Fault, Granting, Fresh
<1>37. ASSUME NEW s \in Supervisors, Crash(s) PROVE Granting'
  BY <1>37 DEF Crash, Gone, HangUp, Granting, Fresh
<1>38. CASE UNCHANGED vars
  BY <1>38 DEF vars, Granting, Fresh
<1>39. QED
  BY <1>1, <1>2, <1>3, <1>4, <1>5, <1>6, <1>7, <1>8, <1>9, <1>10,
     <1>11, <1>12, <1>13, <1>14, <1>15, <1>16, <1>17, <1>18, <1>19, <1>20,
     <1>21, <1>22, <1>23, <1>24, <1>25, <1>26, <1>27, <1>28, <1>29, <1>30,
     <1>31, <1>32, <1>33, <1>34, <1>35, <1>36, <1>37, <1>38
     DEF Next, LauncherStep, Session, ServerStep, FaultStep

THEOREM GrantingInv == Spec => []Granting
<1>1. Init => Granting
  BY SupervisorAssumption DEF Init, Granting, Fresh, Booting, Serving
<1>2. QED
  BY <1>1, GrantingStep, Typing, PTL DEF Spec

\* The idle exit never drops a granted stream: in the supervisor loop the check
\* comes after the backlog was accepted and the list was pruned.
THEOREM NoIdleExitUnderLease == Spec => NoDrainUnderLease
<1> DEFINE Drains(s) == /\ spc[s] \in Serving /\ spc'[s] = "stop" /\ faults' = faults
                        /\ ~shutdown[s] /\ translator[s] = "running"
<1>1. ASSUME TypeOK, Granting, [Next]_vars,
             NEW s \in Supervisors, Drains(s), NEW l \in Launchers
      PROVE  ~(conn[l] = s /\ granted[l])
  <2> USE DEF TypeOK, Serving
  <2>1. ASSUME NEW m \in Launchers, LauncherStep(m) \/ Session(m) PROVE FALSE
    BY <1>1, <2>1
       DEF LauncherStep, Session, Begin, Connect, ConnectFails, ReadReady, NoReady, Snapshot,
           Spawn, SpawnFails, Sync, Late, Cool, Close, Kill, Leave
  <2>2. ASSUME NEW t \in Supervisors, TimerRunsOut(t) \/ FaultStep(t) PROVE FALSE
    BY <1>1, <2>2
       DEF TimerRunsOut, FaultStep, StepFails, Reject, Terminate, TranslatorDies, Crash,
           Fault, Gone
  <2>3. ASSUME NEW t \in Supervisors, ServerStep(t) PROVE Tend(s)
    BY ZenonT(40), <1>1, <2>3
       DEF ServerStep, OpenSelf, Prepare, TryLock, Bind, WriteAuth, StartTranslator,
           Healthy, StartupStops, Abort, Top, Accept, WouldBlock, Tend, StopTranslator,
           RemoveSocket, RemoveAuth, RemoveSnapshot, Unlock, Exit, Gone
  <2>4. ~UNCHANGED vars
    BY <1>1 DEF vars
  <2>5. Tend(s)
    BY <1>1, <2>1, <2>2, <2>3, <2>4 DEF Next
  <2>6. OpenLeases(s) = {}
    BY <1>1, <2>5, TendEffect
  <2>7. QED
    BY <1>1, <2>6 DEF OpenLeases, Granting
<1>2. TypeOK /\ Granting /\ [Next]_vars =>
        [\A s \in Supervisors :
            spc[s] \in Serving /\ spc'[s] = "stop" /\ faults' = faults
            /\ ~shutdown[s] /\ translator[s] = "running"
            => \A l \in Launchers : ~(conn[l] = s /\ granted[l])]_vars
  BY <1>1
<1>3. QED
  BY <1>2, Typing, GrantingInv, PTL DEF Spec, NoDrainUnderLease

-----------------------------------------------------------------------------
(* Without faults: leases are backed, and a free lock means a clean runtime. *)

Backed ==
    faults = 0 /\ crashes = 0 =>
        /\ \A s \in Supervisors : ~shutdown[s] /\ translator[s] # "exited"
        /\ \A l \in Launchers : granted[l] => conn[l] \in Supervisors /\ spc[conn[l]] \in Serving

\* The only way out of Serving without a fault is the idle exit.
LEMMA BackedStep ==
    TypeOK /\ Granting /\ Backed /\ [Next]_vars => Backed'
<1> SUFFICES ASSUME TypeOK, Granting, Backed, [Next]_vars PROVE Backed'
  OBVIOUS
<1> USE SupervisorAssumption DEF TypeOK, Booting, Starting, Serving, Draining, Owning, ServerPC, Acquiring, LauncherPC
<1>1. ASSUME NEW l \in Launchers, Begin(l) PROVE Backed'
  BY <1>1 DEF Begin, Granting, Fresh, Backed
<1>2. ASSUME NEW l \in Launchers, Connect(l) PROVE Backed'
  BY <1>2 DEF Connect, Connectable, Granting, Fresh, Backed
<1>3. ASSUME NEW l \in Launchers, ConnectFails(l) PROVE Backed'
  BY <1>3 DEF ConnectFails, AfterFailure, Granting, Fresh, Backed
<1>4. ASSUME NEW l \in Launchers, ReadReady(l) PROVE Backed'
  BY <1>4 DEF ReadReady, Granting, Fresh, Backed
<1>5. ASSUME NEW l \in Launchers, NoReady(l) PROVE Backed'
  BY <1>5 DEF NoReady, AfterFailure, Granting, Fresh, Backed
<1>6. ASSUME NEW l \in Launchers, Snapshot(l) PROVE Backed'
  BY <1>6 DEF Snapshot, Granting, Fresh, Backed
<1>7. ASSUME NEW l \in Launchers, SpawnFails(l) PROVE Backed'
  BY <1>7 DEF SpawnFails, AfterSpawn, Granting, Fresh, Backed
<1>8. ASSUME NEW l \in Launchers, Sync(l) PROVE Backed'
  BY <1>8 DEF Sync, Granting, Fresh, Backed
<1>9. ASSUME NEW l \in Launchers, Close(l) PROVE Backed'
  BY <1>9 DEF Close, Leave, Granting, Fresh, Backed
<1>10. ASSUME NEW l \in Launchers, Kill(l) PROVE Backed'
  BY <1>10 DEF Kill, Leave, Granting, Fresh, Backed
<1>11. ASSUME NEW l \in Launchers, Late(l) PROVE Backed'
  BY <1>11 DEF Late, Granting, Fresh, Backed
<1>12. ASSUME NEW l \in Launchers, Cool(l) PROVE Backed'
  BY <1>12 DEF Cool, Granting, Fresh, Backed
<1>13. ASSUME NEW l \in Launchers, NEW s \in Supervisors, Spawn(l, s) PROVE Backed'
  BY <1>13 DEF Spawn, AfterSpawn, Granting, Fresh, Backed
<1>14. ASSUME NEW l \in Launchers, NEW s \in Supervisors, Accept(s, l) PROVE Backed'
  BY <1>14 DEF Accept, Pending, Granting, Fresh, Backed
<1>15. ASSUME NEW l \in Launchers, NEW s \in Supervisors, Reject(s, l) PROVE Backed'
  BY <1>15 DEF Reject, Pending, Fault, Granting, Fresh, Backed
<1>16. ASSUME NEW s \in Supervisors, OpenSelf(s) PROVE Backed'
  BY <1>16 DEF OpenSelf, Granting, Fresh, Backed
<1>17. ASSUME NEW s \in Supervisors, Prepare(s) PROVE Backed'
  BY <1>17 DEF Prepare, Granting, Fresh, Backed
<1>18. ASSUME NEW s \in Supervisors, TryLock(s) PROVE Backed'
  BY <1>18 DEF TryLock, Granting, Fresh, Backed
<1>19. ASSUME NEW s \in Supervisors, Bind(s) PROVE Backed'
  BY <1>19 DEF Bind, Granting, Fresh, Backed
<1>20. ASSUME NEW s \in Supervisors, WriteAuth(s) PROVE Backed'
  BY <1>20 DEF WriteAuth, Granting, Fresh, Backed
<1>21. ASSUME NEW s \in Supervisors, StartTranslator(s) PROVE Backed'
  BY <1>21 DEF StartTranslator, Granting, Fresh, Backed
<1>22. ASSUME NEW s \in Supervisors, Healthy(s) PROVE Backed'
  BY <1>22 DEF Healthy, Granting, Fresh, Backed
<1>23. ASSUME NEW s \in Supervisors, StartupStops(s) PROVE Backed'
  BY <1>23 DEF StartupStops, Abort, HangUp, Granting, Fresh, Backed
<1>24. ASSUME NEW s \in Supervisors, StepFails(s) PROVE Backed'
  BY <1>24 DEF StepFails, Abort, HangUp, Fault, Granting, Fresh, Backed
<1>25. ASSUME NEW s \in Supervisors, Top(s) PROVE Backed'
  BY <1>25 DEF Top, Granting, Fresh, Backed
<1>26. ASSUME NEW s \in Supervisors, WouldBlock(s) PROVE Backed'
  BY <1>26 DEF WouldBlock, Granting, Fresh, Backed
<1>27. ASSUME NEW s \in Supervisors, Tend(s) PROVE Backed'
  BY <1>27, TendEffect DEF OpenLeases, Granting, Fresh, Backed
<1>28. ASSUME NEW s \in Supervisors, TimerRunsOut(s) PROVE Backed'
  BY <1>28 DEF TimerRunsOut, Granting, Fresh, Backed
<1>29. ASSUME NEW s \in Supervisors, StopTranslator(s) PROVE Backed'
  BY <1>29 DEF StopTranslator, Granting, Fresh, Backed
<1>30. ASSUME NEW s \in Supervisors, RemoveSocket(s) PROVE Backed'
  BY <1>30 DEF RemoveSocket, Granting, Fresh, Backed
<1>31. ASSUME NEW s \in Supervisors, RemoveAuth(s) PROVE Backed'
  BY <1>31 DEF RemoveAuth, Granting, Fresh, Backed
<1>32. ASSUME NEW s \in Supervisors, RemoveSnapshot(s) PROVE Backed'
  BY <1>32 DEF RemoveSnapshot, Granting, Fresh, Backed
<1>33. ASSUME NEW s \in Supervisors, Unlock(s) PROVE Backed'
  BY <1>33 DEF Unlock, Granting, Fresh, Backed
<1>34. ASSUME NEW s \in Supervisors, Exit(s) PROVE Backed'
  BY <1>34 DEF Exit, Gone, HangUp, Granting, Fresh, Backed
<1>35. ASSUME NEW s \in Supervisors, Terminate(s) PROVE Backed'
  BY <1>35 DEF Terminate, Fault, Granting, Fresh, Backed
<1>36. ASSUME NEW s \in Supervisors, TranslatorDies(s) PROVE Backed'
  BY <1>36 DEF TranslatorDies, Fault, Granting, Fresh, Backed
<1>37. ASSUME NEW s \in Supervisors, Crash(s) PROVE Backed'
  BY <1>37 DEF Crash, Gone, HangUp, Granting, Fresh, Backed
<1>38. CASE UNCHANGED vars
  BY <1>38 DEF vars, Granting, Fresh, Backed
<1>39. QED
  BY <1>1, <1>2, <1>3, <1>4, <1>5, <1>6, <1>7, <1>8, <1>9, <1>10,
     <1>11, <1>12, <1>13, <1>14, <1>15, <1>16, <1>17, <1>18, <1>19, <1>20,
     <1>21, <1>22, <1>23, <1>24, <1>25, <1>26, <1>27, <1>28, <1>29, <1>30,
     <1>31, <1>32, <1>33, <1>34, <1>35, <1>36, <1>37, <1>38
     DEF Next, LauncherStep, Session, ServerStep, FaultStep

\* A session that got its READY keeps its proxy until something fails.
THEOREM LeasesAreBacked == Spec => []LeaseIsBacked
<1>1. Init => Backed
  BY DEF Init, Backed
<1>2. TypeOK /\ Granting /\ Backed => LeaseIsBacked
  BY DEF TypeOK, Granting, Backed, LeaseIsBacked
<1>3. QED
  BY <1>1, <1>2, BackedStep, Typing, GrantingInv, PTL DEF Spec

\* How far a supervisor's files can lag behind its program counter.
Swept ==
    faults = 0 /\ crashes = 0 =>
        /\ lock = None => socket = None /\ ~auth
        /\ \A s \in Supervisors :
            /\ spc[s] \in {"bind", "rmauth", "rmexec", "unlock"} => socket = None
            /\ spc[s] \in {"bind", "auth", "rmexec", "unlock"} => ~auth

\* A launcher writes the adapter file only under a lease, hence not during a cleanup.
LEMMA SweptStep ==
    TypeOK /\ LockOwnsRuntime /\ Granting /\ Backed /\ Swept /\ [Next]_vars => Swept'
<1> SUFFICES ASSUME TypeOK, LockOwnsRuntime, Granting, Backed, Swept, [Next]_vars PROVE Swept'
  OBVIOUS
<1> USE SupervisorAssumption DEF TypeOK, Booting, Starting, Serving, Draining, Owning, ServerPC, Acquiring, LauncherPC
<1>1. ASSUME NEW l \in Launchers, Begin(l) PROVE Swept'
  BY <1>1 DEF Begin, LockOwnsRuntime, Granting, Fresh, Backed, Swept
<1>2. ASSUME NEW l \in Launchers, Connect(l) PROVE Swept'
  BY <1>2 DEF Connect, Connectable, LockOwnsRuntime, Granting, Fresh, Backed, Swept
<1>3. ASSUME NEW l \in Launchers, ConnectFails(l) PROVE Swept'
  BY <1>3 DEF ConnectFails, AfterFailure, LockOwnsRuntime, Granting, Fresh, Backed, Swept
<1>4. ASSUME NEW l \in Launchers, ReadReady(l) PROVE Swept'
  BY <1>4 DEF ReadReady, LockOwnsRuntime, Granting, Fresh, Backed, Swept
<1>5. ASSUME NEW l \in Launchers, NoReady(l) PROVE Swept'
  BY <1>5 DEF NoReady, AfterFailure, LockOwnsRuntime, Granting, Fresh, Backed, Swept
<1>6. ASSUME NEW l \in Launchers, Snapshot(l) PROVE Swept'
  BY <1>6 DEF Snapshot, LockOwnsRuntime, Granting, Fresh, Backed, Swept
<1>7. ASSUME NEW l \in Launchers, SpawnFails(l) PROVE Swept'
  BY <1>7 DEF SpawnFails, AfterSpawn, LockOwnsRuntime, Granting, Fresh, Backed, Swept
<1>8. ASSUME NEW l \in Launchers, Sync(l) PROVE Swept'
  BY <1>8 DEF Sync, LockOwnsRuntime, Granting, Fresh, Backed, Swept
<1>9. ASSUME NEW l \in Launchers, Close(l) PROVE Swept'
  BY <1>9 DEF Close, Leave, LockOwnsRuntime, Granting, Fresh, Backed, Swept
<1>10. ASSUME NEW l \in Launchers, Kill(l) PROVE Swept'
  BY <1>10 DEF Kill, Leave, LockOwnsRuntime, Granting, Fresh, Backed, Swept
<1>11. ASSUME NEW l \in Launchers, Late(l) PROVE Swept'
  BY <1>11 DEF Late, LockOwnsRuntime, Granting, Fresh, Backed, Swept
<1>12. ASSUME NEW l \in Launchers, Cool(l) PROVE Swept'
  BY <1>12 DEF Cool, LockOwnsRuntime, Granting, Fresh, Backed, Swept
<1>13. ASSUME NEW l \in Launchers, NEW s \in Supervisors, Spawn(l, s) PROVE Swept'
  BY <1>13 DEF Spawn, AfterSpawn, LockOwnsRuntime, Granting, Fresh, Backed, Swept
<1>14. ASSUME NEW l \in Launchers, NEW s \in Supervisors, Accept(s, l) PROVE Swept'
  BY <1>14 DEF Accept, Pending, LockOwnsRuntime, Granting, Fresh, Backed, Swept
<1>15. ASSUME NEW l \in Launchers, NEW s \in Supervisors, Reject(s, l) PROVE Swept'
  BY <1>15 DEF Reject, Pending, Fault, LockOwnsRuntime, Granting, Fresh, Backed, Swept
<1>16. ASSUME NEW s \in Supervisors, OpenSelf(s) PROVE Swept'
  BY <1>16 DEF OpenSelf, LockOwnsRuntime, Granting, Fresh, Backed, Swept
<1>17. ASSUME NEW s \in Supervisors, Prepare(s) PROVE Swept'
  BY <1>17 DEF Prepare, LockOwnsRuntime, Granting, Fresh, Backed, Swept
<1>18. ASSUME NEW s \in Supervisors, TryLock(s) PROVE Swept'
  BY <1>18 DEF TryLock, LockOwnsRuntime, Granting, Fresh, Backed, Swept
<1>19. ASSUME NEW s \in Supervisors, Bind(s) PROVE Swept'
  BY <1>19 DEF Bind, LockOwnsRuntime, Granting, Fresh, Backed, Swept
<1>20. ASSUME NEW s \in Supervisors, WriteAuth(s) PROVE Swept'
  BY <1>20 DEF WriteAuth, LockOwnsRuntime, Granting, Fresh, Backed, Swept
<1>21. ASSUME NEW s \in Supervisors, StartTranslator(s) PROVE Swept'
  BY <1>21 DEF StartTranslator, LockOwnsRuntime, Granting, Fresh, Backed, Swept
<1>22. ASSUME NEW s \in Supervisors, Healthy(s) PROVE Swept'
  BY <1>22 DEF Healthy, LockOwnsRuntime, Granting, Fresh, Backed, Swept
<1>23. ASSUME NEW s \in Supervisors, StartupStops(s) PROVE Swept'
  BY <1>23 DEF StartupStops, Abort, HangUp, LockOwnsRuntime, Granting, Fresh, Backed, Swept
<1>24. ASSUME NEW s \in Supervisors, StepFails(s) PROVE Swept'
  BY <1>24 DEF StepFails, Abort, HangUp, Fault, LockOwnsRuntime, Granting, Fresh, Backed, Swept
<1>25. ASSUME NEW s \in Supervisors, Top(s) PROVE Swept'
  BY <1>25 DEF Top, LockOwnsRuntime, Granting, Fresh, Backed, Swept
<1>26. ASSUME NEW s \in Supervisors, WouldBlock(s) PROVE Swept'
  BY <1>26 DEF WouldBlock, LockOwnsRuntime, Granting, Fresh, Backed, Swept
<1>27. ASSUME NEW s \in Supervisors, Tend(s) PROVE Swept'
  BY <1>27, TendEffect DEF OpenLeases, LockOwnsRuntime, Granting, Fresh, Backed, Swept
<1>28. ASSUME NEW s \in Supervisors, TimerRunsOut(s) PROVE Swept'
  BY <1>28 DEF TimerRunsOut, LockOwnsRuntime, Granting, Fresh, Backed, Swept
<1>29. ASSUME NEW s \in Supervisors, StopTranslator(s) PROVE Swept'
  BY <1>29 DEF StopTranslator, LockOwnsRuntime, Granting, Fresh, Backed, Swept
<1>30. ASSUME NEW s \in Supervisors, RemoveSocket(s) PROVE Swept'
  BY <1>30 DEF RemoveSocket, LockOwnsRuntime, Granting, Fresh, Backed, Swept
<1>31. ASSUME NEW s \in Supervisors, RemoveAuth(s) PROVE Swept'
  BY <1>31 DEF RemoveAuth, LockOwnsRuntime, Granting, Fresh, Backed, Swept
<1>32. ASSUME NEW s \in Supervisors, RemoveSnapshot(s) PROVE Swept'
  BY <1>32 DEF RemoveSnapshot, LockOwnsRuntime, Granting, Fresh, Backed, Swept
<1>33. ASSUME NEW s \in Supervisors, Unlock(s) PROVE Swept'
  BY <1>33 DEF Unlock, LockOwnsRuntime, Granting, Fresh, Backed, Swept
<1>34. ASSUME NEW s \in Supervisors, Exit(s) PROVE Swept'
  BY <1>34 DEF Exit, Gone, HangUp, LockOwnsRuntime, Granting, Fresh, Backed, Swept
<1>35. ASSUME NEW s \in Supervisors, Terminate(s) PROVE Swept'
  BY <1>35 DEF Terminate, Fault, LockOwnsRuntime, Granting, Fresh, Backed, Swept
<1>36. ASSUME NEW s \in Supervisors, TranslatorDies(s) PROVE Swept'
  BY <1>36 DEF TranslatorDies, Fault, LockOwnsRuntime, Granting, Fresh, Backed, Swept
<1>37. ASSUME NEW s \in Supervisors, Crash(s) PROVE Swept'
  BY <1>37 DEF Crash, Gone, HangUp, LockOwnsRuntime, Granting, Fresh, Backed, Swept
<1>38. CASE UNCHANGED vars
  BY <1>38 DEF vars, LockOwnsRuntime, Granting, Fresh, Backed, Swept
<1>39. QED
  BY <1>1, <1>2, <1>3, <1>4, <1>5, <1>6, <1>7, <1>8, <1>9, <1>10,
     <1>11, <1>12, <1>13, <1>14, <1>15, <1>16, <1>17, <1>18, <1>19, <1>20,
     <1>21, <1>22, <1>23, <1>24, <1>25, <1>26, <1>27, <1>28, <1>29, <1>30,
     <1>31, <1>32, <1>33, <1>34, <1>35, <1>36, <1>37, <1>38
     DEF Next, LauncherStep, Session, ServerStep, FaultStep

\* Without faults, a free lock means no socket path and no access token on disk.
THEOREM CleanHandOver == Spec => []FreeLockMeansClean
<1>1. Init => Backed /\ Swept
  BY DEF Init, Backed, Swept
<1>2. Swept => FreeLockMeansClean
  BY DEF Swept, FreeLockMeansClean
<1>3. QED
  BY <1>1, <1>2, BackedStep, SweptStep, Typing, MutualExclusion, GrantingInv, PTL DEF Spec

-----------------------------------------------------------------------------
(* The lifecycle implements the lease service: each step of a launcher, a    *)
(* supervisor or the environment is one of the service, or none.             *)

\* What is seen of the service when nobody serves, and when s does.
LEMMA NobodyServes ==
    ASSUME \A s \in Supervisors : spc[s] \notin Serving
    PROVE  Up = FALSE /\ Held = {} /\ Troubled = FALSE
<1>1. ~Up /\ ~Troubled
  BY DEF Up, Troubled
<1>2. Held = {}
  BY DEF Held
<1>3. QED
  BY <1>1, <1>2 DEF Up, Troubled

LEMMA OneServes ==
    ASSUME LockOwnsRuntime, NEW s \in Supervisors, spc[s] \in Serving
    PROVE  /\ \A t \in Supervisors : spc[t] \in Serving => t = s
           /\ Up = TRUE /\ Held = ServedBy(s)
           /\ Troubled <=> shutdown[s] \/ translator[s] = "exited"
<1>1. \A t \in Supervisors : spc[t] \in Serving => t = s
  BY DEF LockOwnsRuntime, Owning
<1>2. Up
  BY DEF Up
<1>3. Held = ServedBy(s)
  BY <1>1 DEF Held
<1>4. Troubled <=> shutdown[s] \/ translator[s] = "exited"
  BY <1>1 DEF Troubled
<1>5. QED
  BY <1>1, <1>2, <1>3, <1>4 DEF Up

\* The service does not see what leaves the serving supervisor and the streams
\* that lead to it alone.
LEMMA UnseenStep ==
    ASSUME \A s \in Supervisors : spc'[s] \in Serving <=> spc[s] \in Serving,
           \A s \in Supervisors : spc[s] \in Serving =>
               /\ shutdown'[s] = shutdown[s] /\ translator'[s] = translator[s]
               /\ \A l \in Launchers : conn'[l] = s /\ granted'[l] <=> conn[l] = s /\ granted[l]
    PROVE  Up' = Up /\ Held' = Held /\ Troubled' = Troubled
<1>1. Up' <=> Up
  BY DEF Up
<1>2. Held' = Held
  <2>1. \A s \in Supervisors : spc[s] \in Serving => ServedBy(s)' = ServedBy(s)
    BY DEF ServedBy
  <2>2. QED
    BY <2>1 DEF Held
<1>3. Troubled' <=> Troubled
  BY DEF Troubled
<1>4. QED
  BY <1>1, <1>2, <1>3 DEF Up, Troubled

\* One launcher's stream changes: it obtains a lease, or gives up one, or neither.
LEMMA StreamStep ==
    ASSUME LockOwnsRuntime, LockOwnsRuntime',
           UNCHANGED <<spc, shutdown, translator, faults, crashes>>, NEW l \in Launchers,
           \A m \in Launchers \ {l} : conn'[m] = conn[m] /\ granted'[m] = granted[m]
    PROVE  [Service!Next]_(Service!vars)
<1>1. CASE \E s \in Supervisors : spc[s] \in Serving
  <2>1. PICK s \in Supervisors : spc[s] \in Serving
    BY <1>1
  <2>2. Held = ServedBy(s) /\ Up = TRUE
    BY <2>1, OneServes
  <2>3. Held' = ServedBy(s)'
    BY <2>1, OneServes DEF Held
  <2>4. Up' = Up /\ Troubled' = Troubled
    BY DEF Up, Troubled
  <2>5. Held' = Held \union {l} \/ Held' = Held \ {l}
    BY <2>2, <2>3 DEF ServedBy
  <2>6. Service!Grant(l) \/ Service!Release(l)
    BY <2>2, <2>4, <2>5 DEF Service!Grant, Service!Release
  <2>7. QED
    BY <2>6 DEF Service!Next
<1>2. CASE \A s \in Supervisors : spc[s] \notin Serving
  <2>1. Up' = Up /\ Held' = Held /\ Troubled' = Troubled
    BY <1>2, UnseenStep
  <2>2. QED
    BY <2>1 DEF Service!vars
<1>3. QED
  BY <1>1, <1>2

\* A fault that the service does not see, or that troubles the one that serves.
LEMMA UnseenFault ==
    ASSUME faults' + crashes' = faults + crashes + 1,
           Up' = Up, Held' = Held, Troubled' = Troubled
    PROVE  [Service!Next]_(Service!vars)
BY DEF Service!Next, Service!Trouble

LEMMA LauncherRefines ==
    ASSUME TypeOK, LockOwnsRuntime, LockOwnsRuntime', NEW l \in Launchers, LauncherStep(l) \/ Session(l)
    PROVE  [Service!Next]_(Service!vars)
<1>1. CASE \E s \in Supervisors : Spawn(l, s)
  <2>1. PICK s \in Supervisors : Spawn(l, s)
    BY <1>1
  <2>2. UNCHANGED <<shutdown, translator, conn, granted, faults, crashes>>
    BY <2>1 DEF Spawn
  <2>3. \A t \in Supervisors : spc'[t] \in Serving <=> spc[t] \in Serving
    BY <2>1 DEF Spawn, TypeOK, Serving
  <2>4. Up' = Up /\ Held' = Held /\ Troubled' = Troubled
    BY <2>2, <2>3, UnseenStep
  <2>5. QED
    BY <2>2, <2>4 DEF Service!vars
<1>2. CASE ~\E s \in Supervisors : Spawn(l, s)
  <2>1. /\ UNCHANGED <<spc, shutdown, translator, faults, crashes>>
        /\ \A m \in Launchers \ {l} : conn'[m] = conn[m] /\ granted'[m] = granted[m]
    BY <1>2
       DEF TypeOK, LauncherStep, Session, Begin, Connect, ConnectFails, ReadReady, NoReady,
           Snapshot, SpawnFails, Sync, Late, Cool, Close, Kill, Leave
  <2>2. QED
    BY <2>1, StreamStep
<1>3. QED
  BY <1>1, <1>2

\* Whoever is not serving leaves and hangs up without being seen.
LEMMA QuietServer ==
    ASSUME TypeOK, NEW s \in Supervisors, spc[s] \notin Serving, spc'[s] \notin Serving,
           \A t \in Supervisors \ {s} : /\ spc'[t] = spc[t] /\ shutdown'[t] = shutdown[t]
                                        /\ translator'[t] = translator[t],
           granted' = granted, conn' = conn \/ HangUp(s)
    PROVE  Up' = Up /\ Held' = Held /\ Troubled' = Troubled
<1>1. \A t \in Supervisors : spc'[t] \in Serving <=> spc[t] \in Serving
  OBVIOUS
<1>2. \A t \in Supervisors : spc[t] \in Serving =>
          /\ shutdown'[t] = shutdown[t] /\ translator'[t] = translator[t]
          /\ \A l \in Launchers : conn'[l] = t /\ granted'[l] <=> conn[l] = t /\ granted[l]
  BY SupervisorAssumption DEF HangUp
<1>3. QED
  BY <1>1, <1>2, UnseenStep

\* The steps before a supervisor serves and after it has left its loop.
LEMMA OffStageRefines ==
    ASSUME TypeOK, NEW s \in Supervisors,
           \/ OpenSelf(s) \/ Prepare(s) \/ TryLock(s) \/ Bind(s) \/ WriteAuth(s)
           \/ StartTranslator(s) \/ StartupStops(s) \/ StopTranslator(s) \/ RemoveSocket(s)
           \/ RemoveAuth(s) \/ RemoveSnapshot(s) \/ Unlock(s) \/ Exit(s)
    PROVE  [Service!Next]_(Service!vars)
<1>1. /\ spc[s] \notin Serving /\ spc'[s] \notin Serving
      /\ \A t \in Supervisors \ {s} : /\ spc'[t] = spc[t] /\ shutdown'[t] = shutdown[t]
                                      /\ translator'[t] = translator[t]
      /\ granted' = granted /\ (conn' = conn \/ HangUp(s))
      /\ UNCHANGED <<faults, crashes>>
  BY DEF TypeOK, Serving, OpenSelf, Prepare, TryLock, Bind, WriteAuth, StartTranslator, StartupStops,
         Abort, StopTranslator, RemoveSocket, RemoveAuth, RemoveSnapshot, Unlock, Exit, Gone
<1>2. Up' = Up /\ Held' = Held /\ Troubled' = Troubled
  BY <1>1, QuietServer
<1>3. QED
  BY <1>1, <1>2 DEF Service!vars

\* The health check passes: the service comes up, held by nobody.
LEMMA HealthyRefines ==
    ASSUME TypeOK, LockOwnsRuntime, LockOwnsRuntime', Granting, NEW s \in Supervisors, Healthy(s)
    PROVE  [Service!Next]_(Service!vars)
<1>1. /\ spc[s] = "wait" /\ ~shutdown[s] /\ translator[s] = "running"
      /\ spc' = [spc EXCEPT ![s] = "top"]
      /\ UNCHANGED <<shutdown, translator, conn, granted, faults, crashes>>
  BY DEF Healthy
<1>2. \A t \in Supervisors : spc[t] \notin Serving
  BY <1>1 DEF LockOwnsRuntime, Owning, Starting, Serving
<1>3. Up = FALSE /\ Held = {}
  BY <1>2, NobodyServes
<1>4. spc'[s] \in Serving
  BY <1>1 DEF TypeOK, Serving
<1>5. Up'
  BY <1>4 DEF Up
<1>6. Held' = {} /\ ~Troubled'
  <2>1. \A t \in Supervisors : spc'[t] \in Serving => t = s
    BY <1>1, <1>2
  <2>2. ServedBy(s)' = {}
    BY <1>1 DEF ServedBy, Granting
  <2>3. QED
    BY <1>1, <2>1, <2>2 DEF Held, Troubled
<1>7. Service!ComeUp
  BY <1>1, <1>3, <1>5, <1>6 DEF Service!ComeUp, Up, Troubled
<1>8. QED
  BY <1>7 DEF Service!Next

\* A supervisor leaves its loop: the service goes down, and its leases with it.
LEMMA DownIsSeen ==
    ASSUME LockOwnsRuntime, NEW s \in Supervisors, spc[s] \in Serving, spc'[s] \notin Serving,
           \A t \in Supervisors \ {s} : spc'[t] = spc[t]
    PROVE  Up = TRUE /\ Up' = FALSE /\ Held' = {} /\ Troubled' = FALSE
<1>1. \A t \in Supervisors : spc'[t] \notin Serving
  BY OneServes
<1>2. ~Up' /\ ~Troubled' /\ Held' = {}
  BY <1>1 DEF Up, Troubled, Held
<1>3. QED
  BY <1>2, OneServes DEF Up, Troubled

\* The loop goes on, or ends: by a signal, by the death of the translator or by
\* the idle exit, which finds nobody with a lease.
LEMMA LoopRefines ==
    ASSUME TypeOK, LockOwnsRuntime, Granting, NEW s \in Supervisors,
           Top(s) \/ WouldBlock(s) \/ Tend(s) \/ TimerRunsOut(s)
    PROVE  [Service!Next]_(Service!vars)
<1>1. /\ UNCHANGED <<shutdown, translator, conn, granted, faults, crashes>>
      /\ \A t \in Supervisors \ {s} : spc'[t] = spc[t]
      /\ spc[s] \in Serving
  BY TendEffect DEF TypeOK, Serving, Top, WouldBlock, TimerRunsOut
<1>2. CASE spc'[s] \in Serving
  <2>1. Up' = Up /\ Held' = Held /\ Troubled' = Troubled
    BY <1>1, <1>2, UnseenStep
  <2>2. QED
    BY <1>1, <2>1 DEF Service!vars
<1>3. CASE spc'[s] \notin Serving
  <2>1. Up = TRUE /\ Up' = FALSE /\ Held' = {} /\ Troubled' = FALSE
    BY <1>1, <1>3, DownIsSeen
  <2>2. \/ shutdown[s] \/ translator[s] = "exited"
        \/ OpenLeases(s) = {}
    BY <1>1, <1>3, TendEffect DEF TypeOK, Serving, Top, WouldBlock, TimerRunsOut
  <2>3. CASE shutdown[s] \/ translator[s] = "exited"
    <3>1. Troubled
      BY <1>1, <2>3, OneServes
    <3>2. Service!GiveUp
      BY <1>1, <2>1, <3>1 DEF Service!GiveUp
    <3>3. QED
      BY <3>2 DEF Service!Next
  <2>4. CASE OpenLeases(s) = {}
    <3>1. Held = {}
      BY <1>1, <2>4, OneServes DEF ServedBy, OpenLeases, Granting
    <3>2. Service!GoIdle
      BY <1>1, <2>1, <3>1 DEF Service!GoIdle
    <3>3. QED
      BY <3>2 DEF Service!Next
  <2>5. QED
    BY <2>2, <2>3, <2>4
<1>4. QED
  BY <1>2, <1>3

LEMMA AcceptRefines ==
    ASSUME TypeOK, LockOwnsRuntime, LockOwnsRuntime', NEW s \in Supervisors, NEW l \in Launchers,
           Accept(s, l)
    PROVE  [Service!Next]_(Service!vars)
<1>1. /\ UNCHANGED <<spc, shutdown, translator, faults, crashes>>
      /\ \A m \in Launchers \ {l} : conn'[m] = conn[m] /\ granted'[m] = granted[m]
  BY DEF Accept, TypeOK
<1>2. QED
  BY <1>1, StreamStep

\* A step fails or the process is killed: the service loses its proxy, if it
\* was that one.
LEMMA LossRefines ==
    ASSUME TypeOK, LockOwnsRuntime, NEW s \in Supervisors, StepFails(s) \/ Crash(s)
    PROVE  [Service!Next]_(Service!vars)
<1>1. /\ spc'[s] \notin Serving /\ granted' = granted /\ HangUp(s)
      /\ \A t \in Supervisors \ {s} : /\ spc'[t] = spc[t] /\ shutdown'[t] = shutdown[t]
                                      /\ translator'[t] = translator[t]
  BY DEF TypeOK, Serving, StepFails, Abort, Crash, Gone
<1>2. faults' + crashes' = faults + crashes + 1
  BY DEF TypeOK, StepFails, Abort, Fault, Crash
<1>3. CASE spc[s] \notin Serving
  BY <1>1, <1>2, <1>3, QuietServer, UnseenFault
<1>4. CASE spc[s] \in Serving
  <2>1. Up = TRUE /\ Up' = FALSE /\ Held' = {} /\ Troubled' = FALSE
    BY <1>1, <1>4, DownIsSeen
  <2>2. Service!Trouble
    BY <1>2, <2>1 DEF Service!Trouble
  <2>3. QED
    BY <2>2 DEF Service!Next
<1>5. QED
  BY <1>3, <1>4

\* A client that is turned away had no lease yet.
LEMMA RejectRefines ==
    ASSUME TypeOK, NEW s \in Supervisors, NEW l \in Launchers, Reject(s, l)
    PROVE  [Service!Next]_(Service!vars)
<1>1. /\ UNCHANGED <<spc, shutdown, translator, granted>> /\ faults' + crashes' = faults + crashes + 1
      /\ ~granted[l] /\ \A m \in Launchers \ {l} : conn'[m] = conn[m]
  BY DEF Reject, Pending, Fault, TypeOK
<1>2. \A t \in Supervisors, m \in Launchers : conn'[m] = t /\ granted'[m] <=> conn[m] = t /\ granted[m]
  BY <1>1
<1>3. Up' = Up /\ Held' = Held /\ Troubled' = Troubled
  BY <1>1, <1>2, UnseenStep
<1>4. QED
  BY <1>1, <1>3, UnseenFault

\* A signal or the death of the translator troubles the proxy, if it is up.
LEMMA TroubleRefines ==
    ASSUME TypeOK, LockOwnsRuntime, LockOwnsRuntime', NEW s \in Supervisors,
           Terminate(s) \/ TranslatorDies(s)
    PROVE  [Service!Next]_(Service!vars)
<1>1. /\ UNCHANGED <<spc, conn, granted>> /\ faults' + crashes' = faults + crashes + 1
      /\ shutdown'[s] \/ translator'[s] = "exited"
      /\ \A t \in Supervisors \ {s} : /\ shutdown'[t] = shutdown[t]
                                      /\ translator'[t] = translator[t]
  BY DEF Terminate, TranslatorDies, Fault, TypeOK
<1>2. CASE spc[s] \notin Serving
  <2>1. Up' = Up /\ Held' = Held /\ Troubled' = Troubled
    BY <1>1, <1>2, QuietServer
  <2>2. QED
    BY <1>1, <2>1, UnseenFault
<1>3. CASE spc[s] \in Serving
  <2>1. Up = TRUE
    BY <1>3, OneServes
  <2>2. Up' = Up /\ Held' = Held
    BY <1>1 DEF Up, Held, ServedBy
  <2>3. Troubled'
    BY <1>1, <1>3 DEF Troubled
  <2>4. Service!Trouble
    BY <1>1, <2>1, <2>2, <2>3 DEF Service!Trouble, Troubled
  <2>5. QED
    BY <2>4 DEF Service!Next
<1>4. QED
  BY <1>2, <1>3

LEMMA RefinesStep ==
    TypeOK /\ LockOwnsRuntime /\ LockOwnsRuntime' /\ Granting /\ [Next]_vars
        => [Service!Next]_(Service!vars)
<1> SUFFICES ASSUME TypeOK, LockOwnsRuntime, LockOwnsRuntime', Granting, [Next]_vars
             PROVE  [Service!Next]_(Service!vars)
  OBVIOUS
<1>1. CASE UNCHANGED vars
  BY <1>1 DEF vars, Service!vars, Up, Held, Troubled, ServedBy
<1>2. ASSUME NEW l \in Launchers, LauncherStep(l) \/ Session(l)
      PROVE  [Service!Next]_(Service!vars)
  BY <1>2, LauncherRefines
<1>3. ASSUME NEW s \in Supervisors, ServerStep(s) \/ TimerRunsOut(s)
      PROVE  [Service!Next]_(Service!vars)
  BY <1>3, OffStageRefines, HealthyRefines, LoopRefines, AcceptRefines DEF ServerStep
<1>4. ASSUME NEW s \in Supervisors, FaultStep(s)
      PROVE  [Service!Next]_(Service!vars)
  BY <1>4, LossRefines, RejectRefines, TroubleRefines DEF FaultStep
<1>5. QED
  BY <1>1, <1>2, <1>3, <1>4 DEF Next

LEMMA RefinesInit == Init => Service!Init
<1> SUFFICES ASSUME Init PROVE Service!Init
  OBVIOUS
<1>1. \A s \in Supervisors : spc[s] \notin Serving
  BY DEF Init, Serving
<1>2. Up = FALSE /\ Held = {} /\ Troubled = FALSE
  BY <1>1, NobodyServes
<1>3. faults + crashes = 0
  BY DEF Init
<1>4. QED
  BY <1>2, <1>3 DEF Service!Init

\* Launchers, supervisors, lock, files, loops, signals and crashes together
\* behave as the lease service: sessions obtain a lease only while a proxy is up,
\* and one that nothing troubles goes down only when nobody holds a lease.
THEOREM LeasesAreHonoured == Spec => ImplementsLeaseService
<1>1. QED
  BY RefinesInit, RefinesStep, Typing, MutualExclusion, GrantingInv, PTL
     DEF Spec, ImplementsLeaseService, Service!Spec
=================================================================================
