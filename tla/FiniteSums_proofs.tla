--------------------------- MODULE FiniteSums_proofs ---------------------------
(***************************************************************************)
(* Facts about SumFunctionOnSet, the community modules' sum of a function    *)
(* over a finite set.  It is defined by recursion over the subsets of the    *)
(* set, each time for one element that CHOOSE picks.  The library's          *)
(* induction theorems take a predicate as a parameter, so the inductions     *)
(* here go over the least counterexample instead: the proper subset relation *)
(* is well founded on the subsets of a finite set.                           *)
(***************************************************************************)
EXTENDS Integers, FiniteSets, Functions, FiniteSetTheorems, WellFoundedInduction, TLAPS

\* A set of subsets of a finite set has a minimal one.
LEMMA MinimalSubset ==
    ASSUME NEW S, IsFiniteSet(S), NEW T, T \subseteq SUBSET S, T # {}
    PROVE  \E x \in T : \A y \in T : y \subseteq x => y = x
<1>1. IsWellFoundedOn(StrictSubsetOrdering(S), FiniteSubsetsOf(S))
  BY FS_StrictSubsetOrderingWellFounded
<1>2. T \subseteq FiniteSubsetsOf(S)
  BY FS_Subset DEF FiniteSubsetsOf
<1>3. \E x \in T : \A y \in T : ~(<<y, x>> \in StrictSubsetOrdering(S))
  BY <1>1, <1>2, WFMin
<1>4. QED
  BY <1>3 DEF StrictSubsetOrdering

\* A set of numbers has a least one.
LEMMA LeastOf ==
    ASSUME NEW n \in Nat, NEW T \in SUBSET (0 .. n), T # {}
    PROVE  \E m \in T : \A k \in T : m <= k
<1> DEFINE Below == {0 .. t : t \in T}
           S == 0 .. n
<1>1. IsFiniteSet(S)
  BY FS_Interval
<1>2. Below \subseteq SUBSET S
  <2>1. ASSUME NEW t \in T PROVE 0 .. t \subseteq S
    OBVIOUS
  <2> QED BY <2>1
<1>0. Below # {}
  OBVIOUS
<1> HIDE DEF Below, S
<1>3. PICK x \in Below : \A y \in Below : y \subseteq x => y = x
  BY <1>0, <1>1, <1>2, MinimalSubset
<1> USE DEF Below
<1>4. PICK m \in T : x = 0 .. m
  BY <1>3
<1>5. ASSUME NEW k \in T, k < m PROVE FALSE
  <2>1. 0 .. k \subseteq 0 .. m /\ 0 .. k \in Below
    BY <1>5
  <2>2. 0 .. k = 0 .. m
    BY <1>3, <1>4, <2>1
  <2>3. m \in 0 .. m /\ m \notin 0 .. k
    BY <1>5
  <2> QED BY <2>2, <2>3
<1> QED BY <1>5

-----------------------------------------------------------------------------
(* The recursion.                                                            *)

Picked(s) == CHOOSE x \in s : TRUE

\* What the recursion makes of g at s.
Unrolled(f, g, s) == IF s = {} THEN 0 ELSE f[Picked(s)] + g[s \ {Picked(s)}]

Partial(f, S) == CHOOSE g : g = [s \in SUBSET S |-> Unrolled(f, g, s)]

\* A function that satisfies the recursive equation on the subsets of S.
Solves(g, f, S) == g = [s \in SUBSET S |-> Unrolled(f, g, s)]

LEMMA SumIsPartial ==
    ASSUME NEW f, NEW S
    PROVE  SumFunctionOnSet(f, S) = Partial(f, S)[S]
BY Zenon DEF SumFunctionOnSet, FoldFunctionOnSet, MapThenFoldSet, Partial, Unrolled, Picked

LEMMA PickedIsMember == ASSUME NEW s, s # {} PROVE Picked(s) \in s
BY DEF Picked

\* Two solutions agree wherever both are defined.
LEMMA SolutionsAgree ==
    ASSUME NEW S, IsFiniteSet(S), NEW f, NEW g, NEW h, NEW U \in SUBSET S,
           Solves(g, f, S), Solves(h, f, U)
    PROVE  \A s \in SUBSET U : g[s] = h[s]
<1> DEFINE Bad == {s \in SUBSET U : g[s] # h[s]}
<1>1. ASSUME Bad # {} PROVE FALSE
  <2>1. IsFiniteSet(U)
    BY FS_Subset
  <2> Bad \subseteq SUBSET U
    OBVIOUS
  <2> HIDE DEF Bad
  <2>2. PICK s \in Bad : \A t \in Bad : t \subseteq s => t = s
    BY <1>1, <2>1, MinimalSubset
  <2> USE DEF Bad
  <2>3. g[s] = Unrolled(f, g, s) /\ h[s] = Unrolled(f, h, s)
    BY DEF Solves
  <2>4. CASE s = {}
    BY <2>3, <2>4 DEF Unrolled
  <2>5. CASE s # {}
    <3>1. Picked(s) \in s
      BY <2>5, PickedIsMember
    <3>2. g[s \ {Picked(s)}] = h[s \ {Picked(s)}]
      BY <2>2, <3>1
    <3>3. QED
      BY <2>3, <3>2 DEF Unrolled
  <2>6. QED
    BY <2>4, <2>5
<1>2. QED
  BY <1>1

\* The equation has a solution on every finite set.
LEMMA PartialSolves ==
    ASSUME NEW S, IsFiniteSet(S), NEW f
    PROVE  Solves(Partial(f, S), f, S)
<1> DEFINE Bad == {s \in SUBSET S : ~Solves(Partial(f, s), f, s)}
           V(s) == Partial(f, s)[s]
<1>1. ASSUME Bad # {} PROVE FALSE
  <2> Bad \subseteq SUBSET S
    OBVIOUS
  <2> HIDE DEF Bad
  <2>1. PICK s \in Bad : \A t \in Bad : t \subseteq s => t = s
    BY <1>1, MinimalSubset
  <2> USE DEF Bad
  <2>2. ASSUME NEW u \in SUBSET s, u # s PROVE Solves(Partial(f, u), f, u) /\ IsFiniteSet(u)
    BY <2>1, <2>2, FS_Subset
  <2> DEFINE g == [t \in SUBSET s |-> IF t = {} THEN 0 ELSE f[Picked(t)] + V(t \ {Picked(t)})]
  <2>3. ASSUME NEW u \in SUBSET s, u # s PROVE g[u] = V(u)
    <3>1. V(u) = Unrolled(f, Partial(f, u), u)
      BY <2>2, <2>3 DEF Solves
    <3>2. CASE u = {}
      BY <3>1, <3>2 DEF Unrolled
    <3>3. CASE u # {}
      <4> DEFINE w == u \ {Picked(u)}
      <4>1. Picked(u) \in u
        BY <3>3, PickedIsMember
      <4>2. w \in SUBSET u /\ w \in SUBSET s /\ w # s
        BY <2>3, <4>1
      <4>3. Solves(Partial(f, u), f, u) /\ IsFiniteSet(u) /\ Solves(Partial(f, w), f, w)
        BY <2>2, <2>3, <4>2
      <4>4. Partial(f, u)[w] = V(w)
        BY <4>2, <4>3, SolutionsAgree
      <4>5. QED
        BY <3>1, <3>3, <4>4 DEF Unrolled
    <3>4. QED
      BY <3>2, <3>3
  <2>4. Solves(g, f, s)
    <3>1. ASSUME NEW t \in SUBSET s PROVE g[t] = Unrolled(f, g, t)
      <4>1. CASE t = {}
        BY <4>1 DEF Unrolled
      <4>2. CASE t # {}
        <5>1. Picked(t) \in t
          BY <4>2, PickedIsMember
        <5>2. g[t \ {Picked(t)}] = V(t \ {Picked(t)})
          BY <2>3, <5>1
        <5>3. QED
          BY <4>2, <5>2 DEF Unrolled
      <4>3. QED
        BY <4>1, <4>2
    <3> HIDE DEF V
    <3>2. QED
      BY <3>1 DEF Solves
  <2> HIDE DEF g
  <2>5. Solves(Partial(f, s), f, s)
    BY <2>4 DEF Solves, Partial
  <2>6. QED
    BY <2>5
<1>2. QED
  BY <1>1

\* The recursion, as it is used: the sum over the empty set, and the sum over
\* another as one element and the sum over the rest.
LEMMA SumUnfolds ==
    ASSUME NEW S, IsFiniteSet(S), NEW f
    PROVE  /\ S = {} => SumFunctionOnSet(f, S) = 0
           /\ S # {} => /\ Picked(S) \in S
                        /\ SumFunctionOnSet(f, S)
                             = f[Picked(S)] + SumFunctionOnSet(f, S \ {Picked(S)})
<1>1. Solves(Partial(f, S), f, S)
  BY PartialSolves
<1>2. SumFunctionOnSet(f, S) = Unrolled(f, Partial(f, S), S)
  BY <1>1, SumIsPartial DEF Solves
<1>3. CASE S = {}
  BY <1>2, <1>3 DEF Unrolled
<1>4. CASE S # {}
  <2> DEFINE rest == S \ {Picked(S)}
  <2>1. Picked(S) \in S /\ rest \in SUBSET S /\ IsFiniteSet(rest)
    BY <1>4, PickedIsMember, FS_Subset
  <2>2. Solves(Partial(f, rest), f, rest)
    BY <2>1, PartialSolves
  <2>3. Partial(f, S)[rest] = Partial(f, rest)[rest]
    BY <1>1, <2>1, <2>2, SolutionsAgree
  <2>4. QED
    BY <1>2, <1>4, <2>1, <2>3, SumIsPartial DEF Unrolled
<1>5. QED
  BY <1>3, <1>4

-----------------------------------------------------------------------------
(* What a sum of natural numbers is.                                         *)

\* The sum depends only on the values of the function on the set.
THEOREM SumSame ==
    ASSUME NEW S, IsFiniteSet(S), NEW f, NEW g, \A x \in S : f[x] = g[x]
    PROVE  SumFunctionOnSet(f, S) = SumFunctionOnSet(g, S)
<1> DEFINE Bad == {s \in SUBSET S : SumFunctionOnSet(f, s) # SumFunctionOnSet(g, s)}
<1>1. ASSUME Bad # {} PROVE FALSE
  <2> Bad \subseteq SUBSET S
    OBVIOUS
  <2> HIDE DEF Bad
  <2>1. PICK s \in Bad : \A t \in Bad : t \subseteq s => t = s
    BY <1>1, MinimalSubset
  <2> USE DEF Bad
  <2>2. IsFiniteSet(s)
    BY <2>1, FS_Subset
  <2>3. s # {}
    BY <2>1, <2>2, SumUnfolds
  <2>4. Picked(s) \in s /\ s \ {Picked(s)} \notin Bad
    BY <2>1, <2>2, <2>3, SumUnfolds
  <2>5. QED
    BY ZenonT(40), <2>1, <2>2, <2>3, <2>4, SumUnfolds
<1>2. QED
  BY <1>1

\* A sum of natural numbers is one.
THEOREM SumType ==
    ASSUME NEW S, IsFiniteSet(S), NEW f, \A x \in S : f[x] \in Nat
    PROVE  SumFunctionOnSet(f, S) \in Nat
<1> DEFINE Bad == {s \in SUBSET S : SumFunctionOnSet(f, s) \notin Nat}
<1>1. ASSUME Bad # {} PROVE FALSE
  <2> Bad \subseteq SUBSET S
    OBVIOUS
  <2> HIDE DEF Bad
  <2>1. PICK s \in Bad : \A t \in Bad : t \subseteq s => t = s
    BY <1>1, MinimalSubset
  <2> USE DEF Bad
  <2>2. IsFiniteSet(s)
    BY <2>1, FS_Subset
  <2>3. s # {}
    <3>1. SumFunctionOnSet(f, s) \notin Nat
      BY <2>1
    <3>2. s = {} => SumFunctionOnSet(f, s) = 0
      BY <2>2, SumUnfolds
    <3>3. QED
      BY <3>1, <3>2
  <2>4. Picked(s) \in s /\ s \ {Picked(s)} \notin Bad
    BY <2>1, <2>2, <2>3, SumUnfolds
  <2>5. SumFunctionOnSet(f, s) = f[Picked(s)] + SumFunctionOnSet(f, s \ {Picked(s)})
    BY <2>2, <2>3, SumUnfolds
  <2>6. f[Picked(s)] \in Nat /\ SumFunctionOnSet(f, s \ {Picked(s)}) \in Nat
    BY <2>1, <2>4
  <2>7. SumFunctionOnSet(f, s) \notin Nat
    BY <2>1
  <2>8. QED
    BY <2>5, <2>6, <2>7
<1>2. QED
  BY <1>1

\* Any element may be taken out first, not only the one that CHOOSE picks.
THEOREM SumTakesOut ==
    ASSUME NEW S, IsFiniteSet(S), NEW f, \A x \in S : f[x] \in Nat, NEW e \in S
    PROVE  SumFunctionOnSet(f, S) = f[e] + SumFunctionOnSet(f, S \ {e})
<1> DEFINE Bad == {s \in SUBSET S : \E x \in s :
                      SumFunctionOnSet(f, s) # f[x] + SumFunctionOnSet(f, s \ {x})}
<1>1. ASSUME Bad # {} PROVE FALSE
  <2> Bad \subseteq SUBSET S
    OBVIOUS
  <2> HIDE DEF Bad
  <2>1. PICK s \in Bad : \A t \in Bad : t \subseteq s => t = s
    BY <1>1, MinimalSubset
  <2> USE DEF Bad
  <2>2. PICK x \in s : SumFunctionOnSet(f, s) # f[x] + SumFunctionOnSet(f, s \ {x})
    BY <2>1
  <2> DEFINE p == Picked(s)
             both == s \ {p, x}
  <2>3. IsFiniteSet(s) /\ IsFiniteSet(s \ {x}) /\ IsFiniteSet(both)
    BY <2>1, FS_Subset
  <2>4. p \in s /\ SumFunctionOnSet(f, s) = f[p] + SumFunctionOnSet(f, s \ {p})
    BY <2>2, <2>3, SumUnfolds
  <2>5. p # x
    BY <2>2, <2>4
  <2>6. s \ {p} \notin Bad /\ s \ {x} \notin Bad
    BY <2>1, <2>2, <2>4
  <2>7. (s \ {p}) \ {x} = both /\ (s \ {x}) \ {p} = both
    OBVIOUS
  <2>8. SumFunctionOnSet(f, s \ {p}) = f[x] + SumFunctionOnSet(f, both)
    BY <2>2, <2>5, <2>6, <2>7
  <2>9. SumFunctionOnSet(f, s \ {x}) = f[p] + SumFunctionOnSet(f, both)
    BY <2>2, <2>4, <2>5, <2>6, <2>7
  <2>10. f[p] \in Nat /\ f[x] \in Nat /\ SumFunctionOnSet(f, both) \in Nat
    <3>1. \A y \in both : f[y] \in Nat
      OBVIOUS
    <3>2. QED
      BY <2>3, <2>4, <3>1, SumType
  <2> HIDE DEF p, both
  <2>11. QED
    BY <2>2, <2>4, <2>8, <2>9, <2>10
<1>2. QED
  BY <1>1

\* The sum over a set is that over a part of it and that over the rest.
THEOREM SumSplits ==
    ASSUME NEW S, IsFiniteSet(S), NEW f, \A x \in S : f[x] \in Nat, NEW T \in SUBSET S
    PROVE  SumFunctionOnSet(f, S) = SumFunctionOnSet(f, T) + SumFunctionOnSet(f, S \ T)
<1> DEFINE Bad == {t \in SUBSET S :
                      SumFunctionOnSet(f, S) # SumFunctionOnSet(f, t) + SumFunctionOnSet(f, S \ t)}
<1>1. ASSUME Bad # {} PROVE FALSE
  <2> Bad \subseteq SUBSET S
    OBVIOUS
  <2> HIDE DEF Bad
  <2>1. PICK t \in Bad : \A u \in Bad : u \subseteq t => u = t
    BY <1>1, MinimalSubset
  <2> USE DEF Bad
  <2>2. IsFiniteSet(t) /\ IsFiniteSet(S \ t) /\ t \subseteq S
    BY <2>1, FS_Subset
  <2>3. CASE t = {}
    <3>1. SumFunctionOnSet(f, {}) = 0 /\ S \ {} = S
      BY <2>2, <2>3, SumUnfolds
    <3>2. SumFunctionOnSet(f, S) \in Nat
      BY SumType
    <3>3. QED
      BY <2>1, <2>3, <3>1, <3>2
  <2>4. CASE t # {}
    <3>1. PICK e \in t : TRUE
      BY <2>4
    <3> DEFINE u == t \ {e}
               rest == S \ u
    <3>2. IsFiniteSet(u) /\ IsFiniteSet(rest) /\ e \in rest /\ rest \ {e} = S \ t /\ e \in S
      BY <2>2, <3>1, FS_Subset
    <3>3. u \notin Bad /\ u \in SUBSET S
      BY <2>1, <2>2, <3>1
    <3>4. SumFunctionOnSet(f, S) = SumFunctionOnSet(f, u) + SumFunctionOnSet(f, rest)
      BY <3>3
    <3>5. \A x \in t : f[x] \in Nat
      BY <2>2
    <3>6. SumFunctionOnSet(f, t) = f[e] + SumFunctionOnSet(f, u)
      BY <2>2, <3>1, <3>5, SumTakesOut
    <3>7. \A x \in rest : f[x] \in Nat
      OBVIOUS
    <3>8. SumFunctionOnSet(f, rest) = f[e] + SumFunctionOnSet(f, S \ t)
      BY <3>2, <3>7, SumTakesOut
    <3>9. f[e] \in Nat /\ SumFunctionOnSet(f, u) \in Nat /\ SumFunctionOnSet(f, S \ t) \in Nat
      <4>1. (\A x \in u : f[x] \in Nat) /\ (\A x \in S \ t : f[x] \in Nat)
        BY <2>2
      <4>2. QED
        BY <2>2, <3>2, <4>1, SumType
    <3>10. SumFunctionOnSet(f, S) # SumFunctionOnSet(f, t) + SumFunctionOnSet(f, S \ t)
      BY <2>1
    <3> HIDE DEF u, rest, Bad
    <3>11. QED
      BY <3>4, <3>6, <3>8, <3>9, <3>10
  <2>5. QED
    BY <2>3, <2>4
<1>2. QED
  BY <1>1

\* Nothing adds up to nothing.
LEMMA SumOfZeros ==
    ASSUME NEW S, IsFiniteSet(S), NEW f, \A x \in S : f[x] = 0
    PROVE  SumFunctionOnSet(f, S) = 0
<1> DEFINE Bad == {s \in SUBSET S : SumFunctionOnSet(f, s) # 0}
<1>1. ASSUME Bad # {} PROVE FALSE
  <2>0. Bad \subseteq SUBSET S /\ \A t \in Bad : SumFunctionOnSet(f, t) # 0
    OBVIOUS
  <2>6. \A t \in SUBSET S : SumFunctionOnSet(f, t) # 0 => t \in Bad
    OBVIOUS
  <2> HIDE DEF Bad
  <2>1. PICK s \in Bad : \A t \in Bad : t \subseteq s => t = s
    BY <1>1, <2>0, MinimalSubset
  <2>2. s \in SUBSET S /\ IsFiniteSet(s) /\ SumFunctionOnSet(f, s) # 0
    BY <2>0, <2>1, FS_Subset
  <2>3. s # {} /\ Picked(s) \in s
    BY <2>2, SumUnfolds
  <2>4. SumFunctionOnSet(f, s) = f[Picked(s)] + SumFunctionOnSet(f, s \ {Picked(s)})
    BY <2>2, <2>3, SumUnfolds
  <2>5. SumFunctionOnSet(f, s \ {Picked(s)}) = 0
    BY <2>1, <2>2, <2>3, <2>6
  <2> QED BY <2>2, <2>3, <2>4, <2>5
<1> QED BY <1>1
================================================================================
