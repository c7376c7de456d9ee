---------------------------- MODULE MCContinuation ----------------------------
(* The continuation registry on small sets; owners and requests may be swapped. *)
EXTENDS Continuation, TLC

Symmetry == Permutations(Owner) \union Permutations(Request)
=============================================================================
