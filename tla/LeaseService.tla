----------------------------- MODULE LeaseService -----------------------------
(***************************************************************************)
(* What the shared proxy promises to terminal sessions, without processes, *)
(* files or locks: a proxy that is up or down and the sessions holding a    *)
(* lease on it.  An untroubled proxy goes down only when nobody holds a      *)
(* lease; the other way to lose one is a fault, and faults are counted.     *)
(***************************************************************************)
EXTENDS Naturals

CONSTANT Launchers

VARIABLES
    up,       \* a supervisor is serving
    holders,  \* sessions holding a lease on it
    troubled, \* it was signalled, or its translator died: it is about to stop
    trouble   \* faults and crashes so far

vars == <<up, holders, troubled, trouble>>

LeaseTypeOK ==
    /\ up \in BOOLEAN
    /\ holders \subseteq Launchers
    /\ troubled \in BOOLEAN
    /\ trouble \in Nat

Init ==
    /\ up = FALSE
    /\ holders = {}
    /\ troubled = FALSE
    /\ trouble = 0

\* A supervisor starts serving; a signal may already be waiting for it.
ComeUp ==
    /\ ~up /\ up' = TRUE
    /\ troubled' \in (IF trouble > 0 THEN BOOLEAN ELSE {FALSE})
    /\ UNCHANGED <<holders, trouble>>

Grant(l) ==
    /\ up
    /\ holders' = holders \union {l}
    /\ UNCHANGED <<up, troubled, trouble>>

Release(l) ==
    /\ holders' = holders \ {l}
    /\ UNCHANGED <<up, troubled, trouble>>

\* The idle exit.
GoIdle ==
    /\ up /\ holders = {}
    /\ up' = FALSE /\ troubled' = FALSE
    /\ UNCHANGED <<holders, trouble>>

\* The exit that follows a signal or the death of the translator.
GiveUp ==
    /\ up /\ troubled
    /\ up' = FALSE /\ holders' = {} /\ troubled' = FALSE
    /\ UNCHANGED trouble

\* A fault: the supervisor goes on, is marked for its exit, or is gone.
Trouble ==
    /\ trouble' = trouble + 1
    /\ \/ UNCHANGED <<up, holders, troubled>>
       \/ up /\ troubled' = TRUE /\ UNCHANGED <<up, holders>>
       \/ up /\ up' = FALSE /\ holders' = {} /\ troubled' = FALSE

Next ==
    \/ ComeUp \/ GoIdle \/ GiveUp \/ Trouble
    \/ \E l \in Launchers : Grant(l) \/ Release(l)

Spec == Init /\ [][Next]_vars
=============================================================================
