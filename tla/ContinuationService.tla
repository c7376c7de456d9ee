-------------------------- MODULE ContinuationService --------------------------
(***************************************************************************)
(* What the continuation registry promises to the turns of a conversation,  *)
(* without locks, clocks, sizes or evictions: each owner has at most one     *)
(* current turn, only that turn's answer is ever offered, and an offer goes  *)
(* to one later turn of the same owner or to nobody.  The service may forget *)
(* any owner at any time; that costs a full-context request and nothing else. *)
(***************************************************************************)
EXTENDS Naturals

CONSTANTS Owner, Turn, None

VARIABLES
    issued,   \* the turn numbers given out
    waiting,  \* those that have not entered yet
    current,  \* [Owner -> the turn that entered last, or None]
    offer,    \* [Owner -> the answered turn its next turn may continue, or None]
    given     \* <<turn, answered turn>>: the offers that running turns hold

vars == <<issued, waiting, current, offer, given>>

Init ==
    /\ issued = {} /\ waiting = {} /\ given = {}
    /\ current = [o \in Owner |-> None]
    /\ offer = [o \in Owner |-> None]

Number(t) ==
    /\ t \in Turn \ issued
    /\ issued' = issued \union {t}
    /\ waiting' = waiting \union {t}
    /\ UNCHANGED <<current, offer, given>>

\* A turn enters once.  It takes its owner's place and, if it can use it, the offer.
Enter(o, t, lost) ==
    /\ t \in waiting
    /\ waiting' = waiting \ {t}
    /\ current' = [p \in Owner |-> IF p \in lost THEN None
                                   ELSE IF p = o THEN t ELSE current[p]]
    /\ offer' = [p \in Owner |-> IF p \in lost \union {o} THEN None ELSE offer[p]]
    /\ \/ given' = given
       \/ offer[o] # None /\ given' = given \union {<<t, offer[o]>>}
    /\ UNCHANGED issued

\* The current turn is answered.
Answer(o, lost) ==
    /\ current[o] # None
    /\ current' = [p \in Owner |-> IF p \in lost THEN None ELSE current[p]]
    /\ offer' = [p \in Owner |-> IF p \in lost THEN None
                                 ELSE IF p = o THEN current[o] ELSE offer[p]]
    /\ UNCHANGED <<issued, waiting, given>>

Forget(lost) ==
    /\ current' = [p \in Owner |-> IF p \in lost THEN None ELSE current[p]]
    /\ offer' = [p \in Owner |-> IF p \in lost THEN None ELSE offer[p]]
    /\ UNCHANGED <<issued, waiting, given>>

\* A turn ends, or goes on without what it was offered.
Release(held) ==
    /\ given' = given \ {held}
    /\ UNCHANGED <<issued, waiting, current, offer>>

Next ==
    \/ \E t \in Turn : Number(t)
    \/ \E lost \in SUBSET Owner :
           \/ \E o \in Owner : Answer(o, lost) \/ \E t \in waiting : Enter(o, t, lost)
           \/ Forget(lost)
    \/ \E held \in given : Release(held)

Spec == Init /\ [][Next]_vars
=============================================================================
