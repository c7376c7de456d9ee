----------------------------- MODULE MCFastBridge -----------------------------
(* A session with a main thread and an agent, for TLC. *)
EXTENDS FastBridge, TLC

CONSTANTS main, agent, sol, opus

SessionOfBoth == [c \in {main, agent} |-> "session"]
LaunchAll     == [c \in {main, agent} |-> IF c = main THEN sol ELSE opus]

Limits(n, most, outputs) ==
    [counts : [1 .. n -> 1 .. most], open : [1 .. n -> BOOLEAN],
     ceiling : {9}, overhead : {1}, output : outputs]

\* Up to five messages, for the planner.
Short == UNION {Limits(n, 4, 1 .. 4) : n \in 1 .. 3} \union Limits(4, 3, {1, 2}) \union Limits(5, 2, {2})

\* One that folds in two rounds, one in three, and one that fits.
Few == {[counts |-> <<3, 2, 2, 2>>, open |-> [m \in 1 .. 4 |-> m \notin closed],
         ceiling |-> 8, overhead |-> 1, output |-> 1] : closed \in {{2}, {3}}}
       \union {[counts |-> <<1, 1>>, open |-> <<TRUE, TRUE>>,
                ceiling |-> 8, overhead |-> 1, output |-> 1]}

ASSUME {Len(Plan(fold)) : fold \in Few} = {1, 2, 3}

\* The bridge with nothing planned beside it.
BridgeAlone ==
    BridgeInit /\ PlannerInit /\ [][BridgeNext /\ UNCHANGED planned]_<<bridgeVars, planned>>

Interchangeable == Permutations(Request)
===============================================================================
