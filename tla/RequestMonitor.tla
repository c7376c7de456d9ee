---------------------------- MODULE RequestMonitor ----------------------------
(***************************************************************************)
(* The monitor's store as a value: requests under way, a bounded list of    *)
(* finished ones, and the token totals of each session.  Every operation is *)
(* one event that is applied under the store's lock.                        *)
(*                                                                          *)
(* Input and output tokens are counted in the same way, so there is one     *)
(* count.  Absent is a count that was never reported, and the session of a    *)
(* request that named none.  Times are left out: what pruning finds to be   *)
(* old is an input.                                                         *)
(***************************************************************************)
EXTENDS Naturals, Sequences, FiniteSets, Functions, SequencesExt, FiniteSetsExt

CONSTANTS
    Absent,
    RecentLimit   \* recent_limit

ASSUME RequestMonitorAssumption == RecentLimit \in Nat \ {0} /\ Absent \notin Nat

Counted(count) == IF count = Absent THEN 0 ELSE count

EmptyStore == [active |-> <<>>, recent |-> <<>>, usage |-> <<>>, samples |-> <<>>]

Set(f, x, y) == [z \in DOMAIN f \union {x} |-> IF z = x THEN y ELSE f[z]]
At(f, x)     == IF x \in DOMAIN f THEN f[x] ELSE 0

\* update_token_count: counts only grow, and what is reported twice counts once.
Larger(count, reported) ==
    IF reported = Absent THEN count
    ELSE IF count = Absent \/ reported > count THEN reported ELSE count

Growth(count, reported) ==
    IF reported = Absent \/ reported <= Counted(count) THEN 0 ELSE reported - Counted(count)

UsedMore(store, session, tokens) ==
    [store EXCEPT !.usage = Set(@, session, At(@, session) + tokens)]

Sampled(store, session, tokens) ==
    IF tokens = 0 THEN store
    ELSE [store EXCEPT !.samples = Set(@, session, At(@, session) + tokens)]

Started(store, id, session) ==
    [store EXCEPT !.active = Set(@, id, [session |-> session, tokens |-> Absent])]

Positions(store, id) == {i \in DOMAIN store.recent : store.recent[i].id = id}

\* StreamProgress and UsageUpdated: they may come after the request has finished.
Reported(store, id, reported) ==
    IF id \in DOMAIN store.active
    THEN LET known == store.active[id]
         IN  UsedMore([store EXCEPT !.active[id].tokens = Larger(@, reported)],
                      known.session, Growth(known.tokens, reported))
    ELSE IF Positions(store, id) = {} THEN store
    ELSE LET i == Min(Positions(store, id))
             known == store.recent[i]
             more == Growth(known.tokens, reported)
         IN  Sampled(UsedMore([store EXCEPT !.recent[i].tokens = Larger(@, reported)],
                              known.session, more), known.session, more)

\* finish: RequestCompleted and RequestFailed.  A request that is not under way
\* is entered as one without a session.
Finished(store, id) ==
    LET known == IF id \in DOMAIN store.active THEN store.active[id]
                 ELSE [session |-> Absent, tokens |-> Absent]
        entry == [id |-> id, session |-> known.session, tokens |-> known.tokens]
        list  == <<entry>> \o store.recent
        left  == [store EXCEPT !.active = Restrict(@, DOMAIN @ \ {id}),
                               !.recent = SubSeq(list, 1, IF Len(list) > RecentLimit
                                                          THEN RecentLimit ELSE Len(list))]
    IN  Sampled(UsedMore(left, known.session, 0), known.session, Counted(known.tokens))

\* A mutant of Abandoned: it does not look whether the request is under way.
AbandonedAnyway(store, id) == Finished(store, id)

\* finish_active: RequestAbandoned
Abandoned(store, id) == IF id \in DOMAIN store.active THEN Finished(store, id) ELSE store

Retained(store) ==
    {store.active[id].session : id \in DOMAIN store.active}
    \union {store.recent[i].session : i \in DOMAIN store.recent}

\* prune_session_history: the totals of `aged` sessions that nothing refers to,
\* and the history of the `stale` ones, which is pruned by buckets of time.  Who
\* is old after a day has no history of the last hour.
MayPrune(store, aged, stale) == aged \cap DOMAIN store.samples \subseteq stale
Pruned(store, aged, stale) ==
    [store EXCEPT !.usage   = Restrict(@, DOMAIN @ \ (aged \ Retained(store))),
                  !.samples = Restrict(@, DOMAIN @ \ stale)]

-----------------------------------------------------------------------------
(* What the totals have to be. *)

\* The tokens that the entries at these positions of a list count for a session.
Tokens(list, positions, session) ==
    LET mine == {i \in positions : list[i].session = session}
    IN  SumFunctionOnSet([i \in mine |-> Counted(list[i].tokens)], mine)

Total(list, session) == Tokens(list, DOMAIN list, session)

UnderWay(store, session) ==
    LET mine == {id \in DOMAIN store.active : store.active[id].session = session}
    IN  SumFunctionOnSet([id \in mine |-> Counted(store.active[id].tokens)], mine)
===============================================================================
