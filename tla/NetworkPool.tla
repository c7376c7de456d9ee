------------------------------ MODULE NetworkPool ------------------------------
(***************************************************************************)
(* The network monitor of the Codex backend, its watcher on macOS, and the  *)
(* HTTP client pools built on it.  A change of the path interrupts whatever *)
(* holds a lease; any change retires the pooled client, and so does a       *)
(* failure of a request that used it.                                       *)
(*                                                                          *)
(* The identity of the network is a path and the rest (DNS, proxies, IPv6   *)
(* addresses).  A client is what the pool's factory made at one moment, and *)
(* is named by the revision under which it was made.                        *)
(***************************************************************************)
EXTENDS Naturals

CONSTANTS
    Holder,      \* requests, each used once
    Path, Extra, \* values of the path and of the rest of the identity
    MaxMoves     \* bound: how often the network changes

ASSUME NetworkPoolAssumption == MaxMoves \in Nat /\ Path # {} /\ Extra # {}

VARIABLES
    network,    \* the identity the operating system would report
    moves,      \* its changes so far
    watcher,    \* the watcher thread: where it stands, and the identity it saw last
    pending,    \* a notification waits for the quiet window to pass
    generation, path_generation,
    cached,     \* CachedClient: generation, revision, and whether there is a client
    holder,     \* [Holder -> its lease, and the revision of its client]
    failed,     \* history: revisions whose client a request found broken
    made        \* history: [revisions made -> the generation it was made for]

networkVars == <<network, moves, watcher, pending, generation, path_generation,
                 cached, holder, failed, made>>

Identity == [path: Path, extra: Extra]

NetworkTypeOK ==
    /\ network \in Identity /\ moves \in 0 .. MaxMoves
    /\ watcher \in [at: {"initial", "registered", "watching"}, previous: Identity]
    /\ pending \in BOOLEAN
    /\ generation \in Nat /\ path_generation \in Nat
    /\ cached \in [generation: Nat, revision: Nat, client: BOOLEAN]
    /\ holder \in [Holder -> [at: {"idle", "leased", "using", "over"},
                              lease: Nat, revision: Nat, observed: Nat]]
    /\ failed \subseteq Nat
    /\ made \in [0 .. cached.revision -> Nat]

NetworkInit ==
    /\ network \in Identity /\ moves = 0
    /\ watcher = [at |-> "initial", previous |-> network] /\ pending = FALSE
    /\ generation = 0 /\ path_generation = 0
    /\ cached = [generation |-> 0, revision |-> 0, client |-> TRUE]
    /\ holder = [h \in Holder |-> [at |-> "idle", lease |-> 0, revision |-> 0, observed |-> 0]]
    /\ failed = {} /\ made = [r \in 0 .. 0 |-> 0]

poolVars == <<cached, holder, failed, made>>
osVars == <<network, moves>>
watchVars == <<watcher, pending, generation, path_generation>>

-----------------------------------------------------------------------------
(* The watcher. *)

\* The system's configuration changes; a registered watcher is called back.
Move ==
    /\ moves < MaxMoves /\ moves' = moves + 1
    /\ network' \in Identity
    /\ pending' = (pending \/ watcher.at # "initial")
    /\ UNCHANGED <<watcher, generation, path_generation, poolVars>>

\* set_notification_keys and the source of the run loop.
Register ==
    /\ watcher.at = "initial"
    /\ watcher' = [watcher EXCEPT !.at = "registered"]
    /\ UNCHANGED <<osVars, pending, generation, path_generation, poolVars>>

StartWatching ==
    /\ watcher.at = "registered"
    /\ pending' = TRUE
    /\ watcher' = [watcher EXCEPT !.at = "watching"]
    /\ UNCHANGED <<osVars, generation, path_generation, poolVars>>

\* The quiet window is over: settled, and observe with the snapshot of then.
Settled ==
    /\ watcher.at = "watching" /\ pending
    /\ pending' = FALSE
    /\ watcher' = [watcher EXCEPT !.previous = network]
    /\ generation' = IF network # watcher.previous THEN generation + 1 ELSE generation
    /\ path_generation' = IF network.path # watcher.previous.path THEN path_generation + 1
                          ELSE path_generation
    /\ UNCHANGED <<osVars, poolVars>>

-----------------------------------------------------------------------------
(* The users of a pool. *)

Lease(h) ==
    /\ holder[h].at = "idle"
    /\ holder' = [holder EXCEPT ![h].at = "leased", ![h].lease = path_generation]
    /\ UNCHANGED <<osVars, watchVars, cached, failed, made>>

\* get_with_revision
Get(h) ==
    LET rebuilds == cached.generation # generation \/ ~cached.client
        revision == IF rebuilds THEN cached.revision + 1 ELSE cached.revision
    IN  /\ holder[h].at = "leased"
        /\ cached' = [generation |-> generation, revision |-> revision, client |-> TRUE]
        /\ made' = [r \in 0 .. revision |-> IF r > cached.revision THEN generation ELSE made[r]]
        /\ holder' = [holder EXCEPT ![h].at = "using", ![h].revision = revision,
                                    ![h].observed = generation]
        /\ UNCHANGED <<osVars, watchVars, failed>>

\* A mutant of Retires: a failure retires whatever client is there.
RetiresAny(revision) == TRUE

Retires(revision) == cached.revision = revision

\* The request's connection fails, sending or reading: retire.
Fails(h) ==
    LET revision == holder[h].revision
    IN  /\ holder[h].at = "using"
        /\ cached' = IF Retires(revision) THEN [cached EXCEPT !.client = FALSE] ELSE cached
        /\ failed' = failed \union {revision}
        /\ holder' = [holder EXCEPT ![h].at = "over"]
        /\ UNCHANGED <<osVars, watchVars, made>>

\* NetworkLease::run: the lease is not current any more, or the work is done.
Ends(h) ==
    /\ \/ holder[h].at \in {"leased", "using"} /\ holder[h].lease # path_generation
       \/ holder[h].at = "using"
    /\ holder' = [holder EXCEPT ![h].at = "over"]
    /\ UNCHANGED <<osVars, watchVars, cached, failed, made>>

NetworkNext ==
    \/ Move \/ Register \/ StartWatching \/ Settled
    \/ \E h \in Holder : Lease(h) \/ Get(h) \/ Fails(h) \/ Ends(h)

NetworkSpec == NetworkInit /\ [][NetworkNext]_networkVars

-----------------------------------------------------------------------------
(* The pool holds a client exactly when no request has found that client
   broken: a late failure of an older revision discards no newer client, and a
   broken one is never handed out again (ClientPool::retire). *)
CachedIffHealthy == cached.client <=> cached.revision \notin failed

(* Requests that share a client obtained it under one network generation, so a
   pool that an observed change retired serves nobody who came after it. *)
SharedWithinGeneration ==
    \A h \in Holder : holder[h].at = "using" => holder[h].observed = made[holder[h].revision]

(* When no notification is pending, the watcher has seen the network as it is:
   no change is missed, during its registration either. *)
NothingMissed ==
    watcher.at = "watching" /\ ~pending => watcher.previous = network

NetworkSafety == NetworkTypeOK /\ CachedIffHealthy /\ SharedWithinGeneration /\ NothingMissed
================================================================================
