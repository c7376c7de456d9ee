------------------------------ MODULE FastBridge ------------------------------
(***************************************************************************)
(* The fast bridge: the loopback server between Claude Code and the          *)
(* translator.  It keeps two tables: the sessions that a PreCompact hook has  *)
(* armed for a fold, and the model each conversation has selected, from       *)
(* which it undoes Claude Code's `/fast`.                                     *)
(*                                                                          *)
(* A conversation is a session's main thread or one of its agents; it has one *)
(* prompt or compaction at a time, and auxiliary requests beside it.          *)
(***************************************************************************)
EXTENDS FoldPlan

CONSTANTS
    Conversation,
    SessionOf,    \* [Conversation -> its session]
    Launch,       \* [Conversation -> the model of its launch, in a header]
    Request,
    Codex,        \* models the translator serves
    Claude,       \* models Anthropic serves, `anthropic/...`
    Shadow,       \* the bare Claude model Claude Code names while /fast is on
    Judge,        \* the native model of permission classifiers
    Folds,        \* the compactions that are asked for
    Nil,
    MaxRoutes,    \* MAX_TRACKED_ROUTES
    MaxTries,     \* sends of one fold round
    MaxSends,     \* sends of one forwarded request: 1 + UPSTREAM_RETRIES
    MaxHooks,     \* bound: PreCompact hooks of a session
    MaxSwitches,  \* bound: switches of the model or of /fast, over all conversations
    MaxBridgeFaults     \* bound: failing requests, dropped clients, network changes

Model   == Codex \union Claude
BridgeSession == {SessionOf[c] : c \in Conversation}

ASSUME BridgeAssumption ==
    /\ Launch \in [Conversation -> Model]
    /\ Shadow \notin Model /\ Judge \notin Model \union {Shadow}
    /\ Nil \notin Model \union {Shadow, Judge}
    /\ \A n \in {MaxRoutes, MaxTries, MaxSends} : n \in Nat \ {0}
    /\ MaxHooks \in Nat /\ MaxSwitches \in Nat /\ MaxBridgeFaults \in Nat
    /\ \A fold \in Folds : /\ fold.counts \in Seq(Nat)
                           /\ {fold.ceiling, fold.overhead, fold.output} \subseteq Nat

VARIABLES
    armed,     \* [BridgeSession -> "no", "live" or "stale"]
    route,     \* [Conversation -> RouteState or Nil]
    pick,      \* [Conversation -> the model its user has selected]
    mode,      \* [Conversation -> "plain", "fast", or "back" from fast]
    learned,   \* [Conversation -> what its requests have told the bridge of them]
    ask,       \* [Request -> what was asked, Nil before]
    pc,        \* [Request -> where it stands]
    sent,      \* [Request -> model and tier of the forwarded request]
    tries,     \* [Request -> sends so far, of the request or of the fold round]
    rounds,    \* [Request -> the plan of its fold]
    summary,   \* [Request -> messages the carried summary stands for]
    hooks,     \* [BridgeSession -> PreCompact hooks so far]
    folds,     \* [BridgeSession -> folds so far]
    overlapped,\* [BridgeSession -> two compactions were counted at a time]
    switches, bridgeFaults

tables == <<armed, route>>
users  == <<pick, mode, learned, switches>>
work   == <<ask, pc, sent, tries, rounds, summary>>
counts == <<hooks, folds, overlapped>>
bridgeVars   == <<tables, users, work, counts, bridgeFaults>>

RouteState == [selected : Model, shadow : Model \union {Shadow, Nil}, on : BOOLEAN]
Sent == [model : Model \union {Shadow, Judge}, fast : BOOLEAN, knows : BOOLEAN]
Ask == [of : Conversation, kind : {"prompt", "aux", "review", "compact"},
        model : Model \union {Shadow, Judge}, fast : BOOLEAN,
        want : Model, fold : Folds \union {Nil}]

\* Nil is told from all of them.
ASSUME NilAssumption == Nil \notin RouteState \union Sent \union Ask \union Folds

Ended == {"idle", "done", "failed", "gone"}

BridgeTypeOK ==
    /\ armed \in [BridgeSession -> {"no", "live", "stale"}]
    /\ route \in [Conversation -> RouteState \union {Nil}]
    /\ pick \in [Conversation -> Model]
    /\ mode \in [Conversation -> {"plain", "fast", "back"}]
    /\ learned \in [Conversation -> SUBSET {"pick", "shadow"}]
    /\ ask \in [Request -> Ask \union {Nil}]
    /\ pc \in [Request -> Ended \union {"new", "count", "send", "stream", "fold", "lost"}]
    /\ sent \in [Request -> Sent \union {Nil}]
    /\ \A r \in Request : tries[r] \in 0 .. (IF pc[r] \in {"fold", "lost"} THEN MaxTries ELSE MaxSends) - 1
    /\ Cardinality({c \in Conversation : route[c] # Nil}) <= MaxRoutes

BridgeInit ==
    /\ armed = [s \in BridgeSession |-> "no"]
    /\ route = [c \in Conversation |-> Nil]
    /\ pick = Launch
    /\ mode = [c \in Conversation |-> "plain"]
    /\ learned = [c \in Conversation |-> {"pick"}]
    /\ ask = [r \in Request |-> Nil]
    /\ pc = [r \in Request |-> "idle"]
    /\ sent = [r \in Request |-> Nil]
    /\ tries = [r \in Request |-> 0]
    /\ rounds = [r \in Request |-> <<>>]
    /\ summary = [r \in Request |-> <<>>]
    /\ hooks = [s \in BridgeSession |-> 0] /\ folds = [s \in BridgeSession |-> 0]
    /\ overlapped = [s \in BridgeSession |-> FALSE]
    /\ switches = 0 /\ bridgeFaults = 0
-----------------------------------------------------------------------------
Set(f, x, y) == [f EXCEPT ![x] = y]
BridgeFault == bridgeFaults < MaxBridgeFaults /\ bridgeFaults' = bridgeFaults + 1

MainKind   == {"prompt", "compact"}
Goes(r, to) == pc' = Set(pc, r, to)

(* Claude Code: its user, its requests, its PreCompact hook. *)

Switches == switches < MaxSwitches /\ switches' = switches + 1

\* The user selects a model, which also ends /fast.
Pick(c, m) ==
    /\ Switches
    /\ m # pick[c] \/ mode[c] # "plain"
    /\ pick' = Set(pick, c, m) /\ mode' = Set(mode, c, "plain")
    /\ learned' = IF m = pick[c] THEN learned ELSE Set(learned, c, learned[c] \ {"pick"})
    /\ UNCHANGED <<tables, work, counts, bridgeFaults>>

\* /fast on, and off again: Claude Code goes on naming the shadow.
Toggle(c) ==
    /\ Switches
    /\ mode' = Set(mode, c, IF mode[c] = "fast" THEN "back" ELSE "fast")
    /\ UNCHANGED <<pick, learned, tables, work, counts, bridgeFaults>>

Arrive(r, c, kind, fold) ==
    /\ ask[r] = Nil
    /\ fold # Nil <=> kind = "compact"
    /\ kind \in MainKind => \A q \in Request :
           ask[q] # Nil /\ ask[q].of = c /\ ask[q].kind \in MainKind => pc[q] \in Ended \union {"lost"}
    /\ \E m \in CASE kind = "aux" -> Codex [] kind = "review" -> {Judge}
                  [] OTHER -> {IF mode[c] = "plain" THEN pick[c] ELSE Shadow} :
           ask' = Set(ask, r, [of |-> c, kind |-> kind, model |-> m, want |-> pick[c],
                               fast |-> kind \in MainKind /\ mode[c] = "fast", fold |-> fold])
    /\ Goes(r, "new")
    /\ UNCHANGED <<tables, users, sent, tries, rounds, summary, counts, bridgeFaults>>

\* The caller disconnects: the handler is dropped where it waits, the task of a
\* fold goes on.
CallerLeaves(r) ==
    /\ pc[r] \in {"new", "count", "send", "stream", "fold"} /\ BridgeFault
    /\ Goes(r, IF pc[r] = "fold" THEN "lost" ELSE "gone")
    /\ UNCHANGED <<tables, users, ask, sent, tries, rounds, summary, counts>>

\* arm_compaction: stale records go, this one is new.
Hook(s) ==
    /\ hooks[s] < MaxHooks
    /\ hooks' = Set(hooks, s, hooks[s] + 1)
    /\ armed' = [t \in BridgeSession |-> IF t = s THEN "live" ELSE IF armed[t] = "stale" THEN "no" ELSE armed[t]]
    /\ UNCHANGED <<route, users, work, folds, overlapped, bridgeFaults>>

\* ARM_TTL has passed.
Lapse(s) ==
    /\ armed[s] = "live"
    /\ armed' = Set(armed, s, "stale")
    /\ UNCHANGED <<route, users, work, counts, bridgeFaults>>

-----------------------------------------------------------------------------
(* rewrite_request, the route table.  The lock covers all of it. *)

Tools(a) == a.kind \in MainKind
Entry(c) == IF route[c] # Nil THEN route[c]
            ELSE [selected |-> Launch[c], shadow |-> Nil, on |-> FALSE]

\* Adding to a full table empties it.
Full(c) ==
    /\ route[c] = Nil
    /\ Cardinality({d \in Conversation : route[d] # Nil}) >= MaxRoutes

IsShadow(a) == Entry(a.of).on /\ Entry(a.of).shadow = a.model

\* The conversation's entry after the request a.
EntryAfter(a) ==
    IF a.fast THEN [Entry(a.of) EXCEPT !.shadow = a.model, !.on = TRUE]
    ELSE IF Tools(a) /\ ~IsShadow(a) /\ a.model \in Model
    THEN [selected |-> a.model, shadow |-> Nil, on |-> FALSE]
    ELSE Entry(a.of)

\* Mutant: turning /fast off is not undone.
RoutedWhileFast(a) == IF a.fast THEN Entry(a.of).selected ELSE a.model

\* The model the request a is forwarded with.
Routed(a) ==
    IF a.fast \/ (Tools(a) /\ IsShadow(a)) THEN Entry(a.of).selected ELSE a.model

\* What the bridge has been told after a: a plain request of the main thread
\* names the selection, a fast one the shadow; an emptied table knows nothing but
\* the launch.
Told(a) ==
    LET before == IF Full(a.of)
                  THEN [d \in Conversation |-> IF pick[d] = Launch[d] THEN {"pick"} ELSE {}]
                  ELSE learned
        mine   == IF a.fast THEN before[a.of] \union {"shadow"}
                  ELSE IF Tools(a) /\ a.model \in Model THEN {x \in {"pick"} : a.model = pick[a.of]}
                  ELSE before[a.of]
    IN  Set(before, a.of, mine)

Forward(r) ==
    LET a == ask[r] IN
    /\ route' = Set(IF Full(a.of) THEN [d \in Conversation |-> Nil] ELSE route, a.of, EntryAfter(a))
    /\ learned' = Told(a)
    /\ sent' = Set(sent, r, [model |-> Routed(a), fast |-> a.fast /\ Routed(a) \in Codex,
                             knows |-> /\ "pick" \in learned[a.of] /\ ~Full(a.of)
                                       /\ a.model = Shadow => a.want = pick[a.of]
                                       /\ a.model = Shadow /\ ~a.fast => "shadow" \in learned[a.of]])
    /\ Goes(r, "send")

-----------------------------------------------------------------------------
(* proxy_inner up to the first send. *)

\* The checks of hierarchical_compaction before it counts tokens.
MayFold(a) ==
    /\ a.kind = "compact"
    /\ armed[SessionOf[a.of]] = "live"
    /\ a.model \notin Claude

\* A permission classifier goes to Anthropic as it is; a compaction that may fold
\* has its tokens counted; everything else is rewritten.
Enter(r) ==
    LET a == ask[r]
        others == {q \in Request : pc[q] = "count" /\ SessionOf[ask[q].of] = SessionOf[a.of]}
    IN
    /\ pc[r] = "new"
    /\ \/ /\ a.kind = "review"
          /\ sent' = Set(sent, r, [model |-> Judge, fast |-> FALSE, knows |-> FALSE])
          /\ Goes(r, "send")
          /\ UNCHANGED <<route, learned, overlapped>>
       \/ /\ MayFold(a)
          /\ Goes(r, "count")
          /\ overlapped' = IF others = {} THEN overlapped ELSE Set(overlapped, SessionOf[a.of], TRUE)
          /\ UNCHANGED <<route, learned, sent>>
       \/ a.kind # "review" /\ ~MayFold(a) /\ Forward(r) /\ UNCHANGED overlapped
    /\ UNCHANGED <<armed, pick, mode, switches, ask, tries, rounds, summary, hooks, folds, bridgeFaults>>

\* A count failed.
CountFails(r) ==
    /\ pc[r] = "count" /\ BridgeFault
    /\ Forward(r)
    /\ UNCHANGED <<armed, pick, mode, switches, ask, tries, rounds, summary, counts>>

\* Does the conversation exceed the ceiling, and is there a plan that helps?
NeedsFold(fold) ==
    /\ Tokens(fold, 1, Len(fold.counts)) + fold.overhead > fold.ceiling
    /\ Len(Plan(fold)) >= 2

NoFold(r) ==
    /\ pc[r] = "count" /\ ~NeedsFold(ask[r].fold)
    /\ Forward(r)
    /\ UNCHANGED <<armed, pick, mode, switches, ask, tries, rounds, summary, counts, bridgeFaults>>

\* Mutant: the arming is not consumed.
CommitKeepsArming(r) ==
    LET s == SessionOf[ask[r].of] IN
    /\ pc[r] = "count" /\ NeedsFold(ask[r].fold)
    /\ folds' = Set(folds, s, folds[s] + 1)
    /\ rounds' = Set(rounds, r, Plan(ask[r].fold))
    /\ Goes(r, "fold")
    /\ UNCHANGED <<tables, users, ask, sent, tries, summary, hooks, overlapped, bridgeFaults>>

\* take_armed, whose result is not looked at, and the task of the fold.
Commit(r) ==
    LET s == SessionOf[ask[r].of] IN
    /\ pc[r] = "count" /\ NeedsFold(ask[r].fold)
    /\ armed' = Set(armed, s, "no")
    /\ folds' = Set(folds, s, folds[s] + 1)
    /\ rounds' = Set(rounds, r, Plan(ask[r].fold))
    /\ Goes(r, "fold")
    /\ UNCHANGED <<route, users, ask, sent, tries, summary, hooks, overlapped, bridgeFaults>>

-----------------------------------------------------------------------------
(* The fold: one request per round, and the end of the stream. *)

Folding(r) == pc[r] \in {"fold", "lost"}
Messages(round) == [i \in 1 .. round[2] - round[1] + 1 |-> round[1] + i - 1]

\* The new summary stands for what was carried in and the messages of the round.
RoundDone(r) ==
    /\ Folding(r)
    /\ summary' = Set(summary, r, summary[r] \o Messages(Head(rounds[r])))
    /\ rounds' = Set(rounds, r, Tail(rounds[r]))
    /\ tries' = Set(tries, r, 0)
    /\ Goes(r, IF Len(rounds[r]) > 1 THEN pc[r] ELSE IF pc[r] = "lost" THEN "gone" ELSE "done")
    /\ UNCHANGED <<tables, users, ask, sent, counts, bridgeFaults>>

\* Mutant: the fold ends as if the rounds so far were all.
RoundFailsQuietly(r) ==
    /\ Folding(r) /\ BridgeFault
    /\ IF tries[r] + 1 < MaxTries
       THEN tries' = Set(tries, r, tries[r] + 1) /\ UNCHANGED pc
       ELSE tries' = Set(tries, r, 0) /\ Goes(r, "done")
    /\ UNCHANGED <<tables, users, ask, sent, rounds, summary, counts>>

\* A try of the round failed; after the last one the stream ends with an error.
RoundFails(r) ==
    /\ Folding(r) /\ BridgeFault
    /\ IF tries[r] + 1 < MaxTries
       THEN tries' = Set(tries, r, tries[r] + 1) /\ UNCHANGED pc
       ELSE tries' = Set(tries, r, 0) /\ Goes(r, IF pc[r] = "lost" THEN "gone" ELSE "failed")
    /\ UNCHANGED <<tables, users, ask, sent, rounds, summary, counts>>

-----------------------------------------------------------------------------
(* The forwarded request. *)

ToAnthropic(r) == sent[r] # Nil /\ sent[r].model \in Claude \union {Judge}

Answered(r) ==
    /\ pc[r] = "send"
    /\ Goes(r, "stream")
    /\ UNCHANGED <<tables, users, ask, sent, tries, rounds, summary, counts, bridgeFaults>>

\* No answer, or a 502: the translator is asked again, Anthropic is not.
SendFails(r) ==
    /\ pc[r] = "send" /\ BridgeFault
    /\ IF ~ToAnthropic(r) /\ tries[r] + 1 < MaxSends
       THEN tries' = Set(tries, r, tries[r] + 1) /\ UNCHANGED pc
       ELSE Goes(r, "failed") /\ UNCHANGED tries
    /\ UNCHANGED <<tables, users, ask, sent, rounds, summary, counts>>

StreamEnds(r) ==
    /\ pc[r] = "stream"
    /\ \/ Goes(r, "done") /\ UNCHANGED bridgeFaults
       \/ Goes(r, "failed") /\ BridgeFault
    /\ UNCHANGED <<tables, users, ask, sent, tries, rounds, summary, counts>>

\* A change of the network ends what is under way to Anthropic, and only that.
NetworkChanges ==
    /\ BridgeFault
    /\ pc' = [r \in Request |-> IF pc[r] \in {"send", "stream"} /\ ToAnthropic(r)
                                THEN "failed" ELSE pc[r]]
    /\ UNCHANGED <<tables, users, ask, sent, tries, rounds, summary, counts>>

-----------------------------------------------------------------------------
BridgeNext ==
    \/ \E c \in Conversation : Toggle(c) \/ \E m \in Model : Pick(c, m)
    \/ \E r \in Request, c \in Conversation, kind \in {"prompt", "aux", "review", "compact"},
          fold \in Folds \union {Nil} : Arrive(r, c, kind, fold)
    \/ \E s \in BridgeSession : Hook(s) \/ Lapse(s)
    \/ \E r \in Request :
          \/ Enter(r) \/ CountFails(r) \/ NoFold(r) \/ Commit(r)
          \/ RoundDone(r) \/ RoundFails(r)
          \/ Answered(r) \/ SendFails(r) \/ StreamEnds(r) \/ CallerLeaves(r)
    \/ NetworkChanges

BridgeSpec == BridgeInit /\ [][BridgeNext]_bridgeVars

-----------------------------------------------------------------------------
(* Properties. *)

\* A compaction that ends as a success by a fold stands for every message once and
\* in order, whatever rounds had to be tried again.
FoldIsWhole ==
    \A r \in Request : pc[r] = "done" /\ sent[r] = Nil =>
        summary[r] = [m \in 1 .. Len(ask[r].fold.counts) |-> m]

\* The bridge's tables are in order, and its folds are whole.
BridgeInOrder == BridgeTypeOK /\ FoldIsWhole

\* "one `PreCompact` arms exactly one fold": unless two compactions of the session
\* have been counted at a time.  Then both may fold, since the second one's taking
\* of the arming is not looked at.
ArmsOneFold == \A s \in BridgeSession : folds[s] <= hooks[s] \/ overlapped[s]

\* README: /fast "does not switch the route".  Prompts and compactions go to the
\* selected model, provided that the selection has been used since it was made and
\* still is the selection when the request is rewritten,
\* that /fast has been used before it is turned off, and that the table has not
\* been emptied.
FastKeepsRoute ==
    \A r \in Request :
        sent[r] # Nil /\ ask[r].kind \in MainKind /\ sent[r].knows =>
            sent[r].model = ask[r].want

\* "A Claude-routed compaction is forwarded to Anthropic untouched": whatever is
\* folded was asked of a conversation that has selected a Codex model.
FoldsCodexOnly ==
    \A r \in Request : pc[r] \in {"fold", "lost"} => ask[r].want \in Codex
===============================================================================
