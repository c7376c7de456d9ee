------------------------------ MODULE RequestPlan ------------------------------
(***************************************************************************)
(* What a request to the Codex upstream is besides its input: the model and *)
(* its lane, the tier, the tools and the choice among them, and how hard    *)
(* the model is to think.                                                   *)
(*                                                                          *)
(* The models stand for the vendored table's three sorts (behind the lite   *)
(* lane only, behind either lane, behind the full lane) and for a model     *)
(* that only the live catalog knows.  Efforts are ranked.                   *)
(***************************************************************************)
EXTENDS Integers

Vendored == {"luna", "sol", "plain"}

\* Unset is no effort at all; Invalid is not one of the names.
Unset   == 6
Invalid == 7
Effort  == 0 .. 5

Refused == [refused |-> TRUE]

\* What the client asks for; "auto" is every choice that names no tool.
Asks ==
    [name: {"haiku", "luna", "sol", "plain", "new", "unknown"}, fast: BOOLEAN,
     tools: SUBSET {"function", "web_search"}, choice: {"auto", "function", "web_search"},
     effort: (1 .. 5) \union {Unset, Invalid}, summarizes: BOOLEAN]

\* The live catalog: the one model of interest in it, if any, and its lane.  It
\* may list a vendored model and put it elsewhere than the vendored table does.
CatalogRows ==
    {[model |-> "none", lite |-> "says nothing"]}
        \union [model: Vendored \union {"new"}, lite: {"says nothing", "lite", "full"}]

\* A model set by the operator goes before the one asked for; a turn that
\* reviews for the client (bypass_provider_model_override) is one with none set.
Overrides == {[name |-> "unset", fast |-> FALSE]} \union [name: {"haiku", "luna", "new"}, fast: BOOLEAN]

\* What the operator has configured, and the catalog; an Unset cap is "off".
Configs ==
    [model: Overrides, tier: {"unset", "flex", "fast", "wrong"}, effort: Effort \union {Unset, Invalid},
     cap: Effort \union {Unset}, catalog: CatalogRows]

-----------------------------------------------------------------------------
(* The model. *)

Alias(name) == IF name = "haiku" THEN "luna" ELSE name

Allowed(model, config) == model \in Vendored \/ model = config.catalog.model

\* A "-fast" name is one only of a model that is allowed; an alias has none.
IsFast(named, config) == named.fast /\ Allowed(named.name, config)

\* A name that was set is not looked up among the aliases.
ModelOf(ask, config) ==
    LET isSet == config.model.name # "unset"
        named == IF isSet THEN config.model ELSE ask
    IN  IF named.fast /\ ~IsFast(named, config) THEN "unknown"
        ELSE IF isSet THEN named.name ELSE Alias(named.name)

\* What the catalog says of a model's lane is taken before the vendored table.
InLiteLane(model, config) ==
    IF config.catalog.model = model /\ config.catalog.lite # "says nothing"
    THEN config.catalog.lite = "lite" ELSE model \in {"luna", "sol"}

\* Hosted search needs the full lane, where a lite-only model has a sibling.
LaneOf(ask, model, config) ==
    IF "web_search" \in ask.tools
    THEN [model |-> IF model = "luna" THEN "sol" ELSE model, lite |-> FALSE]
    ELSE [model |-> model, lite |-> InLiteLane(model, config)]

\* The configured tier goes before the names': the one asked for and the one set.
TierOf(ask, config) ==
    IF config.tier = "flex" THEN "flex"
    ELSE IF config.tier = "fast" \/ IsFast(ask, config) \/ IsFast(config.model, config) THEN "priority"
    ELSE "unset"

-----------------------------------------------------------------------------
(* The tools. *)

\* The lite lane has its tools in the input.
ToolsBeside(ask, lite) == IF lite THEN {} ELSE ask.tools

\* A tool is chosen by its name, and a search only if one was registered.
Chosen(ask) ==
    IF ask.choice = "web_search" /\ "web_search" \notin ask.tools THEN "function" ELSE ask.choice

\* The upstream refuses to be forced to a search that does not stand beside the input.
ChoiceOf(ask, lite) ==
    IF Chosen(ask) = "web_search" /\ "web_search" \notin ToolsBeside(ask, lite) THEN "auto" ELSE Chosen(ask)

-----------------------------------------------------------------------------
(* The effort. *)

\* apply_compact_effort_cap: a summary takes the cap, but what is below it stays.
Capped(effort, ask, config) ==
    IF ~ask.summarizes \/ config.cap = Unset \/ effort <= config.cap THEN effort ELSE config.cap

EffortOf(ask, config) ==
    Capped(IF config.effort # Unset THEN config.effort ELSE ask.effort, ask, config)

Thinks(effort) == effort \notin {0, Unset}

-----------------------------------------------------------------------------
Plan(ask, config) ==
    LET model  == ModelOf(ask, config)
        lane   == LaneOf(ask, model, config)
        effort == EffortOf(ask, config)
    IN  IF \/ ~Allowed(model, config)
           \/ Invalid \in {ask.effort, config.effort}
           \/ config.tier = "wrong"
        THEN Refused
        ELSE [refused |-> FALSE, model |-> lane.model, lite |-> lane.lite, tier |-> TierOf(ask, config),
              tools |-> ToolsBeside(ask, lane.lite), choice |-> ChoiceOf(ask, lane.lite),
              effort |-> effort, encrypted |-> Thinks(effort)]

-----------------------------------------------------------------------------
(* What a plan must keep to. *)

\* Comments in the code: hosted tools are rejected by the lite lane, a lite-only
\* model does not exist in the full lane, and a forced tool must be registered.
\* Only the catalog can put luna elsewhere, and of the model that is sent its
\* word is kept, but for a search that needs the full lane.
LaneFits(ask, config, plan) ==
    LET says == IF config.catalog.model = plan.model THEN config.catalog.lite ELSE "says nothing"
    IN  /\ plan.lite => "web_search" \notin ask.tools
        /\ plan.model = "luna" /\ ~plan.lite => says = "full"
        /\ says = "full" => ~plan.lite
        /\ says = "lite" /\ "web_search" \notin ask.tools => plan.lite
        /\ plan.choice = "web_search" => "web_search" \in plan.tools
        /\ ask.choice = "web_search" /\ "web_search" \in ask.tools => plan.choice = "web_search"

\* The cap on summaries never raises the effort that was asked for and always
\* holds; and what is not to think is asked for no reasoning.
EffortFits(ask, config, plan) ==
    LET wanted == IF config.effort # Unset THEN config.effort ELSE ask.effort
    IN  /\ plan.effort <= wanted
        /\ ask.summarizes /\ config.cap # Unset => plan.effort <= config.cap
        /\ ~ask.summarizes \/ config.cap = Unset => plan.effort = wanted
        /\ plan.encrypted <=> plan.effort \in 1 .. 5

\* Whoever names a fast model is served fast, the client or the operator, unless
\* a tier is set, which then decides; nobody else is.
TierFits(ask, config, plan) ==
    LET fast == (ask.fast /\ ask.name \in Vendored \union {config.catalog.model}) \/ config.model.fast
    IN  plan.tier = CASE config.tier = "flex" -> "flex"
                      [] config.tier = "fast" \/ fast -> "priority"
                      [] OTHER -> "unset"

-----------------------------------------------------------------------------
VARIABLE order  \* one request: what is asked, under which configuration, and its plan

NotPlanned == [made |-> FALSE]

\* Efforts matter to efforts alone: two slices of all there is to ask.
Orders ==
    {[ask |-> a, config |-> c, plan |-> NotPlanned] :
        a \in {b \in Asks : b.effort = 3 /\ ~b.summarizes},
        c \in {d \in Configs : d.effort = Unset /\ d.cap = 1}}
    \union
    {[ask |-> a, config |-> c, plan |-> NotPlanned] :
        a \in {b \in Asks : b.name = "sol" /\ ~b.fast /\ b.tools = {} /\ b.choice = "auto"},
        c \in {d \in Configs : /\ d.model.name = "unset" /\ d.tier = "unset"
                              /\ d.catalog = [model |-> "sol", lite |-> "lite"]}}

PlanInit == order \in Orders

MakePlan ==
    /\ order.plan = NotPlanned
    /\ order' = [order EXCEPT !.plan = [made |-> TRUE, is |-> Plan(order.ask, order.config)]]

PlanFits ==
    order.plan.made /\ ~order.plan.is.refused =>
        /\ LaneFits(order.ask, order.config, order.plan.is)
        /\ EffortFits(order.ask, order.config, order.plan.is)
        /\ TierFits(order.ask, order.config, order.plan.is)
================================================================================
