-------------------------------- MODULE MCTurns --------------------------------
(* What happens to a request once it has been admitted, each by itself:         *)
(* streaming turns under faults, a conversation as it is translated and         *)
(* continued, the plan of a request, requests that are relayed, the readers     *)
(* that cut streams into events, and what happens below a turn: the tunnel to   *)
(* the upstream, the call that makes a socket, and the frames on it.            *)
(* A behaviour is one of a part; the other parts stay where they begin.         *)
EXTENDS
    CodexTurns, Conversations, RelayedRequests, SseFraming, ConnectTunnel, SocketDial,
    SocketExchange, TLC

CONSTANTS q1, q2

VARIABLE part

answersVars == <<part, vars, talkVars, order, relayVars, sseVars, tunnelVars, dialVars, exchangeVars>>

Sockets3 == 1 .. 3

\* The owners and requests of turns may be swapped.
Symmetry == Permutations(Owner) \union Permutations(Request)

TextOf(value) == [type |-> "text", value |-> value]
Image         == [type |-> "image"]
Unknown       == [type |-> "document"]  \* a block that is left out

MCManners ==
    {[lead |-> <<>>, body |-> "plain", error |-> FALSE, trail |-> <<TextOf("more")>>, reminder |-> FALSE],
     [lead |-> <<TextOf("first")>>, body |-> "warning", error |-> TRUE, trail |-> <<Image>>, reminder |-> TRUE],
     [lead |-> <<Unknown>>, body |-> "quoted", error |-> FALSE, trail |-> <<>>, reminder |-> FALSE]}

Asking(name, instructions) ==
    [ask |-> [name |-> name, fast |-> FALSE, tools |-> {"function"}, choice |-> "auto", effort |-> 3,
              summarizes |-> FALSE],
     instructions |-> instructions]

\* Behind the lite lane and behind the full one, and with other instructions.
MCSettings == {Asking("haiku", "i1"), Asking("haiku", "i2"), Asking("plain", "i1")}

MCConfig ==
    [model |-> [name |-> "unset", fast |-> FALSE], tier |-> "unset", effort |-> Unset, cap |-> 1,
     catalog |-> [model |-> "none", lite |-> "says nothing"]]

MCReplies ==
    {<<"text", "read_huge">>, <<"sealed", "read_small", "call">>,
     <<"text", "search", "text", "unsealed", "silent", "read">>}

AnswersInit ==
    /\ part \in {"turns", "talk", "plan", "relay", "framing", "tunnel", "dial", "exchange"}
    \* The choices at the start are for their own part.
    /\ TunnelInit /\ (part # "tunnel" => stream = HeadOf("open", 1))
    /\ DialInit /\ (part # "dial" => \A d \in Dialler : dial[d].route = "tunnelled")
    /\ IF part = "plan" THEN PlanInit ELSE order = CHOOSE o \in Orders : TRUE
    /\ TurnsInit /\ TalkInit /\ RelayInit /\ SseInit /\ ExchangeInit

\* What is under a turn, and what is not.
above == <<vars, talkVars, order, relayVars, sseVars>>
below == <<tunnelVars, dialVars, exchangeVars>>

TurnsPart == part = "turns" /\ TurnsNext /\ UNCHANGED <<talkVars, order, relayVars, sseVars, below>>
\* Every conversation begins in the same manner, with the first instructions.
TalkPart ==
    /\ part = "talk" /\ TalkNext
    /\ asked'.state = "open" /\ asked'.n = 1 =>
           dialogue'[1].blocks = <<TextOf("more")>> /\ asked'.settings.instructions = "i1"
    /\ UNCHANGED <<vars, order, relayVars, sseVars, below>>
PlanPart == part = "plan" /\ MakePlan /\ UNCHANGED <<vars, talkVars, relayVars, sseVars, below>>
\* A second request matters where permits do: it comes while the first has the
\* permit of its backend.
RelayPart ==
    /\ part = "relay" /\ RelayNext
    /\ ~Made(q2) /\ relay'[q2] # Unasked =>
           /\ Made(q1) /\ relay[q1].permit
           /\ relay'[q2].endpoint \in {"image", "transcription"}
    /\ UNCHANGED <<vars, talkVars, order, sseVars, below>>
FramingPart == part = "framing" /\ Feed /\ UNCHANGED <<vars, talkVars, order, relayVars, below>>
TunnelPart == part = "tunnel" /\ TunnelNext /\ UNCHANGED <<above, dialVars, exchangeVars>>
\* The requests are alike: one of them asks first.
DialPart ==
    /\ part = "dial" /\ DialNext
    /\ dial'[q2].at # "unasked" => dial'[q1].at # "unasked"
    /\ UNCHANGED <<above, tunnelVars, exchangeVars>>
ExchangePart == part = "exchange" /\ ExchangeNext /\ UNCHANGED <<above, tunnelVars, dialVars>>

AnswersNext ==
    /\ \/ TurnsPart \/ TalkPart \/ PlanPart \/ RelayPart \/ FramingPart
       \/ TunnelPart \/ DialPart \/ ExchangePart
    /\ UNCHANGED part

AnswersSpec == AnswersInit /\ [][AnswersNext]_answersVars
================================================================================
