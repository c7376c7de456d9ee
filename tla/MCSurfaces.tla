------------------------------- MODULE MCSurfaces -------------------------------
(* What a client sees of the proxy, each part by itself: the fast bridge that   *)
(* stands before it, and its plan of a fold; an answer as it is translated,     *)
(* rendered, and rendered again for the OpenAI-compatible endpoints; the native *)
(* chat answers; the requests of those endpoints as they are read; and what     *)
(* becomes of a failure.                                                        *)
(* A behaviour is one of a part; the other parts stay where they begin.         *)
EXTENDS MCFastBridge, AnswerRendering, OpenAiStream, Failures, OpenAiRequests, ChatAnswers

CONSTANTS i1, i2, i3, ca, cb

VARIABLE part

surfacesVars ==
    <<part, bridgeVars, planned, streamVars, renderVars, openAiVars, failureVars, readVars, chatVars>>

SurfacesInit ==
    /\ part \in {"bridge", "plan", "stream", "render", "openai", "failures", "requests", "chat"}
    /\ BridgeInit /\ PlannerInit /\ TranslationInit /\ RenderInit /\ FailuresInit /\ RequestsInit /\ ChatInit
    \* The choices at the start are for their own part.
    /\ OpenAiInit /\ (part # "openai" => wanted = [surface |-> "chat", stream |-> FALSE])

\* The second failure is one of the last send there is, of a round or of a request;
\* it is looked at where nothing is switched.  Two switches and a failure are
\* looked at where no fold is armed.
BridgePart ==
    /\ part = "bridge" /\ BridgeNext
    /\ bridgeFaults' > 1 => switches' = 0
    /\ bridgeFaults' + switches' > 2 => \A s \in BridgeSession : hooks'[s] = 0
    /\ UNCHANGED <<planned, streamVars, renderVars, openAiVars, failureVars, readVars, chatVars>>
PlanPart ==
    /\ part = "plan" /\ PlanFold
    /\ UNCHANGED <<bridgeVars, streamVars, renderVars, openAiVars, failureVars, readVars, chatVars>>
\* Items are alike, and each is used once: they are used in one order.
StreamPart ==
    /\ part = "stream" /\ TranslationNext
    /\ {i \in Item : item'[i].at # "new"} \in {{}, {i1}, {i1, i2}, {i1, i2, i3}}
    /\ UNCHANGED <<bridgeVars, planned, renderVars, openAiVars, failureVars, readVars, chatVars>>
RenderPart ==
    /\ part = "render" /\ RenderNext
    /\ UNCHANGED <<bridgeVars, planned, streamVars, openAiVars, failureVars, readVars, chatVars>>
OpenAiPart ==
    /\ part = "openai" /\ OpenAiNext
    /\ UNCHANGED <<bridgeVars, planned, streamVars, renderVars, failureVars, readVars, chatVars>>
FailuresPart ==
    /\ part = "failures" /\ FailuresNext
    /\ UNCHANGED <<bridgeVars, planned, streamVars, renderVars, openAiVars, readVars, chatVars>>
\* A fourth turn follows only where the first one has calls and none is blank; of
\* calls that are alike the one is made first.
RequestsPart ==
    /\ part = "requests" /\ RequestsNext
    /\ spoken' # <<>> /\ spoken'[1].who = "assistant" => spoken'[1].calls \in {<<>>, <<ca>>, <<ca, ca>>, <<ca, cb>>}
    /\ Len(spoken') = MaxCallTurns =>
          /\ spoken'[1].who = "assistant" /\ spoken'[1].calls # <<>>
          /\ \A i \in DOMAIN spoken' : spoken'[i].content # "blank"
    /\ UNCHANGED <<bridgeVars, planned, streamVars, renderVars, openAiVars, failureVars, chatVars>>
ChatPart ==
    /\ part = "chat" /\ ChatNext
    /\ UNCHANGED <<bridgeVars, planned, streamVars, renderVars, openAiVars, failureVars, readVars>>

SurfacesNext ==
    /\ \/ BridgePart \/ PlanPart \/ StreamPart \/ RenderPart \/ OpenAiPart
       \/ FailuresPart \/ RequestsPart \/ ChatPart
    /\ UNCHANGED part

SurfacesSpec == SurfacesInit /\ [][SurfacesNext]_surfacesVars

(* An answer is the same as a stream and whole, block by block, from the
   upstream's events to the client. *)
AnswersSafety ==
    /\ part = "stream" => TranslationSafety
    /\ part = "render" => RenderingSafety

(* The OpenAI-compatible endpoints: both surfaces read a conversation alike, and
   a streamed answer is the one that is not streamed, on them and natively. *)
EndpointsSafety ==
    /\ part = "requests" => CallsSafety
    /\ part = "openai" => OpenAiSafety
    /\ part = "chat" => ChatSafety
=================================================================================
