------------------------------ MODULE ChatAnswers ------------------------------
(***************************************************************************)
(* Chat Completions on a Codex model: the request is translated as it is,   *)
(* and the answer comes as the upstream's events, which a streaming client   *)
(* is told of one by one (StreamState) and another gets put together when    *)
(* the body has ended (aggregate_sse).  Both readings are kept here of the   *)
(* same body.                                                               *)
(***************************************************************************)
EXTENDS Naturals, Sequences, SequencesExt

CONSTANT MaxHeard   \* bound: events of a body

ASSUME ChatAnswersAssumption == MaxHeard \in Nat

VARIABLES
    asking,   \* a request and what is sent for it
    heard,    \* the events of the body, and how it has ended
    chunked,  \* StreamState: its CompletionState and the frames it has sent
    entire    \* the CompletionState of the body so far, which is answered when it has ended

chatVars == <<asking, heard, chunked, entire>>

\* Numbers of input tokens; a piece of text; an empty one; the end of the response;
\* [DONE]; an event that says nothing; a failure, an error, or what cannot be read.
ChatEvents == {"usage", "piece", "blank", "ends", "mark", "ignored", "fails"}

\* CompletionState, with the error that observe() returned.
Fresh == [text |-> 0, tokens |-> 0, completed |-> FALSE, error |-> FALSE]

\* CompletionState::observe; the end of a response brings the tokens too
Observed(state, event) ==
    CASE event = "piece" -> [state EXCEPT !.text = @ + 1]
      [] event = "usage" -> [state EXCEPT !.tokens = @ + 1]
      [] event = "ends"  -> [state EXCEPT !.tokens = @ + 1, !.completed = TRUE]
      [] event = "fails" -> [state EXCEPT !.error = TRUE]
      [] OTHER           -> state

\* aggregate_sse stops at the first error.
Aggregated(state, event) == IF state.error THEN state ELSE Observed(state, event)

\* The answer that is put together, once the body has ended.
Succeeds(state) == ~state.error /\ state.completed /\ state.text # 0

-----------------------------------------------------------------------------
(* StreamState *)

Finished(s, frame) ==
    IF s.ended THEN s
    ELSE [s EXCEPT !.out = @ \o <<frame, [kind |-> "mark", tokens |-> 0]>>, !.ended = TRUE]

Failing(s) == Finished(s, [kind |-> "error", tokens |-> 0])

\* finish_success; without text it is a failure
Succeeding(s) ==
    IF s.completion.text = 0 THEN Failing(s)
    ELSE Finished(s, [kind |-> "final", tokens |-> s.completion.tokens])

Content(kind) == [kind |-> kind, tokens |-> 0]

\* A mutant of EventSeen: the end of a response waits for the end of the body.
EventSeenLate(s, event) ==
    LET completion == Observed(s.completion, event)
        next       == [s EXCEPT !.completion = completion]
    IN  IF s.ended THEN s
        ELSE IF completion.error THEN Failing(next)
        ELSE IF event = "piece" THEN [next EXCEPT !.out = Append(@, Content("piece"))]
        ELSE next

\* observe_event: the first content brings the role.
EventSeen(s, event) ==
    LET completion == Observed(s.completion, event)
        next       == [s EXCEPT !.completion = completion]
        role       == IF \E i \in DOMAIN s.out : s.out[i].kind = "role" THEN <<>> ELSE <<Content("role")>>
    IN  IF s.ended \/ event = "mark" THEN s
        ELSE IF completion.error THEN Failing(next)
        ELSE IF event \in {"piece", "blank"} THEN [next EXCEPT !.out = @ \o role \o <<Content(event)>>]
        ELSE IF completion.completed THEN Succeeding(next)
        ELSE next

\* next_frame at the end of the body
EndSeen(s) == IF s.completion.completed THEN Succeeding(s) ELSE Failing(s)

-----------------------------------------------------------------------------
(* The request: translate_request *)

ChatAsks ==
    [lite: BOOLEAN, effort: {"unset", "none", "low", "odd"}, stream: BOOLEAN, usage: BOOLEAN,
     sampling: {"unset", "within", "outside"}, format: {"unset", "text", "schema", "odd"},
     user: {"unset", "short", "long"}, content: {"text", "parts", "picture", "empty"}]

\* resolve_effort_override
EffortSent(a, configured) ==
    IF configured # "unset" THEN configured ELSE IF a.effort = "unset" THEN "medium" ELSE a.effort

Translatable(a, configured) ==
    /\ a.content \in {"text", "parts"}
    /\ a.usage => a.stream
    /\ a.effort # "odd" /\ configured # "odd"
    /\ a.format # "odd"
    /\ a.sampling # "outside" /\ (a.lite => a.sampling = "unset")
    /\ a.user # "long"

Translated(a, configured) ==
    IF ~Translatable(a, configured) THEN [taken |-> FALSE]
    ELSE [taken |-> TRUE, lite |-> a.lite,
          effort |-> LET e == EffortSent(a, configured) IN IF e = "none" THEN "unset" ELSE e,
          sampling |-> a.sampling, format |-> IF a.format = "text" THEN "unset" ELSE a.format,
          user |-> a.user]

-----------------------------------------------------------------------------
(* The specification *)

ChatInit ==
    /\ asking = <<>>
    /\ heard = [events |-> <<>>, end |-> "open"]
    /\ chunked = [completion |-> Fresh, out |-> <<>>, ended |-> FALSE]
    /\ entire = Fresh

AskChat ==
    /\ asking = <<>> /\ heard.events = <<>>
    /\ \E a \in ChatAsks, configured \in {"unset", "low", "odd"} :
          asking' = <<a, configured, Translated(a, configured)>>
    /\ UNCHANGED <<heard, chunked, entire>>

StillHeard == asking = <<>> /\ heard.end = "open"

HearChat ==
    /\ StillHeard /\ Len(heard.events) < MaxHeard
    /\ \E event \in ChatEvents :
          /\ heard' = [heard EXCEPT !.events = Append(@, event)]
          /\ chunked' = EventSeen(chunked, event)
          /\ entire' = Aggregated(entire, event)
    /\ UNCHANGED asking

\* The last event may lack its blank line: a stream does not read it then.
BodyEnds ==
    /\ StillHeard
    /\ \/ /\ heard' = [heard EXCEPT !.end = "whole"]
          /\ chunked' = EndSeen(chunked) /\ UNCHANGED entire
       \/ \E event \in ChatEvents :
             /\ heard' = [events |-> Append(heard.events, event), end |-> "unfinished"]
             /\ chunked' = EndSeen(chunked)
             /\ entire' = Aggregated(entire, event)
    /\ UNCHANGED asking

\* A read fails or the idle timeout passes: nothing is put together.
BodyBreaks ==
    /\ StillHeard
    /\ heard' = [heard EXCEPT !.end = "broken"]
    /\ chunked' = Failing(chunked) /\ entire' = [entire EXCEPT !.error = TRUE]
    /\ UNCHANGED asking

ChatNext == AskChat \/ HearChat \/ BodyEnds \/ BodyBreaks

ChatSpec == ChatInit /\ [][ChatNext]_chatVars

-----------------------------------------------------------------------------
(* Properties *)

Kinds(out)  == [i \in DOMAIN out |-> out[i].kind]
PiecesOf(out) == SelectSeq(Kinds(out), LAMBDA kind : kind = "piece")
LastFrame   == chunked.out[Len(chunked.out) - 1]
HeardAfter(event) ==
    IF \E i \in DOMAIN heard.events : heard.events[i] = event
    THEN SubSeq(heard.events, SelectInSeq(heard.events, LAMBDA e : e = event) + 1, Len(heard.events))
    ELSE <<>>

\* A stream and a whole answer of the same body tell the same: the text, the
\* tokens, and whether it failed; as long as the upstream finishes its last
\* event and says nothing of substance after the end of the response.
StreamedAlike ==
    heard.end = "whole" /\ (\A i \in DOMAIN HeardAfter("ends") : HeardAfter("ends")[i] \in {"mark", "ignored"}) =>
        /\ LastFrame.kind = IF Succeeds(entire) THEN "final" ELSE "error"
        /\ Succeeds(entire) =>
              /\ Len(PiecesOf(chunked.out)) = entire.text
              /\ LastFrame.tokens = entire.tokens

\* A stream is told its end once, with [DONE] after it; the role comes before
\* any content and once; no answer is said to be finished that lacks its end or
\* its text, and every piece that came by then has been told.
ToldInOrder ==
    LET kinds == Kinds(chunked.out) IN
    /\ \A i \in DOMAIN kinds :
          /\ kinds[i] = "mark" <=> (chunked.ended /\ i = Len(kinds))
          /\ kinds[i] \in {"final", "error"} => i + 1 = Len(kinds)
          /\ kinds[i] = "role" <=> (i = 1 /\ kinds[1] \notin {"final", "error"})
    /\ "final" \in ToSet(kinds) =>
          /\ "ends" \in ToSet(heard.events) /\ PiecesOf(chunked.out) # <<>>
          /\ Len(PiecesOf(chunked.out))
               = Len(SelectSeq(heard.events, LAMBDA e : e = "piece"))
                 - Len(SelectSeq(HeardAfter("ends"), LAMBDA e : e = "piece"))
    /\ heard.end # "open" => chunked.ended

\* A request is refused, or the upstream is asked for all that it asks for: what
\* is not sent is what was not asked, or what the operator has configured; and
\* sampling never goes to the lite lane.
AskedAsWanted ==
    asking # <<>> /\ asking[3].taken =>
        LET a == asking[1]
            sent == asking[3]
        IN  /\ sent.sampling = a.sampling /\ sent.user = a.user
            /\ sent.lite => sent.sampling = "unset"
            /\ sent.format # a.format => a.format = "text"
            /\ asking[2] = "unset" => sent.effort = CASE a.effort = "unset" -> "medium"
                                                      [] a.effort = "none" -> "unset"
                                                      [] OTHER -> a.effort
            /\ asking[2] # "unset" => sent.effort = asking[2]

ChatSafety == StreamedAlike /\ ToldInOrder /\ AskedAsWanted
=============================================================================
