---------------------------- MODULE OpenAiRequests -----------------------------
(***************************************************************************)
(* The requests of the OpenAI-compatible endpoints as they are turned into  *)
(* an Anthropic one.  The same conversation comes as Chat Completions        *)
(* messages or as Responses input items; both are read into a transcript,   *)
(* with the system texts taken out and tool results put together, and the   *)
(* options beside it are checked.                                           *)
(*                                                                         *)
(* A conversation is a sequence of turns; both readings of it grow turn by   *)
(* turn.  What a text says is the number of its turn.                       *)
(***************************************************************************)
EXTENDS Naturals, FiniteSets, Sequences, SequencesExt

CONSTANTS
    CallId,    \* ids of function calls
    MaxCallTurns \* bound: turns of a conversation

ASSUME OpenAiRequestsAssumption == IsFiniteSet(CallId) /\ MaxCallTurns \in Nat

VARIABLES
    spoken,      \* the conversation
    chatRead,    \* parse_chat_messages of it
    itemsRead,   \* parse_responses_input of it
    options      \* the options of one more request, and what is made of them on each surface

readVars == <<spoken, chatRead, itemsRead, options>>

\* A content is a text, a picture that an URL names, a blank text, or a list
\* without parts.
TurnContent == {"text", "picture", "blank", "empty"}
Nothing     == {"blank", "empty"}
Calls == {<<>>} \cup {<<c>> : c \in CallId} \cup {<<c, d>> : c, d \in CallId}

Turn ==
    [who: {"system", "user"}, content: TurnContent]
    \cup [who: {"assistant"}, content: TurnContent, thinks: BOOLEAN, calls: Calls]
    \cup [who: {"tool"}, content: {"text", "blank"}, call: CallId]

\* The messages and system texts so far, the calls that have no result yet, and
\* whether the request is refused.
Unread == [out |-> <<>>, system |-> <<>>, pending |-> {}, refused |-> FALSE]

Said(type, n)    == [type |-> type, of |-> n, call |-> {}]
Called(type, n, c) == [type |-> type, of |-> n, call |-> {c}]

Refuse(read) == [read EXCEPT !.refused = TRUE]
Appended(read, role, blocks) == [read EXCEPT !.out = Append(@, [role |-> role, blocks |-> blocks])]

-----------------------------------------------------------------------------
(* Both surfaces *)

IsResults(message) ==
    message.role = "user" /\ \A i \in DOMAIN message.blocks : message.blocks[i].type = "tool_result"

\* A mutant of PushResult: a result joins whatever the user said last.
PushResultAnywhere(read, result) ==
    IF read.out # <<>> /\ Last(read.out).role = "user"
    THEN [read EXCEPT !.out[Len(read.out)].blocks = Append(@, result)]
    ELSE Appended(read, "user", <<result>>)

\* push_tool_result
PushResult(read, result) ==
    IF read.out # <<>> /\ IsResults(Last(read.out))
    THEN [read EXCEPT !.out[Len(read.out)].blocks = Append(@, result)]
    ELSE Appended(read, "user", <<result>>)

\* A result takes its call out of those that wait for one.
Result(read, n, c) ==
    IF c \notin read.pending THEN Refuse(read)
    ELSE PushResult([read EXCEPT !.pending = @ \ {c}], Called("tool_result", n, c))

-----------------------------------------------------------------------------
(* parse_chat_messages: a turn is one message *)

AreNew(read, calls) ==
    /\ ToSet(calls) \cap read.pending = {}
    /\ \A i, j \in DOMAIN calls : i # j => calls[i] # calls[j]

ChatAssistant(read, n, turn) ==
    LET blocks == (IF turn.thinks THEN <<Said("thinking", n)>> ELSE <<>>)
                  \o (IF turn.content = "text" THEN <<Said("text", n)>> ELSE <<>>)
                  \o [i \in DOMAIN turn.calls |-> Called("tool_use", n, turn.calls[i])]
    IN  IF turn.content = "picture" \/ blocks = <<>> \/ ~AreNew(read, turn.calls) THEN Refuse(read)
        ELSE Appended([read EXCEPT !.pending = @ \cup ToSet(turn.calls)], "assistant", blocks)

ChatTurn(read, n, turn) ==
    CASE read.refused -> read
      [] turn.who = "system" ->
             IF turn.content = "text" THEN [read EXCEPT !.system = Append(@, n)] ELSE Refuse(read)
      [] turn.who = "user" ->
             IF turn.content \in Nothing THEN Refuse(read)
             ELSE Appended(read, "user", <<Said(turn.content, n)>>)
      [] turn.who = "assistant" -> ChatAssistant(read, n, turn)
      [] turn.who = "tool" ->
             IF turn.content \in Nothing THEN Refuse(read) ELSE Result(read, n, turn.call)

-----------------------------------------------------------------------------
(* parse_responses_input: a message, and an item for each call; what was
   thought has no item *)

\* A message may have no parts, or one text that is blank; of a system message
\* the texts are taken.
ItemMessage(read, role, n, content) ==
    IF role = "system" THEN [read EXCEPT !.system = Append(@, n)]
    ELSE Appended(read, role, IF content = "empty" THEN <<>> ELSE <<Said(content, n)>>)

FunctionCall(read, n, c) ==
    IF read.refused \/ c \in read.pending THEN Refuse(read)
    ELSE Appended([read EXCEPT !.pending = @ \cup {c}], "assistant", <<Called("tool_use", n, c)>>)

ItemsOfTurn(read, n, turn) ==
    CASE read.refused -> read
      [] turn.who \in {"system", "user"} -> ItemMessage(read, turn.who, n, turn.content)
      [] turn.who = "assistant" ->
             LET message == IF turn.content \in Nothing /\ turn.calls # <<>> THEN read
                            ELSE ItemMessage(read, "assistant", n, turn.content)
             IN  FoldLeft(LAMBDA r, c : FunctionCall(r, n, c), message, turn.calls)
      [] turn.who = "tool" -> Result(read, n, turn.call)

-----------------------------------------------------------------------------
(* The options, after the transcript: parse_request *)

Bridged == {"Read", "Write", "Bash"}
ToolLists == {<<>>, <<"Read">>, <<"Read", "Other">>, <<"Read", "Read">>}
Options ==
    [tools: ToolLists, choice: {"unset", "auto", "none", "required", "Read", "Missing", "odd"},
     parallel: {"unset", "yes", "no"}, effort: {"unset", "none", "low", "odd"},
     limits: {"unset", "one", "both"}, provider: {"codex", "grok", "cursor"},
     stream: BOOLEAN, session: BOOLEAN]

Efforts(provider) == {"unset", "low"} \cup IF provider = "grok" THEN {"none"} ELSE {}

\* parse_tool_choice; a named tool is one of those that are given
ChoiceIsKnown(o) == o.choice \in {"unset", "auto", "none", "required"} \cup ToSet(o.tools)

\* apply_parallel_tool_calls makes a choice where there is none.
ChosenOf(o) ==
    [choice |-> IF o.choice = "unset" /\ o.parallel # "unset" THEN "auto" ELSE o.choice,
     alone  |-> o.parallel]

HasPicture(read) ==
    \E i \in DOMAIN read.out : \E j \in DOMAIN read.out[i].blocks : read.out[i].blocks[j].type = "picture"

\* validate_cursor
CursorTakes(o, read) ==
    o.provider = "cursor" =>
        /\ ~HasPicture(read)
        /\ o.tools # <<>> => o.stream /\ o.session /\ ToSet(o.tools) \subseteq Bridged

\* Of the two limits of Chat Completions only one may be set.
Refused == [taken |-> FALSE]
RequestOf(surface, o, read) ==
    IF /\ ~read.refused /\ read.out # <<>>
       /\ surface = "chat" => o.limits # "both"
       /\ Cardinality(ToSet(o.tools)) = Len(o.tools)
       /\ ChoiceIsKnown(o) /\ o.effort \in Efforts(o.provider) /\ CursorTakes(o, read)
    THEN [taken |-> TRUE, system |-> read.system, messages |-> read.out, tools |-> o.tools,
          effort |-> o.effort, choice |-> ChosenOf(o)]
    ELSE Refused

-----------------------------------------------------------------------------
(* The specification *)

RequestsInit ==
    /\ spoken = <<>> /\ chatRead = Unread /\ itemsRead = Unread
    /\ options = <<>>

Speak ==
    /\ options = <<>> /\ Len(spoken) < MaxCallTurns
    /\ ~(chatRead.refused /\ itemsRead.refused)
    /\ \E turn \in Turn :
          LET n == Len(spoken) + 1 IN
          /\ spoken' = Append(spoken, turn)
          /\ chatRead' = ChatTurn(chatRead, n, turn)
          /\ itemsRead' = ItemsOfTurn(itemsRead, n, turn)
    /\ UNCHANGED options

\* A request with options, on a conversation of one user turn.
SendOptions ==
    /\ options = <<>> /\ Len(spoken) = 1 /\ spoken[1].who = "user"
    /\ \E o \in Options :
          options' = <<o, RequestOf("chat", o, chatRead), RequestOf("responses", o, itemsRead)>>
    /\ UNCHANGED <<spoken, chatRead, itemsRead>>

RequestsNext == Speak \/ SendOptions

RequestsSpec == RequestsInit /\ [][RequestsNext]_readVars

-----------------------------------------------------------------------------
(* Properties *)

\* What was thought and what is blank aside, and the messages of the assistant
\* that follow each other as one.
Plainly(out) ==
    LET shown(m) == [m EXCEPT !.blocks = SelectSeq(@, LAMBDA b : b.type \notin {"thinking", "blank"})]
        join(done, m) ==
            IF done # <<>> /\ Last(done).role = "assistant" /\ m.role = "assistant"
            THEN [done EXCEPT ![Len(done)].blocks = @ \o m.blocks]
            ELSE Append(done, m)
    IN  FoldLeft(LAMBDA done, m : join(done, shown(m)), <<>>, out)

\* A conversation that Chat Completions takes is taken by Responses too, and the
\* model reads the same in both; and so for the options, with one limit.
SurfacesAgree ==
    /\ ~chatRead.refused =>
          /\ ~itemsRead.refused
          /\ Plainly(chatRead.out) = Plainly(itemsRead.out)
          /\ chatRead.system = itemsRead.system /\ chatRead.pending = itemsRead.pending
    /\ options # <<>> /\ options[2].taken =>
          options[3] = [options[2] EXCEPT !.messages = options[3].messages]

Flat(out) == FoldLeft(LAMBDA blocks, m : blocks \o m.blocks, <<>>, out)

\* Results and calls of an id take turns, a call first; the calls that wait are
\* those whose result has not come; no message has results and something else;
\* and results that follow each other are one message's, as the model expects
\* the results of parallel calls, unless a message without parts comes between.
ResultsFollowCalls ==
    \A read \in {chatRead, itemsRead} :
        LET of(c) == SelectSeq(Flat(read.out), LAMBDA b : b.call = {c})
            isResult(i) == read.out[i].blocks # <<>> /\ IsResults(read.out[i])
        IN  ~read.refused =>
              /\ \A c \in CallId :
                    /\ \A i \in DOMAIN of(c) :
                          of(c)[i].type = IF i % 2 = 1 THEN "tool_use" ELSE "tool_result"
                    /\ c \in read.pending <=> Len(of(c)) % 2 = 1
              /\ \A i \in DOMAIN read.out : ~isResult(i) =>
                    \A j \in DOMAIN read.out[i].blocks : read.out[i].blocks[j].type # "tool_result"
              /\ [who |-> "user", content |-> "empty"] \notin ToSet(spoken) =>
                    \A i \in DOMAIN read.out : i > 1 => ~(isResult(i - 1) /\ isResult(i))

CallsSafety == SurfacesAgree /\ ResultsFollowCalls
=============================================================================
