----------------------------- MODULE Conversations -----------------------------
(***************************************************************************)
(* A conversation as the three parties hold it: the client's messages, the  *)
(* input that the backend makes of them for each request, and what the      *)
(* upstream has.  An answer is shown to the client and captured for the     *)
(* next request, which goes over as a delta if the translation of the       *)
(* client's messages extends what was captured.  Read calls with absurd     *)
(* offsets are rewritten on the way to the client, and the results of those  *)
(* calls carry a note as long as a bounded table remembers them.            *)
(*                                                                          *)
(* Texts, images and results are names.                                     *)
(***************************************************************************)
EXTENDS RequestPlan, FiniteSets, SequencesExt

CONSTANTS
    Manners,     \* bound: the ways a client's message is made up
    Settings,    \* bound: what a request asks for besides its messages, and its system text
    Config,      \* what the operator has configured
    Replies,     \* bound: the answers of the upstream
    MaxNotes,    \* MAX_REWRITE_NOTES
    MaxAsked,    \* bound: requests of the conversation
    MaxForeign   \* bound: rewritten calls of other conversations

ItemKinds == {"text", "silent", "sealed", "unsealed", "search", "call", "read", "read_small", "read_huge"}

ASSUME ConversationsAssumption ==
    /\ Config \in Configs
    /\ \A s \in Settings : s.ask \in Asks
    /\ \A a \in Replies : ToSet(a) \subseteq ItemKinds
    /\ MaxNotes \in Nat \ {0}
    /\ {MaxAsked, MaxForeign} \subseteq Nat

VARIABLES
    dialogue,   \* the client's messages
    notes,      \* READ_OFFSET_REWRITES: the calls it remembers, the oldest first
    recorded,   \* the continuation: the transcript and the signature it was made under, or Nothing
    understood,       \* the input items that the upstream has for the response it last completed
    asked,      \* the last request: what was sent, and history
    rewritten   \* history: the calls rewritten since the backend started, in order

talkVars == <<dialogue, notes, recorded, understood, asked, rewritten>>

Nothing == [kind |-> "nothing"]

-----------------------------------------------------------------------------
(* An answer's items, as the upstream has them, as the client is shown them,
   and as the backend captures them.  A call's name is the request that was
   answered and its place. *)

Offset(kind) == CASE kind = "read_huge" -> "huge" [] kind = "read_small" -> "small" [] OTHER -> "none"

IsCall(kind) == kind \in {"call", "read", "read_small", "read_huge"}

\* sanitize_read_args: an offset beyond the threshold is left out.
Sanitized(offset) == IF offset = "huge" THEN "none" ELSE offset

Message(role, parts) == [kind |-> "message", role |-> role, parts |-> parts]

Original(id, kind) ==
    CASE kind = "text" -> <<Message("assistant", <<"text">>)>>
      [] IsCall(kind)  -> <<[kind |-> "call", id |-> id, offset |-> Offset(kind), spelled |-> "streamed"]>>
      [] kind \in {"sealed", "unsealed", "search"} -> <<[kind |-> kind, id |-> id]>>
      [] OTHER -> <<>>

\* A mutant of Captured: a call is captured before its arguments are sanitized.
CapturedRaw(id, kind) == IF kind \in {"unsealed", "search"} THEN <<>> ELSE Original(id, kind)

Captured(id, kind) ==
    CASE IsCall(kind)  -> <<[kind |-> "call", id |-> id, offset |-> Sanitized(Offset(kind)), spelled |-> "streamed"]>>
      [] kind \in {"unsealed", "search"} -> <<>>
      [] OTHER -> Original(id, kind)

\* The blocks that the client adds to its messages: thinking has a signature if
\* the upstream sealed it; a search is shown as two blocks of its own.
ShownBlock(id, kind) ==
    CASE kind \in {"text", "silent"} -> <<[type |-> "text", value |-> IF kind = "text" THEN "text" ELSE ""]>>
      [] IsCall(kind)  -> <<[type |-> "tool_use", id |-> id, offset |-> Sanitized(Offset(kind))]>>
      [] kind = "sealed"   -> <<[type |-> "thinking", id |-> id, signed |-> TRUE]>>
      [] kind = "unsealed" -> <<[type |-> "thinking", id |-> id, signed |-> FALSE]>>
      [] OTHER -> <<[type |-> "server_tool_use"], [type |-> "web_search_tool_result"]>>

EachOf(Op(_, _), n, answer) ==
    FlattenSeq([i \in DOMAIN answer |-> Op(<<n, i>>, answer[i])])

-----------------------------------------------------------------------------
(* The notes about rewritten calls. *)

\* record_read_offset_rewrite: what is known keeps its place; the oldest goes.
Remember(store, id) ==
    IF Contains(store, id) THEN store
    ELSE LET longer == Append(store, id)
         IN  IF Len(longer) > MaxNotes THEN Tail(longer) ELSE longer

Rewrites(n, answer) ==
    LET huge == SelectSeq([i \in DOMAIN answer |-> i], LAMBDA i : answer[i] = "read_huge")
    IN  [k \in DOMAIN huge |-> <<n, huge[k]>>]

-----------------------------------------------------------------------------
(* build_input: the client's messages as input items. *)

\* The calls that named an offset, whose results may need the guidance.
OffsetCalls(messages) ==
    {b.id : b \in {c \in UNION {ToSet(messages[i].blocks) : i \in DOMAIN messages} :
                     c.type = "tool_use" /\ c.offset # "none"}}

\* A result that speaks of offsets is explained where the call had one, if it
\* is an error or a warning.
NeedsGuidance(block, offsetCalls) ==
    /\ block.id \in offsetCalls
    /\ \/ block.body = "warning"
       \/ block.body = "out of range" /\ block.error

\* rewritten_read_offset_note: not twice, if the output already quotes it.
Noted(store, block) == Contains(store, block.id) /\ block.body # "quoted"

Rendered(store, block, offsetCalls) ==
    [kind |-> "output", id |-> block.id,
     parts |-> (IF block.error THEN <<"error">> ELSE <<>>) \o <<block.body>>
               \o (IF Noted(store, block) THEN <<"note">> ELSE <<>>)
               \o (IF NeedsGuidance(block, offsetCalls) THEN <<"guidance">> ELSE <<>>)]

RoleName(role) == IF role = "system" THEN "developer" ELSE role

\* What has been collected becomes a message before the next item.
Flushed(acc, role, item) ==
    [out |-> acc.out \o (IF acc.parts = <<>> THEN <<>> ELSE <<Message(RoleName(role), acc.parts)>>) \o item, parts |-> <<>>]

\* The next block of a message; blocks of other types are left out.
Taken(store, offsetCalls, role, acc, block) ==
    CASE block.type = "text" -> [acc EXCEPT !.parts = Append(@, block.value)]
      [] block.type = "image" /\ role = "user" -> [acc EXCEPT !.parts = Append(@, "image")]
      [] block.type = "tool_result" /\ role = "user" -> Flushed(acc, role, <<Rendered(store, block, offsetCalls)>>)
      [] block.type = "tool_use" /\ role = "assistant" ->
            Flushed(acc, role, <<[kind |-> "call", id |-> block.id, offset |-> block.offset, spelled |-> "client"]>>)
      [] block.type = "thinking" /\ role = "assistant" /\ block.signed ->
            Flushed(acc, role, <<[kind |-> "sealed", id |-> block.id]>>)
      [] OTHER -> acc

ItemsOf(store, message, offsetCalls) ==
    LET Take(acc, block) == Taken(store, offsetCalls, message.role, acc, block)
        all == FoldLeft(Take, [out |-> <<>>, parts |-> <<>>], message.blocks)
    IN  Flushed(all, message.role, <<>>).out

BuildInput(store, messages) ==
    FlattenSeq([i \in DOMAIN messages |-> ItemsOf(store, messages[i], OffsetCalls(SubSeq(messages, 1, i - 1)))])

PlanOf(settings) == Plan(settings.ask, Config)

\* translate_request: in the lite lane tools and instructions lead the input,
\* in the full lane they stand beside it.
Translated(store, messages, settings) ==
    (IF PlanOf(settings).lite
     THEN (IF settings.ask.tools = {} THEN <<>> ELSE <<[kind |-> "tools", tools |-> settings.ask.tools]>>)
          \o <<Message("developer", <<settings.instructions>>)>>
     ELSE <<>>)
    \o BuildInput(store, messages)

\* prompt_signature: everything but the input.
PromptSignature(settings) ==
    <<PlanOf(settings), IF PlanOf(settings).lite THEN "" ELSE settings.instructions>>

-----------------------------------------------------------------------------
(* The next request as an extension of the last answer. *)

\* input_items_equivalent: a call's arguments are compared as values.
Equivalent(a, b) ==
    IF a.kind = "call" /\ b.kind = "call" THEN a.id = b.id /\ a.offset = b.offset ELSE a = b

Extends(input, transcript) ==
    /\ Len(transcript) <= Len(input)
    /\ \A i \in DOMAIN transcript : Equivalent(input[i], transcript[i])

\* continuation_candidate_from_state: the offer, or the reason against it.
Reason(input, settings) ==
    IF recorded = Nothing THEN "missing_state"
    ELSE IF recorded.signature # PromptSignature(settings) THEN "prompt_changed"
    ELSE IF ~Extends(input, recorded.transcript) THEN "not_append_only"
    ELSE IF Len(input) = Len(recorded.transcript) THEN "empty_delta"
    ELSE "none"

Suffix(input) == SubSeq(input, Len(recorded.transcript) + 1, Len(input))

-----------------------------------------------------------------------------
(* The client. *)

UserMessage(blocks) == [role |-> "user", blocks |-> blocks]
TextBlock(value) == [type |-> "text", value |-> value]

ToolUses(messages) ==
    IF messages = <<>> \/ Last(messages).role # "assistant" THEN <<>>
    ELSE SelectSeq(Last(messages).blocks, LAMBDA b : b.type = "tool_use")

\* The next message answers every call of the last one, in the given manner.
NextMessages(manner) ==
    LET uses    == ToolUses(dialogue)
        results == [i \in DOMAIN uses |->
                       [type |-> "tool_result", id |-> uses[i].id, body |-> manner.body, error |-> manner.error]]
    IN  <<UserMessage(manner.lead \o results \o manner.trail)>>
        \o (IF manner.reminder THEN <<[role |-> "system", blocks |-> <<TextBlock("reminder")>>]>> ELSE <<>>)

\* After an answer the dialogue grows, its last exchange is done differently, or
\* a summary takes its place; after a failure the same is sent again.  What is
\* kept of the dialogue, and what is added.
AskedNext(manner) ==
    CASE asked.state = "none" -> {<<0, NextMessages(manner)>>}
      [] asked.state = "lost" -> {<<asked.kept, SubSeq(dialogue, asked.kept + 1, Len(dialogue))>>}
      [] OTHER -> {<<Len(dialogue), NextMessages(manner)>>,
                   <<asked.kept, <<UserMessage(manner.trail)>>>>,
                   <<0, <<UserMessage(<<TextBlock("summary")>>)>>>>}

NotAsked ==
    [state |-> "none", n |-> 0, kept |-> 0, settings |-> Nothing, reason |-> "none", input |-> <<>>, context |-> <<>>,
     recent |-> {}, noted |-> {}, owed |-> FALSE]

TalkInit ==
    /\ dialogue = <<>> /\ notes = <<>> /\ rewritten = <<>>
    /\ recorded = Nothing
    /\ understood = <<>>
    /\ asked = NotAsked

Results(messages) ==
    {b.id : b \in {c \in UNION {ToSet(messages[i].blocks) : i \in DOMAIN messages} : c.type = "tool_result"}}

\* An answer whose items the client's messages bring back one by one: no empty
\* text, and no text that follows another with nothing between that is kept.
Plain(answer) ==
    LET kept == SelectSeq(answer, LAMBDA kind : kind \notin {"unsealed", "search"})
    IN  /\ "silent" \notin ToSet(kept)
        /\ \A i \in 1 .. Len(kept) - 1 : ~(kept[i] = "text" /\ kept[i + 1] = "text")

\* History: only the dialogue grew, and nothing else that a request depends on changed.
OnlyGrew(settings, next) ==
    /\ asked.state = "answered" /\ next[1] = Len(dialogue)
    /\ recorded # Nothing /\ recorded.plain
    /\ settings = asked.settings
    /\ asked.noted \intersect Results(dialogue) \subseteq ToSet(notes)
    /\ BuildInput(notes, next[2]) # <<>>

\* The client asks; the backend translates and takes what was recorded.
Ask(manner, settings) ==
    /\ asked.state # "open" /\ asked.n < MaxAsked
    /\ ~PlanOf(settings).refused
    /\ \E next \in AskedNext(manner) :
          LET messages == SubSeq(dialogue, 1, next[1]) \o next[2]
              input    == Translated(notes, messages, settings)
              reason   == Reason(input, settings)
          IN  /\ dialogue' = messages
              /\ asked' =
                    [state |-> "open", n |-> asked.n + 1, kept |-> next[1], settings |-> settings,
                     reason |-> reason, input |-> input,
                     context |-> IF reason = "none" THEN understood \o Suffix(input) ELSE input,
                     recent |-> {rewritten[i] : i \in {j \in DOMAIN rewritten : j + MaxNotes > Len(rewritten)}},
                     noted |-> ToSet(notes),
                     owed |-> OnlyGrew(settings, next)]
    /\ recorded' = Nothing
    /\ UNCHANGED <<notes, understood, rewritten>>

\* The upstream completes the request: the client is shown the answer, and it
\* is captured and recorded.
Completes(answer) ==
    /\ asked.state = "open"
    /\ dialogue' = Append(dialogue, [role |-> "assistant", blocks |-> EachOf(ShownBlock, asked.n, answer)])
    /\ notes' = FoldLeft(Remember, notes, Rewrites(asked.n, answer))
    /\ rewritten' = rewritten \o Rewrites(asked.n, answer)
    /\ recorded' = [transcript |-> asked.input \o EachOf(Captured, asked.n, answer),
                    signature |-> PromptSignature(asked.settings), plain |-> Plain(answer)]
    /\ understood' = asked.context \o EachOf(Original, asked.n, answer)
    /\ asked' = [asked EXCEPT !.state = "answered"]

\* No answer, or one that is not to be continued: nothing is recorded.
Unanswered ==
    /\ asked.state = "open"
    /\ asked' = [asked EXCEPT !.state = "lost"]
    /\ UNCHANGED <<dialogue, notes, recorded, understood, rewritten>>

\* A call of another conversation is rewritten.
RewriteElsewhere ==
    /\ Cardinality({i \in DOMAIN rewritten : rewritten[i][1] = 0}) < MaxForeign
    /\ LET id == <<0, Len(rewritten) + 1>>
       IN  notes' = Remember(notes, id) /\ rewritten' = Append(rewritten, id)
    /\ UNCHANGED <<dialogue, recorded, understood, asked>>

\* The backend is started anew between two requests; the client goes on.
RestartBackend ==
    /\ asked.state = "answered" /\ recorded # Nothing
    /\ recorded' = Nothing /\ notes' = <<>> /\ rewritten' = <<>>
    /\ UNCHANGED <<dialogue, understood, asked>>

TalkNext ==
    \/ \E m \in Manners, s \in Settings : Ask(m, s)
    \/ \E a \in Replies : Completes(a)
    \/ Unanswered \/ RewriteElsewhere \/ RestartBackend

TalkSpec == TalkInit /\ PlanInit /\ [][TalkNext /\ UNCHANGED order]_<<talkVars, order>>

-----------------------------------------------------------------------------
(* Properties of the input. *)

\* Reference: what a block stands for, in the order of the client's messages.
BlockAtom(role, b) ==
    IF b.type = "text" THEN <<<<RoleName(role), b.value>>>>
    ELSE IF b.type = "image" /\ role = "user" THEN <<<<"user", "image">>>>
    ELSE IF b.type = "tool_result" /\ role = "user" THEN <<<<"output", b.id>>>>
    ELSE IF b.type = "tool_use" THEN <<<<"call", b.id>>>>
    ELSE IF b.type = "thinking" /\ b.signed THEN <<<<"sealed", b.id>>>>
    ELSE <<>>

Atoms(messages) ==
    FlattenSeq([i \in DOMAIN messages |->
        LET m == messages[i] IN FlattenSeq([j \in DOMAIN m.blocks |-> BlockAtom(m.role, m.blocks[j])])])

\* What an input item stands for.
ItemAtoms(item) ==
    CASE item.kind = "message" -> [i \in DOMAIN item.parts |-> <<item.role, item.parts[i]>>]
      [] item.kind \in {"call", "output", "sealed"} -> <<<<item.kind, item.id>>>>
      [] OTHER -> <<>>

EachItem(Op(_), items) == FlattenSeq([i \in DOMAIN items |-> Op(items[i])])

(* The translation keeps the order of the client's messages and leaves out
   nothing that the upstream understands, and sends no empty message. *)
TranslatesInOrder ==
    asked.state = "open" =>
        LET body == BuildInput(notes, dialogue)
        IN  /\ EachItem(ItemAtoms, body) = Atoms(dialogue)
            /\ \A i \in DOMAIN body : body[i].kind = "message" => body[i].parts # <<>>

\* An item as the upstream understands it: calls by their name (their
\* arguments were rewritten), results and texts with all that was said.
Meaning(item) ==
    CASE item.kind = "message" -> SelectSeq(ItemAtoms(item), LAMBDA a : a[2] # "")
      [] item.kind = "output"  -> <<<<"output", item.id, item.parts>>>>
      [] item.kind = "tools"   -> <<<<"tools", item.tools>>>>
      [] OTHER -> ItemAtoms(item)

(* A delta never changes what the upstream reads: its own context with the
   delta means what the full translation of the same messages means, whatever
   the client has edited, and whatever notes have come and gone. *)
SameContext ==
    asked.state = "open" => EachItem(Meaning, asked.context) = EachItem(Meaning, asked.input)

(* The result of a rewritten Read tells the model so, in every request, until
   enough other calls have been rewritten to push the note out. *)
NotesKept ==
    \A i \in DOMAIN asked.input :
        LET item == asked.input[i]
        IN  item.kind = "output" =>
                (Contains(item.parts, "note") <=> item.id \in asked.recent /\ ~Contains(item.parts, "quoted"))

(* A conversation that only grew is continued and not sent again, if its last
   answer was plain, nothing else of the request changed and no note was lost. *)
GrowingContinues == asked.state = "open" /\ asked.owed => asked.reason = "none"

ItemTypeOK(item) ==
    item.kind \in {"message", "call", "output", "sealed", "unsealed", "search", "tools"}

TalkTypeOK ==
    /\ \A i \in DOMAIN dialogue : dialogue[i].role \in {"user", "assistant", "system"}
    /\ Len(notes) <= MaxNotes /\ ToSet(notes) \subseteq ToSet(rewritten)
    /\ \A i \in DOMAIN asked.input : ItemTypeOK(asked.input[i])
    /\ \A i \in DOMAIN understood : ItemTypeOK(understood[i])
    /\ asked.state \in {"none", "open", "answered", "lost"} /\ asked.n \in 0 .. MaxAsked

\* Conversations are translated, continued and annotated as they should be, and
\* the rest of a request is planned so that the upstream accepts it.
ConversationSafety ==
    /\ TalkTypeOK /\ TranslatesInOrder /\ SameContext /\ NotesKept /\ GrowingContinues
    /\ PlanFits

================================================================================
