------------------------------ MODULE OpenAiStream ------------------------------
(***************************************************************************)
(* The OpenAI-compatible answer of a provider that speaks the Anthropic     *)
(* protocol: its content blocks are accumulated, and either rendered event  *)
(* by event as Chat Completions chunks or Responses events, or collected    *)
(* and answered whole.  The provider opens its blocks in the order of their *)
(* indices, fills them in any order, and may break off or break its         *)
(* protocol anywhere.                                                       *)
(*                                                                          *)
(* Texts, summaries and arguments are counted in pieces.  `reader` is what  *)
(* a client has assembled from the events it was sent.                      *)
(***************************************************************************)
EXTENDS Naturals, Sequences, SequencesExt

CONSTANTS
    MaxBlocks,  \* bound: blocks of an answer
    MaxPieces   \* bound: pieces of an answer

ASSUME OpenAiStreamAssumption == {MaxBlocks, MaxPieces} \subseteq Nat

BlockKinds    == {"text", "thinking", "tool", "search", "result"}
Surfaces == {"chat", "responses"}

VARIABLES
    wanted,    \* the request: its surface, and whether it is answered as a stream
    provider,  \* the provider's stream so far: which blocks it has closed, and its last event
    acc,       \* AnthropicAccumulator
    rendering, \* StreamState: reading, finished or over, and the outcome it reports
    reader     \* what the reader has been told

openAiVars == <<wanted, provider, acc, rendering, reader>>

ContentBlock == [kind: BlockKinds, given: 0 .. 1, units: 0 .. MaxPieces + 1, broken: BOOLEAN]
OutputItem  == [kind: BlockKinds \ {"result"}, block: Nat, units: Nat, done: BOOLEAN]

OpenAiTypeOK ==
    /\ wanted \in [surface: Surfaces, stream: BOOLEAN]
    /\ provider.closed \subseteq 1 .. MaxBlocks
    /\ provider.last \in {"none", "message_start", "content", "message_delta", "message_stop", "broken off"}
    /\ acc.blocks \in Seq(ContentBlock)
    /\ rendering.at \in {"generating", "reading", "finished", "over"}
    /\ rendering.outcome \in {"well", "failed"}
    /\ rendering.capture \in {"open", "completed", "failed", "abandoned"}
    /\ \A n \in DOMAIN reader.items : reader.items[n] \in OutputItem

OpenAiInit ==
    /\ wanted \in [surface: Surfaces, stream: BOOLEAN]
    /\ provider = [closed |-> {}, last |-> "none", late |-> FALSE]
    /\ acc = [blocks |-> <<>>, reason |-> "none", stopped |-> FALSE]
    /\ rendering = [at |-> "generating", outcome |-> "well", capture |-> "open"]
    /\ reader = [items |-> <<>>, text |-> 0, reasoning |-> 0, ends |-> <<>>, output |-> <<>>,
                 wrong |-> FALSE]

-----------------------------------------------------------------------------
(* What a block is called: its place among the items that the reader sees. *)

Blocks(test(_)) == {n \in DOMAIN acc.blocks : test(acc.blocks[n])}

IsItem(block) == block.kind # "result"
IsToolUse(block) == block.kind = "tool"

\* output_index and tool_index: of blocks that are known already.
OutputIndex(n) == Cardinality({m \in Blocks(IsItem) : m < n})
ToolIndex(n)   == Cardinality({m \in Blocks(IsToolUse) : m < n})

\* A mutant of PlaceOf: the results of hosted searches are counted.
PlaceOfAny(n) == IF wanted.surface = "responses" THEN n - 1 ELSE ToolIndex(n)

PlaceOf(n) == IF wanted.surface = "responses" THEN OutputIndex(n) ELSE ToolIndex(n)

\* Chat Completions has items for function calls only: text and reasoning are
\* put together whatever their block.
Shown(kind) == IF wanted.surface = "responses" THEN kind # "result" ELSE kind = "tool"

\* chat_response and responses_response: the items of the whole answer.
WholeOutput ==
    LET shown == SelectSeq([n \in DOMAIN acc.blocks |-> [acc.blocks[n] EXCEPT !.given = n]],
                           LAMBDA b : Shown(b.kind))
    IN  [n \in DOMAIN shown |->
            [kind |-> shown[n].kind, block |-> shown[n].given, units |-> shown[n].units, done |-> TRUE]]

\* All the text, or all the reasoning, of a whole Chat Completions answer.
AllOf(kind) ==
    FoldSeq(LAMBDA b, sum : IF b.kind = kind THEN sum + b.units ELSE sum, 0, acc.blocks)

-----------------------------------------------------------------------------
(* What the reader makes of an event. *)

IsPlaced(place) == place + 1 \in DOMAIN reader.items

\* output_item.added, or the first chunk of a tool call: it must be the next item.
Added(n, kind) ==
    LET place == PlaceOf(n)
    IN  IF ~Shown(kind) THEN reader
        ELSE IF place # Len(reader.items) THEN [reader EXCEPT !.wrong = TRUE]
        ELSE [reader EXCEPT !.items =
                 Append(@, [kind |-> kind, block |-> n, units |-> 0, done |-> FALSE])]

\* A delta of an item that is there and not done.
Grown(n, kind) ==
    LET place == PlaceOf(n)
    IN  CASE Shown(kind) /\ kind # "search" ->
               IF IsPlaced(place) /\ reader.items[place + 1].block = n /\ ~reader.items[place + 1].done
               THEN [reader EXCEPT !.items[place + 1].units = @ + 1]
               ELSE [reader EXCEPT !.wrong = TRUE]
          [] wanted.surface = "chat" /\ kind = "text"     -> [reader EXCEPT !.text = @ + 1]
          [] wanted.surface = "chat" /\ kind = "thinking" -> [reader EXCEPT !.reasoning = @ + 1]
          [] OTHER                                       -> reader

\* output_item.done carries the item as the accumulator has it.
ClosedItem(n, block) ==
    LET place == PlaceOf(n)
    IN  IF wanted.surface = "chat" \/ ~Shown(block.kind) THEN reader
        ELSE IF IsPlaced(place) /\ reader.items[place + 1].block = n /\ ~reader.items[place + 1].done
             THEN [reader EXCEPT !.items[place + 1].done = TRUE, !.items[place + 1].units = block.units]
             ELSE [reader EXCEPT !.wrong = TRUE]

\* [DONE], or response.completed with the whole output.
ToldEnd(end) == [reader EXCEPT !.ends = Append(@, end), !.output = IF end = "failed" THEN @ ELSE WholeOutput]

\* Renderer::render, for a reader that reads a stream.
Emits(told) == reader' = IF wanted.stream THEN told ELSE reader

-----------------------------------------------------------------------------
ReadsOn == rendering.at = "reading" /\ provider.last # "broken off"

\* StreamState::fail; or the error that a whole answer becomes.
EndsFailed ==
    /\ rendering' = [rendering EXCEPT !.at = "finished", !.outcome = "failed"]
    /\ reader' = ToldEnd("failed")

\* generate_anthropic_stream
Generates ==
    /\ rendering.at = "generating"
    /\ \/ rendering' = [rendering EXCEPT !.at = "reading"] /\ UNCHANGED reader
       \/ EndsFailed
    /\ UNCHANGED <<wanted, provider, acc>>

MessageStart ==
    /\ ReadsOn /\ provider.last = "none"
    /\ provider' = [provider EXCEPT !.last = "message_start"]
    /\ UNCHANGED <<wanted, acc, rendering, reader>>

Inside == provider.last \in {"message_start", "content"}

\* content_block_start, perhaps with the beginning of the content.
BlockStart ==
    /\ ReadsOn /\ Inside /\ Len(acc.blocks) < MaxBlocks
    /\ \E kind \in BlockKinds, given \in 0 .. 1 :
          /\ kind \in {"search", "result"} => given = 0
          /\ acc' = [acc EXCEPT !.blocks = Append(@, [kind |-> kind, given |-> given,
                                                      units |-> given, broken |-> FALSE])]
          /\ Emits(LET n == Len(acc.blocks) + 1 IN Added(n, kind))
    /\ provider' = [provider EXCEPT !.last = "content"]
    /\ UNCHANGED <<wanted, rendering>>

Pieces == FoldSeq(LAMBDA b, sum : sum + b.units - b.given, 0, acc.blocks)

\* content_block_delta; arguments may stop being a JSON document.
BlockDelta ==
    /\ ReadsOn /\ Pieces < MaxPieces
    /\ \E n \in DOMAIN acc.blocks \ provider.closed :
          LET block == acc.blocks[n]
          IN  /\ block.kind # "result"
              /\ \E breaks \in BOOLEAN :
                    /\ breaks => block.kind \in {"tool", "search"}
                    /\ acc' = [acc EXCEPT !.blocks[n] =
                                  [block EXCEPT !.units = @ + 1, !.broken = @ \/ breaks]]
              /\ Emits(Grown(n, block.kind))
    /\ UNCHANGED <<wanted, provider, rendering>>

\* content_block_stop: malformed arguments end the answer.
BlockStop ==
    /\ ReadsOn
    /\ \E n \in DOMAIN acc.blocks \ provider.closed :
          /\ provider' = [provider EXCEPT !.closed = @ \union {n}]
          /\ IF acc.blocks[n].broken THEN EndsFailed
             ELSE Emits(ClosedItem(n, acc.blocks[n])) /\ UNCHANGED rendering
    /\ UNCHANGED <<wanted, acc>>

MessageDelta ==
    /\ ReadsOn /\ Inside /\ provider.closed = DOMAIN acc.blocks
    /\ \E reason \in {"end_turn", "max_tokens"} : acc' = [acc EXCEPT !.reason = reason]
    /\ provider' = [provider EXCEPT !.last = "message_delta"]
    /\ UNCHANGED <<wanted, rendering, reader>>

MessageStop ==
    /\ ReadsOn /\ provider.last = "message_delta"
    /\ provider' = [provider EXCEPT !.last = "message_stop"]
    /\ acc' = [acc EXCEPT !.stopped = TRUE]
    /\ Emits(ToldEnd(IF acc.reason = "max_tokens" THEN "incomplete" ELSE "completed"))
    /\ UNCHANGED <<wanted, rendering>>

\* An error event, an event or block that is not supported, a delta that does
\* not fit its block, an event or an answer above the limit, a read that fails,
\* or bytes that end within an event: after message_stop too.
ProviderBreaks ==
    /\ ReadsOn /\ EndsFailed
    /\ provider' = [provider EXCEPT !.last = "broken off", !.late = acc.stopped]
    /\ UNCHANGED <<wanted, acc>>

\* The body ends: complete only after message_stop.
EndOfBody ==
    /\ ReadsOn
    /\ IF acc.stopped
       THEN /\ rendering' = [rendering EXCEPT !.at = "finished"]
            /\ reader' = IF wanted.stream THEN reader
                         ELSE ToldEnd(IF acc.reason = "max_tokens" THEN "incomplete" ELSE "completed")
       ELSE EndsFailed
    /\ UNCHANGED <<wanted, provider, acc>>

\* finish_capture, once nothing is pending; only streams are captured so.
Drained ==
    /\ rendering.at = "finished"
    /\ rendering' = [rendering EXCEPT !.at = "over", !.capture =
                    IF ~wanted.stream THEN @
                    ELSE IF rendering.outcome = "failed" THEN "failed" ELSE "completed"]
    /\ UNCHANGED <<wanted, provider, acc, reader>>

\* The reader leaves: the stream is dropped.
ReaderLeaves ==
    /\ rendering.at # "over"
    /\ rendering' = [rendering EXCEPT !.at = "over", !.capture =
                    IF wanted.stream /\ rendering.at # "generating" THEN "abandoned" ELSE @]
    /\ UNCHANGED <<wanted, provider, acc, reader>>

OpenAiNext ==
    \/ Generates \/ MessageStart \/ BlockStart \/ BlockDelta \/ BlockStop
    \/ MessageDelta \/ MessageStop \/ ProviderBreaks \/ EndOfBody \/ Drained \/ ReaderLeaves

OpenAiSpec == OpenAiInit /\ [][OpenAiNext]_openAiVars

-----------------------------------------------------------------------------
(* A reader that reads a stream puts together what it would have been
   answered whole: every item is announced in the next place, filled there and
   nowhere else, and done as the final answer has it, although places are
   counted from blocks and some blocks have none.  What a block brings with
   its start reaches a Chat Completions stream not at all: it is in none of
   the chunks. *)
StreamedAsWhole ==
    /\ ~reader.wrong
    /\ \A n \in DOMAIN reader.ends : reader.ends[n] # "failed" =>
          /\ reader.output = WholeOutput
          /\ wanted.stream /\ wanted.surface = "responses" => reader.items = WholeOutput
          /\ wanted.stream /\ wanted.surface = "chat" =>
                /\ Len(reader.items) = Len(WholeOutput)
                /\ \A i \in DOMAIN WholeOutput :
                      LET b == acc.blocks[WholeOutput[i].block]
                      IN  reader.items[i] = [WholeOutput[i] EXCEPT !.units = b.units - b.given, !.done = FALSE]
                /\ (\A b \in ToSet(acc.blocks) : b.given = 0) =>
                      reader.text = AllOf("text") /\ reader.reasoning = AllOf("thinking")

(* A reader is told how its answer ended exactly once, and never that an
   answer was complete whose provider broke off, sent malformed arguments or
   stopped early.  A provider that fails after its last event is the
   exception: the stream then ends twice, the second time as a failure. *)
EndsOnce ==
    /\ rendering.at = "finished" => Len(reader.ends) = IF wanted.stream /\ provider.late THEN 2 ELSE 1
    /\ reader.ends # <<>> /\ reader.ends[1] # "failed" =>
          /\ acc.stopped /\ \A b \in ToSet(acc.blocks) : ~b.broken
    /\ Len(reader.ends) = 2 => reader.ends[2] = "failed"

(* What the capture and the monitor are told agrees with the reader's last
   word, and a stream that its reader has left is neither complete nor failed. *)
CapturedAsEnded ==
    rendering.capture \in {"completed", "failed"} =>
        /\ (rendering.capture = "failed") <=> (rendering.outcome = "failed")
        /\ (rendering.capture = "failed") <=> (Last(reader.ends) = "failed")

OpenAiSafety == OpenAiTypeOK /\ StreamedAsWhole /\ EndsOnce /\ CapturedAsEnded
================================================================================
