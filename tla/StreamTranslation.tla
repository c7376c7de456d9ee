--------------------------- MODULE StreamTranslation ---------------------------
(***************************************************************************)
(* The two translations of a Codex answer into Anthropic content blocks: the *)
(* live one, which emits blocks while events arrive, and the reducer, which  *)
(* works on the whole body of a buffered request.  Both read the same events *)
(* here, of items that interleave freely.                                   *)
(*                                                                          *)
(* Text, arguments and summaries are counted in pieces.  A message maps     *)
(* block indices to blocks; `broken` remembers a block that was started     *)
(* twice, or written or stopped while it was not open.                      *)
(***************************************************************************)
EXTENDS Naturals, Sequences, FiniteSets, Functions

CONSTANTS
    Item,      \* output indices of the upstream
    MaxEvents  \* bound: events of one answer

ASSUME StreamTranslationAssumption == MaxEvents \in Nat /\ IsFiniteSet(Item) /\ "no_block" \notin Item

Types   == {"reasoning", "message", "call", "read", "search"}
NoBlock == "no_block"

VARIABLES
    item,    \* [Item -> what the upstream has told of it]
    events,  \* how many events so far
    live,    \* LiveStreamTranslator
    reduced  \* reduce_upstream_bytes_with_policy, as far as it has read

streamVars == <<item, events, live, reduced>>

ItemTold == [type: Types \union {"none"}, at: {"new", "begun", "ended", "added", "done"}]  \* begun, ended: never added
Phase == {"open", "completed", "repaired", "closed", "failed"}
EmptyMessage == [blocks |-> <<>>, broken |-> FALSE]
NoThinking == [item |-> NoBlock, index |-> 0]

TranslationTypeOK ==
    /\ item \in [Item -> ItemTold] /\ events \in 0 .. MaxEvents
    /\ {live.at, reduced.at} \subseteq Phase
    /\ DOMAIN live.open \subseteq Item /\ DOMAIN reduced.open \subseteq Item
    /\ {live.sealed, reduced.sealed} \subseteq SUBSET Item
    /\ {live.next, reduced.next} \subseteq Nat
    /\ DOMAIN live.message.blocks \subseteq 0 .. live.next - 1

TranslationInit ==
    LET empty == [message |-> EmptyMessage, open |-> <<>>, next |-> 0, thinking |-> NoThinking,
                  sealed |-> {}, tools |-> FALSE, at |-> "open",
                  searches |-> <<>>, deferred |-> <<>>]  \* of the live one only
    IN  /\ item = [i \in Item |-> [type |-> "none", at |-> "new"]] /\ events = 0
        /\ live = empty /\ reduced = empty

-----------------------------------------------------------------------------
(* Content blocks, as a client assembles them. *)

Put(f, x, y) == [z \in DOMAIN f \union {x} |-> IF z = x THEN y ELSE f[z]]
IsOpen(m, i) == i \in DOMAIN m.blocks /\ m.blocks[i].open

Start(m, i, kind) ==
    [blocks |-> Put(m.blocks, i, [kind |-> kind, units |-> 0, signed |-> FALSE, open |-> TRUE]),
     broken |-> m.broken \/ i \in DOMAIN m.blocks]

Change(m, i, block) ==
    IF IsOpen(m, i) THEN [m EXCEPT !.blocks[i] = block] ELSE [m EXCEPT !.broken = TRUE]

Delta(m, i, n) == Change(m, i, [m.blocks[i] EXCEPT !.units = @ + n])
Sign(m, i)     == Change(m, i, [m.blocks[i] EXCEPT !.signed = TRUE])
Stop(m, i)     == Change(m, i, [m.blocks[i] EXCEPT !.open = FALSE])

-----------------------------------------------------------------------------
(* What both translators do in the same way: each has its own code for it. *)

\* capture: the first encrypted content, added or done.
Captured(t, i, seals) == IF seals THEN [t EXCEPT !.sealed = @ \union {i}] ELSE t

\* close_thinking, with the signature if there is one.
ThinkingClosed(t) ==
    LET i == t.thinking.item
        signed == IF i \in t.sealed THEN Sign(t.message, t.thinking.index) ELSE t.message
    IN  IF i = NoBlock THEN t
        ELSE [t EXCEPT !.thinking = NoThinking, !.sealed = @ \ {i},
                       !.message = Stop(signed, t.thinking.index)]

\* emit_signature_only_reasoning
SignatureOnly(t, i) ==
    IF i \notin t.sealed THEN t
    ELSE [t EXCEPT !.sealed = @ \ {i}, !.next = @ + 1,
                   !.message = Stop(Sign(Start(@, t.next, "thinking"), t.next), t.next)]

Summarised(t, i) ==
    LET closed == ThinkingClosed(t)
        begun  == IF t.thinking.item = i THEN t
                  ELSE [closed EXCEPT !.thinking = [item |-> i, index |-> closed.next],
                                      !.next = @ + 1,
                                      !.message = Start(@, closed.next, "thinking")]
    IN  [begun EXCEPT !.message = Delta(@, begun.thinking.index, 1)]

ReasoningDone(t, i, seals) ==
    LET known == Captured(t, i, seals)
    IN  IF t.thinking.item = i THEN ThinkingClosed(known)
        ELSE SignatureOnly(ThinkingClosed(known), i)

OpenBlock(kind, index, deferred, buffered) ==
    [kind |-> kind, index |-> index, units |-> 0, deferred |-> deferred, buffered |-> buffered,
     emitted |-> FALSE]

\* A text block, deferred or started at once.
TextBegun(t, i, deferred) ==
    [t EXCEPT !.next = @ + 1, !.open = Put(@, i, OpenBlock("text", t.next, deferred, FALSE)),
              !.message = IF deferred THEN @ ELSE Start(@, t.next, "text")]

\* A function call; the arguments of Read are buffered.
CallBegun(t, i, type) ==
    [t EXCEPT !.next = @ + 1, !.tools = TRUE,
              !.open = Put(@, i, OpenBlock("tool", t.next, FALSE, type = "read")),
              !.message = Start(@, t.next, "tool")]

IsTool(t, i) == i \in DOMAIN t.open /\ t.open[i].kind = "tool"

WithoutBlock(t, i) == [t EXCEPT !.open = Restrict(@, DOMAIN @ \ {i})]

\* Arguments: counted and passed on, or buffered; a Read that stalls in white
\* space is repaired, and ends the answer.
ArgumentsRead(t, i, stalls) ==
    LET b == t.open[i]
    IN  IF ~IsTool(t, i) THEN t
        ELSE IF ~b.buffered
        THEN [t EXCEPT !.open[i].units = @ + 1, !.open[i].emitted = TRUE,
                       !.message = Delta(@, b.index, 1)]
        ELSE IF stalls
        THEN [WithoutBlock(t, i) EXCEPT !.at = "repaired",
                       !.message = Stop(Delta(@, b.index, b.units + 1), b.index)]
        ELSE [t EXCEPT !.open[i].units = @ + 1]

\* function_call_arguments.done: all of the arguments, if none have come.
ArgumentsGiven(t, i) ==
    IF IsTool(t, i) /\ t.open[i].units = 0 THEN [t EXCEPT !.open[i].units = 1] ELSE t

\* The block of a call is complete; the item may hold the arguments.
CallDone(t, i, given) ==
    LET b == t.open[i]
        units == IF given /\ b.units = 0 THEN 1 ELSE b.units
        shown == IF units > 0 /\ (b.buffered \/ ~b.emitted)
                 THEN Delta(t.message, b.index, units) ELSE t.message
    IN  [WithoutBlock(t, i) EXCEPT !.message = Stop(shown, b.index)]

-----------------------------------------------------------------------------
(* live_stream.rs *)

LiveAdded(i, type, seals) ==
    CASE type = "reasoning" -> Captured(live, i, seals)
      [] type = "message"   -> TextBegun(ThinkingClosed(live), i, live.searches # <<>>)
      [] type = "search"    -> live
      [] OTHER              -> CallBegun(ThinkingClosed(live), i, type)

\* A mutant of LiveText: every delta is passed on, to a block that waits as well.
LiveTextAtOnce(i) ==
    LET closed == ThinkingClosed(live)
        begun  == IF i \in DOMAIN closed.open THEN closed
                  ELSE TextBegun(closed, i, live.searches # <<>>)
    IN  [begun EXCEPT !.open[i].units = @ + 1, !.message = Delta(@, begun.open[i].index, 1)]

\* text_delta: a block is made for text that came without its item.
LiveText(i) ==
    LET closed == ThinkingClosed(live)
        begun  == IF i \in DOMAIN closed.open THEN closed
                  ELSE TextBegun(closed, i, live.searches # <<>>)
    IN  IF begun.open[i].kind # "text" THEN begun
        ELSE [begun EXCEPT !.open[i].units = @ + 1,
                           !.message = IF begun.open[i].deferred THEN @
                                       ELSE Delta(@, begun.open[i].index, 1)]

\* output_item_done
LiveDone(i, given, seals) ==
    CASE item[i].type = "reasoning" -> ReasoningDone(live, i, seals)
      [] item[i].type = "search" ->
            LET closed == ThinkingClosed(live)
            IN  [closed EXCEPT !.searches = Append(@, closed.next), !.next = @ + 2]
      [] OTHER ->
            IF i \notin DOMAIN live.open THEN live
            ELSE IF live.open[i].kind = "tool" THEN CallDone(live, i, given)
            ELSE IF live.open[i].deferred
            THEN [WithoutBlock(live, i) EXCEPT !.deferred = Append(@, live.open[i])]
            ELSE [WithoutBlock(live, i) EXCEPT !.message = Stop(@, live.open[i].index)]

\* close_open_blocks, emit_web_searches and what was deferred.
Whole(m, i, kind, units) ==
    LET begun == Start(m, i, kind)
    IN  Stop(IF units > 0 THEN Delta(begun, i, units) ELSE begun, i)

LiveFinished ==
    LET t == ThinkingClosed(live)
        now == {i \in DOMAIN t.open : ~t.open[i].deferred}
        stopped == FoldFunctionOnSet(LAMBDA b, m : Stop(m, b.index), t.message, t.open, now)
        searched == FoldFunction(LAMBDA n, m : Whole(Whole(m, n, "search", 1), n + 1, "result", 0),
                                 stopped, t.searches)
        waiting == [i \in DOMAIN t.open \ now |-> t.open[i]]
        Later(b, m) == Whole(m, b.index, "text", b.units)
    IN  [t EXCEPT !.at = "completed", !.open = <<>>, !.searches = <<>>, !.deferred = <<>>,
                  !.message = FoldFunction(Later, FoldFunction(Later, searched, t.deferred), waiting)]

\* The stream is closed without an end: complete calls make it one, and
\* anything else is an error, which stops no block.
LiveClosed ==
    IF live.tools /\ DOMAIN live.open = {}
    THEN [ThinkingClosed(live) EXCEPT !.at = "closed"]
    ELSE [live EXCEPT !.at = "failed"]

-----------------------------------------------------------------------------
(* reducer.rs; the events it makes are rendered with searches last, which      *)
(* changes the order of blocks and not their content.                          *)

ReducedAdded(i, type, seals) ==
    CASE type = "reasoning" -> Captured(reduced, i, seals)
      [] type = "message"   -> TextBegun(ThinkingClosed(reduced), i, FALSE)
      [] type = "search"    -> reduced
      [] OTHER              -> CallBegun(ThinkingClosed(reduced), i, type)

\* Text of an unknown item is dropped.
ReducedText(i) ==
    LET closed == ThinkingClosed(reduced)
    IN  IF i \notin DOMAIN closed.open \/ closed.open[i].kind # "text" THEN closed
        ELSE [closed EXCEPT !.message = Delta(@, closed.open[i].index, 1)]

ReducedDone(i, given, seals) ==
    CASE item[i].type = "reasoning" -> ReasoningDone(reduced, i, seals)
      [] item[i].type = "search" ->
            LET t == ThinkingClosed(reduced)
            IN  [t EXCEPT !.next = @ + 2,
                          !.message = Whole(Whole(@, t.next, "search", 1), t.next + 1, "result", 0)]
      [] OTHER ->
            IF i \notin DOMAIN reduced.open THEN reduced
            ELSE IF reduced.open[i].kind = "tool" THEN CallDone(reduced, i, given)
            ELSE [WithoutBlock(reduced, i) EXCEPT !.message = Stop(@, reduced.open[i].index)]

\* A terminal event: blocks that are still open make the whole body an error.
ReducedFinished ==
    IF DOMAIN reduced.open # {} THEN [reduced EXCEPT !.at = "failed"]
    ELSE [ThinkingClosed(reduced) EXCEPT !.at = "completed"]

-----------------------------------------------------------------------------
(* The upstream. *)

\* Neither reads on after its end.
Reads(l, r) ==
    /\ live' = IF live.at = "open" THEN l ELSE live
    /\ reduced' = IF reduced.at = "open" THEN r ELSE reduced

Event == events < MaxEvents /\ live.at = "open" /\ events' = events + 1

Tells(i, type, at) == item' = [item EXCEPT ![i] = [type |-> type, at |-> at]]

ItemAdded(i) ==
    /\ Event /\ item[i].at = "new"
    /\ \E type \in Types, seals \in BOOLEAN :
          /\ seals => type = "reasoning"
          /\ Tells(i, type, "added")
          /\ Reads(LiveAdded(i, type, seals), ReducedAdded(i, type, seals))

\* reasoning_summary_text.delta, or the part that separates two of them.
SummaryDelta(i) ==
    /\ Event /\ item[i].at \in {"new", "added"} /\ item[i].type \in {"none", "reasoning"}
    /\ IF item[i].at = "new" THEN Tells(i, "reasoning", "added") ELSE UNCHANGED item
    /\ Reads(Summarised(live, i), Summarised(reduced, i))

SummaryPart(i) ==
    LET Separated(t) == IF t.thinking.item # i THEN t
                        ELSE [t EXCEPT !.message = Delta(@, t.thinking.index, 1)]
    IN  /\ Event /\ item[i].at = "added" /\ item[i].type = "reasoning"
        /\ Reads(Separated(live), Separated(reduced)) /\ UNCHANGED item

\* Text, whose item may have been left out.
TextDelta(i) ==
    /\ Event /\ item[i].at \in {"new", "begun", "added"} /\ item[i].type \in {"none", "message"}
    /\ IF item[i].at = "new" THEN Tells(i, "message", "begun") ELSE UNCHANGED item
    /\ Reads(LiveText(i), ReducedText(i))

ArgumentsDelta(i) ==
    /\ Event /\ item[i].at = "added" /\ item[i].type \in {"call", "read"}
    /\ \E stalls \in BOOLEAN : Reads(ArgumentsRead(live, i, stalls), ArgumentsRead(reduced, i, stalls))
    /\ UNCHANGED item

ArgumentsDone(i) ==
    /\ Event /\ item[i].at = "added" /\ item[i].type \in {"call", "read"}
    /\ Reads(ArgumentsGiven(live, i), ArgumentsGiven(reduced, i)) /\ UNCHANGED item

ItemDone(i) ==
    /\ Event /\ item[i].at \in {"begun", "added"}
    /\ \E given, seals \in BOOLEAN :
          /\ given => item[i].type \in {"call", "read"}
          /\ seals => item[i].type = "reasoning"
          /\ Reads(LiveDone(i, given, seals), ReducedDone(i, given, seals))
    /\ Tells(i, item[i].type, IF item[i].at = "begun" THEN "ended" ELSE "done")

Completed == Event /\ Reads(LiveFinished, ReducedFinished) /\ UNCHANGED item

\* response.failed and its like, or a body or connection that breaks off.
Breaks ==
    /\ Event /\ UNCHANGED item
    /\ Reads([live EXCEPT !.at = "failed"], [reduced EXCEPT !.at = "failed"])

Closes == Event /\ Reads(LiveClosed, [reduced EXCEPT !.at = "failed"]) /\ UNCHANGED item

TranslationNext ==
    \/ \E i \in Item : \/ ItemAdded(i) \/ SummaryDelta(i) \/ SummaryPart(i) \/ TextDelta(i)
                       \/ ArgumentsDelta(i) \/ ArgumentsDone(i) \/ ItemDone(i)
    \/ Completed \/ Breaks \/ Closes

TranslationSpec == TranslationInit /\ [][TranslationNext]_streamVars

-----------------------------------------------------------------------------
(* Each block is started once and written and stopped only while it is open,
   by both translators; and when the upstream's completion ends the message,
   every block that was begun has been stopped: none is left out, those that a
   search has delayed included, however the items interleave. *)
BlocksWellFormed ==
    /\ ~live.message.broken /\ ~reduced.message.broken
    /\ live.at = "completed" =>
          /\ DOMAIN live.message.blocks = 0 .. live.next - 1
          /\ \A b \in DOMAIN live.message.blocks : ~live.message.blocks[b].open

(* A live tool block is stopped only when its item is complete, the upstream
   has completed, or its own arguments were repaired: an error never has a
   client dispatch a call with half of its arguments (error_chunk). *)
ToolsStopWhenDone ==
    live.at \in {"open", "failed", "closed"} =>
        Cardinality({b \in DOMAIN live.message.blocks : /\ live.message.blocks[b].kind = "tool"
                                                        /\ ~live.message.blocks[b].open})
        = Cardinality({i \in Item : item[i].at = "done" /\ item[i].type \in {"call", "read"}})

(* A streamed and a buffered client get the same message: block by block the
   same kind, text, arguments and signature, for every answer that both
   translators accept and whose text does not come without its item. *)
LiveMatchesBuffered ==
    /\ live.at = "completed" /\ reduced.at = "completed"
    /\ \A i \in Item : item[i].at \notin {"begun", "ended"}
    => live.message.blocks = reduced.message.blocks

TranslationSafety == TranslationTypeOK /\ BlocksWellFormed /\ ToolsStopWhenDone /\ LiveMatchesBuffered
================================================================================
