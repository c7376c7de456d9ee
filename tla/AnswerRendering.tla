---------------------------- MODULE AnswerRendering ----------------------------
(***************************************************************************)
(* The two renderings of a whole Codex answer: what the reducer has made of  *)
(* it is turned into a stream for a client that wants one                   *)
(* (translate_stream_bytes) and into one message for another                *)
(* (accumulate_response).  A search is shown with what the texts of the     *)
(* answer link to, so it waits for the end, and with it, in a stream, all    *)
(* that comes after it.                                                     *)
(*                                                                         *)
(* As it stands only the tests reach translate_stream_bytes: /v1/messages    *)
(* calls it (mod.rs:466-469), but whoever wants a stream has been answered    *)
(* live before (mod.rs:357-389).  The reducer serves both renderings.        *)
(*                                                                         *)
(* Messages and their blocks are those of StreamTranslation; the units of a  *)
(* search's result are its links.                                           *)
(***************************************************************************)
EXTENDS StreamTranslation, SequencesExt

CONSTANTS
    MaxReduced, \* bound: events of the reducer
    MaxShown    \* bound: blocks of an answer

ASSUME AnswerRenderingAssumption == {MaxReduced, MaxShown} \subseteq Nat

VARIABLES
    reducer,     \* what the reducer has made so far: the next index, the blocks it has not
                 \* ended and of how many upstream events; whether it gave up waiting for a
                 \* Read's end; and the links in the texts, before and after a search
    rendered,    \* translate_stream_bytes_with_traffic
    accumulated  \* accumulate_response: its blocks by index, its searches
    
renderVars == <<reducer, rendered, accumulated>>

\* A delta of a text may hold a link.
Happens(type, index, linked) == [type |-> type, index |-> index, linked |-> linked]

RenderInit ==
    /\ reducer = [next |-> 0, open |-> <<>>, made |-> 0, finished |-> FALSE, repaired |-> FALSE,
                  early |-> 0, late |-> 0, searched |-> FALSE]
    /\ rendered = [message |-> EmptyMessage, started |-> FALSE, searches |-> <<>>, deferred |-> <<>>,
                   ended |-> FALSE]
    /\ accumulated = [blocks |-> <<>>, searches |-> <<>>, content |-> <<>>]

-----------------------------------------------------------------------------
(* translate/stream.rs *)

\* emit_content_event; only what starts a block makes sure of message_start.
Emitted(r, e) ==
    LET m == r.message IN
    CASE e.type \in {"thinking", "text", "tool"} ->
           [r EXCEPT !.started = TRUE, !.message = Start(m, e.index, e.type)]
      [] e.type = "delta"     -> [r EXCEPT !.message = Delta(m, e.index, 1)]
      [] e.type = "signature" -> [r EXCEPT !.message = Sign(m, e.index)]
      [] e.type = "stop"      -> [r EXCEPT !.message = Stop(m, e.index)]

\* A mutant of Renders: what ends a block does not wait.
RendersStops(r, e) ==
    IF e.type = "search" THEN [r EXCEPT !.searches = Append(@, e.index)]
    ELSE IF r.searches # <<>> /\ e.type # "stop" THEN [r EXCEPT !.deferred = Append(@, e)]
    ELSE Emitted(r, e)

\* Once there was a search, content waits.
Renders(r, e) ==
    IF e.type = "search" THEN [r EXCEPT !.searches = Append(@, e.index)]
    ELSE IF r.searches # <<>> THEN [r EXCEPT !.deferred = Append(@, e)]
    ELSE Emitted(r, e)

Links(events_) == Cardinality({i \in DOMAIN events_ : events_[i].linked})

\* At the end: the searches, with the links of what waited; what waited; the end.
RendersFinish(r) ==
    LET shown(m, index) == Whole(Whole(m, index, "search", 1), index + 1, "result", Links(r.deferred))
        searched == [r EXCEPT !.message = FoldLeft(shown, @, r.searches)]
        later    == FoldLeft(Emitted, searched, r.deferred)
    IN  [later EXCEPT !.started = TRUE, !.ended = TRUE]

-----------------------------------------------------------------------------
(* translate/accumulate.rs *)

Accumulates(a, e) ==
    CASE e.type = "search" -> [a EXCEPT !.searches = Append(@, e.index)]
      [] e.type \in {"thinking", "text", "tool"} ->
           [a EXCEPT !.blocks = Put(@, e.index, [kind |-> e.type, units |-> 0, signed |-> FALSE])]
      [] e.type = "delta"     -> [a EXCEPT !.blocks[e.index].units = @ + 1]
      [] e.type = "signature" -> [a EXCEPT !.blocks[e.index].signed = TRUE]
      [] e.type = "stop"      -> a

\* A text or a thought of which there is nothing is left out.
IsSubstantial(block) == block.kind \notin {"text", "thinking"} \/ block.units > 0 \/ block.signed

\* The searches, with the links of all the texts, and the blocks, by their indices.
AccumulatedFinish(a) ==
    LET whole(kind, units) == [kind |-> kind, units |-> units, signed |-> FALSE]
        searched == FoldLeft(LAMBDA blocks, index :
                                 Put(Put(blocks, index, whole("search", 1)), index + 1,
                                     whole("result", reducer.early + reducer.late)),
                             a.blocks, a.searches)
    IN  [a EXCEPT !.content =
            SelectSeq([i \in 1 .. reducer.next |-> searched[i - 1]], IsSubstantial)]

-----------------------------------------------------------------------------
(* translate/reducer.rs: what one upstream event becomes.  Every block has the *)
(* next index.  A "read" is a tool whose arguments wait for the item's end; at *)
(* most one block is a thought, and it ends where another item speaks.         *)

Makes(events_) ==
    /\ ~reducer.finished /\ reducer.made < MaxReduced
    /\ rendered' = FoldLeft(Renders, rendered, events_)
    /\ accumulated' = FoldLeft(Accumulates, accumulated, events_)

Thoughts == {i \in DOMAIN reducer.open : reducer.open[i] = "thinking"}
Thoughtless == Restrict(reducer.open, DOMAIN reducer.open \ Thoughts)

\* close_thinking; there is a signature if the item came with what makes one.
Closing(signed) ==
    IF Thoughts = {} THEN <<>>
    ELSE LET i == CHOOSE j \in Thoughts : TRUE
         IN  (IF signed THEN <<Happens("signature", i, FALSE)>> ELSE <<>>) \o <<Happens("stop", i, FALSE)>>

MakesBlock ==
    /\ reducer.next < MaxShown
    /\ \E kind \in {"text", "tool", "read"}, signed \in BOOLEAN :
          /\ Makes(Append(Closing(signed), Happens(IF kind = "read" THEN "tool" ELSE kind, reducer.next, FALSE)))
          /\ reducer' = [reducer EXCEPT !.next = @ + 1, !.made = @ + 1,
                                        !.open = Put(Thoughtless, reducer.next, kind)]

\* A summary of another item than the one that thinks.
MakesThought ==
    /\ reducer.next < MaxShown
    /\ \E signed \in BOOLEAN :
          Makes(Closing(signed) \o <<Happens("thinking", reducer.next, FALSE), Happens("delta", reducer.next, FALSE)>>)
    /\ reducer' = [reducer EXCEPT !.next = @ + 1, !.made = @ + 1,
                                  !.open = Put(Thoughtless, reducer.next, "thinking")]

\* emit_signature_only_reasoning
MakesSealed ==
    /\ reducer.next < MaxShown
    /\ \E signed \in BOOLEAN :
          Makes(Closing(signed) \o <<Happens("thinking", reducer.next, FALSE),
                                      Happens("signature", reducer.next, FALSE), Happens("stop", reducer.next, FALSE)>>)
    /\ reducer' = [reducer EXCEPT !.next = @ + 1, !.made = @ + 1, !.open = Thoughtless]

\* Only a text has an end put to a thought by its deltas.
MakesDelta ==
    \E i \in DOMAIN reducer.open, linked, signed \in BOOLEAN :
        LET text == reducer.open[i] = "text" IN
        /\ reducer.open[i] # "read" /\ (linked => text)
        /\ Makes(Append(IF text THEN Closing(signed) ELSE <<>>, Happens("delta", i, linked)))
        /\ reducer' = [reducer EXCEPT !.made = @ + 1, !.open = IF text THEN Thoughtless ELSE @,
               !.early = IF linked /\ ~reducer.searched THEN @ + 1 ELSE @,
               !.late  = IF linked /\ reducer.searched THEN @ + 1 ELSE @]

\* The arguments of a tool come with its end if they have not been sent.
MakesStop ==
    \E i \in DOMAIN reducer.open, late \in BOOLEAN :
        /\ late => reducer.open[i] \in {"tool", "read"} /\ accumulated.blocks[i].units = 0
        /\ reducer.open[i] # "thinking"
        /\ Makes(Append(IF late THEN <<Happens("delta", i, FALSE)>> ELSE <<>>, Happens("stop", i, FALSE)))
        /\ reducer' = [reducer EXCEPT !.made = @ + 1, !.open = Restrict(@, DOMAIN @ \ {i})]

MakesThoughtStop ==
    /\ Thoughts # {}
    /\ \E signed \in BOOLEAN : Makes(Closing(signed))
    /\ reducer' = [reducer EXCEPT !.made = @ + 1, !.open = Thoughtless]

MakesSearch ==
    /\ reducer.next + 1 < MaxShown
    /\ \E signed \in BOOLEAN : Makes(Append(Closing(signed), Happens("search", reducer.next, FALSE)))
    /\ reducer' = [reducer EXCEPT !.next = @ + 2, !.made = @ + 1, !.open = Thoughtless, !.searched = TRUE]

Finishes(events_) ==
    /\ ~reducer.finished
    /\ rendered' = RendersFinish(FoldLeft(Renders, rendered, events_))
    /\ accumulated' = AccumulatedFinish(FoldLeft(Accumulates, accumulated, events_))

\* A terminal event is an error while an item is open.
MakesFinish ==
    /\ DOMAIN reducer.open = Thoughts
    /\ \E signed \in BOOLEAN : Finishes(Closing(signed))
    /\ reducer' = [reducer EXCEPT !.finished = TRUE, !.open = Thoughtless]

\* repair_whitespace_stalled_read_args: a Read whose arguments were repaired is
\* the end, whatever else is open.
MakesRepair ==
    \E i \in DOMAIN reducer.open :
        /\ reducer.open[i] = "read"
        /\ Finishes(<<Happens("delta", i, FALSE), Happens("stop", i, FALSE)>>)
        /\ reducer' = [reducer EXCEPT !.finished = TRUE, !.repaired = TRUE,
                                      !.open = Restrict(@, DOMAIN @ \ {i})]

RenderNext ==
    \/ MakesBlock \/ MakesThought \/ MakesSealed \/ MakesDelta \/ MakesStop \/ MakesThoughtStop
    \/ MakesSearch \/ MakesFinish \/ MakesRepair

RenderSpec == TranslationInit /\ RenderInit /\ [][RenderNext /\ UNCHANGED streamVars]_<<renderVars, streamVars>>

-----------------------------------------------------------------------------
\* Every block that a client is streamed is started once, after message_start,
\* and written and stopped while it is open; in the end none is missing, and
\* none is open but those that a repaired Read came before.
RenderedWhole ==
    /\ ~rendered.message.broken
    /\ DOMAIN rendered.message.blocks # {} => rendered.started
    /\ rendered.ended =>
          /\ DOMAIN rendered.message.blocks = 0 .. reducer.next - 1
          /\ {i \in DOMAIN rendered.message.blocks : rendered.message.blocks[i].open}
                = IF reducer.repaired THEN DOMAIN reducer.open ELSE {}

\* A client that is streamed the answer and one that is given it whole have the
\* same message, apart from empty blocks; unless a text links to something
\* before the first search: only the whole message counts that as its result.
RenderedAlike ==
    rendered.ended /\ (reducer.searched => reducer.early = 0) =>
        LET plain(b) == [kind |-> b.kind, units |-> b.units, signed |-> b.signed]
            streamed == [i \in 1 .. reducer.next |-> plain(rendered.message.blocks[i - 1])]
        IN  SelectSeq(streamed, IsSubstantial) = accumulated.content

RenderingSafety == RenderedWhole /\ RenderedAlike
=============================================================================
