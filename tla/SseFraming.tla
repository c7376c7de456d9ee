------------------------------- MODULE SseFraming -------------------------------
(***************************************************************************)
(* The four readers that cut a stream of server-sent events into events     *)
(* while it arrives in chunks: the observer of native responses, the Chat   *)
(* Completions stream, the decoder of the HTTP event stream, and the one of *)
(* OpenAI-compatible answers.  All read the same bytes here.                *)
(*                                                                          *)
(* A byte is "x", which belongs to a data line, or one of the two line ends  *)
(* "n" and "r".  Bytes are named by their place in the stream, and an event *)
(* is the set of its data bytes: no event can be taken for another.         *)
(***************************************************************************)
EXTENDS Naturals, Sequences, FiniteSets, FiniteSetsExt, SequencesExt

CONSTANTS
    MaxFrame,  \* MAX_STREAM_CAPTURE_FRAME_BYTES: what the observer keeps of a frame
    MaxBytes,  \* bound: bytes of the stream
    MaxChunk   \* bound: bytes of a chunk

ASSUME SseFramingAssumption == {MaxFrame, MaxBytes, MaxChunk} \subseteq Nat

Byte == {"x", "n", "r"}

VARIABLES
    fed,     \* the bytes so far
    native,  \* NativeResponseObserver: from where its pending bytes reach, and what it has seen
    chat,    \* the Chat Completions StreamState
    http,    \* HttpSseDecoder
    openai   \* SseDecoder

sseVars == <<fed, native, chat, http, openai>>

SseTypeOK ==
    /\ fed \in Seq(Byte) /\ Len(fed) <= MaxBytes
    /\ native.from \in 1 .. Len(fed) + 1 /\ native.scan \in native.from .. Len(fed) + 1
    /\ chat.from \in 1 .. Len(fed) + 1 /\ openai.from \in 1 .. Len(fed) + 1
    /\ UNION (native.events \union chat.events \union http.events \union openai.events) \subseteq
          {i \in DOMAIN fed : fed[i] = "x"}

SseInit ==
    /\ fed = <<>>
    /\ native = [from |-> 1, scan |-> 1, discarding |-> FALSE, events |-> {}, lost |-> {}]
    /\ chat = [from |-> 1, events |-> {}]
    /\ http = [frame |-> {}, empty |-> TRUE, fresh |-> TRUE, skip |-> FALSE, events |-> {}]
    /\ openai = [from |-> 1, events |-> {}]

-----------------------------------------------------------------------------
(* Events within a piece of the stream: parse_sse_events. *)

Data(s, piece) == {i \in piece : s[i] = "x"}

\* A line ends at i; the second byte of "\r\n" ends none.
LineEnds(s, i) == s[i] = "r" \/ (s[i] = "n" /\ ~(i > 1 /\ s[i - 1] = "r"))

BlankAt(s, i) == LineEnds(s, i) /\ (i = 1 \/ s[i - 1] # "x")

\* Data bytes belong to one event unless a blank line is between them.
EventsIn(s, piece) ==
    LET data == Data(s, piece)
    IN  {{j \in data : \A k \in (Min({i, j}) .. Max({i, j})) : ~BlankAt(s, k)} : i \in data}

-----------------------------------------------------------------------------
(* Frames end at two equal line ends. *)

Matches(s, i, ends) == i + Len(ends) - 1 <= Len(s) /\ SubSeq(s, i, i + Len(ends) - 1) = ends

Separator(s, i) ==
    CASE Matches(s, i, <<"r", "n", "r", "n">>)                            -> 4
      [] Matches(s, i, <<"n", "n">>) \/ Matches(s, i, <<"r", "r">>) -> 2
      [] OTHER                                                            -> 0

\* find_boundary, find_sse_boundary_from: the first separator, 0 if there is none.
FirstBoundary(s, from) ==
    LET found == {i \in from .. Len(s) : Separator(s, i) > 0}
    IN  IF found = {} THEN 0 ELSE Min(found)

\* The frames of what is pending from a, when the search begins at k.
RECURSIVE FramesFrom(_, _, _)
FramesFrom(s, a, k) ==
    LET b == FirstBoundary(s, k)
        next == b + Separator(s, b)
    IN  IF b = 0 THEN <<>> ELSE <<a .. next - 1>> \o FramesFrom(s, next, next)

AfterFrames(frames, from) == IF frames = <<>> THEN from ELSE Max(Last(frames)) + 1
EventsOfFrames(s, frames) == UNION {EventsIn(s, frames[n]) : n \in DOMAIN frames}

\* retain_boundary_prefix: the last three bytes stay.
Prefix(s, from) == Max({from, Len(s) - 2})

\* A mutant of ScanAgain: a separator whose first bytes were seen is overlooked.
ScanAgainAtEnd(s, from) == Len(s) + 1

\* What could be the beginning of a separator is looked at again.
ScanAgain(s, from) == Max({from, Len(s) - 2})

\* drain_sse_events: frames that are complete, those that are too large apart.
Observed(s) ==
    LET b == FirstBoundary(s, native.from)
        start == IF native.discarding THEN b + Separator(s, b) ELSE native.from
        frames == FramesFrom(s, start, IF native.discarding THEN start ELSE native.scan)
        from == AfterFrames(frames, start)
        scan == IF frames # <<>> THEN from ELSE ScanAgain(s, from)
        large == Len(s) - from + 1 > MaxFrame
    IN  IF native.discarding /\ b = 0
        THEN [native EXCEPT !.from = Prefix(s, @), !.scan = Prefix(s, native.from)]
        ELSE [from |-> IF large THEN Prefix(s, from) ELSE from,
              scan |-> IF large THEN Prefix(s, from) ELSE scan,
              discarding |-> large,
              events |-> native.events \union EventsOfFrames(s, frames),
              lost |-> IF large THEN native.lost \union {from} ELSE native.lost]

\* observe_chunk
ChatRelayed(s) ==
    LET frames == FramesFrom(s, chat.from, chat.from)
    IN  [from |-> AfterFrames(frames, chat.from), events |-> chat.events \union EventsOfFrames(s, frames)]

\* end_line: an empty line ends the frame.
LineEnded(h) ==
    IF ~h.fresh THEN [h EXCEPT !.fresh = TRUE]
    ELSE [h EXCEPT !.frame = {}, !.empty = TRUE,
                   !.events = IF h.empty THEN @ ELSE @ \union {h.frame}]

\* HttpSseDecoder::push, for the byte at i.
Decoded(s, h, i) ==
    CASE s[i] = "n" /\ h.skip -> [h EXCEPT !.skip = FALSE]
      [] s[i] = "n"           -> LineEnded(h)
      [] s[i] = "r"           -> [LineEnded(h) EXCEPT !.skip = TRUE]
      [] s[i] = "x"           -> [h EXCEPT !.skip = FALSE, !.fresh = FALSE, !.empty = FALSE,
                                           !.frame = @ \union {i}]

\* find_event_delimiter: "\n\n" wherever it is, before any "\r\n\r\n".
Delimiter(s, from) ==
    LET plain == {i \in from .. Len(s) : Matches(s, i, <<"n", "n">>)}
        full  == {i \in from .. Len(s) : Matches(s, i, <<"r", "n", "r", "n">>)}
    IN  CASE plain # {} -> <<Min(plain), 2>>
          [] full # {}  -> <<Min(full), 4>>
          [] OTHER      -> <<0, 0>>

\* SseDecoder::push; parse_frame makes one event of a frame.
RECURSIVE Parsed(_, _)
Parsed(s, d) ==
    LET delimiter == Delimiter(s, d.from)
        data == Data(s, d.from .. delimiter[1] - 1)
    IN  IF delimiter[1] = 0 THEN d
        ELSE Parsed(s, [from |-> delimiter[1] + delimiter[2],
                        events |-> IF data = {} THEN d.events ELSE d.events \union {data}])

-----------------------------------------------------------------------------
Chunks == UNION {[1 .. n -> Byte] : n \in 1 .. MaxChunk}

\* A chunk arrives.
Feed ==
    \E bytes \in Chunks :
        LET s == fed \o bytes
        IN  /\ Len(s) <= MaxBytes
            /\ fed' = s
            /\ native' = Observed(s)
            /\ chat' = ChatRelayed(s)
            /\ http' = FoldLeft(LAMBDA h, i : Decoded(s, h, i), http,
                                [n \in DOMAIN bytes |-> Len(fed) + n])
            /\ openai' = Parsed(s, openai)

SseSpec == SseInit /\ [][Feed]_sseVars

-----------------------------------------------------------------------------
AllFrames == FramesFrom(fed, 1, 1)

\* The events of the stream that a blank line has ended.
EndedEvents == {e \in EventsIn(fed, DOMAIN fed) : \E k \in Max(e) .. Len(fed) : BlankAt(fed, k)}

\* All line ends so far are of one kind.
Uniform ==
    \/ \A i \in DOMAIN fed : fed[i] # "r"
    \/ \A i \in DOMAIN fed : /\ fed[i] = "r" => i = Len(fed) \/ fed[i + 1] = "n"
                             /\ fed[i] = "n" => i > 1 /\ fed[i - 1] = "r"

(* Where the chunks of a stream begin and end makes no difference, whichever
   line ends are mixed: what a reader has seen are the frames of the stream as
   a whole, and of those it has not seen none is complete.  The reader of
   OpenAI-compatible answers keeps this only for line ends of one kind. *)
ChunksDoNotMatter ==
    /\ chat.events = EventsOfFrames(fed, AllFrames) /\ chat.from = AfterFrames(AllFrames, 1)
    /\ native.lost = {} => native.events = chat.events
    /\ http.events = EndedEvents
    /\ Uniform => openai = Parsed(fed, [from |-> 1, events |-> {}])

(* The readers agree on what the events are: each has seen a beginning of the
   events that have ended, no two run together and none cut apart, and all of
   them once the stream ends with a separator.  The reader of OpenAI-compatible
   answers runs events together when line ends are mixed. *)
ReadersAgree ==
    /\ chat.events \subseteq http.events
    /\ chat.from = Len(fed) + 1 => chat.events = http.events
    /\ Uniform => chat.events = openai.events

(* A frame that is too large for the observer costs that frame and no other:
   nothing of it is taken for an event, and every frame that fits is seen. *)
OnlyLargeFramesAreLost ==
    /\ native.events \subseteq chat.events
    /\ \A n \in DOMAIN AllFrames :
          \/ EventsIn(fed, AllFrames[n]) \subseteq native.events
          \/ Cardinality(AllFrames[n]) > MaxFrame /\ Min(AllFrames[n]) \in native.lost

FramingSafety == SseTypeOK /\ ChunksDoNotMatter /\ ReadersAgree /\ OnlyLargeFramesAreLost
================================================================================
