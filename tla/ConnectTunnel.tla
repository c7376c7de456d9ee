----------------------------- MODULE ConnectTunnel -----------------------------
(***************************************************************************)
(* The tunnel to the upstream through an HTTP proxy: the answer to CONNECT  *)
(* is read into a small buffer until its head is whole, interim heads are   *)
(* dropped, and what was read past the last head is given to TLS before     *)
(* what is still on the wire.                                               *)
(*                                                                         *)
(* A head is a run of pieces, of which the last is its end; the proxy's     *)
(* stream is a sequence of heads and the first bytes of the upstream.       *)
(***************************************************************************)
EXTENDS Naturals, Sequences, SequencesExt

CONSTANTS
    Heads,       \* the kinds of heads, by their first line: 1xx is interim, 2xx open, 407 auth,
                 \* another status refused, and anything else garbled
    MaxHead,     \* MAX_CONNECT_RESPONSE_HEADER_BYTES, in pieces
    MaxRead,     \* the most that one read takes
    LongestHead, \* bound: pieces of a head
    MaxHeads,    \* bound: heads of a stream
    MaxPayload   \* bound: bytes that follow

ASSUME ConnectTunnelAssumption ==
    /\ Heads \subseteq {"interim", "open", "auth", "garbled", "refused"}
    /\ {MaxHead, MaxRead, LongestHead, MaxHeads, MaxPayload} \subseteq Nat \ {0}

VARIABLES
    wire,     \* what the proxy sends and nobody has read
    response, \* the buffer of establish_connect_tunnel
    tunnel,   \* "reading", "open", or how it failed
    prefixed, \* PrefixedIo: what was read past the head
    handed,   \* what TLS has been given
    stream    \* what the proxy sends, from the start

tunnelVars == <<wire, response, tunnel, prefixed, handed, stream>>

HeadOf(kind, n) == [i \in 1 .. n |-> [of |-> kind, last |-> i = n, byte |-> 0]]
Payload(n)    == [i \in 1 .. n |-> [of |-> "payload", last |-> FALSE, byte |-> i]]

HeadRuns == {HeadOf(kind, n) : kind \in Heads, n \in 1 .. LongestHead}
Streams  == {FlattenSeq(heads) \o Payload(n) :
                heads \in UNION {[1 .. k -> HeadRuns] : k \in 1 .. MaxHeads}, n \in 0 .. MaxPayload}

TunnelInit ==
    /\ stream \in Streams
    /\ wire = stream
    /\ response = <<>> /\ tunnel = "reading" /\ prefixed = <<>> /\ handed = <<>>

\* connect_response_header_end: zero when no head is whole
HeadEnd(bytes) == IF \E i \in DOMAIN bytes : bytes[i].last
                  THEN SelectInSeq(bytes, LAMBDA piece : piece.last) ELSE 0

\* parse_connect_response_head: what the first line says
StatusIn(bytes) == bytes[1].of

HeadRead ==
    LET end == HeadEnd(response) IN
    /\ tunnel = "reading" /\ end # 0
    /\ CASE StatusIn(response) = "interim" ->
              response' = SubSeq(response, end + 1, Len(response)) /\ UNCHANGED <<tunnel, prefixed>>
         [] StatusIn(response) = "open" ->
              /\ tunnel' = "open"
              /\ prefixed' = SubSeq(response, end + 1, Len(response))
              /\ response' = SubSeq(response, 1, end)
         [] OTHER -> tunnel' = StatusIn(response) /\ UNCHANGED <<response, prefixed>>
    /\ UNCHANGED <<wire, handed, stream>>

HeadTooLarge ==
    /\ tunnel = "reading" /\ HeadEnd(response) = 0 /\ Len(response) = MaxHead
    /\ tunnel' = "too_large"
    /\ UNCHANGED <<wire, response, prefixed, handed, stream>>

Least(a, b) == IF a < b THEN a ELSE b

ReadWire ==
    /\ tunnel = "reading" /\ HeadEnd(response) = 0 /\ Len(response) < MaxHead
    /\ \E n \in 1 .. Least(MaxHead - Len(response), MaxRead) :
          /\ n <= Len(wire)
          /\ response' = response \o SubSeq(wire, 1, n)
          /\ wire' = SubSeq(wire, n + 1, Len(wire))
    /\ UNCHANGED <<tunnel, prefixed, handed, stream>>

\* The proxy closes, or the connection fails.
WireEnds ==
    /\ tunnel = "reading" /\ HeadEnd(response) = 0 /\ Len(response) < MaxHead
    /\ tunnel' = "closed_early"
    /\ UNCHANGED <<wire, response, prefixed, handed, stream>>

\* PrefixedIo::poll_read
ReadThrough ==
    /\ tunnel = "open"
    /\ \E n \in 1 .. MaxRead :
          IF prefixed # <<>>
          THEN /\ n <= Len(prefixed)
               /\ handed' = handed \o SubSeq(prefixed, 1, n)
               /\ prefixed' = SubSeq(prefixed, n + 1, Len(prefixed))
               /\ UNCHANGED wire
          ELSE /\ n <= Len(wire)
               /\ handed' = handed \o SubSeq(wire, 1, n)
               /\ wire' = SubSeq(wire, n + 1, Len(wire))
               /\ UNCHANGED prefixed
    /\ UNCHANGED <<response, tunnel, stream>>

TunnelNext == HeadRead \/ HeadTooLarge \/ ReadWire \/ WireEnds \/ ReadThrough

TunnelSpec == TunnelInit /\ [][TunnelNext]_tunnelVars

-----------------------------------------------------------------------------
(* Properties *)

\* Where the head ends that decides: the first that is not interim; past the end
\* when there is none.
HeadEnds    == {i \in DOMAIN stream : stream[i].last /\ stream[i].of # "interim"}
Decides == IF HeadEnds = {} THEN Len(stream) + 1 ELSE CHOOSE i \in HeadEnds : \A j \in HeadEnds : i <= j
TooLong(i) == /\ i = 1 \/ stream[i - 1].last
              /\ \A j \in i .. i + MaxHead - 1 : j \in DOMAIN stream /\ ~stream[j].last

\* What TLS is given is what the upstream sent behind the tunnel, from its first
\* byte, in order and without a gap, however the reads cut the stream; the tunnel
\* is judged by the first head that is not interim; and a head is refused for its
\* length only when it has more than fits.
TunnelSafety ==
    /\ tunnel = "open" =>
          /\ stream[Decides].of = "open"
          /\ handed \o prefixed \o wire = SubSeq(stream, Decides + 1, Len(stream))
    /\ tunnel \in {"refused", "auth", "garbled"} => stream[Decides].of = tunnel
    /\ tunnel = "too_large" => \E i \in DOMAIN stream : i <= Decides /\ TooLong(i)
=============================================================================
