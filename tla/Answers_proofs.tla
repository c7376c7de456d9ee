----------------------------- MODULE Answers_proofs -----------------------------
(***************************************************************************)
(* What becomes of an answer and of a failure on the way to a client: how    *)
(* failures are judged, for any status numbers and clocks, and that an       *)
(* answer which is streamed and one which is buffered are the same, for any  *)
(* items, however their events interleave.                                   *)
(*                                                                          *)
(* For the translation, an index is handed out once and is from then on a    *)
(* block that was started or one that waits its turn (StreamsAreSound); what *)
(* is open is what the upstream has begun and not ended.  The folds over     *)
(* blocks that wait are given in closed form.  Then the two streams are      *)
(* coupled (StreamsMatch): what the live one has sent or still owes, the     *)
(* reducer has.                                                              *)
(***************************************************************************)
EXTENDS Failures, StreamTranslation, FiniteSums_proofs

-----------------------------------------------------------------------------
(* What becomes of a failure: each is judged when it is heard of, on every     *)
(* path it may come by, so that what is known of it is one of three tables,    *)
(* and what must hold of each row follows from how the row is made.            *)


\* What has been told and judged is one failure, on all its paths, or none yet.
Heard ==
    \/ told = <<"nothing">>
    \/ \E e \in FailedEvent :
          /\ told = <<"event", e>>
          /\ judged = [stream |-> OnStream(e), body |-> InBody(e), frames |-> InFrames(e),
                       late |-> AfterOutput(e)]
    \/ \E failed \in Errors :
          /\ told = <<"error", failed>>
          /\ judged = [live |-> RetriedLive(failed.error), buffered |-> RetriedBuffered(failed.error),
                       overHttp |-> FallsBackToHttp(failed.error)]
    \/ \E q \in Spent : told = <<"quota", q>> /\ judged = Reported(q)

\* What is kept of a failure is how the four readers judge it.
LEMMA HeardStays == FailuresSpec => []Heard
<1>1. FailuresInit => Heard
  BY DEF FailuresInit, Heard
<1>2. Heard /\ [FailuresNext]_failureVars => Heard'
  <2> SUFFICES ASSUME Heard, [FailuresNext]_failureVars PROVE Heard'
    OBVIOUS
  <2>1. CASE HearEvent
    BY <2>1 DEF HearEvent, Heard
  <2>2. CASE HearError
    BY <2>2 DEF HearError, Heard
  <2>3. CASE HearQuota
    BY <2>3 DEF HearQuota, Heard
  <2>4. CASE UNCHANGED failureVars
    BY <2>4 DEF failureVars, Heard
  <2> QED BY <2>1, <2>2, <2>3, <2>4 DEF FailuresNext
<1> QED BY <1>1, <1>2, PTL DEF FailuresSpec

\* A failure is of one of four kinds.
LEMMA KindIsOne == \A e : Kind(e) \in {"transient", "permanent", "overloaded", "limited"}
BY DEF Kind

\* A report of a failure is never that of a spent quota.
LEMMA RepliesAskNothing ==
    ASSUME NEW status, NEW type, NEW after
    PROVE  Reply(status, type, after) # Quota /\ Reply(status, type, after).status = status
           /\ Reply(status, type, after).type = type /\ Reply(status, type, after).after = after
BY DEF Reply, Quota

\* No error that is tried again, or given up, reads as a spent quota.
LEMMA ErrorsAskNothing == \A err : OfError(err) # Quota
BY RepliesAskNothing DEF OfError

\* A spent quota, and nothing else, is reported as one, and is not tried again.
LEMMA QuotaOfEvent ==
    ASSUME NEW e \in FailedEvent, e.type \in {"response.failed", "error"}
    PROVE  /\ IsSpent(e) <=> (OnStream(e).report = Quota /\ ~OnStream(e).again)
           /\ IsSpent(e) <=> (InBody(e).report = Quota /\ ~InBody(e).again)
           /\ IsSpent(e) <=> (InFrames(e).report = Quota /\ ~InFrames(e).again)
<1>1. \A again, report : Judged(again, report).again = again /\ Judged(again, report).report = report
  BY DEF Judged
<1>2. ASSUME NEW err PROVE Tried(err).report # Quota
  BY ErrorsAskNothing DEF Tried, Judged
<1>3. ~IsSpent(e) => OnStream(e) \in {Tried(Again(e)), Judged(FALSE, OfEvent(e))}
                     /\ InBody(e) \in {Tried(Again(e)), Judged(FALSE, OfEvent(e))}
  BY DEF OnStream, InBody, TellsOfQuota
<1>31. Judged(FALSE, OfEvent(e)).report # Quota
  BY DEF OfEvent, Judged, Reply, Quota
<1>32. ~IsSpent(e) => OnStream(e).report # Quota /\ InBody(e).report # Quota
  BY <1>2, <1>3, <1>31, Zenon
<1>4. ~IsSpent(e) => InFrames(e).report # Quota
  BY <1>1, <1>32, ErrorsAskNothing DEF InFrames
<1>5. IsSpent(e) => /\ OnStream(e).report = Quota /\ ~OnStream(e).again
                    /\ InBody(e).report = Quota /\ ~InBody(e).again
  BY <1>1, Zenon DEF OnStream, InBody, TellsOfQuota
<1>6. IsSpent(e) => InFrames(e).report = Quota /\ ~InFrames(e).again
  BY <1>5 DEF InFrames
<1> QED BY <1>32, <1>4, <1>5, <1>6

\* A stream and a body are judged alike, and a frame by its own status, if it has one.
LEMMA JudgementsAgree ==
    ASSUME NEW e \in FailedEvent, e.type # "response.completed"
    PROVE  /\ OnStream(e) = InBody(e)
           /\ (Retryable(e) <=> e.explicit \in RetryStatuses) /\ e.explicit \notin {NoStatus, 401}
              /\ ~IsContextWindow(e) /\ e.after # "late" =>
                  /\ InFrames(e).again = OnStream(e).again
                  /\ InFrames(e).report.status = OnStream(e).report.status
<1>1. OnStream(e) = InBody(e)
  BY Zenon DEF OnStream, InBody, TellsOfQuota, IsSpent, FailedEvent
<1>2. CASE e.type # "error" \/ IsSpent(e)
  BY <1>1, <1>2 DEF InFrames
<1>3. ASSUME e.type = "error", ~IsSpent(e), Retryable(e) <=> e.explicit \in RetryStatuses,
             e.explicit \notin {NoStatus, 401}, ~IsContextWindow(e), e.after # "late"
      PROVE  /\ InFrames(e).again = OnStream(e).again
             /\ InFrames(e).report.status = OnStream(e).report.status
  <2>1. e.explicit \in 400 .. 599 /\ StatusOf(e) = e.explicit
    BY <1>3, FailuresAssumption DEF FailedEvent, StatusOf
  <2> DEFINE failure == Failure("websocket", e.explicit, "message", e.says, "none")
  <2>2. InFrames(e) = Judged(e.explicit \in RetryStatuses \cup {401}, OfError(failure))
    BY <1>3 DEF InFrames
  <2>3. OfError(failure).status = e.explicit
    BY <1>3, <2>1 DEF OfError, Failure, Reply, IsContextWindow
  <2>4. CASE Retryable(e)
    <3>1. OnStream(e) = Judged(e.after # "late", OfError(Again(e)))
      <4>1. Again(e).after = e.after
        BY DEF Again, Failure
      <4> QED BY <1>3, <2>4, <4>1 DEF OnStream, TellsOfQuota, Tried
    <3>2. OfError(Again(e)).status = e.explicit
      BY <1>3, <2>1 DEF OfError, Again, Failure, Reply, IsContextWindow
    <3> HIDE DEF failure
    <3>3. InFrames(e) = Judged(TRUE, OfError(failure)) /\ OnStream(e) = Judged(TRUE, OfError(Again(e)))
      BY <1>3, <2>2, <2>4, <3>1, Zenon
    <3> QED BY <2>3, <3>2, <3>3 DEF Judged
  <2>5. CASE ~Retryable(e)
    <3>1. OnStream(e) = Judged(FALSE, OfEvent(e)) /\ OfEvent(e).status = e.explicit
      BY <1>3, <2>1, <2>5 DEF OnStream, TellsOfQuota, OfEvent, Reply
    <3> HIDE DEF failure
    <3>2. (e.explicit \in RetryStatuses \cup {401}) = FALSE
      BY <1>3, <2>5
    <3>3. InFrames(e) = Judged(FALSE, OfError(failure))
      BY <2>2, <3>2, ZenonT(30)
    <3> QED BY <2>3, <3>1, <3>3 DEF Judged
  <2> QED BY <2>4, <2>5
<1> QED BY <1>1, <1>2, <1>3

\* What is tried again has a status that is tried again, and no context window to tell of.
LEMMA KindsOfRetried ==
    ASSUME NEW e \in FailedEvent, Retryable(e), e.explicit \in RetryStatuses \cup {NoStatus}
    PROVE  /\ StatusOf(e) \in RetryStatuses
           /\ e.says # "context_window"
<1>1. ~IsPermanent(e) \/ e.type = "response.incomplete"
  BY DEF Retryable, Kind
<1>2. e.type = "response.incomplete" => e.code = "none" /\ e.says = "nothing"
  BY DEF FailedEvent
<1>3. e.code \notin DOMAIN CodeStatus /\ ~IsContextWindow(e)
  BY <1>1, <1>2 DEF IsPermanent, CodeStatus, Policy, IsContextWindow
<1>4. KindStatus[Kind(e)] \in RetryStatuses
  BY KindIsOne DEF Retryable, KindStatus, RetryStatuses
<1> QED BY <1>3, <1>4 DEF StatusOf, IsContextWindow

\* A status that is tried again is an upstream failure to the client, or one of its limits.
LEMMA TypesOfRetried ==
    ASSUME NEW status \in RetryStatuses
    PROVE  ClientType(status) = IF status \in {429, 529} THEN ClientType(status) ELSE "api_error"
BY DEF RetryStatuses, ClientType

\* A failure is told alike after output, and one with too long a wait is told with it.
LEMMA ToldAsLate ==
    ASSUME NEW e \in FailedEvent, e.type = "response.failed", ~IsSpent(e),
           Retryable(e) => e.explicit \in RetryStatuses \cup {NoStatus}
    PROVE  /\ AfterOutput(e).report.type = OnStream(e).report.type
           /\ e.after = "late" => ~OnStream(e).again /\ OnStream(e).report.after = "late"
<1>1. AfterOutput(e).report.type = ClientType(StatusOf(e))
  BY DEF AfterOutput, Judged, Reply
<1>2. CASE Retryable(e)
  <2>1. Again(e).status = StatusOf(e) /\ Again(e).after = e.after /\ Again(e).says = e.says
    BY DEF Again, Failure
  <2>2. OnStream(e) = Judged(e.after # "late", OfError(Again(e)))
    BY <1>2, <2>1 DEF OnStream, TellsOfQuota, Tried
  <2>3. StatusOf(e) \in RetryStatuses /\ e.says # "context_window"
    BY <1>2, KindsOfRetried
  <2>4. OfError(Again(e)).type = ClientType(StatusOf(e)) /\ OfError(Again(e)).after = e.after
    <3>1. StatusOf(e) \in 400 .. 599 /\ StatusOf(e) \notin {401, 403}
      BY <2>3 DEF RetryStatuses
    <3> QED BY <2>1, <2>3, <3>1, TypesOfRetried DEF OfError, Reply
  <2>5. e.after = "late" => OnStream(e) = Judged(FALSE, OfError(Again(e)))
    BY <2>2, Zenon
  <2>6. \A again \in BOOLEAN : Judged(again, OfError(Again(e))).report = OfError(Again(e))
    BY DEF Judged
  <2>7. ~Judged(FALSE, OfError(Again(e))).again
    BY DEF Judged
  <2> QED BY <1>1, <2>2, <2>4, <2>5, <2>6, <2>7, Zenon
<1>3. CASE ~Retryable(e)
  <2>1. OnStream(e) = Judged(FALSE, OfEvent(e))
    BY <1>3 DEF OnStream, TellsOfQuota
  <2>2. OfEvent(e).type = ClientType(StatusOf(e)) /\ OfEvent(e).after = e.after
    BY DEF OfEvent, Reply
  <2> QED BY <1>1, <2>1, <2>2 DEF Judged
<1> QED BY <1>2, <1>3

\* What may have been sent, or was refused by a proxy, is not sent over HTTP.
LEMMA SentOnce ==
    ASSUME NEW failed \in Errors
    PROVE  /\ FallsBackToHttp(failed.error) => ~failed.sent
           /\ failed.name = "tunnel_refused" \/ failed.error.status = 407 =>
                  ~FallsBackToHttp(failed.error) /\ ~RetriedLive(failed.error)
                  /\ ~RetriedBuffered(failed.error)
           /\ failed.error.origin # "http" => (RetriedLive(failed.error) <=> RetriedBuffered(failed.error))
BY FailuresAssumption DEF Errors, FallsBackToHttp, RetriedLive, RetriedBuffered, Failure,
                          RetryStatuses, Transport, NoStatus

\* The window that is closest is the one that agrees, where one agrees.
LEMMA ClosestIs ==
    ASSUME NEW actual \in Clock, NEW primary \in Clock, NEW secondary \in Clock
    PROVE  /\ actual = NoClock => Closest(actual, primary, secondary) = "neither"
           /\ actual # NoClock /\ primary = actual /\ secondary = actual =>
                  Closest(actual, primary, secondary) = "neither"
           /\ actual # NoClock /\ primary = actual /\ secondary # actual =>
                  Closest(actual, primary, secondary) = "primary"
           /\ actual # NoClock /\ primary # actual /\ secondary = actual =>
                  Closest(actual, primary, secondary) = "secondary"
BY FailuresAssumption DEF Closest, Distance, Clock, NoClock

\* The clocks of a spent quota.
LEMMA SpentIs ==
    ASSUME NEW q \in Spent
    PROVE  /\ q.in \in Clock /\ q.at \in Clock
           /\ q.primary.in \in Clock /\ q.primary.at \in Clock
           /\ q.secondary.in \in Clock /\ q.secondary.at \in Clock
BY DEF Spent, Window

\* What the primary window says is reported, if that alone agrees with the error.
LEMMA PrimaryIsRight ==
    ASSUME NEW q \in Spent,
           q.in # NoClock => q.primary.in = q.in, q.at # NoClock => q.primary.at = q.at,
           \/ q.in # NoClock /\ q.secondary.in # q.primary.in
           \/ q.at # NoClock /\ q.secondary.at # q.primary.at
    PROVE  Reported(q) = [resets |-> q.primary.at, claim |-> q.primary.minutes]
<1>1. Limiting(q) = "primary"
  BY SpentIs, ClosestIs DEF Limiting
<1> QED BY <1>1 DEF Reported

\* The same of the secondary window.
LEMMA SecondaryIsRight ==
    ASSUME NEW q \in Spent,
           q.in # NoClock => q.secondary.in = q.in, q.at # NoClock => q.secondary.at = q.at,
           \/ q.in # NoClock /\ q.primary.in # q.secondary.in
           \/ q.at # NoClock /\ q.primary.at # q.secondary.at
    PROVE  Reported(q) = [resets |-> q.secondary.at, claim |-> q.secondary.minutes]
<1>1. Limiting(q) = "secondary"
  BY SpentIs, ClosestIs DEF Limiting
<1> QED BY <1>1 DEF Reported

\* For any numbers and clocks: a failure comes to the same end on every path.
THEOREM FailuresAreJudgedAlike == FailuresSpec => []FailureSafety
<1>1. Heard => FailureSafety
  <2> SUFFICES ASSUME Heard PROVE FailureSafety
    OBVIOUS
  <2>1. CASE told = <<"nothing">>
    <3>1. told[1] = "nothing"
      BY <2>1
    <3> QED BY <3>1 DEF FailureSafety, QuotaIsFinal, PathsAgree, ToldAlike, NothingIsSentTwice,
                        RightWindow, HeardEvent, HeardError
  <2>2. ASSUME NEW e \in FailedEvent, told = <<"event", e>>,
               judged = [stream |-> OnStream(e), body |-> InBody(e), frames |-> InFrames(e),
                         late |-> AfterOutput(e)]
        PROVE  FailureSafety
    <3>1. told[1] = "event" /\ told[2] = e
      BY <2>2
    <3>2. judged.stream = OnStream(e) /\ judged.body = InBody(e) /\ judged.frames = InFrames(e)
          /\ judged.late = AfterOutput(e)
      BY <2>2
    <3>3. QuotaIsFinal
      BY <3>1, <3>2, QuotaOfEvent DEF QuotaIsFinal
    <3>4. PathsAgree
      BY <3>1, <3>2, JudgementsAgree DEF PathsAgree
    <3>5. ToldAlike
      BY <3>1, <3>2, ToldAsLate DEF ToldAlike
    <3> QED BY <3>1, <3>3, <3>4, <3>5 DEF FailureSafety, NothingIsSentTwice, RightWindow, HeardError
  <2>3. ASSUME NEW failed \in Errors, told = <<"error", failed>>,
               judged = [live |-> RetriedLive(failed.error), buffered |-> RetriedBuffered(failed.error),
                         overHttp |-> FallsBackToHttp(failed.error)]
        PROVE  FailureSafety
    <3>1. told[1] = "error" /\ told[2] = failed
      BY <2>3
    <3>2. /\ judged.live <=> RetriedLive(failed.error)
          /\ judged.buffered <=> RetriedBuffered(failed.error)
          /\ judged.overHttp <=> FallsBackToHttp(failed.error)
      BY <2>3
    <3>3. NothingIsSentTwice
      BY <3>1, <3>2, SentOnce DEF NothingIsSentTwice
    <3> QED BY <3>1, <3>3 DEF FailureSafety, QuotaIsFinal, PathsAgree, ToldAlike, RightWindow, HeardEvent
  <2>4. ASSUME NEW q \in Spent, told = <<"quota", q>>, judged = Reported(q)
        PROVE  FailureSafety
    <3>1. told[1] = "quota" /\ told[2] = q
      BY <2>4
    <3>2. RightWindow
      BY <2>4, <3>1, PrimaryIsRight, SecondaryIsRight DEF RightWindow
    <3> QED BY <3>1, <3>2 DEF FailureSafety, QuotaIsFinal, PathsAgree, ToldAlike, NothingIsSentTwice,
                              HeardEvent, HeardError
  <2> QED BY <2>1, <2>2, <2>3, <2>4 DEF Heard
<1> QED BY <1>1, HeardStays, PTL

-----------------------------------------------------------------------------
(* The translations of an answer: messages and their blocks. *)

\* A block of a message.
BlockShape == [kind: {"thinking", "text", "tool", "search", "result"}, units: Nat,
               signed: BOOLEAN, open: BOOLEAN]
\* What a translator knows of an open block.
OpenShape  == [kind: {"text", "tool"}, index: Nat, units: Nat, deferred: BOOLEAN,
               buffered: BOOLEAN, emitted: BOOLEAN]

\* Functions from some of S to T.
PartialFunctions(S, T) == UNION {[D -> T] : D \in SUBSET S}

\* Messages with blocks at any indices.
MessageShape == [blocks: PartialFunctions(Nat, BlockShape), broken: BOOLEAN]

\* What either translator keeps.
TranslatorShape ==
    [message: MessageShape, open: PartialFunctions(Item, OpenShape), next: Nat,
     thinking: [item: Item \union {NoBlock}, index: Nat], sealed: SUBSET Item, tools: BOOLEAN,
     at: Phase, searches: Seq(Nat), deferred: Seq(OpenShape)]

\* Such a function is known by its domain and its values.
LEMMA PartialIs ==
    ASSUME NEW S, NEW T, NEW f
    PROVE  f \in PartialFunctions(S, T)
           <=> f = [x \in DOMAIN f |-> f[x]] /\ DOMAIN f \subseteq S /\ \A x \in DOMAIN f : f[x] \in T
PROOF
<1>1. ASSUME f \in PartialFunctions(S, T)
      PROVE f = [x \in DOMAIN f |-> f[x]] /\ DOMAIN f \subseteq S /\ \A x \in DOMAIN f : f[x] \in T
  <2>1. PICK D \in SUBSET S : f \in [D -> T]
    BY <1>1 DEF PartialFunctions
  <2> QED BY <2>1
<1>2. ASSUME f = [x \in DOMAIN f |-> f[x]], DOMAIN f \subseteq S, \A x \in DOMAIN f : f[x] \in T
      PROVE  f \in PartialFunctions(S, T)
  <2>1. f \in [DOMAIN f -> T]
    BY <1>2
  <2> QED BY <1>2, <2>1 DEF PartialFunctions
<1> QED BY <1>1, <1>2

\* A block that was just started.
NewBlock(kind) == [kind |-> kind, units |-> 0, signed |-> FALSE, open |-> TRUE]

\* It is an open block of its kind.
LEMMA NewBlockIs ==
    ASSUME NEW kind \in {"thinking", "text", "tool", "search", "result"}
    PROVE  NewBlock(kind) \in BlockShape /\ NewBlock(kind).kind = kind /\ NewBlock(kind).open
PROOF
BY DEF NewBlock, BlockShape

\* A block is started where there is none, and the others stay.
LEMMA StartIs ==
    ASSUME NEW m \in MessageShape, NEW i \in Nat, i \notin DOMAIN m.blocks,
           NEW kind \in {"thinking", "text", "tool", "search", "result"}
    PROVE  /\ Start(m, i, kind) \in MessageShape
           /\ Start(m, i, kind).broken = m.broken
           /\ DOMAIN Start(m, i, kind).blocks = DOMAIN m.blocks \union {i}
           /\ Start(m, i, kind).blocks[i] = NewBlock(kind)
           /\ \A b \in DOMAIN m.blocks : Start(m, i, kind).blocks[b] = m.blocks[b]
PROOF
<1> DEFINE new == NewBlock(kind)
           f == Put(m.blocks, i, new)
<1>1. new \in BlockShape
  BY NewBlockIs
<1>2. m.blocks \in PartialFunctions(Nat, BlockShape) /\ m.broken \in BOOLEAN
  BY DEF MessageShape
<1>3. DOMAIN m.blocks \subseteq Nat /\ \A x \in DOMAIN m.blocks : m.blocks[x] \in BlockShape
  BY <1>2, PartialIs
<1>4. /\ f = [x \in DOMAIN f |-> f[x]] /\ DOMAIN f = DOMAIN m.blocks \union {i} /\ f[i] = new
      /\ \A b \in DOMAIN m.blocks : f[b] = m.blocks[b]
  BY DEF Put
<1> HIDE DEF f, new
<1>5. f \in PartialFunctions(Nat, BlockShape)
  <2>1. DOMAIN f \subseteq Nat /\ \A x \in DOMAIN f : f[x] \in BlockShape
    BY <1>1, <1>3, <1>4
  <2> QED BY <2>1, <1>4, PartialIs
<1>6. Start(m, i, kind) = [blocks |-> f, broken |-> m.broken]
  BY <1>2 DEF Start, f, new, NewBlock
<1> QED BY <1>2, <1>4, <1>5, <1>6 DEF MessageShape, new

\* An open block is changed, and the others stay.
LEMMA ChangeIs ==
    ASSUME NEW m \in MessageShape, NEW i, IsOpen(m, i), NEW block \in BlockShape
    PROVE  /\ Change(m, i, block) \in MessageShape
           /\ Change(m, i, block).broken = m.broken
           /\ DOMAIN Change(m, i, block).blocks = DOMAIN m.blocks
           /\ Change(m, i, block).blocks[i] = block
           /\ \A b \in DOMAIN m.blocks : b # i => Change(m, i, block).blocks[b] = m.blocks[b]
PROOF
<1> DEFINE f == [m.blocks EXCEPT ![i] = block]
<1>1. m.blocks \in PartialFunctions(Nat, BlockShape) /\ m.broken \in BOOLEAN
  BY DEF MessageShape
<1>2. DOMAIN m.blocks \subseteq Nat /\ \A x \in DOMAIN m.blocks : m.blocks[x] \in BlockShape
  BY <1>1, PartialIs
<1>3. i \in DOMAIN m.blocks
  BY DEF IsOpen
<1>4. /\ f = [x \in DOMAIN f |-> f[x]] /\ DOMAIN f = DOMAIN m.blocks /\ f[i] = block
      /\ \A b \in DOMAIN m.blocks : b # i => f[b] = m.blocks[b]
  BY <1>3
<1> HIDE DEF f
<1>5. f \in PartialFunctions(Nat, BlockShape)
  <2>1. DOMAIN f \subseteq Nat /\ \A x \in DOMAIN f : f[x] \in BlockShape
    BY <1>2, <1>4
  <2> QED BY <2>1, <1>4, PartialIs
<1>6. Change(m, i, block) = [m EXCEPT !.blocks = f]
  BY DEF Change, f
<1>7. [m EXCEPT !.blocks = f] = [blocks |-> f, broken |-> m.broken]
  BY DEF MessageShape
<1> QED BY <1>1, <1>4, <1>5, <1>6, <1>7 DEF MessageShape

\* A block that is written, signed or stopped.
Longer(b, n)   == [b EXCEPT !.units = b.units + n]
\* A block with its signature.
SignedBlock(b) == [b EXCEPT !.signed = TRUE]
\* A block that is over.
Stopped(b)     == [b EXCEPT !.open = FALSE]

\* What is written, signed or stopped is a block of the same kind.
LEMMA EditsAre ==
    ASSUME NEW b \in BlockShape, NEW n \in Nat
    PROVE  /\ Longer(b, n) \in BlockShape /\ Longer(b, n).kind = b.kind /\ Longer(b, n).open = b.open
           /\ SignedBlock(b) \in BlockShape /\ SignedBlock(b).kind = b.kind
           /\ SignedBlock(b).open = b.open
           /\ Stopped(b) \in BlockShape /\ Stopped(b).kind = b.kind /\ ~Stopped(b).open
PROOF
<1>1. Longer(b, n) \in BlockShape /\ Longer(b, n).kind = b.kind /\ Longer(b, n).open = b.open
  BY DEF Longer, BlockShape
<1>2. SignedBlock(b) \in BlockShape /\ SignedBlock(b).kind = b.kind /\ SignedBlock(b).open = b.open
  BY Zenon DEF SignedBlock, BlockShape
<1>3. Stopped(b) \in BlockShape /\ Stopped(b).kind = b.kind /\ ~Stopped(b).open
  BY Zenon DEF Stopped, BlockShape
<1> QED BY <1>1, <1>2, <1>3

\* Writing changes the one block.
LEMMA DeltaIs ==
    ASSUME NEW m \in MessageShape, NEW i, IsOpen(m, i), NEW n \in Nat
    PROVE  /\ Delta(m, i, n) \in MessageShape
           /\ Delta(m, i, n).broken = m.broken
           /\ DOMAIN Delta(m, i, n).blocks = DOMAIN m.blocks
           /\ Delta(m, i, n).blocks[i] = Longer(m.blocks[i], n)
           /\ \A b \in DOMAIN m.blocks : b # i => Delta(m, i, n).blocks[b] = m.blocks[b]
PROOF
<1>1. m.blocks[i] \in BlockShape
  BY PartialIs DEF MessageShape, IsOpen
<1>2. Longer(m.blocks[i], n) \in BlockShape
  BY <1>1, EditsAre
<1>3. Delta(m, i, n) = Change(m, i, Longer(m.blocks[i], n))
  BY Zenon DEF Delta, Longer
<1> QED BY <1>2, <1>3, ChangeIs

\* Signing changes the one block.
LEMMA SignIs ==
    ASSUME NEW m \in MessageShape, NEW i, IsOpen(m, i)
    PROVE  /\ Sign(m, i) \in MessageShape
           /\ Sign(m, i).broken = m.broken
           /\ DOMAIN Sign(m, i).blocks = DOMAIN m.blocks
           /\ Sign(m, i).blocks[i] = SignedBlock(m.blocks[i])
           /\ \A b \in DOMAIN m.blocks : b # i => Sign(m, i).blocks[b] = m.blocks[b]
PROOF
<1>1. m.blocks[i] \in BlockShape
  BY PartialIs DEF MessageShape, IsOpen
<1>2. SignedBlock(m.blocks[i]) \in BlockShape
  BY <1>1, EditsAre
<1>3. Sign(m, i) = Change(m, i, SignedBlock(m.blocks[i]))
  BY Zenon DEF Sign, SignedBlock
<1> QED BY <1>2, <1>3, ChangeIs

\* Stopping changes the one block.
LEMMA StopIs ==
    ASSUME NEW m \in MessageShape, NEW i, IsOpen(m, i)
    PROVE  /\ Stop(m, i) \in MessageShape
           /\ Stop(m, i).broken = m.broken
           /\ DOMAIN Stop(m, i).blocks = DOMAIN m.blocks
           /\ Stop(m, i).blocks[i] = Stopped(m.blocks[i])
           /\ \A b \in DOMAIN m.blocks : b # i => Stop(m, i).blocks[b] = m.blocks[b]
PROOF
<1>1. m.blocks[i] \in BlockShape
  BY PartialIs DEF MessageShape, IsOpen
<1>2. Stopped(m.blocks[i]) \in BlockShape
  BY <1>1, EditsAre
<1>3. Stop(m, i) = Change(m, i, Stopped(m.blocks[i]))
  BY Zenon DEF Stop, Stopped
<1> QED BY <1>2, <1>3, ChangeIs

-----------------------------------------------------------------------------
(* A translator's invariant. *)

\* An index that was given away and not yet started.
Waits(t, b) ==
    \/ \E i \in DOMAIN t.open : t.open[i].deferred /\ t.open[i].index = b
    \/ \E k \in DOMAIN t.searches : b \in {t.searches[k], t.searches[k] + 1}
    \/ \E k \in DOMAIN t.deferred : t.deferred[k].index = b

\* Every index that was given out is a block of the message or waits its turn, and
\* not both.
Places(t) ==
    /\ \A b \in 0 .. t.next - 1 : b \in DOMAIN t.message.blocks \/ Waits(t, b)
    /\ \A b \in DOMAIN t.message.blocks : b \in 0 .. t.next - 1 /\ ~Waits(t, b)

\* No two things that are open or wait have an index in common.
Apart(t) ==
    /\ \A i \in DOMAIN t.open :
          /\ t.open[i].index < t.next
          /\ \A j \in DOMAIN t.open : t.open[i].index = t.open[j].index => i = j
          /\ \A k \in DOMAIN t.searches : t.open[i].index \notin {t.searches[k], t.searches[k] + 1}
          /\ \A k \in DOMAIN t.deferred : t.open[i].index # t.deferred[k].index
    /\ \A k \in DOMAIN t.searches :
          /\ t.searches[k] + 1 < t.next
          /\ \A j \in DOMAIN t.searches : /\ t.searches[k] = t.searches[j] => k = j
                                          /\ t.searches[k] # t.searches[j] + 1
          /\ \A j \in DOMAIN t.deferred : t.deferred[j].index \notin {t.searches[k], t.searches[k] + 1}
    /\ \A k \in DOMAIN t.deferred :
          /\ t.deferred[k].index < t.next
          /\ \A j \in DOMAIN t.deferred : t.deferred[k].index = t.deferred[j].index => k = j

\* The thought under way has its block, open.
Thinks(t) ==
    t.thinking.item # NoBlock =>
        /\ IsOpen(t.message, t.thinking.index)
        /\ t.message.blocks[t.thinking.index].kind = "thinking"

\* What is open and does not wait has its block, open and of its kind; only texts
\* wait.
Opens(t) ==
    \A i \in DOMAIN t.open :
        IF t.open[i].deferred THEN t.open[i].kind = "text"
        ELSE /\ IsOpen(t.message, t.open[i].index)
             /\ t.message.blocks[t.open[i].index].kind = t.open[i].kind

\* An open block is the thought's or that of something open.
Known(t) ==
    \A b \in DOMAIN t.message.blocks : t.message.blocks[b].open =>
        \/ t.thinking.item # NoBlock /\ t.thinking.index = b
        \/ \E i \in DOMAIN t.open : ~t.open[i].deferred /\ t.open[i].index = b

\* The invariant of a translator, the live one or the reducer.
WellMade(t) ==
    /\ t \in TranslatorShape /\ ~t.message.broken
    /\ Places(t) /\ Apart(t) /\ Thinks(t) /\ Opens(t) /\ Known(t)

\* The blocks of calls that are complete.
Shut(t) == {b \in DOMAIN t.message.blocks : t.message.blocks[b].kind = "tool" /\ ~t.message.blocks[b].open}

\* The types that follow from a translator's.
LEMMA TranslatorIs ==
    ASSUME NEW t \in TranslatorShape
    PROVE  /\ t.message \in MessageShape /\ t.next \in Nat
           /\ t.thinking \in [item: Item \union {NoBlock}, index: Nat]
           /\ t.sealed \in SUBSET Item /\ t.tools \in BOOLEAN /\ t.at \in Phase
           /\ t.searches \in Seq(Nat) /\ t.deferred \in Seq(OpenShape)
           /\ t.open \in PartialFunctions(Item, OpenShape)
           /\ DOMAIN t.open \subseteq Item /\ \A i \in DOMAIN t.open : t.open[i] \in OpenShape
           /\ DOMAIN t.message.blocks \subseteq Nat
           /\ \A b \in DOMAIN t.message.blocks : t.message.blocks[b] \in BlockShape
           /\ \A i \in DOMAIN t.open : t.open[i].index \in Nat
           /\ \A k \in DOMAIN t.searches : t.searches[k] \in Nat
           /\ \A k \in DOMAIN t.deferred : t.deferred[k] \in OpenShape /\ t.deferred[k].index \in Nat
PROOF
<1>1. /\ t.message \in MessageShape /\ t.next \in Nat
      /\ t.thinking \in [item: Item \union {NoBlock}, index: Nat]
      /\ t.sealed \in SUBSET Item /\ t.tools \in BOOLEAN /\ t.at \in Phase
      /\ t.searches \in Seq(Nat) /\ t.deferred \in Seq(OpenShape)
      /\ t.open \in PartialFunctions(Item, OpenShape)
  BY DEF TranslatorShape
<1>2. t.message.blocks \in PartialFunctions(Nat, BlockShape)
  BY <1>1 DEF MessageShape
<1>3. /\ DOMAIN t.open \subseteq Item /\ \A i \in DOMAIN t.open : t.open[i] \in OpenShape
      /\ DOMAIN t.message.blocks \subseteq Nat
      /\ \A b \in DOMAIN t.message.blocks : t.message.blocks[b] \in BlockShape
  BY <1>1, <1>2, PartialIs
<1>4. /\ \A k \in DOMAIN t.searches : t.searches[k] \in Nat
      /\ \A k \in DOMAIN t.deferred : t.deferred[k] \in OpenShape
  BY <1>1
<1>5. \A b \in OpenShape : b.index \in Nat
  BY DEF OpenShape
<1> QED BY <1>1, <1>3, <1>4, <1>5

\* Nothing moves: indices stay where they are.
LEMMA Stays ==
    ASSUME NEW t, NEW u, Places(t), Apart(t), u.next = t.next,
           DOMAIN u.message.blocks = DOMAIN t.message.blocks,
           u.searches = t.searches, u.deferred = t.deferred,
           DOMAIN u.open \subseteq DOMAIN t.open,
           \A i \in DOMAIN t.open : i \in DOMAIN u.open \/ ~t.open[i].deferred,
           \A i \in DOMAIN u.open : u.open[i].index = t.open[i].index
                                    /\ u.open[i].deferred = t.open[i].deferred
    PROVE  Places(u) /\ Apart(u)
PROOF
<1>1. \A b : Waits(u, b) <=> Waits(t, b)
  BY DEF Waits
<1>2. Places(u)
  BY <1>1 DEF Places
<1>3. Apart(u)
  BY DEF Apart
<1> QED BY <1>2, <1>3

\* What is left of a thought when it is closed.
ClosedThought(t) ==
    LET b == t.message.blocks[t.thinking.index]
    IN  Stopped(IF t.thinking.item \in t.sealed THEN SignedBlock(b) ELSE b)

\* The thought's block is signed, if there is a signature, and stopped; nothing
\* else changes.
LEMMA ThinkingClosedIs ==
    ASSUME NEW t, WellMade(t), NEW u, u = ThinkingClosed(t)
    PROVE  /\ WellMade(u) /\ u.thinking.item = NoBlock
           /\ u.thinking = IF t.thinking.item = NoBlock THEN t.thinking ELSE NoThinking
           /\ u.open = t.open /\ u.next = t.next /\ u.searches = t.searches
           /\ u.deferred = t.deferred /\ u.at = t.at /\ u.tools = t.tools
           /\ u.sealed = t.sealed \ {t.thinking.item}
           /\ DOMAIN u.message.blocks = DOMAIN t.message.blocks
           /\ \A b \in DOMAIN t.message.blocks :
                 u.message.blocks[b] = IF t.thinking.item # NoBlock /\ b = t.thinking.index
                                       THEN ClosedThought(t) ELSE t.message.blocks[b]
           /\ \A b \in DOMAIN t.message.blocks : u.message.blocks[b].kind = t.message.blocks[b].kind
           /\ Shut(u) = Shut(t)
PROOF
<1>1. t \in TranslatorShape
  BY DEF WellMade
<1>2. CASE t.thinking.item = NoBlock
  <2>1. u = t
    BY <1>2 DEF ThinkingClosed
  <2>2. t.thinking.item \notin t.sealed
    BY <1>1, <1>2, TranslatorIs, StreamTranslationAssumption DEF NoBlock
  <2> QED BY <1>2, <2>1, <2>2
<1>3. CASE t.thinking.item # NoBlock
  <2> DEFINE x == t.thinking.index
             old == t.message.blocks[x]
             signed == IF t.thinking.item \in t.sealed THEN Sign(t.message, x) ELSE t.message
             m == Stop(signed, x)
  <2>1. IsOpen(t.message, x) /\ old.kind = "thinking" /\ t.message \in MessageShape /\ ~t.message.broken
    BY <1>1, <1>3, TranslatorIs DEF WellMade, Thinks
  <2> HIDE DEF x
  <2>2. /\ signed \in MessageShape /\ ~signed.broken /\ DOMAIN signed.blocks = DOMAIN t.message.blocks
        /\ signed.blocks[x] = IF t.thinking.item \in t.sealed THEN SignedBlock(old) ELSE old
        /\ \A b \in DOMAIN t.message.blocks : b # x => signed.blocks[b] = t.message.blocks[b]
    BY <2>1, SignIs
  <2>3. IsOpen(signed, x)
    <3>1. old \in BlockShape /\ x \in DOMAIN t.message.blocks /\ old.open
      BY <1>1, <2>1, TranslatorIs DEF IsOpen
    <3>2. SignedBlock(old).open
      <4>1. 0 \in Nat
        OBVIOUS
      <4> QED BY <3>1, <4>1, EditsAre
    <3> QED BY <2>2, <3>1, <3>2 DEF IsOpen
  <2> HIDE DEF signed
  <2>4. /\ m \in MessageShape /\ ~m.broken /\ DOMAIN m.blocks = DOMAIN t.message.blocks
        /\ m.blocks[x] = ClosedThought(t)
        /\ \A b \in DOMAIN t.message.blocks : b # x => m.blocks[b] = t.message.blocks[b]
    BY <2>2, <2>3, StopIs DEF ClosedThought, x
  <2>5. u = [t EXCEPT !.thinking = NoThinking, !.sealed = t.sealed \ {t.thinking.item}, !.message = m]
    BY <1>3 DEF ThinkingClosed, signed, x
  <2> HIDE DEF m
  <2>6. /\ u \in TranslatorShape /\ u.message = m /\ u.thinking = NoThinking
        /\ u.open = t.open /\ u.next = t.next /\ u.searches = t.searches
        /\ u.deferred = t.deferred /\ u.at = t.at /\ u.tools = t.tools
        /\ u.sealed = t.sealed \ {t.thinking.item}
    <3>1. NoThinking \in [item: Item \union {NoBlock}, index: Nat]
      BY DEF NoThinking
    <3>2. m \in MessageShape
      BY <2>4
    <3> QED BY <1>1, <2>5, <3>1, <3>2, Zenon DEF TranslatorShape
  <2>7. ClosedThought(t).kind = "thinking" /\ ~ClosedThought(t).open
    <3>1. old \in BlockShape /\ 0 \in Nat
      BY <1>1, <2>1, TranslatorIs DEF IsOpen
    <3>2. SignedBlock(old) \in BlockShape /\ SignedBlock(old).kind = old.kind
      BY <3>1, EditsAre
    <3>3. Stopped(old).kind = old.kind /\ ~Stopped(old).open
      BY <3>1, EditsAre
    <3>4. Stopped(SignedBlock(old)).kind = old.kind /\ ~Stopped(SignedBlock(old)).open
      BY <3>1, <3>2, EditsAre
    <3> QED BY <2>1, <3>3, <3>4 DEF ClosedThought, x
  <2> HIDE DEF old
  <2>8. Places(u) /\ Apart(u)
    BY <2>4, <2>6, Stays DEF WellMade
  <2>9. Thinks(u) /\ u.thinking.item = NoBlock
    BY <2>6 DEF Thinks, NoThinking
  <2>10. \A b \in DOMAIN t.message.blocks : m.blocks[b].kind = t.message.blocks[b].kind
    BY <2>1, <2>4, <2>7 DEF old
  <2>11. Opens(u)
    <3>1. SUFFICES ASSUME NEW i \in DOMAIN t.open, ~t.open[i].deferred
                   PROVE  /\ IsOpen(m, t.open[i].index)
                          /\ m.blocks[t.open[i].index].kind = t.open[i].kind
      BY <2>6 DEF WellMade, Opens
    <3>2. /\ t.open[i].index \in DOMAIN t.message.blocks
          /\ t.message.blocks[t.open[i].index].open
          /\ t.message.blocks[t.open[i].index].kind = t.open[i].kind
      BY <3>1 DEF WellMade, Opens, IsOpen
    <3>3. t.open[i].kind # "thinking"
      BY <1>1, TranslatorIs, Zenon DEF OpenShape
    <3>4. t.open[i].index # x
      BY <2>1, <3>2, <3>3 DEF old
    <3> QED BY <2>4, <3>2, <3>4 DEF IsOpen
  <2>12. Known(u)
    BY <2>4, <2>6, <2>7 DEF WellMade, Known, x
  <2>13. Shut(u) = Shut(t)
    BY <2>1, <2>4, <2>6, <2>10 DEF Shut, old
  <2> QED BY <1>3, <2>4, <2>6, <2>8, <2>9, <2>10, <2>11, <2>12, <2>13 DEF WellMade, x
<1> QED BY <1>2, <1>3

\* Indices that are given away do not touch those that were.
LEMMA ApartGrows ==
    ASSUME NEW t \in TranslatorShape, Apart(t), NEW u, u.next \in Nat, u.next >= t.next,
           u.open = t.open, u.searches = t.searches, u.deferred = t.deferred
    PROVE  Apart(u)
PROOF
<1>1. /\ t.next \in Nat /\ \A i \in DOMAIN t.open : t.open[i].index \in Nat
      /\ \A k \in DOMAIN t.searches : t.searches[k] \in Nat
      /\ \A k \in DOMAIN t.deferred : t.deferred[k].index \in Nat
  BY TranslatorIs
<1>2. \A i \in DOMAIN t.open : t.open[i].index < u.next
  BY <1>1 DEF Apart
<1>3. \A k \in DOMAIN t.searches : t.searches[k] + 1 < u.next
  BY <1>1 DEF Apart
<1>4. \A k \in DOMAIN t.deferred : t.deferred[k].index < u.next
  BY <1>1 DEF Apart
<1> QED BY <1>2, <1>3, <1>4 DEF Apart

\* Blocks are written, and what is known of open ones may change.
LEMMA EditKeeps ==
    ASSUME NEW t, WellMade(t), NEW u \in TranslatorShape, u.next = t.next,
           u.searches = t.searches, u.deferred = t.deferred, u.thinking = t.thinking,
           ~u.message.broken, DOMAIN u.message.blocks = DOMAIN t.message.blocks,
           \A b \in DOMAIN t.message.blocks :
               /\ u.message.blocks[b].kind = t.message.blocks[b].kind
               /\ u.message.blocks[b].open = t.message.blocks[b].open,
           DOMAIN u.open = DOMAIN t.open,
           \A i \in DOMAIN t.open : /\ u.open[i].index = t.open[i].index
                                    /\ u.open[i].deferred = t.open[i].deferred
                                    /\ u.open[i].kind = t.open[i].kind
    PROVE  WellMade(u)
PROOF
<1>1. Places(u) /\ Apart(u)
  BY Stays DEF WellMade
<1>2. Thinks(u)
  BY DEF WellMade, Thinks, IsOpen
<1>3. Opens(u)
  BY SMTT(20) DEF WellMade, Opens, IsOpen
<1>4. Known(u)
  BY DEF WellMade, Known
<1> QED BY <1>1, <1>2, <1>3, <1>4 DEF WellMade

\* A delta of an open block.
LEMMA DeltaKeeps ==
    ASSUME NEW t, WellMade(t), NEW x, IsOpen(t.message, x), NEW n \in Nat,
           NEW u, u = [t EXCEPT !.message = Delta(t.message, x, n)]
    PROVE  /\ WellMade(u) /\ u.message = Delta(t.message, x, n)
           /\ u.thinking = t.thinking /\ u.open = t.open /\ u.next = t.next
           /\ u.searches = t.searches /\ u.deferred = t.deferred /\ u.at = t.at
           /\ u.tools = t.tools /\ u.sealed = t.sealed
           /\ \A b \in DOMAIN t.message.blocks :
                 /\ u.message.blocks[b].kind = t.message.blocks[b].kind
                 /\ u.message.blocks[b].open = t.message.blocks[b].open
           /\ DOMAIN u.message.blocks = DOMAIN t.message.blocks /\ Shut(u) = Shut(t)
PROOF
<1> DEFINE m == Delta(t.message, x, n)
<1>1. t \in TranslatorShape /\ t.message \in MessageShape /\ ~t.message.broken
  BY TranslatorIs DEF WellMade
<1>2. /\ m \in MessageShape /\ m.broken = t.message.broken /\ DOMAIN m.blocks = DOMAIN t.message.blocks
      /\ m.blocks[x] = Longer(t.message.blocks[x], n)
      /\ \A b \in DOMAIN t.message.blocks : b # x => m.blocks[b] = t.message.blocks[b]
  BY <1>1, DeltaIs
<1> HIDE DEF m
<1>3. /\ u \in TranslatorShape /\ u.message = m
      /\ u.thinking = t.thinking /\ u.open = t.open /\ u.next = t.next
      /\ u.searches = t.searches /\ u.deferred = t.deferred /\ u.at = t.at
      /\ u.tools = t.tools /\ u.sealed = t.sealed
  <2>1. u = [t EXCEPT !.message = m]
    BY DEF m
  <2> QED BY <1>1, <1>2, <2>1, Zenon DEF TranslatorShape
<1>4. x \in DOMAIN t.message.blocks /\ t.message.blocks[x] \in BlockShape
  BY <1>1, TranslatorIs DEF IsOpen
<1>5. /\ Longer(t.message.blocks[x], n).kind = t.message.blocks[x].kind
      /\ Longer(t.message.blocks[x], n).open = t.message.blocks[x].open
  BY <1>4, EditsAre
<1>6. \A b \in DOMAIN t.message.blocks : /\ m.blocks[b].kind = t.message.blocks[b].kind
                                         /\ m.blocks[b].open = t.message.blocks[b].open
  BY <1>2, <1>5
<1>7. WellMade(u)
  BY <1>1, <1>2, <1>3, <1>6, EditKeeps, Zenon
<1>8. Shut(u) = Shut(t)
  BY <1>2, <1>3, <1>6 DEF Shut
<1> QED BY <1>2, <1>3, <1>6, <1>7, <1>8 DEF m

\* Blocks are added that are complete.
LEMMA Extended ==
    ASSUME NEW t, WellMade(t), NEW u \in TranslatorShape, ~u.message.broken, u.next >= t.next,
           u.thinking = t.thinking, u.open = t.open, u.searches = t.searches, u.deferred = t.deferred,
           DOMAIN u.message.blocks = DOMAIN t.message.blocks \union (t.next .. u.next - 1),
           \A b \in DOMAIN t.message.blocks : u.message.blocks[b] = t.message.blocks[b],
           \A b \in t.next .. u.next - 1 : ~u.message.blocks[b].open /\ u.message.blocks[b].kind # "tool"
    PROVE  WellMade(u) /\ Shut(u) = Shut(t)
PROOF
<1>1. /\ t \in TranslatorShape /\ t.next \in Nat /\ u.next \in Nat
      /\ \A i \in DOMAIN t.open : t.open[i].index \in Nat
      /\ \A k \in DOMAIN t.searches : t.searches[k] \in Nat
      /\ \A k \in DOMAIN t.deferred : t.deferred[k].index \in Nat
  BY TranslatorIs DEF WellMade
<1>2. \A b \in DOMAIN t.message.blocks : b \in 0 .. t.next - 1
  BY DEF WellMade, Places
<1>3. Apart(t) /\ Places(t)
  BY DEF WellMade
<1>4. Apart(u)
  BY <1>1, <1>3, ApartGrows
<1>5. \A b \in t.next .. u.next - 1 : ~Waits(t, b)
  BY <1>1, <1>3 DEF Apart, Waits
<1>6. \A b : Waits(u, b) <=> Waits(t, b)
  BY DEF Waits
<1>7. Places(u)
  <2>1. ASSUME NEW b \in 0 .. u.next - 1 PROVE b \in DOMAIN u.message.blocks \/ Waits(u, b)
    <3>1. b \in 0 .. t.next - 1 \/ b \in t.next .. u.next - 1
      BY <1>1
    <3> QED BY <1>3, <1>6, <3>1 DEF Places
  <2>2. ASSUME NEW b \in DOMAIN u.message.blocks PROVE b \in 0 .. u.next - 1 /\ ~Waits(u, b)
    BY <1>1, <1>2, <1>3, <1>5, <1>6 DEF Places
  <2> QED BY <2>1, <2>2 DEF Places
<1>8. Thinks(u)
  BY DEF WellMade, Thinks, IsOpen
<1>9. Opens(u)
  BY DEF WellMade, Opens, IsOpen
<1>10. Known(u)
  BY DEF WellMade, Known
<1>11. Shut(u) = Shut(t)
  BY DEF Shut
<1> QED BY <1>4, <1>7, <1>8, <1>9, <1>10, <1>11 DEF WellMade

\* A thought begins where the next block goes.
WithThought(t, i) ==
    [t EXCEPT !.thinking = [item |-> i, index |-> t.next], !.next = @ + 1,
              !.message = Start(@, t.next, "thinking")]

\* A thought begins where none is under way.
LEMMA ThoughtBegins ==
    ASSUME NEW t, WellMade(t), t.thinking.item = NoBlock, NEW i \in Item,
           NEW u, u = WithThought(t, i)
    PROVE  /\ WellMade(u) /\ u.message = Start(t.message, t.next, "thinking")
           /\ u.thinking = [item |-> i, index |-> t.next] /\ u.open = t.open /\ u.next = t.next + 1
           /\ u.searches = t.searches /\ u.deferred = t.deferred /\ u.at = t.at
           /\ u.tools = t.tools /\ u.sealed = t.sealed
           /\ IsOpen(u.message, t.next) /\ Shut(u) = Shut(t)
PROOF
<1> DEFINE m == Start(t.message, t.next, "thinking")
<1>1. t \in TranslatorShape /\ t.message \in MessageShape /\ ~t.message.broken /\ t.next \in Nat
  BY TranslatorIs DEF WellMade
<1>2. t.next \notin DOMAIN t.message.blocks /\ DOMAIN t.message.blocks \subseteq Nat
  BY <1>1, TranslatorIs DEF WellMade, Places
<1>3. /\ m \in MessageShape /\ m.broken = t.message.broken
      /\ DOMAIN m.blocks = DOMAIN t.message.blocks \union {t.next}
      /\ m.blocks[t.next] = NewBlock("thinking")
      /\ \A b \in DOMAIN t.message.blocks : m.blocks[b] = t.message.blocks[b]
  BY <1>1, <1>2, StartIs
<1> HIDE DEF m
<1>4. /\ u \in TranslatorShape /\ u.message = m
      /\ u.thinking = [item |-> i, index |-> t.next] /\ u.open = t.open /\ u.next = t.next + 1
      /\ u.searches = t.searches /\ u.deferred = t.deferred /\ u.at = t.at
      /\ u.tools = t.tools /\ u.sealed = t.sealed
  <2>1. [item |-> i, index |-> t.next] \in [item: Item \union {NoBlock}, index: Nat] /\ t.next + 1 \in Nat
    BY <1>1
  <2>2. u = [t EXCEPT !.thinking = [item |-> i, index |-> t.next], !.next = t.next + 1, !.message = m]
    BY DEF m, WithThought
  <2> QED BY <1>1, <1>3, <2>1, <2>2, ZenonT(30) DEF TranslatorShape
<1>5. m.blocks[t.next].open /\ m.blocks[t.next].kind = "thinking"
  BY <1>3, NewBlockIs
<1>6. Places(u)
  <2>1. \A b : Waits(u, b) <=> Waits(t, b)
    BY <1>4 DEF Waits
  <2>2. ~Waits(t, t.next)
    BY <1>1, TranslatorIs DEF WellMade, Apart, Waits
  <2> QED BY <1>1, <1>2, <1>3, <1>4, <2>1, <2>2 DEF WellMade, Places
<1>7. Apart(u)
  <2>1. u.next \in Nat /\ u.next >= t.next /\ Apart(t)
    BY <1>1, <1>4 DEF WellMade
  <2> QED BY <1>1, <1>4, <2>1, ApartGrows
<1>8. Thinks(u)
  BY <1>3, <1>4, <1>5 DEF Thinks, IsOpen
<1>9. Opens(u)
  BY <1>3, <1>4 DEF WellMade, Opens, IsOpen
<1>10. Known(u)
  <2>1. i # NoBlock
    BY StreamTranslationAssumption DEF NoBlock
  <2> QED BY <1>3, <1>4, <2>1 DEF WellMade, Known
<1>11. Shut(u) = Shut(t)
  BY <1>2, <1>3, <1>4, <1>5 DEF Shut
<1> QED BY <1>1, <1>3, <1>4, <1>5, <1>6, <1>7, <1>8, <1>9, <1>10, <1>11 DEF WellMade, IsOpen, m

-----------------------------------------------------------------------------
(* What the translators do in the same way keeps the invariant. *)

\* A signature is remembered.
LEMMA CapturedKeeps ==
    ASSUME NEW t, WellMade(t), NEW i \in Item, NEW seals \in BOOLEAN, NEW u, u = Captured(t, i, seals)
    PROVE  /\ WellMade(u) /\ u.message = t.message
           /\ u.thinking = t.thinking /\ u.open = t.open /\ u.next = t.next
           /\ u.searches = t.searches /\ u.deferred = t.deferred /\ u.at = t.at
           /\ u.tools = t.tools /\ (seals => u.sealed = t.sealed \union {i}) /\ (~seals => u.sealed = t.sealed)
PROOF
<1>1. t \in TranslatorShape /\ ~t.message.broken
  BY DEF WellMade
<1>2. /\ u \in TranslatorShape /\ u.message = t.message
      /\ u.thinking = t.thinking /\ u.open = t.open /\ u.next = t.next
      /\ u.searches = t.searches /\ u.deferred = t.deferred /\ u.at = t.at
      /\ u.tools = t.tools /\ (seals => u.sealed = t.sealed \union {i}) /\ (~seals => u.sealed = t.sealed)
  <2>1. CASE ~seals
    <3>1. u = t
      BY <2>1 DEF Captured
    <3> QED BY <1>1, <2>1, <3>1
  <2>2. CASE seals
    <3>1. u = [t EXCEPT !.sealed = t.sealed \union {i}]
      BY <2>2 DEF Captured
    <3> QED BY <1>1, <2>2, <3>1, ZenonT(30) DEF TranslatorShape
  <2> QED BY <2>1, <2>2
<1>3. WellMade(u)
  BY <1>1, <1>2, EditKeeps
<1> QED BY <1>2, <1>3

\* The summary of an item: its thought goes on, or one begins.
LEMMA SummarisedKeeps ==
    ASSUME NEW t, WellMade(t), NEW i \in Item, NEW u, u = Summarised(t, i)
    PROVE  /\ WellMade(u) /\ u.open = t.open
           /\ u.searches = t.searches /\ u.deferred = t.deferred /\ u.at = t.at
           /\ u.tools = t.tools /\ Shut(u) = Shut(t)
PROOF
<1> DEFINE closed == ThinkingClosed(t)
           new    == WithThought(closed, i)
           begun  == IF t.thinking.item = i THEN t ELSE new
<1>1. u = [begun EXCEPT !.message = Delta(begun.message, begun.thinking.index, 1)]
  BY Zenon DEF Summarised, WithThought
<1>2. i # NoBlock
  BY StreamTranslationAssumption DEF NoBlock
<1>3. /\ WellMade(closed) /\ closed.thinking.item = NoBlock /\ closed.open = t.open
      /\ closed.searches = t.searches /\ closed.deferred = t.deferred /\ closed.at = t.at
      /\ closed.tools = t.tools /\ Shut(closed) = Shut(t)
  BY ThinkingClosedIs
<1> HIDE DEF closed
<1>4. /\ WellMade(new) /\ new.thinking = [item |-> i, index |-> closed.next] /\ new.open = closed.open
      /\ new.searches = closed.searches /\ new.deferred = closed.deferred /\ new.at = closed.at
      /\ new.tools = closed.tools /\ IsOpen(new.message, closed.next) /\ Shut(new) = Shut(closed)
  BY <1>3, ThoughtBegins
<1> HIDE DEF new
<1>5. /\ WellMade(begun) /\ begun.open = t.open
      /\ begun.searches = t.searches /\ begun.deferred = t.deferred /\ begun.at = t.at
      /\ begun.tools = t.tools /\ Shut(begun) = Shut(t)
      /\ IsOpen(begun.message, begun.thinking.index)
  BY <1>2, <1>3, <1>4 DEF WellMade, Thinks
<1> HIDE DEF begun
<1> QED BY <1>1, <1>5, DeltaKeeps

\* A signature without a summary is a block of its own.
LEMMA SignatureOnlyKeeps ==
    ASSUME NEW t, WellMade(t), NEW i \in Item, NEW u, u = SignatureOnly(t, i)
    PROVE  /\ WellMade(u) /\ u.open = t.open
           /\ u.searches = t.searches /\ u.deferred = t.deferred /\ u.at = t.at
           /\ u.tools = t.tools /\ Shut(u) = Shut(t)
PROOF
<1>1. CASE i \notin t.sealed
  BY <1>1 DEF SignatureOnly
<1>2. CASE i \in t.sealed
  <2> DEFINE x  == t.next
             m1 == Start(t.message, x, "thinking")
             m2 == Sign(m1, x)
             m  == Stop(m2, x)
  <2>1. t \in TranslatorShape /\ t.message \in MessageShape /\ ~t.message.broken /\ x \in Nat
    BY TranslatorIs DEF WellMade
  <2>2. x \notin DOMAIN t.message.blocks
    BY <2>1, TranslatorIs DEF WellMade, Places
  <2>3. /\ m1 \in MessageShape /\ m1.broken = t.message.broken
        /\ DOMAIN m1.blocks = DOMAIN t.message.blocks \union {x}
        /\ m1.blocks[x] = NewBlock("thinking")
        /\ \A b \in DOMAIN t.message.blocks : m1.blocks[b] = t.message.blocks[b]
    BY <2>1, <2>2, StartIs
  <2>4. u = [t EXCEPT !.sealed = t.sealed \ {i}, !.next = t.next + 1, !.message = m]
    BY <1>2 DEF SignatureOnly
  <2> HIDE DEF x, m1
  <2>5. IsOpen(m1, x) /\ m1.blocks[x].kind = "thinking" /\ m1.blocks[x] \in BlockShape
    BY <2>3, NewBlockIs DEF IsOpen
  <2>6. /\ m2 \in MessageShape /\ m2.broken = m1.broken /\ DOMAIN m2.blocks = DOMAIN m1.blocks
        /\ m2.blocks[x] = SignedBlock(m1.blocks[x])
        /\ \A b \in DOMAIN m1.blocks : b # x => m2.blocks[b] = m1.blocks[b]
    BY <2>3, <2>5, SignIs
  <2> HIDE DEF m2
  <2>7. m2.blocks[x].open /\ m2.blocks[x].kind = "thinking" /\ m2.blocks[x] \in BlockShape
    BY <2>5, <2>6, EditsAre DEF IsOpen
  <2>8. IsOpen(m2, x)
    BY <2>3, <2>6, <2>7 DEF IsOpen
  <2>9. /\ m \in MessageShape /\ m.broken = m2.broken /\ DOMAIN m.blocks = DOMAIN m2.blocks
        /\ m.blocks[x] = Stopped(m2.blocks[x])
        /\ \A b \in DOMAIN m2.blocks : b # x => m.blocks[b] = m2.blocks[b]
    BY <2>6, <2>8, StopIs
  <2> HIDE DEF m
  <2>10. m.blocks[x].kind = "thinking" /\ ~m.blocks[x].open
    BY <2>7, <2>9, EditsAre
  <2>11. /\ DOMAIN m.blocks = DOMAIN t.message.blocks \union {x} /\ ~m.broken
         /\ \A b \in DOMAIN t.message.blocks : m.blocks[b] = t.message.blocks[b]
    BY <2>1, <2>2, <2>3, <2>6, <2>9
  <2>12. /\ u \in TranslatorShape /\ u.message = m /\ u.thinking = t.thinking
         /\ u.open = t.open /\ u.next = t.next + 1 /\ u.searches = t.searches
         /\ u.deferred = t.deferred /\ u.at = t.at /\ u.tools = t.tools
    <3>1. t.next + 1 \in Nat /\ t.sealed \ {i} \in SUBSET Item
      BY <2>1, TranslatorIs DEF x
    <3> QED BY <2>1, <2>4, <2>9, <3>1, Zenon DEF TranslatorShape
  <2>13. WellMade(u) /\ Shut(u) = Shut(t)
    <3>1. t.next .. u.next - 1 = {x} /\ u.next >= t.next
      BY <2>1, <2>12 DEF x
    <3> QED BY <2>10, <2>11, <2>12, <3>1, Extended
  <2> QED BY <2>12, <2>13
<1> QED BY <1>1, <1>2

\* Reasoning ends with its thought, or shows its signature alone.
LEMMA ReasoningDoneKeeps ==
    ASSUME NEW t, WellMade(t), NEW i \in Item, NEW seals \in BOOLEAN, NEW u, u = ReasoningDone(t, i, seals)
    PROVE  /\ WellMade(u) /\ u.open = t.open
           /\ u.searches = t.searches /\ u.deferred = t.deferred /\ u.at = t.at
           /\ u.tools = t.tools /\ Shut(u) = Shut(t)
PROOF
<1> DEFINE known  == Captured(t, i, seals)
           closed == ThinkingClosed(known)
<1>1. /\ WellMade(known) /\ known.open = t.open /\ known.message = t.message
      /\ known.searches = t.searches /\ known.deferred = t.deferred /\ known.at = t.at
      /\ known.tools = t.tools
  <2>1. known = Captured(t, i, seals)
    OBVIOUS
  <2> HIDE DEF known
  <2> QED BY <2>1, CapturedKeeps
<1>2. Shut(known) = Shut(t)
  BY <1>1 DEF Shut
<1>3. u = IF t.thinking.item = i THEN closed ELSE SignatureOnly(closed, i)
  BY DEF ReasoningDone
<1> HIDE DEF known
<1>4. /\ WellMade(closed) /\ closed.open = known.open
      /\ closed.searches = known.searches /\ closed.deferred = known.deferred /\ closed.at = known.at
      /\ closed.tools = known.tools /\ Shut(closed) = Shut(known)
  BY <1>1, ThinkingClosedIs
<1> HIDE DEF closed
<1> QED BY <1>1, <1>2, <1>3, <1>4, SignatureOnlyKeeps

\* The next index is an item's.
Begins(t, u, i, block) ==
    /\ u.next = t.next + 1 /\ u.thinking = t.thinking /\ u.searches = t.searches
    /\ u.deferred = t.deferred /\ u.at = t.at /\ u.sealed = t.sealed
    /\ DOMAIN u.open = DOMAIN t.open \union {i}
    /\ u.open[i] = block
    /\ \A j \in DOMAIN t.open : j # i => u.open[j] = t.open[j]
    /\ u.message = IF block.deferred THEN t.message ELSE Start(t.message, t.next, block.kind)

\* A block that begins, at once or waiting, keeps the invariant.
LEMMA BeginsIs ==
    ASSUME NEW t, WellMade(t), NEW i \in Item, i \notin DOMAIN t.open, NEW block \in OpenShape,
           block.index = t.next, block.deferred => block.kind = "text",
           NEW u, u \in TranslatorShape, Begins(t, u, i, block)
    PROVE  WellMade(u) /\ Shut(u) = Shut(t)
PROOF
<1> DEFINE kind == block.kind
           deferred == block.deferred
<1>0. kind \in {"text", "tool"}
  BY DEF OpenShape
<1>1. /\ t \in TranslatorShape /\ t.message \in MessageShape /\ ~t.message.broken /\ t.next \in Nat
      /\ \A j \in DOMAIN t.open : t.open[j].index \in Nat
      /\ \A k \in DOMAIN t.searches : t.searches[k] \in Nat
      /\ \A k \in DOMAIN t.deferred : t.deferred[k].index \in Nat
  BY TranslatorIs DEF WellMade
<1>2. t.next \notin DOMAIN t.message.blocks /\ ~Waits(t, t.next)
  <2>1. t.next \notin DOMAIN t.message.blocks
    BY <1>1 DEF WellMade, Places
  <2>2. ~Waits(t, t.next)
    BY <1>1 DEF WellMade, Apart, Waits
  <2> QED BY <2>1, <2>2
<1>3. /\ u.open[i].kind = kind /\ u.open[i].index = t.next /\ (u.open[i].deferred <=> deferred)
      /\ DOMAIN u.open = DOMAIN t.open \union {i} /\ \A j \in DOMAIN t.open : u.open[j] = t.open[j]
      /\ u.next = t.next + 1 /\ u.thinking = t.thinking /\ u.searches = t.searches
      /\ u.deferred = t.deferred
  BY DEF Begins
<1>30. /\ deferred => kind = "text"
       /\ u.message = IF deferred THEN t.message ELSE Start(t.message, t.next, kind)
  BY DEF Begins
<1> HIDE DEF kind, deferred
<1>4. Apart(u)
  <2>1. Apart(t)
    BY DEF WellMade
  <2>2. ASSUME NEW j \in DOMAIN u.open
        PROVE  /\ u.open[j].index < u.next
               /\ \A k \in DOMAIN u.open : u.open[j].index = u.open[k].index => j = k
               /\ \A k \in DOMAIN u.searches : u.open[j].index \notin {u.searches[k], u.searches[k] + 1}
               /\ \A k \in DOMAIN u.deferred : u.open[j].index # u.deferred[k].index
    <3>1. \A k \in DOMAIN t.open : t.open[k].index < t.next
      BY <2>1 DEF Apart
    <3>2. CASE j = i
      BY <1>1, <1>3, <2>1, <3>1, <3>2 DEF Apart
    <3>3. CASE j # i
      BY <1>1, <1>3, <2>1, <3>1, <3>3 DEF Apart
    <3> QED BY <3>2, <3>3
  <2>3. \A k \in DOMAIN u.searches :
          /\ u.searches[k] + 1 < u.next
          /\ \A j \in DOMAIN u.searches : /\ u.searches[k] = u.searches[j] => k = j
                                          /\ u.searches[k] # u.searches[j] + 1
          /\ \A j \in DOMAIN u.deferred : u.deferred[j].index \notin {u.searches[k], u.searches[k] + 1}
    BY <1>1, <1>3, <2>1 DEF Apart
  <2>4. \A k \in DOMAIN u.deferred :
          /\ u.deferred[k].index < u.next
          /\ \A j \in DOMAIN u.deferred : u.deferred[k].index = u.deferred[j].index => k = j
    BY <1>1, <1>3, <2>1 DEF Apart
  <2> QED BY <2>2, <2>3, <2>4 DEF Apart
<1>5. \A b : Waits(u, b) <=> Waits(t, b) \/ (deferred /\ b = t.next)
  BY <1>3 DEF Waits
<1>6. CASE deferred
  <2>1. u.message = t.message
    BY <1>6, <1>30
  <2>2. Places(u)
    BY <1>1, <1>2, <1>3, <1>5, <1>6, <2>1 DEF WellMade, Places
  <2>3. Thinks(u)
    BY <1>3, <2>1 DEF WellMade, Thinks
  <2>4. Opens(u)
    BY <1>3, <1>30, <1>6, <2>1 DEF WellMade, Opens
  <2>5. Known(u)
    BY <1>3, <1>6, <2>1 DEF WellMade, Known
  <2>6. Shut(u) = Shut(t)
    BY <2>1 DEF Shut
  <2> QED BY <1>1, <1>4, <2>1, <2>2, <2>3, <2>4, <2>5, <2>6 DEF WellMade
<1>7. CASE ~deferred
  <2> DEFINE m == Start(t.message, t.next, kind)
  <2>1. u.message = m
    BY <1>7, <1>30
  <2> HIDE DEF m
  <2>2. /\ m.broken = t.message.broken
        /\ DOMAIN m.blocks = DOMAIN t.message.blocks \union {t.next}
        /\ m.blocks[t.next] = NewBlock(kind)
        /\ \A b \in DOMAIN t.message.blocks : m.blocks[b] = t.message.blocks[b]
    <3>1. kind \in {"thinking", "text", "tool", "search", "result"}
      BY <1>0
    <3>2. t.message \in MessageShape /\ t.next \in Nat /\ t.next \notin DOMAIN t.message.blocks
      BY <1>1, <1>2
    <3>3. /\ Start(t.message, t.next, kind).broken = t.message.broken
          /\ DOMAIN Start(t.message, t.next, kind).blocks = DOMAIN t.message.blocks \union {t.next}
      BY <3>1, <3>2, StartIs
    <3>4. Start(t.message, t.next, kind).blocks[t.next] = NewBlock(kind)
      BY <3>1, <3>2, StartIs
    <3>5. \A b \in DOMAIN t.message.blocks : Start(t.message, t.next, kind).blocks[b] = t.message.blocks[b]
      BY <3>1, <3>2, StartIs
    <3> QED BY Zenon, <3>3, <3>4, <3>5 DEF m
  <2>3. m.blocks[t.next].open /\ m.blocks[t.next].kind = kind
    <3>1. kind \in {"thinking", "text", "tool", "search", "result"}
      BY <1>0
    <3> QED BY <2>2, <3>1, NewBlockIs
  <2>4. Places(u)
    BY <1>1, <1>2, <1>3, <1>5, <1>7, <2>1, <2>2 DEF WellMade, Places
  <2>5. Thinks(u)
    BY <1>3, <2>1, <2>2 DEF WellMade, Thinks, IsOpen
  <2>6. Opens(u)
    BY <1>3, <1>7, <2>1, <2>2, <2>3 DEF WellMade, Opens, IsOpen
  <2>7. Known(u)
    BY <1>3, <1>7, <2>1, <2>2 DEF WellMade, Known
  <2>8. Shut(u) = Shut(t)
    BY <1>2, <2>1, <2>2, <2>3 DEF Shut
  <2> QED BY <1>1, <1>4, <2>1, <2>2, <2>4, <2>5, <2>6, <2>7, <2>8 DEF WellMade
<1> QED BY <1>6, <1>7

\* A block more is open.
LEMMA PutIs ==
    ASSUME NEW t \in TranslatorShape, NEW i \in Item, NEW b \in OpenShape
    PROVE  /\ Put(t.open, i, b) \in PartialFunctions(Item, OpenShape)
           /\ DOMAIN Put(t.open, i, b) = DOMAIN t.open \union {i}
           /\ Put(t.open, i, b)[i] = b
           /\ \A j \in DOMAIN t.open : j # i => Put(t.open, i, b)[j] = t.open[j]
PROOF
<1> DEFINE f == Put(t.open, i, b)
<1>1. /\ f = [x \in DOMAIN f |-> f[x]] /\ DOMAIN f = DOMAIN t.open \union {i} /\ f[i] = b
      /\ \A j \in DOMAIN t.open : j # i => f[j] = t.open[j]
  BY DEF Put
<1> HIDE DEF f
<1>2. DOMAIN t.open \subseteq Item /\ \A j \in DOMAIN t.open : t.open[j] \in OpenShape
  BY TranslatorIs
<1>3. DOMAIN f \subseteq Item /\ \A j \in DOMAIN f : f[j] \in OpenShape
  BY <1>1, <1>2
<1>4. f \in PartialFunctions(Item, OpenShape)
  BY <1>1, <1>3, PartialIs
<1> QED BY <1>1, <1>4 DEF f

\* A text begins.
LEMMA TextBegunKeeps ==
    ASSUME NEW t, WellMade(t), NEW i \in Item, i \notin DOMAIN t.open, NEW deferred \in BOOLEAN,
           NEW u, u = TextBegun(t, i, deferred)
    PROVE  /\ WellMade(u) /\ Begins(t, u, i, OpenBlock("text", t.next, deferred, FALSE))
           /\ u.tools = t.tools /\ Shut(u) = Shut(t)
PROOF
<1> DEFINE b == OpenBlock("text", t.next, deferred, FALSE)
           f == Put(t.open, i, b)
           m == IF deferred THEN t.message ELSE Start(t.message, t.next, "text")
<1>1. t \in TranslatorShape /\ t.message \in MessageShape /\ t.next \in Nat
  BY TranslatorIs DEF WellMade
<1>2. t.next \notin DOMAIN t.message.blocks
  BY <1>1 DEF WellMade, Places
<1>3. b \in OpenShape /\ b.kind = "text" /\ b.index = t.next /\ (b.deferred <=> deferred)
  <2>1. b \in OpenShape
    BY <1>1 DEF OpenBlock, OpenShape
  <2> QED BY <2>1 DEF OpenBlock
<1>4. /\ f \in PartialFunctions(Item, OpenShape) /\ DOMAIN f = DOMAIN t.open \union {i} /\ f[i] = b
      /\ \A j \in DOMAIN t.open : j # i => f[j] = t.open[j]
  <2>1. b \in OpenShape
    BY <1>3, Zenon
  <2> HIDE DEF b
  <2>2. f = Put(t.open, i, b)
    OBVIOUS
  <2> HIDE DEF f
  <2>3. t \in TranslatorShape
    BY <1>1
  <2>4. f \in PartialFunctions(Item, OpenShape)
    BY <2>1, <2>2, <2>3, PutIs, Zenon
  <2>5. DOMAIN f = DOMAIN t.open \union {i}
    BY <2>1, <2>2, <2>3, PutIs
  <2>6. f[i] = b
    BY <2>1, <2>2, <2>3, PutIs, Zenon
  <2>7. \A j \in DOMAIN t.open : j # i => f[j] = t.open[j]
    BY <2>2 DEF Put
  <2> QED BY <2>4, <2>5, <2>6, <2>7
<1>5. m \in MessageShape
  BY <1>1, <1>2, StartIs
<1>6. u = [t EXCEPT !.next = t.next + 1, !.open = f, !.message = m]
  BY DEF TextBegun
<1> HIDE DEF f, m, b
<1>7. /\ u \in TranslatorShape /\ u.next = t.next + 1 /\ u.thinking = t.thinking /\ u.searches = t.searches
      /\ u.deferred = t.deferred /\ u.at = t.at /\ u.sealed = t.sealed /\ u.open = f /\ u.message = m
      /\ u.tools = t.tools
  <2>1. t.next + 1 \in Nat
    BY <1>1
  <2> QED BY <1>1, <1>4, <1>5, <1>6, <2>1, Zenon DEF TranslatorShape
<1>8. Begins(t, u, i, b)
  BY <1>3, <1>4, <1>7 DEF Begins, m
<1>9. WellMade(u) /\ Shut(u) = Shut(t)
  BY <1>3, <1>7, <1>8, BeginsIs
<1> QED BY <1>7, <1>8, <1>9, Zenon DEF b

\* The block of a call, as it begins.
CallBlock(n, type) == OpenBlock("tool", n, FALSE, type = "read")

\* A call begins.
LEMMA CallBegunKeeps ==
    ASSUME NEW t, WellMade(t), NEW i \in Item, i \notin DOMAIN t.open, NEW type,
           NEW u, u = CallBegun(t, i, type)
    PROVE  /\ WellMade(u) /\ Begins(t, u, i, CallBlock(t.next, type))
           /\ u.tools /\ Shut(u) = Shut(t)
PROOF
<1> DEFINE buffered == type = "read"
           b == OpenBlock("tool", t.next, FALSE, buffered)
           f == Put(t.open, i, b)
           m == Start(t.message, t.next, "tool")
<1>10. b = CallBlock(t.next, type)
  BY Zenon DEF CallBlock
<1>0. buffered \in BOOLEAN
  OBVIOUS
<1>1. t \in TranslatorShape /\ t.message \in MessageShape /\ t.next \in Nat
  BY TranslatorIs DEF WellMade
<1>2. t.next \notin DOMAIN t.message.blocks
  BY <1>1 DEF WellMade, Places
<1>6. u = [t EXCEPT !.next = t.next + 1, !.tools = TRUE, !.open = f, !.message = m]
  BY DEF CallBegun
<1> HIDE DEF buffered
<1>3. b \in OpenShape /\ b.kind = "tool" /\ b.index = t.next /\ ~b.deferred
  <2>1. b \in OpenShape
    BY <1>0, <1>1 DEF OpenBlock, OpenShape
  <2> QED BY <2>1 DEF OpenBlock
<1>4. /\ f \in PartialFunctions(Item, OpenShape) /\ DOMAIN f = DOMAIN t.open \union {i} /\ f[i] = b
      /\ \A j \in DOMAIN t.open : j # i => f[j] = t.open[j]
  <2>1. b \in OpenShape
    BY <1>3, Zenon
  <2> HIDE DEF b
  <2>2. f = Put(t.open, i, b)
    OBVIOUS
  <2> HIDE DEF f
  <2>3. t \in TranslatorShape
    BY <1>1
  <2>4. f \in PartialFunctions(Item, OpenShape)
    BY <2>1, <2>2, <2>3, PutIs, Zenon
  <2>5. DOMAIN f = DOMAIN t.open \union {i}
    BY <2>1, <2>2, <2>3, PutIs
  <2>6. f[i] = b
    BY <2>1, <2>2, <2>3, PutIs, Zenon
  <2>7. \A j \in DOMAIN t.open : j # i => f[j] = t.open[j]
    BY <2>2 DEF Put
  <2> QED BY <2>4, <2>5, <2>6, <2>7
<1>5. m \in MessageShape
  BY <1>1, <1>2, StartIs
<1> HIDE DEF f, m, b
<1>7. /\ u \in TranslatorShape /\ u.next = t.next + 1 /\ u.thinking = t.thinking /\ u.searches = t.searches
      /\ u.deferred = t.deferred /\ u.at = t.at /\ u.sealed = t.sealed /\ u.open = f /\ u.message = m
      /\ u.tools = TRUE
  <2>1. t.next + 1 \in Nat
    BY <1>1
  <2> QED BY <1>1, <1>4, <1>5, <1>6, <2>1, Zenon DEF TranslatorShape
<1>8. Begins(t, u, i, b)
  BY <1>3, <1>4, <1>7 DEF Begins, m
<1>9. WellMade(u) /\ Shut(u) = Shut(t)
  BY <1>3, <1>7, <1>8, BeginsIs
<1> QED BY <1>7, <1>8, <1>9, <1>10

\* A block fewer is open.
LEMMA WithoutIs ==
    ASSUME NEW t \in TranslatorShape, NEW i
    PROVE  /\ WithoutBlock(t, i) \in TranslatorShape
           /\ WithoutBlock(t, i).message = t.message /\ WithoutBlock(t, i).next = t.next
           /\ WithoutBlock(t, i).thinking = t.thinking /\ WithoutBlock(t, i).sealed = t.sealed
           /\ WithoutBlock(t, i).searches = t.searches /\ WithoutBlock(t, i).deferred = t.deferred
           /\ WithoutBlock(t, i).at = t.at /\ WithoutBlock(t, i).tools = t.tools
           /\ DOMAIN WithoutBlock(t, i).open = DOMAIN t.open \ {i}
           /\ \A j \in DOMAIN t.open : j # i => WithoutBlock(t, i).open[j] = t.open[j]
PROOF
<1> DEFINE f == Restrict(t.open, DOMAIN t.open \ {i})
           u == WithoutBlock(t, i)
<1>1. /\ f = [x \in DOMAIN f |-> f[x]] /\ DOMAIN f = DOMAIN t.open \ {i}
      /\ \A j \in DOMAIN t.open : j # i => f[j] = t.open[j]
  BY DEF Restrict
<1>2. u = [t EXCEPT !.open = f]
  BY DEF WithoutBlock
<1> HIDE DEF f, u
<1>3. DOMAIN t.open \subseteq Item /\ \A j \in DOMAIN t.open : t.open[j] \in OpenShape
  BY TranslatorIs
<1>4. f \in PartialFunctions(Item, OpenShape)
  <2>1. DOMAIN f \subseteq Item /\ \A j \in DOMAIN f : f[j] \in OpenShape
    BY <1>1, <1>3
  <2> QED BY <1>1, <2>1, PartialIs
<1>5. /\ u \in TranslatorShape
      /\ u.message = t.message /\ u.next = t.next
      /\ u.thinking = t.thinking /\ u.sealed = t.sealed
      /\ u.searches = t.searches /\ u.deferred = t.deferred
      /\ u.at = t.at /\ u.tools = t.tools /\ u.open = f
  BY <1>2, <1>4 DEF TranslatorShape
<1> QED BY <1>1, <1>5 DEF u

\* A block is complete.
Ends(t, u, i) ==
    /\ u.next = t.next /\ u.thinking = t.thinking /\ u.searches = t.searches
    /\ u.deferred = t.deferred /\ u.sealed = t.sealed /\ u.tools = t.tools
    /\ DOMAIN u.open = DOMAIN t.open \ {i}
    /\ \A j \in DOMAIN t.open : j # i => u.open[j] = t.open[j]
    /\ ~u.message.broken /\ DOMAIN u.message.blocks = DOMAIN t.message.blocks
    /\ ~u.message.blocks[t.open[i].index].open
    /\ u.message.blocks[t.open[i].index].kind = t.message.blocks[t.open[i].index].kind
    /\ \A b \in DOMAIN t.message.blocks :
          b # t.open[i].index => u.message.blocks[b] = t.message.blocks[b]

\* A block that is open and does not wait may end.
LEMMA EndsIs ==
    ASSUME NEW t, WellMade(t), NEW i \in DOMAIN t.open, ~t.open[i].deferred,
           NEW u, u \in TranslatorShape, Ends(t, u, i)
    PROVE  /\ WellMade(u) /\ t.open[i].index \notin Shut(t)
           /\ Shut(u) = IF t.open[i].kind = "tool" THEN Shut(t) \union {t.open[i].index} ELSE Shut(t)
PROOF
<1> DEFINE x == t.open[i].index
<1>1. /\ t \in TranslatorShape /\ i \in Item /\ t.open[i].kind \in {"text", "tool"}
      /\ x \in DOMAIN t.message.blocks /\ t.message.blocks[x].open
      /\ t.message.blocks[x].kind = t.open[i].kind
  <2>1. t \in TranslatorShape
    BY DEF WellMade
  <2>2. i \in Item /\ t.open[i] \in OpenShape
    BY <2>1, TranslatorIs
  <2>3. IsOpen(t.message, x) /\ t.message.blocks[x].kind = t.open[i].kind
    BY DEF WellMade, Opens
  <2> QED BY <2>1, <2>2, <2>3 DEF IsOpen, OpenShape
<1>2. /\ u.next = t.next /\ u.thinking = t.thinking /\ u.searches = t.searches
      /\ u.deferred = t.deferred
      /\ DOMAIN u.open = DOMAIN t.open \ {i} /\ \A j \in DOMAIN t.open : j # i => u.open[j] = t.open[j]
      /\ ~u.message.broken /\ DOMAIN u.message.blocks = DOMAIN t.message.blocks
      /\ ~u.message.blocks[x].open /\ u.message.blocks[x].kind = t.message.blocks[x].kind
      /\ \A b \in DOMAIN t.message.blocks : b # x => u.message.blocks[b] = t.message.blocks[b]
  BY DEF Ends
<1>3. \A j \in DOMAIN t.open : j # i => t.open[j].index # x
  BY DEF WellMade, Apart
<1> HIDE DEF x
<1>4. Places(u) /\ Apart(u)
  <2>1. Places(t) /\ Apart(t)
    BY DEF WellMade
  <2> QED BY <1>2, <2>1, Stays
<1>5. Thinks(u)
  <2>1. t.thinking.item # NoBlock => t.thinking.index # x
    BY <1>1 DEF WellMade, Thinks
  <2> QED BY <1>2, <2>1 DEF WellMade, Thinks, IsOpen
<1>6. Opens(u)
  BY <1>2, <1>3 DEF WellMade, Opens, IsOpen
<1>7. Known(u)
  <2>1. ASSUME NEW b \in DOMAIN t.message.blocks, u.message.blocks[b].open
        PROVE  \/ t.thinking.item # NoBlock /\ t.thinking.index = b
               \/ \E j \in DOMAIN u.open : ~u.open[j].deferred /\ u.open[j].index = b
    <3>1. b # x /\ t.message.blocks[b].open
      BY <1>2, <2>1
    <3>2. CASE t.thinking.item # NoBlock /\ t.thinking.index = b
      BY <3>2
    <3>3. CASE \E j \in DOMAIN t.open : ~t.open[j].deferred /\ t.open[j].index = b
      <4>1. PICK j \in DOMAIN t.open : ~t.open[j].deferred /\ t.open[j].index = b
        BY <3>3
      <4>2. j # i
        BY <3>1, <4>1 DEF x
      <4> QED BY <1>2, <4>1, <4>2
    <3> QED BY <3>1, <3>2, <3>3 DEF WellMade, Known
  <2> QED BY <1>2, <2>1 DEF Known
<1>8. x \notin Shut(t)
  BY <1>1 DEF Shut
<1>9. Shut(u) = IF t.open[i].kind = "tool" THEN Shut(t) \union {x} ELSE Shut(t)
  BY <1>1, <1>2 DEF Shut
<1> QED BY <1>2, <1>4, <1>5, <1>6, <1>7, <1>8, <1>9 DEF WellMade, x

\* The open blocks stay; only what was counted of them may change.
SameOpen(t, u) ==
    /\ DOMAIN u.open = DOMAIN t.open
    /\ \A i \in DOMAIN t.open : /\ u.open[i].index = t.open[i].index
                                /\ u.open[i].deferred = t.open[i].deferred
                                /\ u.open[i].kind = t.open[i].kind

\* What is open and does not wait has a block to be written and stopped.
LEMMA ToolIs ==
    ASSUME NEW t, WellMade(t), NEW i \in DOMAIN t.open, ~t.open[i].deferred
    PROVE  /\ t.open[i] \in OpenShape /\ t.open[i].index \in DOMAIN t.message.blocks
           /\ IsOpen(t.message, t.open[i].index)
           /\ t.message.blocks[t.open[i].index] \in BlockShape
           /\ t \in TranslatorShape /\ t.message \in MessageShape /\ ~t.message.broken
PROOF
<1>1. t \in TranslatorShape /\ ~t.message.broken
  BY DEF WellMade
<1>2. t.open[i] \in OpenShape /\ t.message \in MessageShape
  BY <1>1, TranslatorIs
<1>3. IsOpen(t.message, t.open[i].index)
  BY DEF WellMade, Opens
<1>4. t.message.blocks[t.open[i].index] \in BlockShape
  BY <1>1, <1>3, TranslatorIs DEF IsOpen
<1> QED BY <1>1, <1>2, <1>3, <1>4 DEF IsOpen

\* A block is written a last time, if there is something to write, and stopped.
LEMMA DeltaStopIs ==
    ASSUME NEW m \in MessageShape, NEW x, IsOpen(m, x), NEW n \in Nat,
           NEW v, v = Stop(Delta(m, x, n), x)
    PROVE  /\ v \in MessageShape /\ v.broken = m.broken /\ DOMAIN v.blocks = DOMAIN m.blocks
           /\ ~v.blocks[x].open /\ v.blocks[x].kind = m.blocks[x].kind
           /\ v.blocks[x] = Stopped(Longer(m.blocks[x], n))
           /\ \A b \in DOMAIN m.blocks : b # x => v.blocks[b] = m.blocks[b]
PROOF
<1> DEFINE w == Delta(m, x, n)
           block == Longer(m.blocks[x], n)
<1>1. m.blocks[x] \in BlockShape /\ m.blocks[x].open /\ x \in DOMAIN m.blocks
  BY PartialIs DEF MessageShape, IsOpen
<1>2. block \in BlockShape /\ block.open /\ block.kind = m.blocks[x].kind
  BY <1>1, EditsAre
<1>3. /\ w \in MessageShape /\ w.broken = m.broken /\ DOMAIN w.blocks = DOMAIN m.blocks
      /\ w.blocks[x] = block
      /\ \A b \in DOMAIN m.blocks : b # x => w.blocks[b] = m.blocks[b]
  BY DeltaIs
<1>4. v = Stop(w, x)
  OBVIOUS
<1> HIDE DEF w, block
<1>5. IsOpen(w, x)
  BY <1>1, <1>2, <1>3 DEF IsOpen
<1>6. /\ v \in MessageShape /\ v.broken = w.broken /\ DOMAIN v.blocks = DOMAIN w.blocks
      /\ v.blocks[x] = Stopped(w.blocks[x])
      /\ \A b \in DOMAIN w.blocks : b # x => v.blocks[b] = w.blocks[b]
  BY <1>3, <1>4, <1>5, StopIs
<1>7. Stopped(block).kind = block.kind /\ ~Stopped(block).open
  <2>1. 0 \in Nat
    OBVIOUS
  <2> QED BY <1>2, <2>1, EditsAre
<1> QED BY <1>2, <1>3, <1>6, <1>7 DEF block

\* A block is written a last time and stopped.
LEMMA LastWords ==
    ASSUME NEW m \in MessageShape, NEW x, IsOpen(m, x), NEW n \in Nat, NEW some \in BOOLEAN,
           NEW v, v = Stop(IF some THEN Delta(m, x, n) ELSE m, x)
    PROVE  /\ v \in MessageShape /\ v.broken = m.broken /\ DOMAIN v.blocks = DOMAIN m.blocks
           /\ ~v.blocks[x].open /\ v.blocks[x].kind = m.blocks[x].kind
           /\ v.blocks[x] = Stopped(IF some THEN Longer(m.blocks[x], n) ELSE m.blocks[x])
           /\ \A b \in DOMAIN m.blocks : b # x => v.blocks[b] = m.blocks[b]
PROOF
<1>1. CASE some
  BY <1>1, DeltaStopIs
<1>2. CASE ~some
  <2>1. m.blocks[x] \in BlockShape
    BY PartialIs DEF MessageShape, IsOpen
  <2>2. Stopped(m.blocks[x]).kind = m.blocks[x].kind /\ ~Stopped(m.blocks[x]).open
    <3>1. 0 \in Nat
      OBVIOUS
    <3> QED BY <2>1, <3>1, EditsAre
  <2> QED BY <1>2, <2>2, StopIs
<1> QED BY <1>1, <1>2

\* A call that is done has its block stopped: one more is shut.
LEMMA CallDoneKeeps ==
    ASSUME NEW t, WellMade(t), NEW i \in DOMAIN t.open, t.open[i].kind = "tool",
           NEW given \in BOOLEAN, NEW u, u = CallDone(t, i, given)
    PROVE  /\ WellMade(u) /\ u.at = t.at /\ Ends(t, u, i) /\ ~t.open[i].deferred
           /\ t.open[i].index \notin Shut(t) /\ Shut(u) = Shut(t) \union {t.open[i].index}
PROOF
<1> DEFINE b == t.open[i]
           x == b.index
           units == IF given /\ b.units = 0 THEN 1 ELSE b.units
           some == units > 0 /\ (b.buffered \/ ~b.emitted)
           v == Stop(IF some THEN Delta(t.message, x, units) ELSE t.message, x)
<1>1. ~b.deferred
  BY DEF WellMade, Opens
<1>2. /\ b \in OpenShape /\ x \in DOMAIN t.message.blocks /\ IsOpen(t.message, x)
      /\ t \in TranslatorShape /\ t.message \in MessageShape /\ ~t.message.broken
  BY <1>1, ToolIs
<1>3. u = [WithoutBlock(t, i) EXCEPT !.message = v]
  BY Zenon DEF CallDone
<1>4. units \in Nat /\ some \in BOOLEAN
  BY <1>2 DEF OpenShape
<1> HIDE DEF units, some
<1>5. /\ v \in MessageShape /\ v.broken = t.message.broken /\ DOMAIN v.blocks = DOMAIN t.message.blocks
      /\ ~v.blocks[x].open /\ v.blocks[x].kind = t.message.blocks[x].kind
      /\ \A c \in DOMAIN t.message.blocks : c # x => v.blocks[c] = t.message.blocks[c]
  BY SMTT(20), <1>2, <1>4, LastWords
<1> HIDE DEF v
<1> DEFINE w == WithoutBlock(t, i)
<1>6. /\ w \in TranslatorShape /\ w.next = t.next
      /\ w.thinking = t.thinking /\ w.sealed = t.sealed /\ w.searches = t.searches
      /\ w.deferred = t.deferred /\ w.at = t.at /\ w.tools = t.tools
      /\ DOMAIN w.open = DOMAIN t.open \ {i}
      /\ \A j \in DOMAIN t.open : j # i => w.open[j] = t.open[j]
  BY <1>2, WithoutIs
<1>7. u = [w EXCEPT !.message = v]
  BY <1>3
<1> HIDE DEF w
<1>8. /\ u \in TranslatorShape /\ u.message = v /\ u.next = w.next
      /\ u.thinking = w.thinking /\ u.sealed = w.sealed /\ u.searches = w.searches
      /\ u.deferred = w.deferred /\ u.at = w.at /\ u.tools = w.tools /\ u.open = w.open
  BY <1>5, <1>6, <1>7, Zenon DEF TranslatorShape
<1>9. Ends(t, u, i)
  BY <1>2, <1>5, <1>6, <1>8 DEF Ends
<1> QED BY <1>1, <1>6, <1>8, <1>9, EndsIs

\* A text that does not wait ends.
TextStopped(t, i) == [WithoutBlock(t, i) EXCEPT !.message = Stop(t.message, t.open[i].index)]

\* It ends no call.
LEMMA TextStoppedKeeps ==
    ASSUME NEW t, WellMade(t), NEW i \in DOMAIN t.open, t.open[i].kind = "text", ~t.open[i].deferred,
           NEW u, u = TextStopped(t, i)
    PROVE  WellMade(u) /\ u.at = t.at /\ Ends(t, u, i) /\ Shut(u) = Shut(t)
PROOF
<1> DEFINE b == t.open[i]
           x == b.index
           v == Stop(t.message, x)
<1>2. /\ b \in OpenShape /\ x \in DOMAIN t.message.blocks /\ IsOpen(t.message, x)
      /\ t \in TranslatorShape /\ t.message \in MessageShape /\ ~t.message.broken
      /\ t.message.blocks[x] \in BlockShape
  BY ToolIs
<1>3. u = [WithoutBlock(t, i) EXCEPT !.message = v]
  BY DEF TextStopped
<1>4. Stopped(t.message.blocks[x]).kind = t.message.blocks[x].kind /\ ~Stopped(t.message.blocks[x]).open
  <2>1. 0 \in Nat
    BY SMTT(20)
  <2> QED BY <1>2, <2>1, EditsAre
<1>5. /\ v \in MessageShape /\ v.broken = t.message.broken /\ DOMAIN v.blocks = DOMAIN t.message.blocks
      /\ ~v.blocks[x].open /\ v.blocks[x].kind = t.message.blocks[x].kind
      /\ \A c \in DOMAIN t.message.blocks : c # x => v.blocks[c] = t.message.blocks[c]
  BY <1>2, <1>4, StopIs
<1> HIDE DEF v
<1> DEFINE w == WithoutBlock(t, i)
<1>6. /\ w \in TranslatorShape /\ w.next = t.next
      /\ w.thinking = t.thinking /\ w.sealed = t.sealed /\ w.searches = t.searches
      /\ w.deferred = t.deferred /\ w.at = t.at /\ w.tools = t.tools
      /\ DOMAIN w.open = DOMAIN t.open \ {i}
      /\ \A j \in DOMAIN t.open : j # i => w.open[j] = t.open[j]
  BY <1>2, WithoutIs
<1>7. u = [w EXCEPT !.message = v]
  BY <1>3
<1> HIDE DEF w
<1>8. /\ u \in TranslatorShape /\ u.message = v /\ u.next = w.next
      /\ u.thinking = w.thinking /\ u.sealed = w.sealed /\ u.searches = w.searches
      /\ u.deferred = w.deferred /\ u.at = w.at /\ u.tools = w.tools /\ u.open = w.open
  BY <1>5, <1>6, <1>7, Zenon DEF TranslatorShape
<1>9. Ends(t, u, i)
  BY <1>2, <1>5, <1>6, <1>8 DEF Ends
<1> QED BY <1>6, <1>8, <1>9, EndsIs

\* What has been counted of an open block.
LEMMA CountedIs ==
    ASSUME NEW t \in TranslatorShape, NEW i \in DOMAIN t.open, NEW n \in Nat,
           NEW f, f = [t.open EXCEPT ![i].units = n, ![i].emitted = TRUE]
    PROVE  /\ f \in PartialFunctions(Item, OpenShape) /\ DOMAIN f = DOMAIN t.open
           /\ \A j \in DOMAIN t.open : /\ f[j].index = t.open[j].index
                                       /\ f[j].deferred = t.open[j].deferred
                                       /\ f[j].kind = t.open[j].kind
                                       /\ f[j].buffered = t.open[j].buffered
           /\ \A j \in DOMAIN t.open : j # i => f[j] = t.open[j]
           /\ f[i].units = n /\ f[i].emitted
PROOF
<1>1. DOMAIN t.open \subseteq Item /\ \A j \in DOMAIN t.open : t.open[j] \in OpenShape
  BY TranslatorIs
<1> DEFINE b == [[t.open[i] EXCEPT !.units = n] EXCEPT !.emitted = TRUE]
<1>2. f = [x \in DOMAIN f |-> f[x]] /\ DOMAIN f = DOMAIN t.open
  BY Zenon
<1>3. f[i] = b
  BY Zenon
<1>4. \A j \in DOMAIN t.open : j # i => f[j] = t.open[j]
  OBVIOUS
<1>5. /\ b \in OpenShape /\ b.index = t.open[i].index /\ b.kind = t.open[i].kind
      /\ b.units = n /\ b.emitted
      /\ b.deferred = t.open[i].deferred /\ b.buffered = t.open[i].buffered
  BY <1>1, Zenon DEF OpenShape
<1> HIDE DEF b
<1>6. \A j \in DOMAIN f : f[j] \in OpenShape
  BY <1>1, <1>2, <1>3, <1>4, <1>5, Zenon
<1>7. f \in PartialFunctions(Item, OpenShape)
  <2>1. f = [x \in DOMAIN f |-> f[x]] /\ DOMAIN f \subseteq Item
    BY <1>1, <1>2
  <2>2. f \in [DOMAIN f -> OpenShape]
    BY Zenon, <1>6, <2>1
  <2> QED BY Zenon, <2>1, <2>2 DEF PartialFunctions
<1> QED BY <1>2, <1>3, <1>4, <1>5, <1>7

\* Pieces are counted and nothing is sent.
LEMMA CountedOnlyIs ==
    ASSUME NEW t \in TranslatorShape, NEW i \in DOMAIN t.open, NEW n \in Nat,
           NEW f, f = [t.open EXCEPT ![i].units = n]
    PROVE  /\ f \in PartialFunctions(Item, OpenShape) /\ DOMAIN f = DOMAIN t.open
           /\ \A j \in DOMAIN t.open : /\ f[j].index = t.open[j].index
                                       /\ f[j].deferred = t.open[j].deferred
                                       /\ f[j].kind = t.open[j].kind
                                       /\ f[j].buffered = t.open[j].buffered
                                       /\ f[j].emitted = t.open[j].emitted
           /\ \A j \in DOMAIN t.open : j # i => f[j] = t.open[j]
           /\ f[i].units = n
PROOF
<1>1. DOMAIN t.open \subseteq Item /\ \A j \in DOMAIN t.open : t.open[j] \in OpenShape
  BY TranslatorIs
<1> DEFINE b == [t.open[i] EXCEPT !.units = n]
<1>2. f = [x \in DOMAIN f |-> f[x]] /\ DOMAIN f = DOMAIN t.open
  OBVIOUS
<1>3. f[i] = b
  OBVIOUS
<1>4. \A j \in DOMAIN t.open : j # i => f[j] = t.open[j]
  OBVIOUS
<1>5. /\ b \in OpenShape /\ b.index = t.open[i].index /\ b.kind = t.open[i].kind
      /\ b.units = n /\ b.emitted = t.open[i].emitted
      /\ b.deferred = t.open[i].deferred /\ b.buffered = t.open[i].buffered
  BY <1>1 DEF OpenShape
<1> HIDE DEF b
<1>6. \A j \in DOMAIN f : f[j] \in OpenShape
  BY <1>1, <1>2, <1>3, <1>4, <1>5
<1>7. f \in PartialFunctions(Item, OpenShape)
  BY <1>1, <1>2, <1>6, PartialIs
<1> QED BY <1>2, <1>3, <1>4, <1>5, <1>7

\* Counting does not touch the message.
Counted(t, i, n) == [t EXCEPT !.open[i].units = n]

\* Counting keeps the invariant.
LEMMA BlockCountKeeps ==
    ASSUME NEW t, WellMade(t), NEW i \in DOMAIN t.open, NEW n \in Nat,
           NEW u, u = Counted(t, i, n)
    PROVE  /\ WellMade(u) /\ u.at = t.at /\ SameOpen(t, u) /\ Shut(u) = Shut(t) /\ u.tools = t.tools
           /\ u.message = t.message /\ u.next = t.next /\ u.thinking = t.thinking
           /\ u.sealed = t.sealed /\ u.searches = t.searches /\ u.deferred = t.deferred
           /\ \A j \in DOMAIN t.open : /\ u.open[j].buffered = t.open[j].buffered
                                       /\ u.open[j].emitted = t.open[j].emitted
                                       /\ u.open[j].units = IF j = i THEN n ELSE t.open[j].units
PROOF
<1> DEFINE f == [t.open EXCEPT ![i].units = n]
<1>1. t \in TranslatorShape /\ ~t.message.broken
  BY DEF WellMade
<1>2. u = [t EXCEPT !.open = f]
  BY DEF Counted
<1>3. /\ f \in PartialFunctions(Item, OpenShape) /\ DOMAIN f = DOMAIN t.open
      /\ \A j \in DOMAIN t.open : /\ f[j].index = t.open[j].index
                                  /\ f[j].deferred = t.open[j].deferred
                                  /\ f[j].kind = t.open[j].kind
                                  /\ f[j].buffered = t.open[j].buffered
                                  /\ f[j].emitted = t.open[j].emitted
                                  /\ f[j].units = IF j = i THEN n ELSE t.open[j].units
  BY <1>1, CountedOnlyIs
<1> HIDE DEF f
<1>4. /\ u \in TranslatorShape /\ u.message = t.message /\ u.next = t.next
      /\ u.thinking = t.thinking /\ u.sealed = t.sealed /\ u.searches = t.searches
      /\ u.deferred = t.deferred /\ u.at = t.at /\ u.tools = t.tools /\ u.open = f
  BY <1>1, <1>2, <1>3 DEF TranslatorShape
<1>5. SameOpen(t, u)
  BY <1>3, <1>4 DEF SameOpen
<1>6. WellMade(u)
  BY <1>1, <1>3, <1>4, EditKeeps
<1>7. Shut(u) = Shut(t)
  BY <1>4 DEF Shut
<1> QED BY <1>3, <1>4, <1>5, <1>6, <1>7

\* Arguments that are passed on.
Passed(t, i) ==
    [t EXCEPT !.open[i].units = @ + 1, !.open[i].emitted = TRUE,
              !.message = Delta(@, t.open[i].index, 1)]

\* Arguments are passed on.
LEMMA PassedKeeps ==
    ASSUME NEW t, WellMade(t), NEW i \in DOMAIN t.open, ~t.open[i].deferred,
           NEW u, u = Passed(t, i)
    PROVE  /\ WellMade(u) /\ u.at = t.at /\ SameOpen(t, u) /\ Shut(u) = Shut(t) /\ u.tools = t.tools
           /\ u.next = t.next /\ u.thinking = t.thinking
           /\ u.sealed = t.sealed /\ u.searches = t.searches /\ u.deferred = t.deferred
           /\ \A j \in DOMAIN t.open :
                  /\ u.open[j].buffered = t.open[j].buffered
                  /\ u.open[j].emitted = (j = i \/ t.open[j].emitted)
                  /\ u.open[j].units = IF j = i THEN t.open[i].units + 1 ELSE t.open[j].units
           /\ u.message = Delta(t.message, t.open[i].index, 1)
PROOF
<1> DEFINE n == t.open[i].units + 1
           x == t.open[i].index
           f == [t.open EXCEPT ![i].units = n, ![i].emitted = TRUE]
           m == Delta(t.message, x, 1)
<1>1. /\ t \in TranslatorShape /\ t.message \in MessageShape /\ ~t.message.broken
      /\ IsOpen(t.message, x) /\ t.open[i] \in OpenShape /\ t.message.blocks[x] \in BlockShape
  BY ToolIs
<1>2. u = [t EXCEPT !.open = f, !.message = m]
  BY Zenon DEF Passed
<1>3. n \in Nat
  BY <1>1 DEF OpenShape
<1>4. /\ f \in PartialFunctions(Item, OpenShape) /\ DOMAIN f = DOMAIN t.open
      /\ \A j \in DOMAIN t.open : /\ f[j].index = t.open[j].index
                                  /\ f[j].deferred = t.open[j].deferred
                                  /\ f[j].kind = t.open[j].kind
                                  /\ f[j].buffered = t.open[j].buffered
      /\ \A j \in DOMAIN t.open : j # i => f[j] = t.open[j]
      /\ f[i].units = n /\ f[i].emitted
  <2>1. f = [t.open EXCEPT ![i].units = n, ![i].emitted = TRUE]
    OBVIOUS
  <2> HIDE DEF f, n
  <2> QED BY <1>1, <1>3, <2>1, CountedIs
<1>5. /\ m \in MessageShape /\ m.broken = t.message.broken /\ DOMAIN m.blocks = DOMAIN t.message.blocks
      /\ m.blocks[x] = Longer(t.message.blocks[x], 1)
      /\ \A b \in DOMAIN t.message.blocks : b # x => m.blocks[b] = t.message.blocks[b]
  BY <1>1, DeltaIs
<1> HIDE DEF f, m
<1>6. /\ u \in TranslatorShape /\ u.message = m /\ u.next = t.next
      /\ u.thinking = t.thinking /\ u.sealed = t.sealed /\ u.searches = t.searches
      /\ u.deferred = t.deferred /\ u.at = t.at /\ u.tools = t.tools /\ u.open = f
  BY <1>1, <1>2, <1>4, <1>5, ZenonT(30) DEF TranslatorShape
<1>7. \A b \in DOMAIN t.message.blocks : /\ m.blocks[b].kind = t.message.blocks[b].kind
                                         /\ m.blocks[b].open = t.message.blocks[b].open
  <2>1. 1 \in Nat
    OBVIOUS
  <2>2. /\ Longer(t.message.blocks[x], 1).kind = t.message.blocks[x].kind
        /\ Longer(t.message.blocks[x], 1).open = t.message.blocks[x].open
    BY <1>1, <2>1, EditsAre
  <2> QED BY <1>5, <2>2
<1>8. SameOpen(t, u)
  BY SMTT(20), <1>4, <1>6 DEF SameOpen
<1>9. WellMade(u)
  BY <1>1, <1>4, <1>5, <1>6, <1>7, EditKeeps
<1>10. Shut(u) = Shut(t)
  BY <1>5, <1>6, <1>7 DEF Shut
<1>11. \A j \in DOMAIN t.open : /\ u.open[j].buffered = t.open[j].buffered
                                 /\ u.open[j].units = IF j = i THEN n ELSE t.open[j].units
  BY <1>4, <1>6
<1>12. \A j \in DOMAIN t.open : u.open[j].emitted = (j = i \/ t.open[j].emitted)
  <2>1. \A j \in DOMAIN t.open : t.open[j].emitted \in BOOLEAN
    BY <1>1, TranslatorIs DEF OpenShape
  <2> QED BY ZenonT(30), <1>4, <1>6, <2>1
<1> QED BY <1>6, <1>8, <1>9, <1>10, <1>11, <1>12 DEF m, n, x

\* A call that stalls ends the answer with its arguments repaired.
Repaired(t, i) ==
    [WithoutBlock(t, i) EXCEPT !.at = "repaired",
        !.message = Stop(Delta(t.message, t.open[i].index, t.open[i].units + 1), t.open[i].index)]

\* A stalled Read ends with what it has.
LEMMA RepairedKeeps ==
    ASSUME NEW t, WellMade(t), NEW i \in DOMAIN t.open, ~t.open[i].deferred,
           NEW u, u = Repaired(t, i)
    PROVE  WellMade(u) /\ u.at = "repaired" /\ Ends(t, u, i)
PROOF
<1> DEFINE b == t.open[i]
           x == b.index
           v == Stop(Delta(t.message, x, b.units + 1), x)
<1>2. /\ b \in OpenShape /\ x \in DOMAIN t.message.blocks /\ IsOpen(t.message, x)
      /\ t \in TranslatorShape /\ t.message \in MessageShape /\ ~t.message.broken
  BY ToolIs
<1>3. u = [WithoutBlock(t, i) EXCEPT !.at = "repaired", !.message = v]
  BY DEF Repaired
<1>4. b.units + 1 \in Nat
  BY <1>2 DEF OpenShape
<1>5. /\ v \in MessageShape /\ v.broken = t.message.broken /\ DOMAIN v.blocks = DOMAIN t.message.blocks
      /\ ~v.blocks[x].open /\ v.blocks[x].kind = t.message.blocks[x].kind
      /\ \A c \in DOMAIN t.message.blocks : c # x => v.blocks[c] = t.message.blocks[c]
  BY <1>2, <1>4, DeltaStopIs
<1> HIDE DEF v
<1> DEFINE w == WithoutBlock(t, i)
<1>6. /\ w \in TranslatorShape /\ w.next = t.next
      /\ w.thinking = t.thinking /\ w.sealed = t.sealed /\ w.searches = t.searches
      /\ w.deferred = t.deferred /\ w.tools = t.tools
      /\ DOMAIN w.open = DOMAIN t.open \ {i}
      /\ \A j \in DOMAIN t.open : j # i => w.open[j] = t.open[j]
  BY <1>2, WithoutIs
<1>7. u = [w EXCEPT !.at = "repaired", !.message = v]
  BY <1>3
<1> HIDE DEF w
<1>8. /\ u \in TranslatorShape /\ u.message = v /\ u.next = w.next
      /\ u.thinking = w.thinking /\ u.sealed = w.sealed /\ u.searches = w.searches
      /\ u.deferred = w.deferred /\ u.at = "repaired" /\ u.tools = w.tools /\ u.open = w.open
  <2>1. "repaired" \in Phase
    BY DEF Phase
  <2> QED BY <1>5, <1>6, <1>7, <2>1, Zenon DEF TranslatorShape
<1>9. Ends(t, u, i)
  BY <1>2, <1>5, <1>6, <1>8 DEF Ends
<1> QED BY <1>6, <1>8, <1>9, EndsIs

\* The four ways in which arguments are read.
LEMMA ArgumentsReadIs ==
    ASSUME NEW t, NEW i, NEW stalls \in BOOLEAN
    PROVE  /\ ~IsTool(t, i) => ArgumentsRead(t, i, stalls) = t
           /\ IsTool(t, i) /\ ~t.open[i].buffered => ArgumentsRead(t, i, stalls) = Passed(t, i)
           /\ IsTool(t, i) /\ t.open[i].buffered /\ stalls => ArgumentsRead(t, i, stalls) = Repaired(t, i)
           /\ IsTool(t, i) /\ t.open[i].buffered /\ ~stalls
                 => ArgumentsRead(t, i, stalls) = Counted(t, i, t.open[i].units + 1)
PROOF
<1>1. ~IsTool(t, i) => ArgumentsRead(t, i, stalls) = t
  BY DEF ArgumentsRead
<1>2. IsTool(t, i) /\ ~t.open[i].buffered => ArgumentsRead(t, i, stalls) = Passed(t, i)
  BY Zenon DEF ArgumentsRead, Passed
<1>3. IsTool(t, i) /\ t.open[i].buffered /\ stalls => ArgumentsRead(t, i, stalls) = Repaired(t, i)
  <2>1. WithoutBlock(t, i).message = t.message
    BY DEF WithoutBlock
  <2> QED BY Zenon, <2>1 DEF ArgumentsRead, Repaired
<1>4. IsTool(t, i) /\ t.open[i].buffered /\ ~stalls
         => ArgumentsRead(t, i, stalls) = Counted(t, i, t.open[i].units + 1)
  BY Zenon DEF ArgumentsRead, Counted
<1> QED BY <1>1, <1>2, <1>3, <1>4

\* Arguments are for an open call, and end none but a repaired one.
LEMMA ArgumentsReadKeeps ==
    ASSUME NEW t, WellMade(t), NEW i, NEW stalls \in BOOLEAN, t.at = "open",
           NEW u, u = ArgumentsRead(t, i, stalls)
    PROVE  /\ WellMade(u)
           /\ \/ u.at = "repaired"
              \/ u.at = "open" /\ SameOpen(t, u) /\ Shut(u) = Shut(t)
           /\ \A j \in DOMAIN u.open : j \in DOMAIN t.open /\ u.open[j].deferred = t.open[j].deferred
PROOF
<1>1. IsTool(t, i) => i \in DOMAIN t.open /\ ~t.open[i].deferred
  BY DEF IsTool, WellMade, Opens
<1>2. CASE ~IsTool(t, i)
  BY <1>2, ArgumentsReadIs DEF SameOpen
<1>3. CASE IsTool(t, i) /\ ~t.open[i].buffered
  <2>1. u = Passed(t, i)
    BY <1>3, ArgumentsReadIs
  <2> QED BY <1>1, <1>3, <2>1, PassedKeeps DEF SameOpen
<1>4. CASE IsTool(t, i) /\ t.open[i].buffered /\ stalls
  <2>1. u = Repaired(t, i)
    BY <1>4, ArgumentsReadIs, Zenon
  <2>3. WellMade(u) /\ u.at = "repaired" /\ Ends(t, u, i)
    BY <1>1, <1>4, <2>1, RepairedKeeps, Zenon
  <2> QED BY <2>3 DEF Ends
<1>5. CASE IsTool(t, i) /\ t.open[i].buffered /\ ~stalls
  <2> DEFINE n == t.open[i].units + 1
  <2>1. u = Counted(t, i, n)
    BY <1>5, ArgumentsReadIs
  <2>2. n \in Nat
    BY <1>1, <1>5, ToolIs DEF OpenShape
  <2> HIDE DEF n
  <2> QED BY <1>1, <1>5, <2>1, <2>2, BlockCountKeeps DEF SameOpen
<1> QED BY <1>2, <1>3, <1>4, <1>5

\* Arguments that come at once are counted.
LEMMA ArgumentsGivenKeeps ==
    ASSUME NEW t, WellMade(t), NEW i, NEW u, u = ArgumentsGiven(t, i)
    PROVE  WellMade(u) /\ u.at = t.at /\ SameOpen(t, u) /\ Shut(u) = Shut(t)
PROOF
<1>1. CASE ~(IsTool(t, i) /\ t.open[i].units = 0)
  BY <1>1 DEF ArgumentsGiven, SameOpen
<1>2. CASE IsTool(t, i) /\ t.open[i].units = 0
  <2>1. u = Counted(t, i, 1)
    BY Zenon, <1>2 DEF ArgumentsGiven, Counted
  <2>2. i \in DOMAIN t.open /\ 1 \in Nat
    BY <1>2 DEF IsTool
  <2> QED BY <2>1, <2>2, BlockCountKeeps
<1> QED BY <1>1, <1>2

\* Text is counted, and passed on unless its block waits.
TextCounted(t, i) ==
    [t EXCEPT !.open[i].units = @ + 1,
              !.message = IF t.open[i].deferred THEN @ ELSE Delta(@, t.open[i].index, 1)]

\* A text grows, waiting or sent.
LEMMA TextCountedKeeps ==
    ASSUME NEW t, WellMade(t), NEW i \in DOMAIN t.open, NEW u, u = TextCounted(t, i)
    PROVE  /\ WellMade(u) /\ u.at = t.at /\ SameOpen(t, u) /\ Shut(u) = Shut(t) /\ u.tools = t.tools
           /\ u.next = t.next /\ u.thinking = t.thinking
           /\ u.sealed = t.sealed /\ u.searches = t.searches /\ u.deferred = t.deferred
           /\ \A j \in DOMAIN t.open :
                  /\ u.open[j].buffered = t.open[j].buffered
                  /\ u.open[j].emitted = t.open[j].emitted
                  /\ u.open[j].units = IF j = i THEN t.open[i].units + 1 ELSE t.open[j].units
           /\ t.open[i].deferred => u.message = t.message
           /\ ~t.open[i].deferred => u.message = Delta(t.message, t.open[i].index, 1)
PROOF
<1> DEFINE n == t.open[i].units + 1
           x == t.open[i].index
           f == [t.open EXCEPT ![i].units = n]
           m == IF t.open[i].deferred THEN t.message ELSE Delta(t.message, x, 1)
<1>1. /\ t \in TranslatorShape /\ t.message \in MessageShape /\ ~t.message.broken
      /\ t.open[i] \in OpenShape
  BY TranslatorIs DEF WellMade
<1>2. u = [t EXCEPT !.open = f, !.message = m]
  BY DEF TextCounted
<1>3. n \in Nat
  BY <1>1 DEF OpenShape
<1>4. /\ f \in PartialFunctions(Item, OpenShape) /\ DOMAIN f = DOMAIN t.open
      /\ \A j \in DOMAIN t.open : /\ f[j].index = t.open[j].index
                                  /\ f[j].deferred = t.open[j].deferred
                                  /\ f[j].kind = t.open[j].kind
                                  /\ f[j].buffered = t.open[j].buffered
                                  /\ f[j].emitted = t.open[j].emitted
                                  /\ f[j].units = IF j = i THEN n ELSE t.open[j].units
  <2>1. f = [t.open EXCEPT ![i].units = n]
    OBVIOUS
  <2> HIDE DEF f, n
  <2> QED BY <1>1, <1>3, <2>1, CountedOnlyIs
<1>5. /\ m \in MessageShape /\ m.broken = t.message.broken /\ DOMAIN m.blocks = DOMAIN t.message.blocks
      /\ \A b \in DOMAIN t.message.blocks : /\ m.blocks[b].kind = t.message.blocks[b].kind
                                            /\ m.blocks[b].open = t.message.blocks[b].open
  <2>1. CASE t.open[i].deferred
    BY SMTT(20), <1>1, <2>1
  <2>2. CASE ~t.open[i].deferred
    <3> DEFINE d == Delta(t.message, x, 1)
    <3>1. m = d
      BY <2>2
    <3>2. IsOpen(t.message, x) /\ t.message.blocks[x] \in BlockShape /\ 1 \in Nat
      BY <2>2, ToolIs
    <3>3. /\ d \in MessageShape /\ d.broken = t.message.broken /\ DOMAIN d.blocks = DOMAIN t.message.blocks
          /\ d.blocks[x] = Longer(t.message.blocks[x], 1)
          /\ \A b \in DOMAIN t.message.blocks : b # x => d.blocks[b] = t.message.blocks[b]
      BY <1>1, <3>2, DeltaIs
    <3>4. /\ Longer(t.message.blocks[x], 1).kind = t.message.blocks[x].kind
          /\ Longer(t.message.blocks[x], 1).open = t.message.blocks[x].open
      BY <3>2, EditsAre, Zenon
    <3> HIDE DEF d, m
    <3> QED BY <3>1, <3>3, <3>4
  <2> QED BY <2>1, <2>2
<1>6. /\ t.open[i].deferred => m = t.message
      /\ ~t.open[i].deferred => m = Delta(t.message, x, 1)
  OBVIOUS
<1> HIDE DEF f, m
<1>7. /\ u \in TranslatorShape /\ u.message = m /\ u.next = t.next
      /\ u.thinking = t.thinking /\ u.sealed = t.sealed /\ u.searches = t.searches
      /\ u.deferred = t.deferred /\ u.at = t.at /\ u.tools = t.tools /\ u.open = f
  BY <1>1, <1>2, <1>4, <1>5, Zenon DEF TranslatorShape
<1>8. SameOpen(t, u)
  BY <1>4, <1>7 DEF SameOpen
<1>9. WellMade(u)
  BY <1>1, <1>4, <1>5, <1>7, EditKeeps
<1>10. Shut(u) = Shut(t)
  BY <1>5, <1>7 DEF Shut
<1> QED BY <1>4, <1>6, <1>7, <1>8, <1>9, <1>10

\* Live text opens a block for its item, if there is none, and closes no call.
LEMMA LiveTextKeeps ==
    ASSUME WellMade(live), NEW i \in Item, i \in DOMAIN live.open => live.open[i].kind = "text",
           NEW u, u = LiveText(i)
    PROVE  /\ WellMade(u) /\ u.at = live.at /\ Shut(u) = Shut(live) /\ u.tools = live.tools
           /\ DOMAIN u.open = DOMAIN live.open \union {i} /\ u.open[i].kind = "text"
           /\ \A j \in DOMAIN live.open : u.open[j].kind = live.open[j].kind
PROOF
<1> DEFINE c == ThinkingClosed(live)
           waits == live.searches # <<>>
           fresh == TextBegun(c, i, waits)
           b == IF i \in DOMAIN c.open THEN c ELSE fresh
<1>1. WellMade(c) /\ c.open = live.open /\ Shut(c) = Shut(live) /\ c.at = live.at /\ c.tools = live.tools
  BY ThinkingClosedIs
<1>2. waits \in BOOLEAN
  OBVIOUS
<1>3. u = IF b.open[i].kind # "text" THEN b ELSE TextCounted(b, i)
  BY Zenon DEF LiveText, TextCounted
<1> HIDE DEF c, waits
<1>4. /\ WellMade(b) /\ Shut(b) = Shut(c) /\ b.tools = c.tools /\ b.at = c.at
      /\ DOMAIN b.open = DOMAIN c.open \union {i}
      /\ b.open[i].kind = "text" /\ \A j \in DOMAIN c.open : b.open[j].kind = c.open[j].kind
  <2>1. CASE i \in DOMAIN c.open
    BY <1>1, <2>1
  <2>2. CASE i \notin DOMAIN c.open
    <3>1. WellMade(fresh) /\ Begins(c, fresh, i, OpenBlock("text", c.next, waits, FALSE))
          /\ fresh.tools = c.tools /\ Shut(fresh) = Shut(c)
      <4>1. fresh = TextBegun(c, i, waits)
        OBVIOUS
      <4> HIDE DEF fresh
      <4> QED BY <1>1, <1>2, <2>2, <4>1, TextBegunKeeps, Zenon
    <3>2. b = fresh
      BY <2>2
    <3>3. OpenBlock("text", c.next, waits, FALSE).kind = "text"
      BY DEF OpenBlock
    <3> HIDE DEF fresh, b
    <3> QED BY <2>2, <3>1, <3>2, <3>3, Zenon DEF Begins
  <2> QED BY <2>1, <2>2
<1> HIDE DEF b
<1>5. u = TextCounted(b, i) /\ i \in DOMAIN b.open
  BY <1>3, <1>4
<1>6. WellMade(u) /\ u.at = b.at /\ SameOpen(b, u) /\ Shut(u) = Shut(b) /\ u.tools = b.tools
  BY <1>4, <1>5, TextCountedKeeps
<1> QED BY <1>1, <1>4, <1>6 DEF SameOpen

\* A search takes two indices, and its blocks wait.
SearchDelayed(t) == [t EXCEPT !.searches = Append(@, t.next), !.next = @ + 2]

\* A search takes two indices and waits.
LEMMA SearchDelayedKeeps ==
    ASSUME NEW t, WellMade(t), NEW u, u = SearchDelayed(t)
    PROVE  /\ WellMade(u) /\ u.at = t.at /\ u.open = t.open /\ u.tools = t.tools /\ u.message = t.message
           /\ u.thinking = t.thinking /\ u.sealed = t.sealed /\ u.next = t.next + 2
           /\ u.searches = Append(t.searches, t.next) /\ u.deferred = t.deferred
PROOF
<1>1. /\ t \in TranslatorShape /\ t.next \in Nat /\ t.searches \in Seq(Nat) /\ t.deferred \in Seq(OpenShape)
      /\ ~t.message.broken
  BY TranslatorIs DEF WellMade
<1>2. /\ u \in TranslatorShape /\ u.at = t.at /\ u.open = t.open /\ u.tools = t.tools
      /\ u.message = t.message /\ u.thinking = t.thinking /\ u.sealed = t.sealed
      /\ u.next = t.next + 2 /\ u.searches = Append(t.searches, t.next) /\ u.deferred = t.deferred
  <2> DEFINE s == Append(t.searches, t.next)
             n == t.next + 2
  <2>1. s \in Seq(Nat) /\ n \in Nat
    BY <1>1
  <2>2. u = [t EXCEPT !.searches = s, !.next = n]
    BY DEF SearchDelayed
  <2> HIDE DEF s, n
  <2>3. /\ u \in TranslatorShape /\ u.at = t.at /\ u.open = t.open /\ u.tools = t.tools
        /\ u.message = t.message /\ u.thinking = t.thinking /\ u.sealed = t.sealed
        /\ u.next = n /\ u.searches = s /\ u.deferred = t.deferred
    BY <1>1, <2>1, <2>2, Zenon DEF TranslatorShape
  <2> QED BY <2>3 DEF s, n
<1>3. /\ DOMAIN u.searches = DOMAIN t.searches \union {Len(t.searches) + 1}
      /\ u.searches[Len(t.searches) + 1] = t.next
      /\ Len(t.searches) + 1 \notin DOMAIN t.searches
      /\ \A k \in DOMAIN t.searches : u.searches[k] = t.searches[k]
  BY SMTT(20), <1>1, <1>2
<1> DEFINE last == Len(t.searches) + 1
<1>4. /\ \A i \in DOMAIN t.open : t.open[i].index \in Nat
      /\ \A k \in DOMAIN t.searches : t.searches[k] \in Nat
      /\ \A k \in DOMAIN t.deferred : t.deferred[k].index \in Nat
      /\ DOMAIN t.message.blocks \subseteq Nat
  BY <1>1, TranslatorIs
<1> HIDE DEF last
<1>5. \A b : Waits(u, b) <=> Waits(t, b) \/ b \in {t.next, t.next + 1}
  <2> TAKE b
  <2>1. (\E k \in DOMAIN u.searches : b \in {u.searches[k], u.searches[k] + 1})
        <=> (\E k \in DOMAIN t.searches : b \in {t.searches[k], t.searches[k] + 1})
            \/ b \in {t.next, t.next + 1}
    BY <1>3 DEF last
  <2> QED BY <1>2, <2>1 DEF Waits
<1>6. Places(u)
  <2>1. \A b \in 0 .. u.next - 1 : b \in 0 .. t.next - 1 \/ b \in {t.next, t.next + 1}
    BY <1>1, <1>2
  <2>2. \A b \in DOMAIN t.message.blocks : b \in 0 .. u.next - 1 /\ b \notin {t.next, t.next + 1}
    BY <1>1, <1>2 DEF WellMade, Places
  <2> QED BY <1>2, <1>5, <2>1, <2>2 DEF WellMade, Places
<1>7. Apart(u)
  <2>1. \A i \in DOMAIN t.open :
           /\ t.open[i].index < u.next
           /\ \A k \in DOMAIN u.searches : t.open[i].index \notin {u.searches[k], u.searches[k] + 1}
    <3>1. \A i \in DOMAIN t.open :
             /\ t.open[i].index < t.next
             /\ \A k \in DOMAIN t.searches : t.open[i].index \notin {t.searches[k], t.searches[k] + 1}
      BY DEF WellMade, Apart
    <3>2. \A i \in DOMAIN t.open : t.open[i].index < u.next /\ t.open[i].index \notin {t.next, t.next + 1}
      BY <1>1, <1>2, <1>4, <3>1
    <3> QED BY <1>3, <3>1, <3>2 DEF last
  <2>2. \A k \in DOMAIN u.searches :
          /\ u.searches[k] + 1 < u.next
          /\ \A j \in DOMAIN u.searches : /\ u.searches[k] = u.searches[j] => k = j
                                          /\ u.searches[k] # u.searches[j] + 1
    <3> SUFFICES ASSUME NEW k \in DOMAIN u.searches
                 PROVE  /\ u.searches[k] + 1 < u.next
                        /\ \A j \in DOMAIN u.searches : /\ u.searches[k] = u.searches[j] => k = j
                                                        /\ u.searches[k] # u.searches[j] + 1
      OBVIOUS
    <3>1. \A j \in DOMAIN t.searches :
             /\ t.searches[j] + 1 < t.next
             /\ \A l \in DOMAIN t.searches : /\ t.searches[j] = t.searches[l] => j = l
                                             /\ t.searches[j] # t.searches[l] + 1
      BY DEF WellMade, Apart
    <3>2. u.searches[k] + 1 < u.next
      BY SMTT(20), <1>1, <1>2, <1>3, <1>4, <3>1 DEF last
    <3>3. ASSUME NEW j \in DOMAIN u.searches
          PROVE  /\ u.searches[k] = u.searches[j] => k = j
                 /\ u.searches[k] # u.searches[j] + 1
      <4>1. CASE k \in DOMAIN t.searches /\ j \in DOMAIN t.searches
        BY <1>3, <3>1, <4>1
      <4>2. CASE k = last /\ j \in DOMAIN t.searches
        BY <1>1, <1>3, <1>4, <3>1, <4>2 DEF last
      <4>3. CASE k \in DOMAIN t.searches /\ j = last
        BY <1>1, <1>3, <1>4, <3>1, <4>3 DEF last
      <4>4. CASE k = last /\ j = last
        BY <1>1, <1>3, <4>4 DEF last
      <4> QED BY <1>3, <3>3, <4>1, <4>2, <4>3, <4>4 DEF last
    <3> QED BY <3>2, <3>3
  <2>3. \A k \in DOMAIN u.searches : \A j \in DOMAIN u.deferred :
           u.deferred[j].index \notin {u.searches[k], u.searches[k] + 1}
    <3>1. \A j \in DOMAIN t.deferred :
             /\ t.deferred[j].index < t.next
             /\ \A k \in DOMAIN t.searches : t.deferred[j].index \notin {t.searches[k], t.searches[k] + 1}
      BY DEF WellMade, Apart
    <3>2. \A j \in DOMAIN t.deferred : t.deferred[j].index \notin {t.next, t.next + 1}
      BY <1>1, <1>4, <3>1
    <3> QED BY <1>2, <1>3, <3>1, <3>2 DEF last
  <2>4. \A k \in DOMAIN u.deferred :
          /\ u.deferred[k].index < u.next
          /\ \A j \in DOMAIN u.deferred : u.deferred[k].index = u.deferred[j].index => k = j
    BY <1>1, <1>2, <1>4 DEF WellMade, Apart
  <2>5. \A i \in DOMAIN t.open :
           /\ \A j \in DOMAIN t.open : t.open[i].index = t.open[j].index => i = j
           /\ \A k \in DOMAIN t.deferred : t.open[i].index # t.deferred[k].index
    BY DEF WellMade, Apart
  <2> QED BY <1>2, <2>1, <2>2, <2>3, <2>4, <2>5 DEF Apart
<1>8. Thinks(u) /\ Opens(u) /\ Known(u)
  BY <1>2 DEF WellMade, Thinks, Opens, Known
<1> QED BY <1>1, <1>2, <1>6, <1>7, <1>8 DEF WellMade

\* A text block that waits is complete.
TextDeferred(t, i) == [WithoutBlock(t, i) EXCEPT !.deferred = Append(@, t.open[i])]

\* A text that waits ends, and waits on.
LEMMA TextDeferredKeeps ==
    ASSUME NEW t, WellMade(t), NEW i \in DOMAIN t.open, t.open[i].deferred,
           NEW u, u = TextDeferred(t, i)
    PROVE  /\ WellMade(u) /\ u.at = t.at /\ u.tools = t.tools /\ u.message = t.message
           /\ u.thinking = t.thinking /\ u.sealed = t.sealed /\ u.next = t.next
           /\ u.searches = t.searches /\ u.deferred = Append(t.deferred, t.open[i])
           /\ DOMAIN u.open = DOMAIN t.open \ {i}
           /\ \A j \in DOMAIN t.open : j # i => u.open[j] = t.open[j]
PROOF
<1>1. /\ t \in TranslatorShape /\ t.next \in Nat /\ t.searches \in Seq(Nat) /\ t.deferred \in Seq(OpenShape)
      /\ ~t.message.broken /\ t.open[i] \in OpenShape
  BY TranslatorIs DEF WellMade
<1> DEFINE w == WithoutBlock(t, i)
<1>2. /\ w \in TranslatorShape /\ w.next = t.next /\ w.message = t.message
      /\ w.thinking = t.thinking /\ w.sealed = t.sealed /\ w.searches = t.searches
      /\ w.deferred = t.deferred /\ w.tools = t.tools /\ w.at = t.at
      /\ DOMAIN w.open = DOMAIN t.open \ {i}
      /\ \A j \in DOMAIN t.open : j # i => w.open[j] = t.open[j]
  BY <1>1, WithoutIs
<1>3. u = [w EXCEPT !.deferred = Append(w.deferred, t.open[i])]
  BY DEF TextDeferred
<1> HIDE DEF w
<1>4. /\ u \in TranslatorShape /\ u.at = w.at /\ u.open = w.open /\ u.tools = w.tools
      /\ u.message = w.message /\ u.thinking = w.thinking /\ u.sealed = w.sealed
      /\ u.next = w.next /\ u.searches = w.searches /\ u.deferred = Append(w.deferred, t.open[i])
  <2> DEFINE d == Append(w.deferred, t.open[i])
  <2>1. d \in Seq(OpenShape)
    BY <1>1, <1>2
  <2>2. u = [w EXCEPT !.deferred = d]
    BY <1>3
  <2> HIDE DEF d
  <2>3. /\ u \in TranslatorShape /\ u.at = w.at /\ u.open = w.open /\ u.tools = w.tools
        /\ u.message = w.message /\ u.thinking = w.thinking /\ u.sealed = w.sealed
        /\ u.next = w.next /\ u.searches = w.searches /\ u.deferred = d
    BY <1>2, <2>1, <2>2, Zenon DEF TranslatorShape
  <2> QED BY <2>3 DEF d
<1> DEFINE last == Len(t.deferred) + 1
<1>5. /\ DOMAIN u.deferred = DOMAIN t.deferred \union {last}
      /\ u.deferred[last] = t.open[i]
      /\ last \notin DOMAIN t.deferred
      /\ \A k \in DOMAIN t.deferred : u.deferred[k] = t.deferred[k]
  BY <1>1, <1>2, <1>4
<1> HIDE DEF last
<1>6. \A b : Waits(u, b) <=> Waits(t, b)
  <2> TAKE b
  <2>1. (\E k \in DOMAIN u.deferred : u.deferred[k].index = b)
        <=> (\E k \in DOMAIN t.deferred : t.deferred[k].index = b) \/ t.open[i].index = b
    BY <1>5
  <2>2. (\E j \in DOMAIN u.open : u.open[j].deferred /\ u.open[j].index = b) \/ t.open[i].index = b
        <=> (\E j \in DOMAIN t.open : t.open[j].deferred /\ t.open[j].index = b)
    BY <1>2, <1>4
  <2> QED BY <1>2, <1>4, <2>1, <2>2 DEF Waits
<1>7. Places(u)
  BY <1>2, <1>4, <1>6 DEF WellMade, Places
<1>8. Apart(u)
  <2>1. \A j \in DOMAIN u.open :
          /\ u.open[j].index < u.next
          /\ \A l \in DOMAIN u.open : u.open[j].index = u.open[l].index => j = l
          /\ \A k \in DOMAIN u.searches : u.open[j].index \notin {u.searches[k], u.searches[k] + 1}
          /\ \A k \in DOMAIN u.deferred : u.open[j].index # u.deferred[k].index
    BY <1>2, <1>4, <1>5 DEF WellMade, Apart
  <2>2. \A k \in DOMAIN u.searches :
          /\ u.searches[k] + 1 < u.next
          /\ \A j \in DOMAIN u.searches : /\ u.searches[k] = u.searches[j] => k = j
                                          /\ u.searches[k] # u.searches[j] + 1
          /\ \A j \in DOMAIN u.deferred : u.deferred[j].index \notin {u.searches[k], u.searches[k] + 1}
    BY <1>2, <1>4, <1>5 DEF WellMade, Apart
  <2>3. \A k \in DOMAIN u.deferred :
          /\ u.deferred[k].index < u.next
          /\ \A j \in DOMAIN u.deferred : u.deferred[k].index = u.deferred[j].index => k = j
    BY <1>2, <1>4, <1>5 DEF WellMade, Apart
  <2> QED BY <2>1, <2>2, <2>3 DEF Apart
<1>9. Thinks(u) /\ Opens(u) /\ Known(u)
  <2>1. Thinks(u) /\ Opens(u)
    BY <1>2, <1>4 DEF WellMade, Thinks, Opens
  <2>2. Known(u)
    BY <1>2, <1>4 DEF WellMade, Known
  <2> QED BY <2>1, <2>2
<1> QED BY <1>1, <1>2, <1>4, <1>7, <1>8, <1>9 DEF WellMade

-----------------------------------------------------------------------------
(* Blocks that are sent at once. *)

\* A block that is sent at once.
WholeBlock(kind, n) == [kind |-> kind, units |-> n, signed |-> FALSE, open |-> FALSE]

\* It is stopped.
LEMMA WholeBlockIs ==
    ASSUME NEW kind \in {"thinking", "text", "tool", "search", "result"}, NEW n \in Nat
    PROVE  /\ WholeBlock(kind, n) \in BlockShape /\ WholeBlock(kind, n).kind = kind
           /\ ~WholeBlock(kind, n).open /\ WholeBlock(kind, n).units = n
           /\ n > 0 => Stopped(Longer(NewBlock(kind), n)) = WholeBlock(kind, n)
           /\ n = 0 => Stopped(NewBlock(kind)) = WholeBlock(kind, n)
PROOF
<1>1. WholeBlock(kind, n) \in BlockShape
  BY DEF WholeBlock, BlockShape
<1>2. /\ WholeBlock(kind, n).kind = kind /\ ~WholeBlock(kind, n).open
      /\ WholeBlock(kind, n).units = n
  BY DEF WholeBlock
<1>3. \A b \in BlockShape : /\ Stopped(b) = [kind |-> b.kind, units |-> b.units, signed |-> b.signed, open |-> FALSE]
                           /\ Longer(b, n) = [kind |-> b.kind, units |-> b.units + n, signed |-> b.signed,
                                             open |-> b.open]
  <2> SUFFICES ASSUME NEW b \in BlockShape
               PROVE  /\ Stopped(b) = [kind |-> b.kind, units |-> b.units, signed |-> b.signed, open |-> FALSE]
                      /\ Longer(b, n) = [kind |-> b.kind, units |-> b.units + n, signed |-> b.signed,
                                        open |-> b.open]
    OBVIOUS
  <2> DEFINE o == FALSE
  <2>1. [b EXCEPT !.open = o] = [kind |-> b.kind, units |-> b.units, signed |-> b.signed, open |-> o]
    <3> HIDE DEF o
    <3> QED BY DEF BlockShape
  <2> DEFINE k == b.units + n
  <2>2. [b EXCEPT !.units = k] = [kind |-> b.kind, units |-> k, signed |-> b.signed, open |-> b.open]
    <3> HIDE DEF k
    <3> QED BY DEF BlockShape
  <2> QED BY <2>1, <2>2, Zenon DEF Stopped, Longer
<1> DEFINE b == NewBlock(kind)
           c == Longer(b, n)
<1>4. b \in BlockShape /\ b.kind = kind /\ b.units = 0 /\ b.signed = FALSE /\ b.open = TRUE
  BY DEF NewBlock, BlockShape
<1> HIDE DEF b
<1>5. c \in BlockShape /\ c.kind = kind /\ c.units = n /\ c.signed = FALSE
  <2>1. c = [kind |-> b.kind, units |-> b.units + n, signed |-> b.signed, open |-> b.open]
    BY <1>3, <1>4
  <2>2. b.units + n = n
    BY <1>4
  <2> HIDE DEF c
  <2> QED BY <1>4, <2>1, <2>2 DEF BlockShape
<1>6. Stopped(c) = WholeBlock(kind, n)
  <2> HIDE DEF c
  <2>1. Stopped(c) = [kind |-> c.kind, units |-> c.units, signed |-> c.signed, open |-> FALSE]
    BY <1>3, <1>5
  <2> QED BY <1>5, <2>1, Zenon DEF WholeBlock
<1>7. n = 0 => Stopped(b) = WholeBlock(kind, n)
  <2>1. Stopped(b) = [kind |-> b.kind, units |-> b.units, signed |-> b.signed, open |-> FALSE]
    BY <1>3, <1>4
  <2> QED BY <1>4, <2>1, Zenon DEF WholeBlock
<1> QED BY <1>1, <1>2, <1>6, <1>7 DEF b

\* It is sent where there is none.
LEMMA WholeIs ==
    ASSUME NEW m \in MessageShape, NEW i \in Nat, i \notin DOMAIN m.blocks,
           NEW kind \in {"thinking", "text", "tool", "search", "result"}, NEW n \in Nat,
           NEW v, v = Whole(m, i, kind, n)
    PROVE  /\ v \in MessageShape /\ v.broken = m.broken /\ DOMAIN v.blocks = DOMAIN m.blocks \union {i}
           /\ v.blocks[i] = WholeBlock(kind, n)
           /\ \A b \in DOMAIN m.blocks : v.blocks[b] = m.blocks[b]
PROOF
<1> DEFINE w == Start(m, i, kind)
           more == n > 0
<1>1. /\ w \in MessageShape /\ w.broken = m.broken /\ DOMAIN w.blocks = DOMAIN m.blocks \union {i}
      /\ w.blocks[i] = NewBlock(kind)
      /\ \A b \in DOMAIN m.blocks : w.blocks[b] = m.blocks[b]
  BY StartIs
<1>2. IsOpen(w, i)
  BY <1>1, NewBlockIs DEF IsOpen
<1>3. v = Stop(IF more THEN Delta(w, i, n) ELSE w, i) /\ more \in BOOLEAN
  BY DEF Whole
<1>4. more = (n > 0)
  OBVIOUS
<1> HIDE DEF w, more
<1>5. /\ v \in MessageShape /\ v.broken = w.broken /\ DOMAIN v.blocks = DOMAIN w.blocks
      /\ v.blocks[i] = Stopped(IF more THEN Longer(w.blocks[i], n) ELSE w.blocks[i])
      /\ \A b \in DOMAIN w.blocks : b # i => v.blocks[b] = w.blocks[b]
  BY <1>1, <1>2, <1>3, LastWords
<1>6. v.blocks[i] = WholeBlock(kind, n)
  <2> DEFINE last == IF more THEN Longer(w.blocks[i], n) ELSE w.blocks[i]
  <2>0. v.blocks[i] = Stopped(last)
    BY <1>5
  <2>1. CASE n > 0
    <3>1. last = Longer(NewBlock(kind), n)
      BY <1>1, <1>4, <2>1, Zenon
    <3> QED BY <2>0, <2>1, <3>1, WholeBlockIs
  <2>2. CASE n = 0
    <3>1. last = NewBlock(kind)
      <4>1. ~more
        BY <2>2 DEF more
      <4> QED BY <1>1, <4>1
    <3> QED BY <2>0, <2>2, <3>1, WholeBlockIs
  <2> QED BY <2>1, <2>2
<1> QED BY <1>1, <1>5, <1>6

\* A search and its result.
SearchIn(m, n) == Whole(Whole(m, n, "search", 1), n + 1, "result", 0)

\* A search and its result are sent.
LEMMA SearchInIs ==
    ASSUME NEW m \in MessageShape, NEW n \in Nat, n \notin DOMAIN m.blocks, n + 1 \notin DOMAIN m.blocks,
           NEW v, v = SearchIn(m, n)
    PROVE  /\ v \in MessageShape /\ v.broken = m.broken
           /\ DOMAIN v.blocks = DOMAIN m.blocks \union {n, n + 1}
           /\ v.blocks[n] = WholeBlock("search", 1) /\ v.blocks[n + 1] = WholeBlock("result", 0)
           /\ \A b \in DOMAIN m.blocks : v.blocks[b] = m.blocks[b]
PROOF
<1> DEFINE w == Whole(m, n, "search", 1)
<1>1. 0 \in Nat /\ 1 \in Nat /\ n + 1 \in Nat /\ n # n + 1
  OBVIOUS
<1>2. /\ w \in MessageShape /\ w.broken = m.broken /\ DOMAIN w.blocks = DOMAIN m.blocks \union {n}
      /\ w.blocks[n] = WholeBlock("search", 1)
      /\ \A b \in DOMAIN m.blocks : w.blocks[b] = m.blocks[b]
  BY <1>1, WholeIs
<1>3. v = Whole(w, n + 1, "result", 0)
  BY DEF SearchIn
<1> HIDE DEF w
<1>4. /\ v \in MessageShape /\ v.broken = w.broken /\ DOMAIN v.blocks = DOMAIN w.blocks \union {n + 1}
      /\ v.blocks[n + 1] = WholeBlock("result", 0)
      /\ \A b \in DOMAIN w.blocks : v.blocks[b] = w.blocks[b]
  BY SMTT(20), <1>1, <1>2, <1>3, WholeIs
<1> QED BY <1>1, <1>2, <1>4

\* The reducer has the search in its place.
Searched(t) == [t EXCEPT !.next = @ + 2, !.message = SearchIn(@, t.next)]

\* The reducer shows a search at once.
LEMMA SearchedKeeps ==
    ASSUME NEW t, WellMade(t), NEW u, u = Searched(t)
    PROVE  /\ WellMade(u) /\ u.at = t.at /\ u.open = t.open /\ u.tools = t.tools /\ Shut(u) = Shut(t)
           /\ u.message = SearchIn(t.message, t.next)
           /\ u.thinking = t.thinking /\ u.sealed = t.sealed /\ u.next = t.next + 2
           /\ u.searches = t.searches /\ u.deferred = t.deferred
PROOF
<1> DEFINE v == SearchIn(t.message, t.next)
           n == t.next + 2
<1>1. t \in TranslatorShape /\ t.message \in MessageShape /\ t.next \in Nat /\ ~t.message.broken
  BY TranslatorIs DEF WellMade
<1>2. t.next \notin DOMAIN t.message.blocks /\ t.next + 1 \notin DOMAIN t.message.blocks
  BY <1>1 DEF WellMade, Places
<1>3. /\ v \in MessageShape /\ v.broken = t.message.broken
      /\ DOMAIN v.blocks = DOMAIN t.message.blocks \union {t.next, t.next + 1}
      /\ v.blocks[t.next] = WholeBlock("search", 1) /\ v.blocks[t.next + 1] = WholeBlock("result", 0)
      /\ \A b \in DOMAIN t.message.blocks : v.blocks[b] = t.message.blocks[b]
  BY <1>1, <1>2, SearchInIs
<1>4. n \in Nat /\ n >= t.next /\ t.next .. n - 1 = {t.next, t.next + 1}
  BY <1>1
<1>5. u = [t EXCEPT !.next = n, !.message = v]
  BY DEF Searched
<1>6. n = t.next + 2
  OBVIOUS
<1> HIDE DEF v, n
<1>7. /\ u \in TranslatorShape /\ u.message = v /\ u.next = n
      /\ u.thinking = t.thinking /\ u.sealed = t.sealed /\ u.searches = t.searches
      /\ u.deferred = t.deferred /\ u.at = t.at /\ u.tools = t.tools /\ u.open = t.open
  BY <1>1, <1>3, <1>4, <1>5, Zenon DEF TranslatorShape
<1>8. \A b \in t.next .. n - 1 : ~u.message.blocks[b].open /\ u.message.blocks[b].kind # "tool"
  <2>1. 0 \in Nat /\ 1 \in Nat
    OBVIOUS
  <2>2. /\ ~WholeBlock("search", 1).open /\ WholeBlock("search", 1).kind = "search"
        /\ ~WholeBlock("result", 0).open /\ WholeBlock("result", 0).kind = "result"
    BY <2>1, WholeBlockIs
  <2> QED BY <1>3, <1>4, <1>7, <2>2
<1>9. WellMade(u) /\ Shut(u) = Shut(t)
  BY <1>1, <1>3, <1>4, <1>7, <1>8, Extended
<1> QED BY <1>6, <1>7, <1>9 DEF v

-----------------------------------------------------------------------------
(* The folds over blocks that wait, in closed form. *)

\* Two functions of a set that are built up in the same way.
LEMMA AgreeBySteps ==
    ASSUME NEW S, IsFiniteSet(S), NEW g, NEW h, g[{}] = h[{}],
           \A s \in SUBSET S : s # {} /\ g[s \ {Picked(s)}] = h[s \ {Picked(s)}] => g[s] = h[s]
    PROVE  g[S] = h[S]
PROOF
<1> DEFINE Bad == {s \in SUBSET S : g[s] # h[s]}
<1>1. ASSUME Bad # {} PROVE FALSE
  <2> Bad \subseteq SUBSET S
    OBVIOUS
  <2> HIDE DEF Bad
  <2>1. PICK s \in Bad : \A t \in Bad : t \subseteq s => t = s
    BY <1>1, MinimalSubset
  <2> USE DEF Bad
  <2>2. s # {}
    BY <2>1, Zenon
  <2>3. Picked(s) \in s
    BY <2>2, PickedIsMember
  <2>4. g[s \ {Picked(s)}] = h[s \ {Picked(s)}]
    <3>1. s \ {Picked(s)} \notin Bad
      <4> HIDE DEF Bad
      <4> QED BY <2>1, <2>3
    <3>2. s \ {Picked(s)} \in SUBSET S
      OBVIOUS
    <3> QED BY <3>1, <3>2
  <2> QED BY <2>1, <2>2, <2>4
<1> QED BY <1>1

\* Two messages with the same blocks are the same.
LEMMA SameMessage ==
    ASSUME NEW m \in MessageShape, NEW v \in MessageShape, m.broken = v.broken,
           DOMAIN m.blocks = DOMAIN v.blocks, \A b \in DOMAIN m.blocks : m.blocks[b] = v.blocks[b]
    PROVE  m = v
PROOF
<1>1. m.blocks \in PartialFunctions(Nat, BlockShape) /\ v.blocks \in PartialFunctions(Nat, BlockShape)
  BY DEF MessageShape
<1>2. m.blocks = [b \in DOMAIN m.blocks |-> m.blocks[b]] /\ v.blocks = [b \in DOMAIN v.blocks |-> v.blocks[b]]
  BY <1>1, PartialIs
<1>3. m.blocks = v.blocks
  BY <1>2
<1> QED BY <1>3 DEF MessageShape

\* A message of these blocks.
LEMMA MessageOf ==
    ASSUME NEW m \in MessageShape, NEW f, f = [b \in DOMAIN f |-> f[b]], DOMAIN f \subseteq Nat,
           \A b \in DOMAIN f : f[b] \in BlockShape,
           NEW v, v = [blocks |-> f, broken |-> m.broken]
    PROVE  v \in MessageShape /\ v.blocks = f /\ v.broken = m.broken
BY PartialIs DEF MessageShape

\* The message with the blocks of S stopped.
StoppedAll(m, open, s) ==
    [blocks |-> [b \in DOMAIN m.blocks |-> IF \E i \in s : open[i].index = b THEN Stopped(m.blocks[b])
                                           ELSE m.blocks[b]],
     broken |-> m.broken]

\* What it consists of.
LEMMA StoppedAllIs ==
    ASSUME NEW m \in MessageShape, NEW open, NEW s, NEW v, v = StoppedAll(m, open, s)
    PROVE  /\ v \in MessageShape /\ v.broken = m.broken /\ DOMAIN v.blocks = DOMAIN m.blocks
           /\ \A b \in DOMAIN m.blocks :
                 v.blocks[b] = IF \E i \in s : open[i].index = b THEN Stopped(m.blocks[b]) ELSE m.blocks[b]
PROOF
<1> DEFINE f == [b \in DOMAIN m.blocks |-> IF \E i \in s : open[i].index = b THEN Stopped(m.blocks[b])
                                           ELSE m.blocks[b]]
<1>1. m.blocks \in PartialFunctions(Nat, BlockShape)
  BY DEF MessageShape
<1>2. DOMAIN m.blocks \subseteq Nat /\ \A b \in DOMAIN m.blocks : m.blocks[b] \in BlockShape
  BY <1>1, PartialIs
<1>3. \A b \in DOMAIN m.blocks : Stopped(m.blocks[b]) \in BlockShape
  <2>1. 0 \in Nat
    OBVIOUS
  <2> QED BY <1>2, <2>1, EditsAre
<1>4. /\ f = [b \in DOMAIN f |-> f[b]] /\ DOMAIN f = DOMAIN m.blocks
      /\ \A b \in DOMAIN f : f[b] \in BlockShape
      /\ \A b \in DOMAIN m.blocks :
            f[b] = IF \E i \in s : open[i].index = b THEN Stopped(m.blocks[b]) ELSE m.blocks[b]
  BY <1>2, <1>3
<1>5. v = [blocks |-> f, broken |-> m.broken]
  BY DEF StoppedAll
<1> HIDE DEF f
<1>6. v \in MessageShape /\ v.blocks = f /\ v.broken = m.broken
  BY <1>2, <1>4, <1>5, MessageOf
<1> QED BY <1>4, <1>6

\* Stopping them one by one, in any order, gives it.
LEMMA StopsFold ==
    ASSUME NEW m \in MessageShape, NEW S, IsFiniteSet(S), NEW open,
           \A i \in S : IsOpen(m, open[i].index),
           \A i \in S : \A j \in S : open[i].index = open[j].index => i = j
    PROVE  FoldFunctionOnSet(LAMBDA b, v : Stop(v, b.index), m, open, S) = StoppedAll(m, open, S)
PROOF
<1> DEFINE Iter(g) == g = [s \in SUBSET S |-> IF s = {} THEN m
                                              ELSE Stop(g[s \ {Picked(s)}], open[Picked(s)].index)]
           G == CHOOSE g : Iter(g)
           H == [s \in SUBSET S |-> StoppedAll(m, open, s)]
<1>1. FoldFunctionOnSet(LAMBDA b, v : Stop(v, b.index), m, open, S) = G[S]
  BY Zenon DEF FoldFunctionOnSet, MapThenFoldSet, Picked
<1>2. StoppedAll(m, open, {}) = m
  BY StoppedAllIs, SameMessage
<1>3. ASSUME NEW s \in SUBSET S, s # {}
      PROVE  StoppedAll(m, open, s) = Stop(StoppedAll(m, open, s \ {Picked(s)}), open[Picked(s)].index)
  <2> DEFINE x == Picked(s)
             r == s \ {x}
             w == StoppedAll(m, open, r)
             n == open[x].index
             v == Stop(w, n)
             u == StoppedAll(m, open, s)
  <2>1. x \in s /\ s = r \union {x} /\ x \notin r
    BY <1>3, PickedIsMember
  <2>2. IsOpen(m, n) /\ \A i \in r : open[i].index # n
    BY <2>1
  <2>3. /\ w \in MessageShape /\ w.broken = m.broken /\ DOMAIN w.blocks = DOMAIN m.blocks
        /\ \A b \in DOMAIN m.blocks :
              w.blocks[b] = IF \E i \in r : open[i].index = b THEN Stopped(m.blocks[b]) ELSE m.blocks[b]
    <3> HIDE DEF r
    <3> QED BY StoppedAllIs
  <2>4. /\ u \in MessageShape /\ u.broken = m.broken /\ DOMAIN u.blocks = DOMAIN m.blocks
        /\ \A b \in DOMAIN m.blocks :
              u.blocks[b] = IF \E i \in s : open[i].index = b THEN Stopped(m.blocks[b]) ELSE m.blocks[b]
    BY StoppedAllIs
  <2> HIDE DEF x, r, w, u
  <2>5. n \in DOMAIN m.blocks /\ w.blocks[n] = m.blocks[n]
    BY <2>2, <2>3 DEF IsOpen
  <2>6. IsOpen(w, n)
    BY <2>2, <2>3, <2>5 DEF IsOpen
  <2>7. /\ v \in MessageShape /\ v.broken = w.broken /\ DOMAIN v.blocks = DOMAIN w.blocks
        /\ v.blocks[n] = Stopped(w.blocks[n])
        /\ \A b \in DOMAIN w.blocks : b # n => v.blocks[b] = w.blocks[b]
    BY <2>3, <2>6, StopIs
  <2>8. \A b \in DOMAIN m.blocks : u.blocks[b] = v.blocks[b]
    <3> SUFFICES ASSUME NEW b \in DOMAIN m.blocks PROVE u.blocks[b] = v.blocks[b]
      OBVIOUS
    <3>1. CASE b = n
      <4>1. \E i \in s : open[i].index = b
        BY <2>1, <3>1
      <4>2. u.blocks[b] = Stopped(m.blocks[b])
        BY <2>4, <4>1
      <4> QED BY <2>5, <2>7, <3>1, <4>2
    <3>2. CASE b # n
      <4>1. (\E i \in s : open[i].index = b) <=> (\E i \in r : open[i].index = b)
        BY <2>1, <3>2
      <4>2. v.blocks[b] = w.blocks[b]
        BY <2>3, <2>7, <3>2
      <4>3. CASE \E i \in r : open[i].index = b
        BY <2>3, <2>4, <4>1, <4>2, <4>3
      <4>4. CASE ~\E i \in r : open[i].index = b
        BY <2>3, <2>4, <4>1, <4>2, <4>4
      <4> QED BY <4>3, <4>4
    <3> QED BY <3>1, <3>2
  <2> HIDE DEF v
  <2>9. u = v
    BY <2>3, <2>4, <2>7, <2>8, SameMessage
  <2> QED BY <2>9 DEF u, v, w, r, x
<1>4. ASSUME NEW s \in SUBSET S
      PROVE  H[s] = IF s = {} THEN m ELSE Stop(H[s \ {Picked(s)}], open[Picked(s)].index)
  <2>1. CASE s = {}
    BY <1>2, <2>1
  <2>2. CASE s # {}
    <3>1. s \ {Picked(s)} \in SUBSET S
      OBVIOUS
    <3> QED BY <1>3, <2>2, <3>1
  <2> QED BY <2>1, <2>2
<1> HIDE DEF H
<1>5. Iter(H)
  BY <1>4, Zenon DEF H
<1>6. Iter(G)
  <2> HIDE DEF Iter
  <2> QED BY <1>5
<1>7. ASSUME NEW s \in SUBSET S
      PROVE  G[s] = IF s = {} THEN m ELSE Stop(G[s \ {Picked(s)}], open[Picked(s)].index)
  <2> HIDE DEF G
  <2> QED BY <1>6, Zenon
<1> HIDE DEF G, Iter
<1>8. G[S] = H[S]
  <2>1. G[{}] = H[{}]
    BY <1>4, <1>7, Zenon
  <2>2. \A s \in SUBSET S : s # {} /\ G[s \ {Picked(s)}] = H[s \ {Picked(s)}] => G[s] = H[s]
    BY <1>4, <1>7, Zenon
  <2> QED BY <2>1, <2>2, AgreeBySteps, Zenon
<1> QED BY <1>1, <1>8 DEF H

\* Text blocks that can be written at once.
Writable(m, f, S) ==
    /\ \A k \in S : f[k].index \in Nat \ DOMAIN m.blocks /\ f[k].units \in Nat
    /\ \A j \in S : \A k \in S : f[j].index = f[k].index => j = k

\* Who has index b.
Holder(f, s, b) == CHOOSE k \in s : f[k].index = b

\* The message with the texts of s sent.
Wrote(m, f, s) ==
    [blocks |-> [b \in DOMAIN m.blocks \union {f[k].index : k \in s} |->
                    IF b \in DOMAIN m.blocks THEN m.blocks[b]
                    ELSE WholeBlock("text", f[Holder(f, s, b)].units)],
     broken |-> m.broken]

\* What it consists of.
LEMMA WroteIs ==
    ASSUME NEW m \in MessageShape, NEW f, NEW s, Writable(m, f, s), NEW v, v = Wrote(m, f, s)
    PROVE  /\ v \in MessageShape /\ v.broken = m.broken
           /\ DOMAIN v.blocks = DOMAIN m.blocks \union {f[k].index : k \in s}
           /\ \A b \in DOMAIN m.blocks : v.blocks[b] = m.blocks[b]
           /\ \A k \in s : v.blocks[f[k].index] = WholeBlock("text", f[k].units)
PROOF
<1> DEFINE new == {f[k].index : k \in s}
           g == [b \in DOMAIN m.blocks \union new |->
                    IF b \in DOMAIN m.blocks THEN m.blocks[b]
                    ELSE WholeBlock("text", f[Holder(f, s, b)].units)]
<1>1. m.blocks \in PartialFunctions(Nat, BlockShape)
  BY DEF MessageShape
<1>2. DOMAIN m.blocks \subseteq Nat /\ \A b \in DOMAIN m.blocks : m.blocks[b] \in BlockShape
  BY <1>1, PartialIs
<1>3. \A k \in s : /\ f[k].index \in Nat /\ f[k].index \notin DOMAIN m.blocks /\ f[k].units \in Nat
                   /\ \A j \in s : f[j].index = f[k].index => j = k
  BY DEF Writable
<1>4. \A k \in s : Holder(f, s, f[k].index) = k
  <2> SUFFICES ASSUME NEW k \in s PROVE Holder(f, s, f[k].index) = k
    OBVIOUS
  <2>1. /\ Holder(f, s, f[k].index) \in s
        /\ f[Holder(f, s, f[k].index)].index = f[k].index
    BY DEF Holder
  <2> QED BY <1>3, <2>1
<1>5. new \subseteq Nat
  BY <1>3
<1>6. \A k \in s : WholeBlock("text", f[k].units) \in BlockShape
  BY <1>3, WholeBlockIs
<1>7. \A b \in DOMAIN m.blocks : g[b] = m.blocks[b]
  OBVIOUS
<1>8. \A k \in s : f[k].index \in new /\ g[f[k].index] = WholeBlock("text", f[k].units)
  <2> SUFFICES ASSUME NEW k \in s
               PROVE  f[k].index \in new /\ g[f[k].index] = WholeBlock("text", f[k].units)
    OBVIOUS
  <2>1. f[k].index \in new
    OBVIOUS
  <2> HIDE DEF new
  <2>2. g[f[k].index] = WholeBlock("text", f[Holder(f, s, f[k].index)].units)
    BY <1>3, <2>1
  <2> QED BY <1>4, <2>1, <2>2
<1>9. g = [b \in DOMAIN g |-> g[b]] /\ DOMAIN g = DOMAIN m.blocks \union new
  OBVIOUS
<1>10. v = [blocks |-> g, broken |-> m.broken]
  BY Zenon DEF Wrote
<1>11. \A b \in new : \E k \in s : b = f[k].index
  OBVIOUS
<1>12. new = {f[k].index : k \in s}
  OBVIOUS
<1> HIDE DEF g, new
<1>13. \A b \in DOMAIN g : g[b] \in BlockShape
  BY <1>2, <1>6, <1>7, <1>8, <1>9, <1>11
<1>14. DOMAIN g \subseteq Nat
  BY <1>2, <1>5, <1>9
<1>15. v \in MessageShape /\ v.blocks = g /\ v.broken = m.broken
  BY <1>9, <1>10, <1>13, <1>14, MessageOf
<1> QED BY <1>7, <1>8, <1>9, <1>12, <1>15

\* Sending them one by one gives it.
LEMMA WritesFold ==
    ASSUME NEW m \in MessageShape, NEW f, IsFiniteSet(DOMAIN f), Writable(m, f, DOMAIN f)
    PROVE  FoldFunction(LAMBDA b, v : Whole(v, b.index, "text", b.units), m, f) = Wrote(m, f, DOMAIN f)
PROOF
<1> DEFINE S == DOMAIN f
           Iter(g) == g = [s \in SUBSET S |-> IF s = {} THEN m
                              ELSE Whole(g[s \ {Picked(s)}], f[Picked(s)].index, "text", f[Picked(s)].units)]
           G == CHOOSE g : Iter(g)
           H == [s \in SUBSET S |-> Wrote(m, f, s)]
<1>1. FoldFunction(LAMBDA b, v : Whole(v, b.index, "text", b.units), m, f) = G[S]
  BY Zenon DEF FoldFunction, FoldFunctionOnSet, MapThenFoldSet, Picked
<1>0. IsFiniteSet(S) /\ Writable(m, f, S) /\ \A s \in SUBSET S : Writable(m, f, s)
  BY DEF Writable
<1> HIDE DEF S
<1>2. Wrote(m, f, {}) = m
  <2>1. Writable(m, f, {})
    BY DEF Writable
  <2> DEFINE v == Wrote(m, f, {})
  <2>2. v \in MessageShape /\ v.broken = m.broken /\ DOMAIN v.blocks = DOMAIN m.blocks
        /\ \A b \in DOMAIN m.blocks : v.blocks[b] = m.blocks[b]
    <3>1. v \in MessageShape /\ v.broken = m.broken
          /\ DOMAIN v.blocks = DOMAIN m.blocks \union {f[k].index : k \in {}}
          /\ \A b \in DOMAIN m.blocks : v.blocks[b] = m.blocks[b]
      BY <2>1, WroteIs
    <3>2. {f[k].index : k \in {}} = {}
      OBVIOUS
    <3> QED BY <3>1, <3>2
  <2> HIDE DEF v
  <2>3. v = m
    BY <2>2, SameMessage
  <2> QED BY <2>3 DEF v
<1>3. ASSUME NEW s \in SUBSET S, s # {}
      PROVE  Wrote(m, f, s)
             = Whole(Wrote(m, f, s \ {Picked(s)}), f[Picked(s)].index, "text", f[Picked(s)].units)
  <2> DEFINE x == Picked(s)
             r == s \ {x}
             w == Wrote(m, f, r)
             n == f[x].index
             q == f[x].units
             v == Whole(w, n, "text", q)
             u == Wrote(m, f, s)
  <2>1. x \in s /\ s = r \union {x} /\ x \notin r
    BY <1>3, PickedIsMember
  <2>2. Writable(m, f, s) /\ Writable(m, f, r)
    BY <1>0
  <2>3. /\ n \in Nat /\ n \notin DOMAIN m.blocks /\ f[x].units \in Nat
        /\ \A k \in r : f[k].index # n
    BY <2>1, <2>2 DEF Writable
  <2>4. /\ w \in MessageShape /\ w.broken = m.broken
        /\ DOMAIN w.blocks = DOMAIN m.blocks \union {f[k].index : k \in r}
        /\ \A b \in DOMAIN m.blocks : w.blocks[b] = m.blocks[b]
        /\ \A k \in r : w.blocks[f[k].index] = WholeBlock("text", f[k].units)
    <3> HIDE DEF r
    <3> QED BY <2>2, WroteIs
  <2>5. /\ u \in MessageShape /\ u.broken = m.broken
        /\ DOMAIN u.blocks = DOMAIN m.blocks \union {f[k].index : k \in s}
        /\ \A b \in DOMAIN m.blocks : u.blocks[b] = m.blocks[b]
        /\ \A k \in s : u.blocks[f[k].index] = WholeBlock("text", f[k].units)
    BY <2>2, WroteIs
  <2> HIDE DEF x, r, w, u
  <2>6. n \notin DOMAIN w.blocks
    BY <2>3, <2>4
  <2>7. /\ v \in MessageShape /\ v.broken = w.broken /\ DOMAIN v.blocks = DOMAIN w.blocks \union {n}
        /\ v.blocks[n] = WholeBlock("text", q)
        /\ \A b \in DOMAIN w.blocks : v.blocks[b] = w.blocks[b]
    <3>1. n \in Nat /\ q \in Nat
      BY <2>3
    <3> HIDE DEF n, q
    <3> QED BY <2>4, <2>6, <3>1, WholeIs
  <2>8. n \in {f[k].index : k \in s} /\ {f[k].index : k \in s} = {f[k].index : k \in r} \union {n}
    BY <2>1
  <2> HIDE DEF v
  <2>9. DOMAIN u.blocks = DOMAIN v.blocks
    BY <2>4, <2>5, <2>7, <2>8, Zenon
  <2>10. \A b \in DOMAIN u.blocks : u.blocks[b] = v.blocks[b]
    <3>1. \A b \in DOMAIN m.blocks : u.blocks[b] = v.blocks[b]
      BY <2>4, <2>5, <2>7
    <3>2. \A k \in s : u.blocks[f[k].index] = v.blocks[f[k].index]
      <4>1. \A k \in r : f[k].index \in DOMAIN w.blocks
        BY <2>4
      <4>2. \A k \in r : u.blocks[f[k].index] = v.blocks[f[k].index]
        BY <2>1, <2>4, <2>5, <2>7, <4>1
      <4>3. u.blocks[f[x].index] = v.blocks[f[x].index]
        BY <2>1, <2>5, <2>7
      <4> QED BY <2>1, <4>2, <4>3
    <3> QED BY <2>5, <3>1, <3>2
  <2>11. u = v
    <3>1. u.broken = v.broken
      BY <2>4, <2>5, <2>7
    <3> HIDE DEF n, q
    <3> QED BY <2>5, <2>7, <2>9, <2>10, <3>1, SameMessage, Zenon
  <2> QED BY <2>11 DEF u, v, w, r, x
<1>4. ASSUME NEW s \in SUBSET S
      PROVE  H[s] = IF s = {} THEN m
                    ELSE Whole(H[s \ {Picked(s)}], f[Picked(s)].index, "text", f[Picked(s)].units)
  <2>1. CASE s = {}
    BY <1>2, <2>1
  <2>2. CASE s # {}
    <3>1. s \ {Picked(s)} \in SUBSET S
      OBVIOUS
    <3> QED BY <1>3, <2>2, <3>1
  <2> QED BY <2>1, <2>2
<1> HIDE DEF H
<1>5. Iter(H)
  BY <1>4, Zenon DEF H
<1>6. Iter(G)
  <2> HIDE DEF Iter
  <2> QED BY <1>5
<1>7. ASSUME NEW s \in SUBSET S
      PROVE  G[s] = IF s = {} THEN m
                    ELSE Whole(G[s \ {Picked(s)}], f[Picked(s)].index, "text", f[Picked(s)].units)
  <2> HIDE DEF G
  <2> QED BY <1>6, Zenon
<1> HIDE DEF G, Iter
<1>8. G[S] = H[S]
  <2>1. G[{}] = H[{}]
    BY <1>4, <1>7
  <2>2. \A s \in SUBSET S : s # {} /\ G[s \ {Picked(s)}] = H[s \ {Picked(s)}] => G[s] = H[s]
    BY <1>4, <1>7
  <2> QED BY <1>0, <2>1, <2>2, AgreeBySteps
<1> QED BY <1>1, <1>8 DEF H, S

\* Searches whose blocks can be written at once.
Searchable(m, q, S) ==
    /\ \A k \in S : q[k] \in Nat /\ q[k] \notin DOMAIN m.blocks /\ q[k] + 1 \notin DOMAIN m.blocks
    /\ \A j \in S : \A k \in S : (q[j] = q[k] => j = k) /\ q[j] # q[k] + 1

\* The indices of searches.
Heads(q, s) == {q[k] : k \in s}
\* The indices of the results of searches.
Tails(q, s) == {q[k] + 1 : k \in s}

\* The message with the searches of s and their results sent.
SearchedAll(m, q, s) ==
    [blocks |-> [b \in DOMAIN m.blocks \union (Heads(q, s) \union Tails(q, s)) |->
                    IF b \in DOMAIN m.blocks THEN m.blocks[b]
                    ELSE IF b \in Heads(q, s) THEN WholeBlock("search", 1) ELSE WholeBlock("result", 0)],
     broken |-> m.broken]

\* What it consists of.
LEMMA SearchedAllIs ==
    ASSUME NEW m \in MessageShape, NEW q, NEW s, Searchable(m, q, s), NEW v, v = SearchedAll(m, q, s)
    PROVE  /\ v \in MessageShape /\ v.broken = m.broken
           /\ DOMAIN v.blocks = DOMAIN m.blocks \union (Heads(q, s) \union Tails(q, s))
           /\ \A b \in DOMAIN m.blocks : v.blocks[b] = m.blocks[b]
           /\ \A k \in s : /\ v.blocks[q[k]] = WholeBlock("search", 1)
                           /\ v.blocks[q[k] + 1] = WholeBlock("result", 0)
PROOF
<1> DEFINE D == DOMAIN m.blocks \union (Heads(q, s) \union Tails(q, s))
           one == WholeBlock("search", 1)
           two == WholeBlock("result", 0)
           g == [b \in D |-> IF b \in DOMAIN m.blocks THEN m.blocks[b]
                             ELSE IF b \in Heads(q, s) THEN one ELSE two]
<1>1. m.blocks \in PartialFunctions(Nat, BlockShape)
  BY DEF MessageShape
<1>2. DOMAIN m.blocks \subseteq Nat /\ \A b \in DOMAIN m.blocks : m.blocks[b] \in BlockShape
  BY <1>1, PartialIs
<1>3. /\ Heads(q, s) \subseteq Nat /\ Tails(q, s) \subseteq Nat
      /\ \A k \in s : /\ q[k] \in Heads(q, s) /\ q[k] + 1 \in Tails(q, s) /\ q[k] + 1 \notin Heads(q, s)
                      /\ q[k] \notin DOMAIN m.blocks /\ q[k] + 1 \notin DOMAIN m.blocks
  BY DEF Searchable, Heads, Tails
<1>4. one \in BlockShape /\ two \in BlockShape
  <2>1. 0 \in Nat /\ 1 \in Nat
    OBVIOUS
  <2> QED BY <2>1, WholeBlockIs
<1>5. v = [blocks |-> g, broken |-> m.broken]
  BY Zenon DEF SearchedAll
<1> HIDE DEF one, two
<1>6. \A b \in D : g[b] = IF b \in DOMAIN m.blocks THEN m.blocks[b]
                          ELSE IF b \in Heads(q, s) THEN one ELSE two
  OBVIOUS
<1>7. g = [b \in DOMAIN g |-> g[b]] /\ DOMAIN g = D
  OBVIOUS
<1> HIDE DEF g
<1>8. \A b \in DOMAIN g : g[b] \in BlockShape
  BY <1>2, <1>4, <1>6, <1>7
<1>9. DOMAIN g \subseteq Nat
  BY <1>2, <1>3, <1>7
<1>10. v \in MessageShape /\ v.blocks = g /\ v.broken = m.broken
  BY <1>5, <1>7, <1>8, <1>9, MessageOf
<1>11. \A b \in DOMAIN m.blocks : g[b] = m.blocks[b]
  BY <1>6
<1>12. \A k \in s : g[q[k]] = one /\ g[q[k] + 1] = two
  BY <1>3, <1>6
<1> QED BY <1>7, <1>10, <1>11, <1>12 DEF one, two

\* Sending them one by one gives it.
LEMMA SearchesFold ==
    ASSUME NEW m \in MessageShape, NEW q, IsFiniteSet(DOMAIN q), Searchable(m, q, DOMAIN q)
    PROVE  FoldFunction(LAMBDA n, v : Whole(Whole(v, n, "search", 1), n + 1, "result", 0), m, q)
           = SearchedAll(m, q, DOMAIN q)
PROOF
<1> DEFINE S == DOMAIN q
           Iter(g) == g = [s \in SUBSET S |-> IF s = {} THEN m
                                              ELSE SearchIn(g[s \ {Picked(s)}], q[Picked(s)])]
           G == CHOOSE g : Iter(g)
           H == [s \in SUBSET S |-> SearchedAll(m, q, s)]
<1>1. FoldFunction(LAMBDA n, v : Whole(Whole(v, n, "search", 1), n + 1, "result", 0), m, q) = G[S]
  BY Zenon DEF FoldFunction, FoldFunctionOnSet, MapThenFoldSet, Picked, SearchIn
<1>0. IsFiniteSet(S) /\ Searchable(m, q, S) /\ \A s \in SUBSET S : Searchable(m, q, s)
  BY DEF Searchable
<1> HIDE DEF S
<1>2. SearchedAll(m, q, {}) = m
  <2>1. Searchable(m, q, {})
    BY DEF Searchable
  <2> DEFINE v == SearchedAll(m, q, {})
  <2>2. v \in MessageShape /\ v.broken = m.broken
        /\ DOMAIN v.blocks = DOMAIN m.blocks \union (Heads(q, {}) \union Tails(q, {}))
        /\ \A b \in DOMAIN m.blocks : v.blocks[b] = m.blocks[b]
    BY <2>1, SearchedAllIs
  <2>3. Heads(q, {}) = {} /\ Tails(q, {}) = {}
    BY DEF Heads, Tails
  <2> HIDE DEF v
  <2>4. v = m
    BY <2>2, <2>3, SameMessage, Zenon
  <2> QED BY <2>4 DEF v
<1>3. ASSUME NEW s \in SUBSET S, s # {}
      PROVE  SearchedAll(m, q, s) = SearchIn(SearchedAll(m, q, s \ {Picked(s)}), q[Picked(s)])
  <2> DEFINE x == Picked(s)
             r == s \ {x}
             w == SearchedAll(m, q, r)
             n == q[x]
             v == SearchIn(w, n)
             u == SearchedAll(m, q, s)
  <2>1. x \in s /\ s = r \union {x} /\ x \notin r
    BY <1>3, PickedIsMember
  <2>2. Searchable(m, q, s) /\ Searchable(m, q, r)
    BY <1>0
  <2>3. /\ n \in Nat /\ n \notin DOMAIN m.blocks /\ n + 1 \notin DOMAIN m.blocks
        /\ \A k \in r : q[k] \in Nat /\ q[k] # n /\ q[k] + 1 # n /\ q[k] # n + 1
    BY <2>1, <2>2 DEF Searchable
  <2>4. /\ w \in MessageShape /\ w.broken = m.broken
        /\ DOMAIN w.blocks = DOMAIN m.blocks \union (Heads(q, r) \union Tails(q, r))
        /\ \A b \in DOMAIN m.blocks : w.blocks[b] = m.blocks[b]
        /\ \A k \in r : /\ w.blocks[q[k]] = WholeBlock("search", 1)
                        /\ w.blocks[q[k] + 1] = WholeBlock("result", 0)
    <3> HIDE DEF r
    <3> QED BY <2>2, SearchedAllIs
  <2>5. /\ u \in MessageShape /\ u.broken = m.broken
        /\ DOMAIN u.blocks = DOMAIN m.blocks \union (Heads(q, s) \union Tails(q, s))
        /\ \A b \in DOMAIN m.blocks : u.blocks[b] = m.blocks[b]
        /\ \A k \in s : /\ u.blocks[q[k]] = WholeBlock("search", 1)
                        /\ u.blocks[q[k] + 1] = WholeBlock("result", 0)
    BY <2>2, SearchedAllIs
  <2> HIDE DEF x, r, w, u
  <2>6. n \notin Heads(q, r) /\ n \notin Tails(q, r) /\ n + 1 \notin Heads(q, r) /\ n + 1 \notin Tails(q, r)
    BY <2>3 DEF Heads, Tails
  <2>7. /\ Heads(q, s) = Heads(q, r) \union {n} /\ Tails(q, s) = Tails(q, r) \union {n + 1}
        /\ \A k \in r : q[k] \in Heads(q, r) /\ q[k] + 1 \in Tails(q, r)
    BY <2>1 DEF Heads, Tails
  <2>8. /\ v \in MessageShape /\ v.broken = w.broken /\ DOMAIN v.blocks = DOMAIN w.blocks \union {n, n + 1}
        /\ v.blocks[n] = WholeBlock("search", 1) /\ v.blocks[n + 1] = WholeBlock("result", 0)
        /\ \A b \in DOMAIN w.blocks : v.blocks[b] = w.blocks[b]
    <3>1. n \notin DOMAIN w.blocks /\ n + 1 \notin DOMAIN w.blocks /\ n \in Nat
      BY <2>3, <2>4, <2>6
    <3> HIDE DEF n
    <3> QED BY <2>4, <3>1, SearchInIs
  <2> HIDE DEF v
  <2>9. DOMAIN u.blocks = DOMAIN v.blocks
    BY <2>4, <2>5, <2>7, <2>8
  <2>10. \A b \in DOMAIN u.blocks : u.blocks[b] = v.blocks[b]
    <3>1. \A b \in DOMAIN m.blocks : u.blocks[b] = v.blocks[b]
      BY <2>4, <2>5, <2>8
    <3>2. \A k \in s : u.blocks[q[k]] = v.blocks[q[k]] /\ u.blocks[q[k] + 1] = v.blocks[q[k] + 1]
      <4>1. \A k \in r : q[k] \in DOMAIN w.blocks /\ q[k] + 1 \in DOMAIN w.blocks
        BY <2>4, <2>7
      <4>2. \A k \in r : u.blocks[q[k]] = v.blocks[q[k]] /\ u.blocks[q[k] + 1] = v.blocks[q[k] + 1]
        BY <2>1, <2>4, <2>5, <2>8, <4>1
      <4>3. u.blocks[q[x]] = v.blocks[q[x]] /\ u.blocks[q[x] + 1] = v.blocks[q[x] + 1]
        BY <2>1, <2>5, <2>8
      <4> QED BY <2>1, <4>2, <4>3
    <3>3. \A b \in Heads(q, s) \union Tails(q, s) : \E k \in s : b \in {q[k], q[k] + 1}
      BY DEF Heads, Tails
    <3> QED BY <2>5, <3>1, <3>2, <3>3
  <2>11. u.broken = v.broken
    BY <2>4, <2>5, <2>8
  <2>12. u = v
    BY <2>5, <2>8, <2>9, <2>10, <2>11, SameMessage, Zenon
  <2> QED BY <2>12 DEF u, v, w, r, x
<1>4. ASSUME NEW s \in SUBSET S
      PROVE  H[s] = IF s = {} THEN m ELSE SearchIn(H[s \ {Picked(s)}], q[Picked(s)])
  <2>1. CASE s = {}
    BY <1>2, <2>1
  <2>2. CASE s # {}
    <3>1. s \ {Picked(s)} \in SUBSET S
      OBVIOUS
    <3> QED BY <1>3, <2>2, <3>1
  <2> QED BY <2>1, <2>2
<1> HIDE DEF H
<1>5. Iter(H)
  BY <1>4, Zenon DEF H
<1>6. Iter(G)
  <2> HIDE DEF Iter
  <2> QED BY <1>5
<1>7. ASSUME NEW s \in SUBSET S
      PROVE  G[s] = IF s = {} THEN m ELSE SearchIn(G[s \ {Picked(s)}], q[Picked(s)])
  <2> HIDE DEF G
  <2> QED BY <1>6, Zenon
<1> HIDE DEF G, Iter
<1>8. G[S] = H[S]
  <2>1. G[{}] = H[{}]
    BY <1>4, <1>7, Zenon
  <2>2. \A s \in SUBSET S : s # {} /\ G[s \ {Picked(s)}] = H[s \ {Picked(s)}] => G[s] = H[s]
    BY <1>4, <1>7
  <2> QED BY <1>0, <2>1, <2>2, AgreeBySteps
<1> QED BY <1>1, <1>8 DEF H, S

-----------------------------------------------------------------------------
(* The end of a live stream sends every block that waits. *)

\* The items whose blocks are open in the message.
Now(t)     == {i \in DOMAIN t.open : ~t.open[i].deferred}
\* The texts that wait in open items.
Waiting(t) == [i \in DOMAIN t.open \ Now(t) |-> t.open[i]]

\* The message at the end: open blocks stopped, then searches, what ended while it
\* waited, and what still waits.
FinishedMessage(t) ==
    FoldFunction(LAMBDA b, v : Whole(v, b.index, "text", b.units),
        FoldFunction(LAMBDA b, v : Whole(v, b.index, "text", b.units),
            FoldFunction(LAMBDA n, v : Whole(Whole(v, n, "search", 1), n + 1, "result", 0),
                FoldFunctionOnSet(LAMBDA b, v : Stop(v, b.index), t.message, t.open, Now(t)),
                t.searches),
            t.deferred),
        Waiting(t))

\* The message of t with everything sent.
AllSent(t, v) ==
    /\ v \in MessageShape /\ ~v.broken /\ DOMAIN v.blocks = 0 .. t.next - 1
    /\ \A b \in DOMAIN t.message.blocks :
          v.blocks[b] = IF \E i \in Now(t) : t.open[i].index = b
                        THEN Stopped(t.message.blocks[b]) ELSE t.message.blocks[b]
    /\ \A k \in DOMAIN t.searches : /\ v.blocks[t.searches[k]] = WholeBlock("search", 1)
                                    /\ v.blocks[t.searches[k] + 1] = WholeBlock("result", 0)
    /\ \A k \in DOMAIN t.deferred : v.blocks[t.deferred[k].index] = WholeBlock("text", t.deferred[k].units)
    /\ \A i \in DOMAIN t.open :
          t.open[i].deferred => v.blocks[t.open[i].index] = WholeBlock("text", t.open[i].units)

\* Each index has its block then, and no block is started twice.
LEMMA FinishedMessageIs ==
    ASSUME NEW t, WellMade(t)
    PROVE  AllSent(t, FinishedMessage(t))
PROOF
<1> DEFINE m == t.message
           now == Now(t)
           q == t.searches
           d == t.deferred
           w == Waiting(t)
           m1 == StoppedAll(m, t.open, now)
           m2 == SearchedAll(m1, q, DOMAIN q)
           m3 == Wrote(m2, d, DOMAIN d)
           m4 == Wrote(m3, w, DOMAIN w)
<1>1. /\ t \in TranslatorShape /\ m \in MessageShape /\ ~m.broken /\ t.next \in Nat
      /\ q \in Seq(Nat) /\ d \in Seq(OpenShape) /\ DOMAIN t.open \subseteq Item
      /\ DOMAIN m.blocks \subseteq Nat
      /\ \A i \in DOMAIN t.open : t.open[i] \in OpenShape
      /\ \A k \in DOMAIN d : d[k] \in OpenShape
  BY TranslatorIs DEF WellMade
<1>2. IsFiniteSet(DOMAIN q) /\ IsFiniteSet(DOMAIN d) /\ IsFiniteSet(now) /\ IsFiniteSet(DOMAIN w)
  <2>1. IsFiniteSet(DOMAIN q)
    <3>1. DOMAIN q = 1 .. Len(q) /\ Len(q) \in Int /\ 1 \in Int
      BY <1>1
    <3> HIDE DEF q
    <3>2. IsFiniteSet(1 .. Len(q))
      BY <3>1, FS_Interval
    <3> QED BY <3>1, <3>2
  <2>2. IsFiniteSet(DOMAIN d)
    <3>1. DOMAIN d = 1 .. Len(d) /\ Len(d) \in Int /\ 1 \in Int
      BY <1>1
    <3> HIDE DEF d
    <3>2. IsFiniteSet(1 .. Len(d))
      BY <3>1, FS_Interval
    <3> QED BY <3>1, <3>2
  <2>3. IsFiniteSet(Item)
    BY StreamTranslationAssumption
  <2>4. now \subseteq Item /\ DOMAIN w \subseteq Item
    BY <1>1 DEF Now, Waiting
  <2> QED BY <2>1, <2>2, <2>3, <2>4, FS_Subset
<1>3. /\ \A i \in now : i \in DOMAIN t.open /\ IsOpen(m, t.open[i].index)
      /\ \A i \in now : \A j \in now : t.open[i].index = t.open[j].index => i = j
  BY DEF WellMade, Opens, Apart, Now
<1>4. /\ DOMAIN w = {i \in DOMAIN t.open : t.open[i].deferred}
      /\ \A i \in DOMAIN w : w[i] = t.open[i]
  <2>1. \A i \in DOMAIN t.open : t.open[i].deferred \in BOOLEAN
    BY <1>1 DEF OpenShape
  <2> QED BY <2>1 DEF Waiting, Now
<1>5. \A b \in DOMAIN m.blocks : ~Waits(t, b)
  BY DEF WellMade, Places
<1>6. FoldFunctionOnSet(LAMBDA b, v : Stop(v, b.index), m, t.open, now) = m1
  <2> HIDE DEF now, m
  <2> QED BY <1>1, <1>2, <1>3, StopsFold
<1>7. /\ m1 \in MessageShape /\ m1.broken = m.broken /\ DOMAIN m1.blocks = DOMAIN m.blocks
      /\ \A b \in DOMAIN m.blocks :
            m1.blocks[b] = IF \E i \in now : t.open[i].index = b THEN Stopped(m.blocks[b]) ELSE m.blocks[b]
  <2> HIDE DEF now, m
  <2> QED BY <1>1, StoppedAllIs
<1> HIDE DEF m1
<1>8. Searchable(m1, q, DOMAIN q)
  <2>1. \A k \in DOMAIN q : Waits(t, q[k]) /\ Waits(t, q[k] + 1) /\ q[k] \in Nat
    BY <1>1 DEF Waits
  <2>2. \A j \in DOMAIN q : \A k \in DOMAIN q : (q[j] = q[k] => j = k) /\ q[j] # q[k] + 1
    BY DEF WellMade, Apart
  <2> HIDE DEF q, m
  <2> QED BY <1>5, <1>7, <2>1, <2>2 DEF Searchable
<1>9. FoldFunction(LAMBDA n, v : Whole(Whole(v, n, "search", 1), n + 1, "result", 0), m1, q) = m2
  <2> HIDE DEF q
  <2> QED BY <1>2, <1>7, <1>8, SearchesFold
<1>10. /\ m2 \in MessageShape /\ m2.broken = m1.broken
       /\ DOMAIN m2.blocks = DOMAIN m1.blocks \union (Heads(q, DOMAIN q) \union Tails(q, DOMAIN q))
       /\ \A b \in DOMAIN m1.blocks : m2.blocks[b] = m1.blocks[b]
       /\ \A k \in DOMAIN q : /\ m2.blocks[q[k]] = WholeBlock("search", 1)
                              /\ m2.blocks[q[k] + 1] = WholeBlock("result", 0)
  <2> HIDE DEF q
  <2> QED BY <1>7, <1>8, SearchedAllIs
<1> HIDE DEF m2
<1>11. Writable(m2, d, DOMAIN d)
  <2>1. \A k \in DOMAIN d : Waits(t, d[k].index) /\ d[k].index \in Nat /\ d[k].units \in Nat
    BY <1>1, Zenon DEF Waits, OpenShape
  <2>2. /\ \A j \in DOMAIN d : \A k \in DOMAIN d : d[j].index = d[k].index => j = k
        /\ \A k \in DOMAIN d : d[k].index \notin Heads(q, DOMAIN q) /\ d[k].index \notin Tails(q, DOMAIN q)
    BY DEF WellMade, Apart, Heads, Tails
  <2> HIDE DEF q, m, d
  <2>3. \A k \in DOMAIN d : d[k].index \notin DOMAIN m2.blocks
    BY <1>5, <1>7, <1>10, <2>1, <2>2
  <2> QED BY <2>1, <2>2, <2>3 DEF Writable
<1>12. FoldFunction(LAMBDA b, v : Whole(v, b.index, "text", b.units), m2, d) = m3
  <2> HIDE DEF d
  <2> QED BY <1>2, <1>10, <1>11, WritesFold
<1>13. /\ m3 \in MessageShape /\ m3.broken = m2.broken
       /\ DOMAIN m3.blocks = DOMAIN m2.blocks \union {d[k].index : k \in DOMAIN d}
       /\ \A b \in DOMAIN m2.blocks : m3.blocks[b] = m2.blocks[b]
       /\ \A k \in DOMAIN d : m3.blocks[d[k].index] = WholeBlock("text", d[k].units)
  <2> HIDE DEF d
  <2> QED BY <1>10, <1>11, WroteIs
<1> HIDE DEF m3
<1>14. Writable(m3, w, DOMAIN w)
  <2>1. \A i \in DOMAIN w : /\ Waits(t, w[i].index) /\ w[i].index \in Nat /\ w[i].units \in Nat
                            /\ i \in DOMAIN t.open /\ w[i] = t.open[i]
    BY <1>1, <1>4 DEF Waits, OpenShape
  <2>2. /\ \A i \in DOMAIN w : \A j \in DOMAIN w : w[i].index = w[j].index => i = j
        /\ \A i \in DOMAIN w : /\ w[i].index \notin Heads(q, DOMAIN q) /\ w[i].index \notin Tails(q, DOMAIN q)
                               /\ \A k \in DOMAIN d : w[i].index # d[k].index
    <3> HIDE DEF w
    <3> QED BY <2>1 DEF WellMade, Apart, Heads, Tails
  <2> HIDE DEF q, m, d, w
  <2>3. \A i \in DOMAIN w : w[i].index \notin DOMAIN m3.blocks
    BY <1>5, <1>7, <1>10, <1>13, <2>1, <2>2
  <2> QED BY <2>1, <2>2, <2>3 DEF Writable
<1>15. FoldFunction(LAMBDA b, v : Whole(v, b.index, "text", b.units), m3, w) = m4
  <2> HIDE DEF w
  <2> QED BY <1>2, <1>13, <1>14, WritesFold
<1>16. /\ m4 \in MessageShape /\ m4.broken = m3.broken
       /\ DOMAIN m4.blocks = DOMAIN m3.blocks \union {w[i].index : i \in DOMAIN w}
       /\ \A b \in DOMAIN m3.blocks : m4.blocks[b] = m3.blocks[b]
       /\ \A i \in DOMAIN w : m4.blocks[w[i].index] = WholeBlock("text", w[i].units)
  <2> HIDE DEF w
  <2> QED BY <1>13, <1>14, WroteIs
<1> HIDE DEF m4
<1>17. FinishedMessage(t) = m4
  BY Zenon, <1>6, <1>9, <1>12, <1>15 DEF FinishedMessage
<1>18. DOMAIN m4.blocks = 0 .. t.next - 1
  <2>1. ASSUME NEW b \in DOMAIN m4.blocks PROVE b \in 0 .. t.next - 1
    <3>1. CASE b \in DOMAIN m.blocks
      BY <3>1 DEF WellMade, Places
    <3>2. CASE b \in Heads(q, DOMAIN q) \union Tails(q, DOMAIN q)
      <4>1. PICK k \in DOMAIN q : b = q[k] \/ b = q[k] + 1
        BY <3>2 DEF Heads, Tails
      <4>2. q[k] \in Nat /\ q[k] + 1 < t.next
        BY <1>1 DEF WellMade, Apart
      <4> HIDE DEF q
      <4> QED BY <1>1, <4>1, <4>2
    <3>3. CASE \E k \in DOMAIN d : b = d[k].index
      <4>1. PICK k \in DOMAIN d : b = d[k].index
        BY <3>3
      <4>2. d[k].index \in Nat /\ d[k].index < t.next
        BY <1>1 DEF WellMade, Apart, OpenShape
      <4> QED BY <1>1, <4>1, <4>2
    <3>4. CASE \E i \in DOMAIN w : b = w[i].index
      <4>1. PICK i \in DOMAIN w : b = w[i].index
        BY <3>4
      <4>2. i \in DOMAIN t.open /\ b = t.open[i].index
        BY <1>4, <4>1
      <4>3. t.open[i].index \in Nat /\ t.open[i].index < t.next
        BY <1>1, <4>2 DEF WellMade, Apart, OpenShape
      <4> QED BY <1>1, <4>2, <4>3
    <3> HIDE DEF m, q, d, w
    <3> QED BY <1>7, <1>10, <1>13, <1>16, <2>1, <3>1, <3>2, <3>3, <3>4
  <2>2. ASSUME NEW b \in 0 .. t.next - 1 PROVE b \in DOMAIN m4.blocks
    <3>1. b \in DOMAIN m.blocks \/ Waits(t, b)
      BY DEF WellMade, Places
    <3>2. ASSUME NEW i \in DOMAIN t.open, t.open[i].deferred, t.open[i].index = b
          PROVE  b \in {w[j].index : j \in DOMAIN w}
      <4>1. i \in DOMAIN w /\ w[i].index = b
        BY <1>4, <3>2
      <4> HIDE DEF w
      <4> QED BY <4>1
    <3>3. ASSUME NEW k \in DOMAIN q, b \in {q[k], q[k] + 1}
          PROVE  b \in Heads(q, DOMAIN q) \union Tails(q, DOMAIN q)
      BY <3>3 DEF Heads, Tails
    <3>4. ASSUME NEW k \in DOMAIN d, d[k].index = b
          PROVE  b \in {d[j].index : j \in DOMAIN d}
      BY <3>4
    <3>5. Waits(t, b) => \/ b \in {w[j].index : j \in DOMAIN w}
                         \/ b \in Heads(q, DOMAIN q) \union Tails(q, DOMAIN q)
                         \/ b \in {d[j].index : j \in DOMAIN d}
      BY <3>2, <3>3, <3>4 DEF Waits
    <3> HIDE DEF m, q, d, w
    <3> QED BY <1>7, <1>10, <1>13, <1>16, <3>1, <3>5
  <2> HIDE DEF m
  <2> QED BY <2>1, <2>2, Zenon
<1>19. \A b \in DOMAIN m.blocks :
          m4.blocks[b] = IF \E i \in now : t.open[i].index = b THEN Stopped(m.blocks[b]) ELSE m.blocks[b]
  <2> SUFFICES ASSUME NEW b \in DOMAIN m.blocks
               PROVE  m4.blocks[b] = IF \E i \in now : t.open[i].index = b
                                     THEN Stopped(m.blocks[b]) ELSE m.blocks[b]
    OBVIOUS
  <2> HIDE DEF m, now, q, d, w
  <2>1. m4.blocks[b] = m1.blocks[b]
    BY <1>7, <1>10, <1>13, <1>16
  <2> QED BY <1>7, <2>1
<1>20. /\ \A k \in DOMAIN q : /\ m4.blocks[q[k]] = WholeBlock("search", 1)
                              /\ m4.blocks[q[k] + 1] = WholeBlock("result", 0)
       /\ \A k \in DOMAIN d : m4.blocks[d[k].index] = WholeBlock("text", d[k].units)
  <2>1. \A k \in DOMAIN q : q[k] \in DOMAIN m2.blocks /\ q[k] + 1 \in DOMAIN m2.blocks
    <3>1. \A k \in DOMAIN q : q[k] \in Heads(q, DOMAIN q) /\ q[k] + 1 \in Tails(q, DOMAIN q)
      BY DEF Heads, Tails
    <3> HIDE DEF q
    <3> QED BY <1>10, <3>1
  <2>2. \A k \in DOMAIN d : d[k].index \in DOMAIN m3.blocks
    <3> HIDE DEF d
    <3> QED BY <1>13
  <2> HIDE DEF m, now, q, d, w
  <2> QED BY <1>10, <1>13, <1>16, <2>1, <2>2
<1>21. \A i \in DOMAIN t.open :
          t.open[i].deferred => m4.blocks[t.open[i].index] = WholeBlock("text", t.open[i].units)
  <2> HIDE DEF w
  <2> QED BY <1>4, <1>16
<1>22. ~m4.broken
  BY <1>1, <1>7, <1>10, <1>13, <1>16
<1> QED BY <1>16, <1>17, <1>18, <1>19, <1>20, <1>21, <1>22 DEF AllSent

\* A live stream that ends has shown every block, and stopped it.
LEMMA LiveFinishedKeeps ==
    ASSUME WellMade(live), NEW t, t = ThinkingClosed(live), NEW u, u = LiveFinished
    PROVE  /\ WellMade(u) /\ u.at = "completed" /\ AllSent(t, u.message) /\ u.next = t.next
           /\ DOMAIN u.message.blocks = 0 .. u.next - 1
           /\ \A b \in DOMAIN u.message.blocks : ~u.message.blocks[b].open
PROOF
<1> DEFINE m == FinishedMessage(t)
<1>1. WellMade(t) /\ t.thinking.item = NoBlock
  BY ThinkingClosedIs
<1>2. AllSent(t, m)
  BY <1>1, FinishedMessageIs
<1>3. u = [t EXCEPT !.at = "completed", !.open = <<>>, !.searches = <<>>, !.deferred = <<>>, !.message = m]
  BY Zenon DEF LiveFinished, FinishedMessage, Now, Waiting
<1> HIDE DEF m
<1>4. /\ u \in TranslatorShape /\ u.message = m /\ u.next = t.next /\ u.at = "completed"
      /\ u.thinking = t.thinking /\ u.open = <<>> /\ u.searches = <<>> /\ u.deferred = <<>>
  <2>1. <<>> \in PartialFunctions(Item, OpenShape)
    BY DEF PartialFunctions
  <2>2. m \in MessageShape
    BY <1>2 DEF AllSent
  <2>3. t \in TranslatorShape /\ "completed" \in Phase
    BY <1>1 DEF WellMade, Phase
  <2>4. <<>> \in Seq(Nat) /\ <<>> \in Seq(OpenShape)
    OBVIOUS
  <2> DEFINE e == <<>>
  <2>5. u = [t EXCEPT !.at = "completed", !.open = e, !.searches = e, !.deferred = e, !.message = m]
    BY <1>3
  <2>6. e = <<>>
    OBVIOUS
  <2>7. e \in PartialFunctions(Item, OpenShape) /\ e \in Seq(Nat) /\ e \in Seq(OpenShape)
    BY <2>1, <2>4
  <2> HIDE DEF e
  <2>8. /\ u \in TranslatorShape /\ u.message = m /\ u.next = t.next /\ u.at = "completed"
        /\ u.thinking = t.thinking /\ u.open = e /\ u.searches = e /\ u.deferred = e
    BY <2>2, <2>3, <2>5, <2>7, Zenon DEF TranslatorShape
  <2> QED BY <2>6, <2>8
<1>5. DOMAIN u.open = {} /\ DOMAIN u.searches = {} /\ DOMAIN u.deferred = {}
  BY <1>4
<1>6. \A b \in DOMAIN m.blocks : ~m.blocks[b].open
  <2> SUFFICES ASSUME NEW b \in DOMAIN m.blocks PROVE ~m.blocks[b].open
    OBVIOUS
  <2>0. /\ \A i \in DOMAIN t.open : t.open[i].units \in Nat
        /\ \A k \in DOMAIN t.deferred : t.deferred[k].units \in Nat
        /\ 0 \in Nat /\ 1 \in Nat /\ t \in TranslatorShape
    BY <1>1, TranslatorIs DEF WellMade, OpenShape
  <2>1. CASE b \in DOMAIN t.message.blocks
    <3>1. t.message.blocks[b] \in BlockShape
      BY <2>0, <2>1, TranslatorIs
    <3>2. CASE \E i \in Now(t) : t.open[i].index = b
      BY <1>2, <2>0, <2>1, <3>1, <3>2, EditsAre DEF AllSent
    <3>3. CASE ~\E i \in Now(t) : t.open[i].index = b
      <4>1. m.blocks[b] = t.message.blocks[b]
        BY <1>2, <2>1, <3>3 DEF AllSent
      <4>2. ~t.message.blocks[b].open
        BY <1>1, <2>1, <3>3 DEF WellMade, Known, Now
      <4> QED BY <4>1, <4>2
    <3> QED BY <3>2, <3>3
  <2>2. CASE b \notin DOMAIN t.message.blocks
    <3>1. Waits(t, b)
      BY <1>1, <1>2, <2>2 DEF WellMade, Places, AllSent
    <3>2. \A n \in Nat : ~WholeBlock("text", n).open
      BY WholeBlockIs
    <3>3. ~WholeBlock("search", 1).open /\ ~WholeBlock("result", 0).open
      BY <2>0, WholeBlockIs
    <3> QED BY <1>2, <2>0, <3>1, <3>2, <3>3 DEF Waits, AllSent
  <2> QED BY <2>1, <2>2
<1>7. \A b : ~Waits(u, b)
  BY <1>5 DEF Waits
<1>8. DOMAIN m.blocks = 0 .. t.next - 1 /\ ~m.broken
  BY <1>2 DEF AllSent
<1>9. Places(u)
  BY <1>4, <1>7, <1>8 DEF Places
<1>10. Apart(u)
  BY <1>5 DEF Apart
<1>11. Thinks(u)
  BY <1>1, <1>4 DEF Thinks
<1>12. Opens(u)
  BY <1>5 DEF Opens
<1>13. Known(u)
  BY <1>4, <1>6 DEF Known
<1> QED BY <1>2, <1>4, <1>6, <1>8, <1>9, <1>10, <1>11, <1>12, <1>13 DEF WellMade

\* An end says only that nothing more is read.
EndedAs(t, at) == [t EXCEPT !.at = at]

\* It stays as it is.
LEMMA EndedKeeps ==
    ASSUME NEW t, WellMade(t), NEW at \in Phase, NEW u, u = EndedAs(t, at)
    PROVE  /\ WellMade(u) /\ u.at = at /\ u.message = t.message /\ u.open = t.open /\ u.next = t.next
           /\ Shut(u) = Shut(t) /\ u.thinking = t.thinking /\ u.sealed = t.sealed /\ u.tools = t.tools
           /\ u.searches = t.searches /\ u.deferred = t.deferred
PROOF
<1>1. t \in TranslatorShape /\ ~t.message.broken
  BY DEF WellMade
<1>2. /\ u \in TranslatorShape /\ u.message = t.message /\ u.next = t.next
      /\ u.thinking = t.thinking /\ u.sealed = t.sealed /\ u.searches = t.searches
      /\ u.deferred = t.deferred /\ u.at = at /\ u.tools = t.tools /\ u.open = t.open
  BY <1>1 DEF EndedAs, TranslatorShape
<1>3. WellMade(u)
  BY <1>1, <1>2, EditKeeps
<1> QED BY <1>2, <1>3 DEF Shut

\* The block of a text, as it begins.
TextBlock(n, waits) == OpenBlock("text", n, waits, FALSE)

\* TextBegunKeeps, for use where the flag is not spelled out.
LEMMA TextBegins ==
    ASSUME NEW t, WellMade(t), NEW i \in Item, i \notin DOMAIN t.open, NEW waits \in BOOLEAN,
           NEW u, u = TextBegun(t, i, waits)
    PROVE  WellMade(u) /\ Begins(t, u, i, TextBlock(t.next, waits)) /\ u.tools = t.tools /\ Shut(u) = Shut(t)
BY Zenon, TextBegunKeeps DEF TextBlock

-----------------------------------------------------------------------------
(* What is open is what the upstream has begun and not ended. *)

\* Types of items that have a block.
Blocky == {"message", "call", "read"}
\* Types of items that are calls.
Calls  == {"call", "read"}

\* What is open is what the upstream has begun, and not ended, and as what it was
\* begun.
Tracks(t, it, S) ==
    /\ \A i \in Item : i \in DOMAIN t.open <=> it[i].type \in Blocky /\ it[i].at \in S
    /\ \A i \in DOMAIN t.open : t.open[i].kind = "tool" <=> it[i].type \in Calls

\* One item moves on, and its block with it.
LEMMA TracksMoves ==
    ASSUME NEW t, NEW u, NEW it \in [Item -> ItemTold], NEW S, Tracks(t, it, S), NEW i \in Item,
           NEW new \in ItemTold, NEW toldOf, toldOf = [it EXCEPT ![i] = new],
           DOMAIN u.open \subseteq Item,
           \A j \in Item : j # i => (j \in DOMAIN u.open <=> j \in DOMAIN t.open),
           \A j \in DOMAIN t.open : j # i => u.open[j].kind = t.open[j].kind,
           i \in DOMAIN u.open <=> new.type \in Blocky /\ new.at \in S,
           i \in DOMAIN u.open => (u.open[i].kind = "tool" <=> new.type \in Calls)
    PROVE  Tracks(u, toldOf, S)
PROOF
<1>1. toldOf[i] = new /\ \A j \in Item : j # i => toldOf[j] = it[j]
  OBVIOUS
<1>2. \A j \in Item : j \in DOMAIN u.open <=> toldOf[j].type \in Blocky /\ toldOf[j].at \in S
  BY <1>1 DEF Tracks
<1>3. \A j \in DOMAIN u.open : u.open[j].kind = "tool" <=> toldOf[j].type \in Calls
  BY <1>1 DEF Tracks
<1> QED BY <1>2, <1>3 DEF Tracks

\* An item that both translators take in the same way, but for text that waits.
Added(t, i, type, seals, waits) ==
    CASE type = "reasoning" -> Captured(t, i, seals)
      [] type = "message"   -> TextBegun(ThinkingClosed(t), i, waits)
      [] type = "search"    -> t
      [] OTHER              -> CallBegun(ThinkingClosed(t), i, type)

\* An item is added: a block of its type begins, if it has one.
LEMMA AddedKeeps ==
    ASSUME NEW t, WellMade(t), NEW i \in Item, i \notin DOMAIN t.open, NEW type \in Types,
           NEW seals \in BOOLEAN, NEW waits \in BOOLEAN, NEW u, u = Added(t, i, type, seals, waits)
    PROVE  /\ WellMade(u) /\ u.at = t.at /\ Shut(u) = Shut(t)
           /\ type \notin Blocky => u.open = t.open
           /\ type \in Blocky => /\ DOMAIN u.open = DOMAIN t.open \union {i}
                                 /\ u.open[i].kind = "tool" <=> type \in Calls
                                 /\ u.open[i].deferred => waits
           /\ \A j \in DOMAIN t.open : u.open[j] = t.open[j]
PROOF
<1> DEFINE c == ThinkingClosed(t)
<1>1. WellMade(c) /\ c.open = t.open /\ Shut(c) = Shut(t) /\ c.at = t.at
  BY ThinkingClosedIs
<1>2. CASE type = "reasoning"
  <2>1. u = Captured(t, i, seals)
    BY <1>2, Zenon DEF Added
  <2>2. WellMade(u) /\ u.message = t.message /\ u.open = t.open /\ u.at = t.at
    BY <2>1, CapturedKeeps
  <2> QED BY <1>2, <2>2 DEF Shut, Blocky
<1>3. CASE type = "search"
  <2>1. u = t
    BY <1>3 DEF Added
  <2> QED BY <1>3, <2>1 DEF Blocky
<1>4. CASE type = "message"
  <2> DEFINE b == TextBlock(c.next, waits)
  <2>1. u = TextBegun(c, i, waits)
    BY <1>4 DEF Added
  <2>2. b.kind = "text" /\ b.deferred = waits
    BY DEF TextBlock, OpenBlock
  <2> HIDE DEF c
  <2>3. WellMade(u) /\ Begins(c, u, i, b) /\ Shut(u) = Shut(c)
    BY <1>1, <2>1, TextBegins
  <2> HIDE DEF b
  <2> QED BY <1>1, <1>4, <2>2, <2>3 DEF Begins, Blocky, Calls
<1>5. CASE type \in Calls
  <2> DEFINE b == CallBlock(c.next, type)
  <2>1. u = CallBegun(c, i, type)
    BY <1>5 DEF Added, Calls
  <2>2. b.kind = "tool" /\ ~b.deferred
    BY DEF CallBlock, OpenBlock
  <2> HIDE DEF c
  <2>3. WellMade(u) /\ Begins(c, u, i, b) /\ Shut(u) = Shut(c)
    BY <1>1, <2>1, CallBegunKeeps
  <2> HIDE DEF b
  <2> QED BY <1>1, <1>5, <2>2, <2>3 DEF Begins, Blocky, Calls
<1> QED BY <1>2, <1>3, <1>4, <1>5 DEF Types, Calls

\* An item is done in the live stream: its block ends, and a call's is shut.
LEMMA LiveDoneKeeps ==
    ASSUME WellMade(live), NEW i \in Item, item[i].type \in Types, NEW given \in BOOLEAN, NEW seals \in BOOLEAN,
           NEW u, u = LiveDone(i, given, seals)
    PROVE  /\ WellMade(u) /\ u.at = live.at
           /\ item[i].type \notin Blocky => u.open = live.open /\ Shut(u) = Shut(live)
           /\ item[i].type \in Blocky /\ i \notin DOMAIN live.open => u = live
           /\ item[i].type \in Blocky /\ i \in DOMAIN live.open =>
                 /\ DOMAIN u.open = DOMAIN live.open \ {i}
                 /\ \A j \in DOMAIN live.open : j # i => u.open[j] = live.open[j]
                 /\ IF live.open[i].kind = "tool"
                    THEN /\ live.open[i].index \notin Shut(live)
                         /\ Shut(u) = Shut(live) \union {live.open[i].index}
                    ELSE Shut(u) = Shut(live)
PROOF
<1>1. CASE item[i].type = "reasoning"
  <2>1. u = ReasoningDone(live, i, seals)
    BY <1>1 DEF LiveDone
  <2>2. WellMade(u) /\ u.open = live.open /\ u.at = live.at /\ Shut(u) = Shut(live)
    BY <2>1, ReasoningDoneKeeps
  <2> QED BY <1>1, <2>2 DEF Blocky
<1>2. CASE item[i].type = "search"
  <2> DEFINE c == ThinkingClosed(live)
  <2>1. u = SearchDelayed(c)
    BY <1>2, Zenon DEF LiveDone, SearchDelayed
  <2>2. WellMade(c) /\ c.open = live.open /\ c.at = live.at /\ Shut(c) = Shut(live)
    BY ThinkingClosedIs
  <2> HIDE DEF c
  <2>3. WellMade(u) /\ u.at = c.at /\ u.open = c.open /\ u.message = c.message
    BY <2>1, <2>2, SearchDelayedKeeps
  <2> QED BY <1>2, <2>2, <2>3 DEF Blocky, Shut
<1>3. CASE item[i].type \in Blocky
  <2>1. CASE i \notin DOMAIN live.open
    <3>1. u = live
      BY <1>3, <2>1 DEF LiveDone, Blocky
    <3> QED BY <1>3, <2>1, <3>1
  <2>2. CASE i \in DOMAIN live.open /\ live.open[i].kind = "tool"
    <3>1. u = CallDone(live, i, given)
      BY <1>3, <2>2 DEF LiveDone, Blocky
    <3>2. WellMade(u) /\ u.at = live.at /\ Ends(live, u, i) /\ live.open[i].index \notin Shut(live)
          /\ Shut(u) = Shut(live) \union {live.open[i].index}
      BY <2>2, <3>1, CallDoneKeeps
    <3> QED BY <1>3, <2>2, <3>2 DEF Ends
  <2>3. CASE i \in DOMAIN live.open /\ live.open[i].kind # "tool" /\ live.open[i].deferred
    <3>1. u = TextDeferred(live, i)
      BY <1>3, <2>3, Zenon DEF LiveDone, TextDeferred, Blocky
    <3>2. /\ WellMade(u) /\ u.at = live.at /\ u.message = live.message
          /\ DOMAIN u.open = DOMAIN live.open \ {i}
          /\ \A j \in DOMAIN live.open : j # i => u.open[j] = live.open[j]
      BY <2>3, <3>1, TextDeferredKeeps
    <3> QED BY <1>3, <2>3, <3>2 DEF Shut
  <2>4. CASE i \in DOMAIN live.open /\ live.open[i].kind # "tool" /\ ~live.open[i].deferred
    <3>1. u = TextStopped(live, i)
      <4>1. WithoutBlock(live, i).message = live.message
        BY WithoutIs DEF WellMade
      <4> QED BY <1>3, <2>4, <4>1, Zenon DEF LiveDone, TextStopped, Blocky
    <3>2. live.open[i].kind = "text"
      BY <2>4, TranslatorIs DEF WellMade, OpenShape
    <3>3. WellMade(u) /\ u.at = live.at /\ Ends(live, u, i) /\ Shut(u) = Shut(live)
      BY <2>4, <3>1, <3>2, TextStoppedKeeps
    <3> QED BY <1>3, <2>4, <3>3 DEF Ends
  <2> QED BY <2>1, <2>2, <2>3, <2>4
<1> QED BY <1>1, <1>2, <1>3 DEF Types, Blocky

\* An item is done in the reducer.
LEMMA ReducedDoneKeeps ==
    ASSUME WellMade(reduced), \A j \in DOMAIN reduced.open : ~reduced.open[j].deferred,
           NEW i \in Item, item[i].type \in Types, NEW given \in BOOLEAN, NEW seals \in BOOLEAN,
           NEW u, u = ReducedDone(i, given, seals)
    PROVE  /\ WellMade(u) /\ u.at = reduced.at
           /\ item[i].type \notin Blocky => u.open = reduced.open
           /\ item[i].type \in Blocky /\ i \notin DOMAIN reduced.open => u = reduced
           /\ item[i].type \in Blocky /\ i \in DOMAIN reduced.open =>
                 /\ DOMAIN u.open = DOMAIN reduced.open \ {i}
                 /\ \A j \in DOMAIN reduced.open : j # i => u.open[j] = reduced.open[j]
PROOF
<1>1. CASE item[i].type = "reasoning"
  <2>1. u = ReasoningDone(reduced, i, seals)
    BY <1>1 DEF ReducedDone
  <2>2. WellMade(u) /\ u.open = reduced.open /\ u.at = reduced.at
    BY <2>1, ReasoningDoneKeeps
  <2> QED BY <1>1, <2>2 DEF Blocky
<1>2. CASE item[i].type = "search"
  <2> DEFINE c == ThinkingClosed(reduced)
  <2>1. u = Searched(c)
    BY <1>2, Zenon DEF ReducedDone, Searched, SearchIn
  <2>2. WellMade(c) /\ c.open = reduced.open /\ c.at = reduced.at
    BY ThinkingClosedIs
  <2> HIDE DEF c
  <2>3. WellMade(u) /\ u.at = c.at /\ u.open = c.open
    BY <2>1, <2>2, SearchedKeeps
  <2> QED BY <1>2, <2>2, <2>3 DEF Blocky
<1>3. CASE item[i].type \in Blocky
  <2>1. CASE i \notin DOMAIN reduced.open
    <3>1. u = reduced
      BY <1>3, <2>1 DEF ReducedDone, Blocky
    <3> QED BY <1>3, <2>1, <3>1
  <2>2. CASE i \in DOMAIN reduced.open /\ reduced.open[i].kind = "tool"
    <3>1. u = CallDone(reduced, i, given)
      BY <1>3, <2>2 DEF ReducedDone, Blocky
    <3>2. WellMade(u) /\ u.at = reduced.at /\ Ends(reduced, u, i)
      BY <2>2, <3>1, CallDoneKeeps
    <3> QED BY <1>3, <2>2, <3>2 DEF Ends
  <2>3. CASE i \in DOMAIN reduced.open /\ reduced.open[i].kind # "tool"
    <3>1. u = TextStopped(reduced, i)
      <4>1. WithoutBlock(reduced, i).message = reduced.message
        BY WithoutIs DEF WellMade
      <4> QED BY <1>3, <2>3, <4>1, Zenon DEF ReducedDone, TextStopped, Blocky
    <3>2. reduced.open[i].kind = "text"
      BY <2>3, TranslatorIs DEF WellMade, OpenShape
    <3>3. WellMade(u) /\ u.at = reduced.at /\ Ends(reduced, u, i)
      BY <2>3, <3>1, <3>2, TextStoppedKeeps
    <3> QED BY <1>3, <2>3, <3>3 DEF Ends
  <2> QED BY <2>1, <2>2, <2>3
<1> QED BY <1>1, <1>2, <1>3 DEF Types, Blocky

\* A block of t is longer.
Written(t, x, n) == [t EXCEPT !.message = Delta(t.message, x, n)]

\* An open block is written.
LEMMA WrittenKeeps ==
    ASSUME NEW t, WellMade(t), NEW x, IsOpen(t.message, x), NEW n \in Nat, NEW u, u = Written(t, x, n)
    PROVE  /\ WellMade(u) /\ u.message = Delta(t.message, x, n)
           /\ u.thinking = t.thinking /\ u.open = t.open /\ u.next = t.next
           /\ u.searches = t.searches /\ u.deferred = t.deferred /\ u.at = t.at
           /\ u.tools = t.tools /\ u.sealed = t.sealed
           /\ DOMAIN u.message.blocks = DOMAIN t.message.blocks /\ Shut(u) = Shut(t)
PROOF
<1>1. u = [t EXCEPT !.message = Delta(t.message, x, n)]
  BY DEF Written
<1> QED BY <1>1, DeltaKeeps

\* Text, where a buffered answer drops what came without its item.
LEMMA ReducedTextKeeps ==
    ASSUME WellMade(reduced), \A j \in DOMAIN reduced.open : ~reduced.open[j].deferred,
           NEW i \in Item, NEW u, u = ReducedText(i)
    PROVE  WellMade(u) /\ u.at = reduced.at /\ u.open = reduced.open
PROOF
<1> DEFINE c == ThinkingClosed(reduced)
           x == c.open[i].index
<1>1. WellMade(c) /\ c.open = reduced.open /\ c.at = reduced.at
  BY ThinkingClosedIs
<1>2. CASE i \notin DOMAIN c.open \/ c.open[i].kind # "text"
  <2>1. u = c
    BY <1>2 DEF ReducedText
  <2> QED BY <1>1, <2>1
<1>3. CASE i \in DOMAIN c.open /\ c.open[i].kind = "text"
  <2>1. u = Written(c, x, 1)
    BY <1>3, Zenon DEF ReducedText, Written
  <2> HIDE DEF c
  <2>2. IsOpen(c.message, x) /\ 1 \in Nat
    BY <1>1, <1>3, ToolIs
  <2> HIDE DEF x
  <2>3. WellMade(u) /\ u.open = c.open /\ u.at = c.at
    BY <1>1, <2>1, <2>2, WrittenKeeps
  <2> QED BY <1>1, <2>3
<1> QED BY <1>2, <1>3

\* The calls that are complete.
DoneCalls(it) == {i \in Item : it[i].at = "done" /\ it[i].type \in Calls}

\* An item has a type once it is heard of; only texts come without being added.
ItemsAreSound(it) ==
    /\ it \in [Item -> ItemTold]
    /\ \A i \in Item : /\ it[i].at = "new" <=> it[i].type = "none"
                       /\ it[i].at \in {"begun", "ended"} => it[i].type = "message"

\* The live stream: as many calls are shut as are complete, unless it ended by
\* completion or repair; and by completion, every index has its block, stopped.
LiveIsSound(t, it) ==
    /\ WellMade(t)
    /\ t.at = "open" => Tracks(t, it, {"added", "begun"})
    /\ t.at \in {"open", "failed", "closed"} => Cardinality(Shut(t)) = Cardinality(DoneCalls(it))
    /\ t.at = "completed" => /\ DOMAIN t.message.blocks = 0 .. t.next - 1
                             /\ \A b \in DOMAIN t.message.blocks : ~t.message.blocks[b].open

\* The reducer, where nothing waits; it drops the text of an item that was never
\* added.
ReducedIsSound(t, it) ==
    /\ WellMade(t) /\ \A i \in DOMAIN t.open : ~t.open[i].deferred
    /\ t.at = "open" => Tracks(t, it, {"added"})

\* The inductive invariant of both.
StreamsAreSound ==
    /\ ItemsAreSound(item) /\ events \in 0 .. MaxEvents
    /\ LiveIsSound(live, item) /\ ReducedIsSound(reduced, item)

\* What the upstream tells of an item.
ItemKnown(type, at) == [type |-> type, at |-> at]

\* It is what an item may be.
LEMMA ToldIs ==
    ASSUME NEW type \in Types, NEW at \in {"new", "begun", "ended", "added", "done"}
    PROVE  ItemKnown(type, at) \in ItemTold /\ ItemKnown(type, at).type = type /\ ItemKnown(type, at).at = at
BY DEF ItemKnown, ItemTold

\* An item moves on.
LEMMA ItemsMove ==
    ASSUME NEW it, ItemsAreSound(it), NEW i \in Item, NEW new \in ItemTold, new.type # "none", new.at # "new",
           new.at \in {"begun", "ended"} => new.type = "message",
           NEW toldOf, toldOf = [it EXCEPT ![i] = new]
    PROVE  ItemsAreSound(toldOf)
PROOF
<1>1. toldOf \in [Item -> ItemTold] /\ toldOf[i] = new /\ \A j \in Item : j # i => toldOf[j] = it[j]
  BY DEF ItemsAreSound
<1> QED BY <1>1 DEF ItemsAreSound

\* No call becomes complete.
LEMMA CallsStay ==
    ASSUME NEW it, ItemsAreSound(it), NEW i \in Item, NEW new \in ItemTold,
           new.at # "done" \/ new.type \notin Calls, it[i].at # "done" \/ it[i].type \notin Calls,
           NEW toldOf, toldOf = [it EXCEPT ![i] = new]
    PROVE  DoneCalls(toldOf) = DoneCalls(it)
PROOF
<1>1. toldOf[i] = new /\ \A j \in Item : j # i => toldOf[j] = it[j]
  BY DEF ItemsAreSound
<1> QED BY <1>1 DEF DoneCalls

\* A call becomes complete.
LEMMA CallIsDone ==
    ASSUME NEW it, ItemsAreSound(it), NEW i \in Item, NEW new \in ItemTold,
           new.at = "done", new.type \in Calls, NEW toldOf, toldOf = [it EXCEPT ![i] = new]
    PROVE  DoneCalls(toldOf) = DoneCalls(it) \union {i}
PROOF
<1>1. toldOf[i] = new /\ \A j \in Item : j # i => toldOf[j] = it[j]
  BY DEF ItemsAreSound
<1> QED BY <1>1 DEF DoneCalls

\* Where the same is open, of the same kinds.
LEMMA TracksStays ==
    ASSUME NEW t, NEW u, NEW it, NEW S, Tracks(t, it, S), DOMAIN u.open = DOMAIN t.open,
           \A j \in DOMAIN t.open : u.open[j].kind = t.open[j].kind
    PROVE  Tracks(u, it, S)
BY DEF Tracks

\* A step that tells of an item and leaves what is open.
LEMMA TracksTold ==
    ASSUME NEW t, NEW u, NEW it \in [Item -> ItemTold], NEW S, Tracks(t, it, S), NEW i \in Item,
           NEW new \in ItemTold, NEW toldOf, toldOf = [it EXCEPT ![i] = new],
           u.open = t.open, DOMAIN t.open \subseteq Item, i \notin DOMAIN t.open,
           new.type \notin Blocky \/ new.at \notin S
    PROVE  Tracks(u, toldOf, S)
PROOF
<1> QED BY TracksMoves, Zenon

\* There are finitely many blocks.
LEMMA ShutIsFinite ==
    ASSUME NEW t, WellMade(t)
    PROVE  IsFiniteSet(Shut(t))
PROOF
<1>1. t.next - 1 \in Int /\ 0 \in Int
  BY TranslatorIs DEF WellMade
<1>2. IsFiniteSet(0 .. t.next - 1)
  BY <1>1, FS_Interval
<1>3. Shut(t) \subseteq 0 .. t.next - 1
  BY DEF WellMade, Places, Shut
<1> QED BY <1>2, <1>3, FS_Subset, Zenon

\* The invariant holds before the first event.
LEMMA StreamsBegin ==
    ASSUME TranslationInit
    PROVE  StreamsAreSound
PROOF
<1> DEFINE none == ItemKnown("none", "new")
<1>1. item = [i \in Item |-> none] /\ events = 0
  BY Zenon DEF TranslationInit, ItemKnown
<1>2. none \in ItemTold /\ none.at = "new" /\ none.type = "none"
  BY DEF ItemKnown, ItemTold
<1> HIDE DEF none
<1>3. ItemsAreSound(item) /\ DoneCalls(item) = {} /\ \A i \in Item : item[i].at = "new"
  BY <1>1, <1>2 DEF ItemsAreSound, DoneCalls
<1>4. events \in 0 .. MaxEvents
  BY <1>1, StreamTranslationAssumption
<1> DEFINE empty == [message |-> EmptyMessage, open |-> <<>>, next |-> 0, thinking |-> NoThinking,
                     sealed |-> {}, tools |-> FALSE, at |-> "open",
                     searches |-> <<>>, deferred |-> <<>>]
<1>5. live = empty /\ reduced = empty
  BY DEF TranslationInit
<1>6. EmptyMessage \in MessageShape /\ DOMAIN EmptyMessage.blocks = {} /\ ~EmptyMessage.broken
  <2>1. <<>> \in PartialFunctions(Nat, BlockShape)
    BY DEF PartialFunctions
  <2> QED BY <2>1 DEF EmptyMessage, MessageShape
<1>7. NoThinking \in [item: Item \union {NoBlock}, index: Nat] /\ NoThinking.item = NoBlock
  BY DEF NoThinking
<1>8. /\ empty.message = EmptyMessage /\ DOMAIN empty.open = {} /\ empty.next = 0
      /\ empty.thinking = NoThinking /\ empty.at = "open"
      /\ DOMAIN empty.searches = {} /\ DOMAIN empty.deferred = {}
  OBVIOUS
<1>9. empty \in TranslatorShape
  <2>1. <<>> \in PartialFunctions(Item, OpenShape)
    BY DEF PartialFunctions
  <2>2. "open" \in Phase
    BY DEF Phase
  <2> QED BY <1>6, <1>7, <2>1, <2>2 DEF TranslatorShape
<1> HIDE DEF empty
<1>10. \A b : ~Waits(empty, b)
  BY <1>8 DEF Waits
<1>11. Places(empty) /\ Apart(empty) /\ Thinks(empty) /\ Opens(empty) /\ Known(empty)
  BY <1>6, <1>7, <1>8, <1>10 DEF Places, Apart, Thinks, Opens, Known
<1>12. WellMade(empty)
  BY <1>6, <1>8, <1>9, <1>11 DEF WellMade
<1>13. \A S \in SUBSET {"added", "begun"} : Tracks(empty, item, S)
  BY <1>3, <1>8 DEF Tracks
<1>14. Shut(empty) = {}
  BY <1>6, <1>8 DEF Shut
<1>15. LiveIsSound(empty, item)
  <2>1. empty.at # "completed"
    BY <1>8
  <2>2. Tracks(empty, item, {"added", "begun"})
    BY <1>13
  <2> QED BY <1>3, <1>12, <1>14, <2>1, <2>2 DEF LiveIsSound
<1>16. ReducedIsSound(empty, item)
  <2>1. Tracks(empty, item, {"added"})
    BY <1>13
  <2> QED BY <1>8, <1>12, <2>1 DEF ReducedIsSound
<1> QED BY <1>3, <1>4, <1>5, <1>15, <1>16 DEF StreamsAreSound

\* An event is read by whoever has not ended.
LEMMA ReadsIs ==
    ASSUME NEW l, NEW r, Event, Reads(l, r)
    PROVE  /\ live.at = "open" /\ live' = l /\ events < MaxEvents /\ events' = events + 1
           /\ reduced.at = "open" => reduced' = r
           /\ reduced.at # "open" => reduced' = reduced
BY DEF Event, Reads

\* Events are counted.
LEMMA EventCounts ==
    ASSUME events \in 0 .. MaxEvents, Event
    PROVE  events' \in 0 .. MaxEvents
BY StreamTranslationAssumption DEF Event

\* A reducer that has stopped is left alone, whatever its items do.
LEMMA ReducedRests ==
    ASSUME NEW t, NEW it, ReducedIsSound(t, it), t.at # "open", NEW toldOf
    PROVE  ReducedIsSound(t, toldOf)
BY DEF ReducedIsSound

\* Each event keeps the invariant.
LEMMA ItemAddedIsSound ==
    ASSUME StreamsAreSound, NEW i \in Item, ItemAdded(i)
    PROVE  StreamsAreSound'
PROOF
<1>1. PICK type \in Types, seals \in BOOLEAN :
         /\ Tells(i, type, "added")
         /\ Reads(LiveAdded(i, type, seals), ReducedAdded(i, type, seals))
  BY DEF ItemAdded
<1> DEFINE l == LiveAdded(i, type, seals)
           r == ReducedAdded(i, type, seals)
           new == ItemKnown(type, "added")
           waits == live.searches # <<>>
           no == FALSE
<1>2. /\ live.at = "open" /\ live' = l /\ (reduced.at = "open" => reduced' = r)
      /\ (reduced.at # "open" => reduced' = reduced) /\ events' \in 0 .. MaxEvents
  <2>1. Event /\ Reads(l, r) /\ events \in 0 .. MaxEvents
    BY <1>1 DEF ItemAdded, StreamsAreSound
  <2> HIDE DEF l, r
  <2> QED BY <2>1, ReadsIs, EventCounts
<1>3. /\ item' = [item EXCEPT ![i] = new] /\ new \in ItemTold /\ new.type = type /\ new.at = "added"
      /\ new.type # "none"
  <2>1. item' = [item EXCEPT ![i] = new]
    BY <1>1 DEF Tells, ItemKnown
  <2> QED BY <2>1, ToldIs DEF Types
<1>4. item[i].at = "new" /\ ItemsAreSound(item) /\ item \in [Item -> ItemTold]
  BY DEF ItemAdded, StreamsAreSound, ItemsAreSound
<1>5. l = Added(live, i, type, seals, waits) /\ r = Added(reduced, i, type, seals, no)
  BY Zenon DEF LiveAdded, ReducedAdded, Added
<1>6. waits \in BOOLEAN /\ no \in BOOLEAN /\ ~no
  OBVIOUS
<1> HIDE DEF l, r, new, waits, no
<1>7. ItemsAreSound(item)' /\ DoneCalls(item') = DoneCalls(item)
  <2>1. ItemsAreSound(item') /\ DoneCalls(item') = DoneCalls(item)
    <3>1. new.at # "new" /\ new.at # "done" /\ new.at \notin {"begun", "ended"} /\ item[i].at # "done"
      BY <1>3, <1>4
    <3> QED BY <1>3, <1>4, <3>1, ItemsMove, CallsStay, Zenon
  <2> QED BY <2>1 DEF ItemsAreSound
<1>8. LiveIsSound(live, item)'
  <2>1. WellMade(live) /\ Tracks(live, item, {"added", "begun"})
        /\ Cardinality(Shut(live)) = Cardinality(DoneCalls(item))
    BY <1>2 DEF StreamsAreSound, LiveIsSound
  <2>2. i \notin DOMAIN live.open /\ DOMAIN live.open \subseteq Item
    BY <1>4, <2>1, TranslatorIs, Zenon DEF Tracks, WellMade
  <2>3. /\ WellMade(l) /\ l.at = live.at /\ Shut(l) = Shut(live)
        /\ type \notin Blocky => l.open = live.open
        /\ type \in Blocky => /\ DOMAIN l.open = DOMAIN live.open \union {i}
                              /\ l.open[i].kind = "tool" <=> type \in Calls
        /\ \A j \in DOMAIN live.open : l.open[j] = live.open[j]
    BY <1>5, <1>6, <2>1, <2>2, AddedKeeps
  <2>4. Tracks(l, item', {"added", "begun"})
    BY <1>3, <1>4, <2>1, <2>2, <2>3, TracksMoves, Zenon
  <2>5. LiveIsSound(l, item')
    BY <1>2, <1>7, <2>1, <2>3, <2>4 DEF LiveIsSound
  <2> QED BY <1>2, <2>5 DEF LiveIsSound
<1>9. ReducedIsSound(reduced, item)'
  <2>1. ReducedIsSound(reduced, item)
    BY DEF StreamsAreSound
  <2>2. CASE reduced.at # "open"
    <3>1. ReducedIsSound(reduced, item')
      BY <2>1, <2>2, ReducedRests
    <3> QED BY <1>2, <2>2, <3>1 DEF ReducedIsSound
  <2>3. CASE reduced.at = "open"
    <3>1. WellMade(reduced) /\ Tracks(reduced, item, {"added"})
          /\ \A j \in DOMAIN reduced.open : ~reduced.open[j].deferred
      BY <2>1, <2>3 DEF ReducedIsSound
    <3>2. i \notin DOMAIN reduced.open /\ DOMAIN reduced.open \subseteq Item
      BY <1>4, <3>1, TranslatorIs DEF Tracks, WellMade
    <3>3. /\ WellMade(r) /\ r.at = reduced.at
          /\ type \notin Blocky => r.open = reduced.open
          /\ type \in Blocky => /\ DOMAIN r.open = DOMAIN reduced.open \union {i}
                                /\ r.open[i].kind = "tool" <=> type \in Calls
                                /\ r.open[i].deferred => no
          /\ \A j \in DOMAIN reduced.open : r.open[j] = reduced.open[j]
      BY <1>5, <1>6, <3>1, <3>2, AddedKeeps
    <3>4. Tracks(r, item', {"added"})
      BY <1>3, <1>4, <3>1, <3>2, <3>3, TracksMoves, Zenon
    <3>5. ReducedIsSound(r, item')
      BY <1>6, <3>1, <3>3, <3>4 DEF ReducedIsSound
    <3> QED BY <1>2, <2>3, <3>5 DEF ReducedIsSound
  <2> QED BY <2>2, <2>3
<1> QED BY <1>2, <1>7, <1>8, <1>9 DEF StreamsAreSound

\* It is enough to look at a translator that still reads.
LEMMA StepIsSound ==
    ASSUME StreamsAreSound, NEW l, NEW r, Event, Reads(l, r), ItemsAreSound(item'),
           live.at = "open" => LiveIsSound(l, item'),
           reduced.at = "open" => ReducedIsSound(r, item')
    PROVE  StreamsAreSound'
PROOF
<1>1. /\ live.at = "open" /\ live' = l /\ (reduced.at = "open" => reduced' = r)
      /\ (reduced.at # "open" => reduced' = reduced) /\ events' \in 0 .. MaxEvents
  <2>1. events \in 0 .. MaxEvents
    BY DEF StreamsAreSound
  <2> QED BY <2>1, ReadsIs, EventCounts
<1>2. ItemsAreSound(item)'
  BY DEF ItemsAreSound
<1>3. LiveIsSound(live, item)'
  BY <1>1 DEF LiveIsSound
<1>4. ReducedIsSound(reduced, item)'
  <2>1. CASE reduced.at # "open"
    <3>1. ReducedIsSound(reduced, item')
      BY <2>1, ReducedRests DEF StreamsAreSound
    <3> QED BY <1>1, <2>1, <3>1 DEF ReducedIsSound
  <2>2. CASE reduced.at = "open"
    BY <1>1, <2>2 DEF ReducedIsSound
  <2> QED BY <2>1, <2>2
<1> QED BY <1>1, <1>2, <1>3, <1>4 DEF StreamsAreSound

\* What is open stays, and so do the blocks of calls that are complete.
LEMMA LiveStays ==
    ASSUME NEW t, NEW it, LiveIsSound(t, it), t.at = "open", NEW toldOf, NEW u, WellMade(u), u.at = "open",
           Shut(u) = Shut(t), DoneCalls(toldOf) = DoneCalls(it), Tracks(u, toldOf, {"added", "begun"})
    PROVE  LiveIsSound(u, toldOf)
BY DEF LiveIsSound

\* A summary may be the first that is heard of its item.
LEMMA FirstHeard ==
    ASSUME ItemsAreSound(item), NEW i \in Item, NEW type \in Types, NEW at \in {"added", "begun"},
           at = "begun" => type = "message",
           IF item[i].at = "new" THEN Tells(i, type, at) ELSE UNCHANGED item
    PROVE  /\ ItemsAreSound(item') /\ DoneCalls(item') = DoneCalls(item)
           /\ item[i].at = "new" =>
                 item' = [item EXCEPT ![i] = ItemKnown(type, at)]
           /\ item[i].at # "new" => item' = item
           /\ ItemKnown(type, at) \in ItemTold /\ ItemKnown(type, at).type = type /\ ItemKnown(type, at).at = at
PROOF
<1> DEFINE new == ItemKnown(type, at)
<1>1. new \in ItemTold /\ new.type = type /\ new.at = at
  BY ToldIs
<1>2. CASE item[i].at = "new"
  <2>1. item' = [item EXCEPT ![i] = new]
    BY <1>2, Zenon DEF Tells, ItemKnown
  <2>2. new.type # "none" /\ new.at # "new" /\ new.at # "done" /\ item[i].at # "done"
        /\ (new.at \in {"begun", "ended"} => new.type = "message")
    BY <1>1, <1>2 DEF Types
  <2>3. item \in [Item -> ItemTold] /\ ItemsAreSound(item)
    BY DEF ItemsAreSound
  <2> HIDE DEF new
  <2>4. ItemsAreSound(item')
    BY <1>1, <2>1, <2>2, <2>3, ItemsMove, Zenon
  <2>5. DoneCalls(item') = DoneCalls(item)
    BY <1>1, <2>1, <2>2, <2>3, CallsStay, ZenonT(30)
  <2> QED BY <1>1, <1>2, <2>1, <2>4, <2>5 DEF new
<1>3. CASE item[i].at # "new"
  BY <1>1, <1>3
<1> QED BY <1>2, <1>3

\* A piece of a summary keeps the invariant.
LEMMA SummaryDeltaIsSound ==
    ASSUME StreamsAreSound, NEW i \in Item, SummaryDelta(i)
    PROVE  StreamsAreSound'
PROOF
<1> DEFINE l == Summarised(live, i)
           r == Summarised(reduced, i)
           new == ItemKnown("reasoning", "added")
<1>1. Event /\ Reads(l, r) /\ ItemsAreSound(item) /\ item[i].type \in {"none", "reasoning"}
  BY DEF SummaryDelta, StreamsAreSound
<1>2. /\ ItemsAreSound(item') /\ DoneCalls(item') = DoneCalls(item)
      /\ item[i].at = "new" => item' = [item EXCEPT ![i] = new]
      /\ item[i].at # "new" => item' = item
      /\ new \in ItemTold /\ new.type = "reasoning"
  <2>1. IF item[i].at = "new" THEN Tells(i, "reasoning", "added") ELSE UNCHANGED item
    BY DEF SummaryDelta
  <2>2. "reasoning" \in Types /\ "added" \in {"added", "begun"} /\ "added" # "begun"
    BY DEF Types
  <2> QED BY <1>1, <2>1, <2>2, FirstHeard
<1> HIDE DEF l, r, new
<1>3. ASSUME NEW t, NEW u, NEW S, WellMade(t), Tracks(t, item, S), u.open = t.open
      PROVE  Tracks(u, item', S)
  <2>1. CASE item[i].at # "new"
    <3>1. Tracks(u, item, S)
      BY <1>3, TracksStays
    <3> QED BY <1>2, <2>1, <3>1
  <2>2. CASE item[i].at = "new"
    <3>1. i \notin DOMAIN t.open
      BY <1>1, <1>3 DEF Tracks, Blocky
    <3>2. item \in [Item -> ItemTold] /\ new.type \notin Blocky /\ DOMAIN t.open \subseteq Item
      BY <1>1, <1>2, <1>3, TranslatorIs DEF ItemsAreSound, Blocky, WellMade
    <3> QED BY <1>2, <1>3, <2>2, <3>1, <3>2, TracksTold, Zenon
  <2> QED BY <2>1, <2>2
<1>4. ASSUME live.at = "open" PROVE LiveIsSound(l, item')
  <2>1. LiveIsSound(live, item) /\ WellMade(live) /\ Tracks(live, item, {"added", "begun"})
    BY <1>4 DEF StreamsAreSound, LiveIsSound
  <2>2. WellMade(l) /\ l.open = live.open /\ l.at = live.at /\ Shut(l) = Shut(live)
    BY <2>1, SummarisedKeeps DEF l
  <2>3. Tracks(l, item', {"added", "begun"})
    BY <1>3, <2>1, <2>2
  <2> QED BY <1>2, <1>4, <2>1, <2>2, <2>3, LiveStays
<1>5. ASSUME reduced.at = "open" PROVE ReducedIsSound(r, item')
  <2>1. /\ ReducedIsSound(reduced, item) /\ WellMade(reduced) /\ Tracks(reduced, item, {"added"})
        /\ \A j \in DOMAIN reduced.open : ~reduced.open[j].deferred
    BY <1>5 DEF StreamsAreSound, ReducedIsSound
  <2>2. WellMade(r) /\ r.open = reduced.open /\ r.at = reduced.at
    BY <2>1, SummarisedKeeps DEF r
  <2>3. Tracks(r, item', {"added"})
    BY <1>3, <2>1, <2>2
  <2> QED BY <2>1, <2>2, <2>3 DEF ReducedIsSound
<1> QED BY <1>1, <1>2, <1>4, <1>5, StepIsSound

\* The separator of two summaries.
Separated(t, i) == IF t.thinking.item # i THEN t ELSE Written(t, t.thinking.index, 1)

\* A separator is written into the thought, if it is this item's.
LEMMA SeparatedKeeps ==
    ASSUME NEW t, WellMade(t), NEW i \in Item, NEW u, u = Separated(t, i)
    PROVE  WellMade(u) /\ u.open = t.open /\ u.at = t.at /\ Shut(u) = Shut(t)
PROOF
<1>1. CASE t.thinking.item # i
  BY <1>1 DEF Separated
<1>2. CASE t.thinking.item = i
  <2> DEFINE x == t.thinking.index
  <2>1. u = Written(t, x, 1)
    BY <1>2 DEF Separated
  <2>2. i # NoBlock
    BY StreamTranslationAssumption DEF NoBlock
  <2>3. IsOpen(t.message, x) /\ 1 \in Nat
    BY <1>2, <2>2 DEF WellMade, Thinks
  <2> HIDE DEF x
  <2> QED BY <2>1, <2>3, WrittenKeeps
<1> QED BY <1>1, <1>2

\* A separator keeps the invariant.
LEMMA SummaryPartIsSound ==
    ASSUME StreamsAreSound, NEW i \in Item, SummaryPart(i)
    PROVE  StreamsAreSound'
PROOF
<1> DEFINE l == Separated(live, i)
           r == Separated(reduced, i)
<1>1. Event /\ Reads(l, r) /\ item' = item
  BY Zenon DEF SummaryPart, Separated, Written
<1>2. ItemsAreSound(item') /\ DoneCalls(item') = DoneCalls(item)
  BY <1>1 DEF StreamsAreSound
<1> HIDE DEF l, r
<1>3. ASSUME live.at = "open" PROVE LiveIsSound(l, item')
  <2>1. LiveIsSound(live, item) /\ WellMade(live) /\ Tracks(live, item, {"added", "begun"})
    BY <1>3 DEF StreamsAreSound, LiveIsSound
  <2>2. WellMade(l) /\ l.open = live.open /\ l.at = live.at /\ Shut(l) = Shut(live)
    BY <2>1, SeparatedKeeps DEF l
  <2>3. Tracks(l, item', {"added", "begun"})
    BY <1>1, <2>1, <2>2, TracksStays
  <2> QED BY <1>2, <1>3, <2>1, <2>2, <2>3, LiveStays
<1>4. ASSUME reduced.at = "open" PROVE ReducedIsSound(r, item')
  <2>1. /\ ReducedIsSound(reduced, item) /\ WellMade(reduced) /\ Tracks(reduced, item, {"added"})
        /\ \A j \in DOMAIN reduced.open : ~reduced.open[j].deferred
    BY <1>4 DEF StreamsAreSound, ReducedIsSound
  <2>2. WellMade(r) /\ r.open = reduced.open /\ r.at = reduced.at
    BY <2>1, SeparatedKeeps DEF r
  <2>3. Tracks(r, item', {"added"})
    BY <1>1, <2>1, <2>2, TracksStays
  <2> QED BY <2>1, <2>2, <2>3 DEF ReducedIsSound
<1> QED BY <1>1, <1>2, <1>3, <1>4, StepIsSound

\* A piece of text keeps the invariant.
LEMMA TextDeltaIsSound ==
    ASSUME StreamsAreSound, NEW i \in Item, TextDelta(i)
    PROVE  StreamsAreSound'
PROOF
<1> DEFINE l == LiveText(i)
           r == ReducedText(i)
           new == ItemKnown("message", "begun")
<1>1. /\ Event /\ Reads(l, r) /\ ItemsAreSound(item) /\ item[i].type \in {"none", "message"}
      /\ item[i].at \in {"new", "begun", "added"}
  BY DEF TextDelta, StreamsAreSound
<1>2. /\ ItemsAreSound(item') /\ DoneCalls(item') = DoneCalls(item)
      /\ item[i].at = "new" => item' = [item EXCEPT ![i] = new]
      /\ item[i].at # "new" => item' = item
      /\ new \in ItemTold /\ new.type = "message" /\ new.at = "begun"
  <2>1. IF item[i].at = "new" THEN Tells(i, "message", "begun") ELSE UNCHANGED item
    BY DEF TextDelta
  <2>2. "message" \in Types /\ "begun" \in {"added", "begun"}
    BY DEF Types
  <2> QED BY <1>1, <2>1, <2>2, FirstHeard
<1>3. item \in [Item -> ItemTold] /\ (item[i].at # "new" => item[i].type = "message")
  BY <1>1 DEF ItemsAreSound
<1> HIDE DEF l, r, new
<1>4. ASSUME live.at = "open" PROVE LiveIsSound(l, item')
  <2>1. LiveIsSound(live, item) /\ WellMade(live) /\ Tracks(live, item, {"added", "begun"})
    BY <1>4 DEF StreamsAreSound, LiveIsSound
  <2>2. DOMAIN live.open \subseteq Item /\ \A j \in DOMAIN live.open : live.open[j] \in OpenShape
    BY <2>1, TranslatorIs DEF WellMade
  <2>3. i \in DOMAIN live.open => live.open[i].kind = "text"
    BY <1>1, <2>1, <2>2 DEF Tracks, OpenShape, Calls
  <2>4. /\ WellMade(l) /\ l.at = live.at /\ Shut(l) = Shut(live)
        /\ DOMAIN l.open = DOMAIN live.open \union {i} /\ l.open[i].kind = "text"
        /\ \A j \in DOMAIN live.open : l.open[j].kind = live.open[j].kind
    BY <2>1, <2>3, LiveTextKeeps DEF l
  <2>5. Tracks(l, item', {"added", "begun"})
    <3>1. CASE item[i].at = "new"
      <4>1. new.type \in Blocky /\ new.type \notin Calls /\ new.at \in {"added", "begun"}
        BY <1>2 DEF Blocky, Calls
      <4>2. DOMAIN l.open \subseteq Item /\ i \in DOMAIN l.open /\ l.open[i].kind # "tool"
        BY <2>2, <2>4
      <4>3. /\ \A j \in Item : j # i => (j \in DOMAIN l.open <=> j \in DOMAIN live.open)
            /\ \A j \in DOMAIN live.open : j # i => l.open[j].kind = live.open[j].kind
        BY <2>4
      <4>4. /\ i \in DOMAIN l.open <=> new.type \in Blocky /\ new.at \in {"added", "begun"}
            /\ i \in DOMAIN l.open => (l.open[i].kind = "tool" <=> new.type \in Calls)
        BY <4>1, <4>2
      <4>5. item' = [item EXCEPT ![i] = new] /\ new \in ItemTold
        BY <1>2, <3>1
      <4> QED BY <1>3, <2>1, <4>2, <4>3, <4>4, <4>5, TracksMoves, Zenon
    <3>2. CASE item[i].at # "new"
      <4>1. i \in DOMAIN live.open
        BY <1>1, <1>3, <2>1, <3>2 DEF Tracks, Blocky
      <4>2. DOMAIN l.open = DOMAIN live.open
        BY <2>4, <4>1
      <4> QED BY <1>2, <2>1, <2>4, <3>2, <4>2, TracksStays
    <3> QED BY <3>1, <3>2
  <2> QED BY <1>2, <1>4, <2>1, <2>4, <2>5, LiveStays
<1>5. ASSUME reduced.at = "open" PROVE ReducedIsSound(r, item')
  <2>1. /\ ReducedIsSound(reduced, item) /\ WellMade(reduced) /\ Tracks(reduced, item, {"added"})
        /\ \A j \in DOMAIN reduced.open : ~reduced.open[j].deferred
    BY <1>5 DEF StreamsAreSound, ReducedIsSound
  <2>2. WellMade(r) /\ r.open = reduced.open /\ r.at = reduced.at
    BY <2>1, ReducedTextKeeps DEF r
  <2>3. Tracks(r, item', {"added"})
    <3>1. CASE item[i].at = "new"
      <4>1. i \notin DOMAIN reduced.open /\ DOMAIN reduced.open \subseteq Item
        BY <2>1, <3>1, TranslatorIs DEF Tracks, WellMade
      <4>2. new.at \notin {"added"}
        BY <1>2
      <4> QED BY <1>2, <1>3, <2>1, <2>2, <3>1, <4>1, <4>2, TracksTold, Zenon
    <3>2. CASE item[i].at # "new"
      BY <1>2, <2>1, <2>2, <3>2, TracksStays
    <3> QED BY <3>1, <3>2
  <2> QED BY <2>1, <2>2, <2>3 DEF ReducedIsSound
<1> QED BY <1>1, <1>2, <1>4, <1>5, StepIsSound

\* A piece of arguments keeps the invariant.
LEMMA ArgumentsDeltaIsSound ==
    ASSUME StreamsAreSound, NEW i \in Item, ArgumentsDelta(i)
    PROVE  StreamsAreSound'
PROOF
<1>1. PICK stalls \in BOOLEAN : Reads(ArgumentsRead(live, i, stalls), ArgumentsRead(reduced, i, stalls))
  BY DEF ArgumentsDelta
<1> DEFINE l == ArgumentsRead(live, i, stalls)
           r == ArgumentsRead(reduced, i, stalls)
<1>2. Event /\ Reads(l, r) /\ item' = item /\ ItemsAreSound(item') /\ DoneCalls(item') = DoneCalls(item)
  BY <1>1 DEF ArgumentsDelta, StreamsAreSound
<1> HIDE DEF l, r
<1>3. ASSUME live.at = "open" PROVE LiveIsSound(l, item')
  <2>1. LiveIsSound(live, item) /\ WellMade(live) /\ Tracks(live, item, {"added", "begun"})
    BY <1>3 DEF StreamsAreSound, LiveIsSound
  <2>2. WellMade(l) /\ (l.at = "repaired" \/ (l.at = "open" /\ SameOpen(live, l) /\ Shut(l) = Shut(live)))
    BY <1>3, <2>1, ArgumentsReadKeeps DEF l
  <2>3. CASE l.at = "repaired"
    BY <2>2, <2>3 DEF LiveIsSound
  <2>4. CASE l.at = "open" /\ SameOpen(live, l) /\ Shut(l) = Shut(live)
    <3>1. Tracks(l, item', {"added", "begun"})
      BY <1>2, <2>1, <2>4, TracksStays DEF SameOpen
    <3> QED BY <1>2, <1>3, <2>1, <2>2, <2>4, <3>1, LiveStays
  <2> QED BY <2>2, <2>3, <2>4
<1>4. ASSUME reduced.at = "open" PROVE ReducedIsSound(r, item')
  <2>1. /\ ReducedIsSound(reduced, item) /\ WellMade(reduced) /\ Tracks(reduced, item, {"added"})
        /\ \A j \in DOMAIN reduced.open : ~reduced.open[j].deferred
    BY <1>4 DEF StreamsAreSound, ReducedIsSound
  <2>2. /\ WellMade(r) /\ (r.at = "repaired" \/ (r.at = "open" /\ SameOpen(reduced, r)))
        /\ \A j \in DOMAIN r.open : ~r.open[j].deferred
    <3>1. /\ WellMade(r) /\ (r.at = "repaired" \/ (r.at = "open" /\ SameOpen(reduced, r)))
      BY <1>4, <2>1, ArgumentsReadKeeps DEF r
    <3>2. \A j \in DOMAIN r.open : j \in DOMAIN reduced.open /\ r.open[j].deferred = reduced.open[j].deferred
      BY <1>4, <2>1, ArgumentsReadKeeps DEF r
    <3> QED BY <2>1, <3>1, <3>2
  <2>3. CASE r.at = "repaired"
    BY <2>2, <2>3 DEF ReducedIsSound
  <2>4. CASE r.at = "open" /\ SameOpen(reduced, r)
    <3>1. Tracks(r, item', {"added"})
      BY <1>2, <2>1, <2>4, TracksStays DEF SameOpen
    <3> QED BY <2>2, <2>4, <3>1 DEF ReducedIsSound
  <2> QED BY <2>2, <2>3, <2>4
<1> QED BY <1>2, <1>3, <1>4, StepIsSound

\* Arguments that are given at once keep the invariant.
LEMMA ArgumentsDoneIsSound ==
    ASSUME StreamsAreSound, NEW i \in Item, ArgumentsDone(i)
    PROVE  StreamsAreSound'
PROOF
<1> DEFINE l == ArgumentsGiven(live, i)
           r == ArgumentsGiven(reduced, i)
<1>2. Event /\ Reads(l, r) /\ item' = item /\ ItemsAreSound(item') /\ DoneCalls(item') = DoneCalls(item)
  BY DEF ArgumentsDone, StreamsAreSound
<1> HIDE DEF l, r
<1>3. ASSUME live.at = "open" PROVE LiveIsSound(l, item')
  <2>1. LiveIsSound(live, item) /\ WellMade(live) /\ Tracks(live, item, {"added", "begun"})
    BY <1>3 DEF StreamsAreSound, LiveIsSound
  <2>2. WellMade(l) /\ l.at = live.at /\ SameOpen(live, l) /\ Shut(l) = Shut(live)
    BY <2>1, ArgumentsGivenKeeps DEF l
  <2>3. Tracks(l, item', {"added", "begun"})
    BY <1>2, <2>1, <2>2, TracksStays DEF SameOpen
  <2> QED BY <1>2, <1>3, <2>1, <2>2, <2>3, LiveStays
<1>4. ASSUME reduced.at = "open" PROVE ReducedIsSound(r, item')
  <2>1. /\ ReducedIsSound(reduced, item) /\ WellMade(reduced) /\ Tracks(reduced, item, {"added"})
        /\ \A j \in DOMAIN reduced.open : ~reduced.open[j].deferred
    BY <1>4 DEF StreamsAreSound, ReducedIsSound
  <2>2. WellMade(r) /\ r.at = reduced.at /\ SameOpen(reduced, r)
    BY <2>1, ArgumentsGivenKeeps DEF r
  <2>3. Tracks(r, item', {"added"})
    BY <1>2, <2>1, <2>2, TracksStays DEF SameOpen
  <2>4. \A j \in DOMAIN r.open : ~r.open[j].deferred
    BY <2>1, <2>2 DEF SameOpen
  <2> QED BY <2>2, <2>3, <2>4 DEF ReducedIsSound
<1> QED BY <1>2, <1>3, <1>4, StepIsSound

\* An item's end keeps the invariant.
LEMMA ItemDoneIsSound ==
    ASSUME StreamsAreSound, NEW i \in Item, ItemDone(i)
    PROVE  StreamsAreSound'
PROOF
<1>1. PICK given \in BOOLEAN, seals \in BOOLEAN :
         Reads(LiveDone(i, given, seals), ReducedDone(i, given, seals))
  BY DEF ItemDone
<1> DEFINE l == LiveDone(i, given, seals)
           r == ReducedDone(i, given, seals)
           type == item[i].type
           at == IF item[i].at = "begun" THEN "ended" ELSE "done"
           new == ItemKnown(type, at)
<1>2. Event /\ Reads(l, r) /\ ItemsAreSound(item) /\ item[i].at \in {"begun", "added"}
  BY <1>1 DEF ItemDone, StreamsAreSound
<1>3. item' = [item EXCEPT ![i] = new]
  BY DEF ItemDone, Tells, ItemKnown
<1>4. item \in [Item -> ItemTold] /\ type \in Types
      /\ (item[i].at = "begun" => type = "message")
  BY <1>2 DEF ItemsAreSound, ItemTold
<1>5. new \in ItemTold /\ new.type = type /\ new.at = at
  BY <1>4, ToldIs
<1>6. ItemsAreSound(item')
  <2>1. new.type # "none" /\ new.at # "new" /\ (new.at \in {"begun", "ended"} => new.type = "message")
    BY <1>4, <1>5 DEF Types
  <2> HIDE DEF new
  <2> QED BY <1>2, <1>3, <1>5, <2>1, ItemsMove, Zenon
<1>7. type \notin Calls => DoneCalls(item') = DoneCalls(item)
  <2> HIDE DEF new, at
  <2> QED BY <1>2, <1>3, <1>5, CallsStay, Zenon
<1>8. type \in Calls => /\ DoneCalls(item') = DoneCalls(item) \union {i}
                        /\ i \notin DoneCalls(item) /\ item[i].at = "added"
  <2>1. type \in Calls => item[i].at = "added" /\ at = "done"
    BY <1>2, <1>4 DEF Calls
  <2>2. type \in Calls => DoneCalls(item') = DoneCalls(item) \union {i}
    <3> HIDE DEF new, at
    <3> QED BY <1>2, <1>3, <1>5, <2>1, CallIsDone, Zenon
  <2>3. type \in Calls => i \notin DoneCalls(item)
    BY <2>1 DEF DoneCalls
  <2> QED BY <2>1, <2>2, <2>3
<1>9. at \notin {"added", "begun"}
  OBVIOUS
<1> HIDE DEF l, r, new, at
<1>10. ASSUME NEW t, NEW u, NEW S \in SUBSET {"added", "begun"}, WellMade(t), Tracks(t, item, S), WellMade(u),
              type \notin Blocky => u.open = t.open,
              type \in Blocky /\ i \notin DOMAIN t.open => u = t,
              type \in Blocky /\ i \in DOMAIN t.open =>
                 /\ DOMAIN u.open = DOMAIN t.open \ {i}
                 /\ \A j \in DOMAIN t.open : j # i => u.open[j] = t.open[j]
       PROVE  Tracks(u, item', S)
  <2>1. DOMAIN t.open \subseteq Item /\ DOMAIN u.open \subseteq Item
    BY <1>10, TranslatorIs DEF WellMade
  <2>2. i \notin DOMAIN u.open
    BY <1>10 DEF Tracks
  <2>3. /\ \A j \in Item : j # i => (j \in DOMAIN u.open <=> j \in DOMAIN t.open)
        /\ \A j \in DOMAIN t.open : j # i => u.open[j].kind = t.open[j].kind
    BY <1>10
  <2>4. /\ i \in DOMAIN u.open <=> new.type \in Blocky /\ new.at \in S
        /\ i \in DOMAIN u.open => (u.open[i].kind = "tool" <=> new.type \in Calls)
    BY <1>5, <1>9, <2>2, Zenon
  <2> QED BY <1>3, <1>4, <1>5, <1>10, <2>1, <2>3, <2>4, TracksMoves, Zenon
<1>11. ASSUME live.at = "open" PROVE LiveIsSound(l, item')
  <2>1. /\ LiveIsSound(live, item) /\ WellMade(live) /\ Tracks(live, item, {"added", "begun"})
        /\ Cardinality(Shut(live)) = Cardinality(DoneCalls(item))
    BY <1>11 DEF StreamsAreSound, LiveIsSound
  <2>2. /\ WellMade(l) /\ l.at = live.at
        /\ type \notin Blocky => l.open = live.open /\ Shut(l) = Shut(live)
        /\ type \in Blocky /\ i \notin DOMAIN live.open => l = live
        /\ type \in Blocky /\ i \in DOMAIN live.open =>
              /\ DOMAIN l.open = DOMAIN live.open \ {i}
              /\ \A j \in DOMAIN live.open : j # i => l.open[j] = live.open[j]
              /\ IF live.open[i].kind = "tool"
                 THEN /\ live.open[i].index \notin Shut(live)
                      /\ Shut(l) = Shut(live) \union {live.open[i].index}
                 ELSE Shut(l) = Shut(live)
    BY <1>4, <2>1, LiveDoneKeeps DEF l
  <2>3. Tracks(l, item', {"added", "begun"})
    BY <1>10, <2>1, <2>2
  <2>4. Cardinality(Shut(l)) = Cardinality(DoneCalls(item'))
    <3>1. i \in DOMAIN live.open <=> type \in Blocky
      BY <1>2, <2>1 DEF Tracks
    <3>2. i \in DOMAIN live.open => (live.open[i].kind = "tool" <=> type \in Calls)
      BY <2>1 DEF Tracks
    <3>3. CASE type \notin Calls
      <4>1. Shut(l) = Shut(live)
        BY <2>2, <3>1, <3>2, <3>3
      <4> QED BY <1>7, <2>1, <3>3, <4>1
    <3>4. CASE type \in Calls
      <4> DEFINE x == live.open[i].index
      <4>1. x \notin Shut(live) /\ Shut(l) = Shut(live) \union {x}
        BY <2>2, <3>1, <3>2, <3>4 DEF Blocky, Calls
      <4>2. IsFiniteSet(Shut(live)) /\ IsFiniteSet(DoneCalls(item))
        <5>1. DoneCalls(item) \subseteq Item /\ IsFiniteSet(Item)
          BY StreamTranslationAssumption DEF DoneCalls
        <5> QED BY <2>1, <5>1, ShutIsFinite, FS_Subset
      <4> HIDE DEF x
      <4>3. Cardinality(Shut(l)) = Cardinality(Shut(live)) + 1
        BY <4>1, <4>2, FS_AddElement, Zenon
      <4>4. Cardinality(DoneCalls(item')) = Cardinality(DoneCalls(item)) + 1
        BY <1>8, <3>4, <4>2, FS_AddElement
      <4> QED BY <2>1, <4>3, <4>4
    <3> QED BY <3>3, <3>4
  <2>5. l.at = "open"
    BY <1>11, <2>2
  <2> QED BY <2>2, <2>3, <2>4, <2>5 DEF LiveIsSound
<1>12. ASSUME reduced.at = "open" PROVE ReducedIsSound(r, item')
  <2>1. /\ ReducedIsSound(reduced, item) /\ WellMade(reduced) /\ Tracks(reduced, item, {"added"})
        /\ \A j \in DOMAIN reduced.open : ~reduced.open[j].deferred
    BY <1>12 DEF StreamsAreSound, ReducedIsSound
  <2>2. /\ WellMade(r) /\ r.at = reduced.at
        /\ type \notin Blocky => r.open = reduced.open
        /\ type \in Blocky /\ i \notin DOMAIN reduced.open => r = reduced
        /\ type \in Blocky /\ i \in DOMAIN reduced.open =>
              /\ DOMAIN r.open = DOMAIN reduced.open \ {i}
              /\ \A j \in DOMAIN reduced.open : j # i => r.open[j] = reduced.open[j]
    BY <1>4, <2>1, ReducedDoneKeeps DEF r
  <2>3. Tracks(r, item', {"added"})
    BY <1>10, <2>1, <2>2
  <2>4. \A j \in DOMAIN r.open : ~r.open[j].deferred
    <3>1. CASE type \notin Blocky
      BY <2>1, <2>2, <3>1
    <3>2. CASE type \in Blocky /\ i \notin DOMAIN reduced.open
      BY <2>1, <2>2, <3>2
    <3>3. CASE type \in Blocky /\ i \in DOMAIN reduced.open
      BY <2>1, <2>2, <3>3
    <3> QED BY <3>1, <3>2, <3>3
  <2> QED BY <2>2, <2>3, <2>4 DEF ReducedIsSound
<1> QED BY <1>2, <1>6, <1>11, <1>12, StepIsSound

\* A stream that is closed stops no call.
LEMMA LiveClosedKeeps ==
    ASSUME WellMade(live), NEW u, u = LiveClosed
    PROVE  WellMade(u) /\ u.at \in {"closed", "failed"} /\ Shut(u) = Shut(live)
PROOF
<1> DEFINE c == ThinkingClosed(live)
<1>1. WellMade(c) /\ Shut(c) = Shut(live)
  BY ThinkingClosedIs
<1>2. u = IF live.tools /\ DOMAIN live.open = {} THEN EndedAs(c, "closed") ELSE EndedAs(live, "failed")
  BY Zenon DEF LiveClosed, EndedAs
<1>3. "closed" \in Phase /\ "failed" \in Phase
  BY DEF Phase
<1> HIDE DEF c
<1>4. CASE live.tools /\ DOMAIN live.open = {}
  <2>1. u = EndedAs(c, "closed")
    BY <1>2, <1>4
  <2> QED BY <1>1, <1>3, <2>1, EndedKeeps
<1>5. CASE ~(live.tools /\ DOMAIN live.open = {})
  <2>1. u = EndedAs(live, "failed")
    BY <1>2, <1>5
  <2> QED BY <1>3, <2>1, EndedKeeps
<1> QED BY <1>4, <1>5

\* A body that ends is a message or an error.
LEMMA ReducedFinishedKeeps ==
    ASSUME WellMade(reduced), \A j \in DOMAIN reduced.open : ~reduced.open[j].deferred,
           NEW u, u = ReducedFinished
    PROVE  WellMade(u) /\ u.at \in {"completed", "failed"} /\ \A j \in DOMAIN u.open : ~u.open[j].deferred
PROOF
<1> DEFINE c == ThinkingClosed(reduced)
<1>1. WellMade(c) /\ c.open = reduced.open
  BY ThinkingClosedIs
<1>2. u = IF DOMAIN reduced.open # {} THEN EndedAs(reduced, "failed") ELSE EndedAs(c, "completed")
  BY Zenon DEF ReducedFinished, EndedAs
<1>3. "completed" \in Phase /\ "failed" \in Phase
  BY DEF Phase
<1> HIDE DEF c
<1>4. CASE DOMAIN reduced.open = {}
  <2>1. u = EndedAs(c, "completed")
    BY <1>2, <1>4
  <2> QED BY <1>1, <1>3, <2>1, EndedKeeps
<1>5. CASE DOMAIN reduced.open # {}
  <2>1. u = EndedAs(reduced, "failed")
    BY <1>2, <1>5
  <2> QED BY <1>3, <2>1, EndedKeeps
<1> QED BY <1>4, <1>5

\* The end of the answer keeps the invariant, however it comes.
LEMMA EndIsSound ==
    ASSUME StreamsAreSound, Completed \/ Breaks \/ Closes
    PROVE  StreamsAreSound'
PROOF
<1> DEFINE fail == EndedAs(reduced, "failed")
<1>1. /\ ItemsAreSound(item) /\ WellMade(live) /\ WellMade(reduced)
      /\ \A j \in DOMAIN reduced.open : ~reduced.open[j].deferred
      /\ live.at = "open" => Cardinality(Shut(live)) = Cardinality(DoneCalls(item))
  BY DEF StreamsAreSound, LiveIsSound, ReducedIsSound
<1>2. "failed" \in Phase
  BY DEF Phase
<1>3. ReducedIsSound(fail, item)
  <2>1. fail.at = "failed" /\ WellMade(fail) /\ fail.open = reduced.open
    <3>1. fail = EndedAs(reduced, "failed")
      OBVIOUS
    <3> HIDE DEF fail
    <3> QED BY <1>1, <1>2, <3>1, EndedKeeps
  <2> HIDE DEF fail
  <2> QED BY <1>1, <2>1 DEF ReducedIsSound
<1>4. CASE Completed
  <2> DEFINE l == LiveFinished
             r == ReducedFinished
  <2>1. Event /\ Reads(l, r) /\ item' = item
    BY <1>4 DEF Completed
  <2>2. LiveIsSound(l, item)
    <3> DEFINE t == ThinkingClosed(live)
    <3>1. /\ WellMade(l) /\ l.at = "completed" /\ DOMAIN l.message.blocks = 0 .. l.next - 1
          /\ \A b \in DOMAIN l.message.blocks : ~l.message.blocks[b].open
      <4>1. l = LiveFinished /\ t = ThinkingClosed(live)
        OBVIOUS
      <4> HIDE DEF l, t
      <4> QED BY <1>1, <4>1, LiveFinishedKeeps
    <3> HIDE DEF l
    <3> QED BY <3>1 DEF LiveIsSound
  <2>3. ReducedIsSound(r, item)
    <3>1. WellMade(r) /\ r.at \in {"completed", "failed"} /\ \A j \in DOMAIN r.open : ~r.open[j].deferred
      <4>1. r = ReducedFinished
        OBVIOUS
      <4> HIDE DEF r
      <4> QED BY <1>1, <4>1, ReducedFinishedKeeps
    <3> HIDE DEF r
    <3> QED BY <3>1 DEF ReducedIsSound
  <2> HIDE DEF l, r
  <2> QED BY <1>1, <2>1, <2>2, <2>3, StepIsSound
<1>5. CASE Breaks
  <2> DEFINE l == EndedAs(live, "failed")
  <2>1. Event /\ Reads(l, fail) /\ item' = item
    BY <1>5, Zenon DEF Breaks, EndedAs
  <2>2. ASSUME live.at = "open" PROVE LiveIsSound(l, item)
    <3>1. WellMade(l) /\ l.at = "failed" /\ Shut(l) = Shut(live)
      <4>1. l = EndedAs(live, "failed")
        OBVIOUS
      <4> HIDE DEF l
      <4> QED BY <1>1, <1>2, <4>1, EndedKeeps
    <3> HIDE DEF l
    <3> QED BY <1>1, <2>2, <3>1 DEF LiveIsSound
  <2> HIDE DEF l, fail
  <2> QED BY <1>1, <1>3, <2>1, <2>2, StepIsSound
<1>6. CASE Closes
  <2> DEFINE l == LiveClosed
  <2>1. Event /\ Reads(l, fail) /\ item' = item
    BY <1>6, Zenon DEF Closes, EndedAs
  <2>2. ASSUME live.at = "open" PROVE LiveIsSound(l, item)
    <3>1. WellMade(l) /\ l.at \in {"closed", "failed"} /\ Shut(l) = Shut(live)
      <4>1. l = LiveClosed
        OBVIOUS
      <4> HIDE DEF l
      <4> QED BY <1>1, <4>1, LiveClosedKeeps
    <3> HIDE DEF l
    <3> QED BY <1>1, <2>2, <3>1 DEF LiveIsSound
  <2> HIDE DEF l, fail
  <2> QED BY <1>1, <1>3, <2>1, <2>2, StepIsSound
<1> QED BY <1>4, <1>5, <1>6

\* The invariant of the two translators: every index is a block or waits for its
\* turn, and what is open is what the upstream has begun.
THEOREM StreamsStaySound == TranslationSpec => []StreamsAreSound
PROOF
<1>1. TranslationInit => StreamsAreSound
  BY StreamsBegin
<1>2. StreamsAreSound /\ [TranslationNext]_streamVars => StreamsAreSound'
  <2> SUFFICES ASSUME StreamsAreSound, [TranslationNext]_streamVars PROVE StreamsAreSound'
    OBVIOUS
  <2>1. CASE TranslationNext
    BY <2>1, ItemAddedIsSound, SummaryDeltaIsSound, SummaryPartIsSound, TextDeltaIsSound,
       ArgumentsDeltaIsSound, ArgumentsDoneIsSound, ItemDoneIsSound, EndIsSound DEF TranslationNext
  <2>2. CASE UNCHANGED streamVars
    BY <2>2 DEF streamVars, StreamsAreSound, ItemsAreSound, LiveIsSound, ReducedIsSound
  <2> QED BY <2>1, <2>2
<1> QED BY <1>1, <1>2, PTL DEF TranslationSpec

\* What the invariant says of the safety properties.
LEMMA SoundStreams ==
    ASSUME StreamsAreSound
    PROVE  TranslationTypeOK /\ BlocksWellFormed /\ ToolsStopWhenDone
PROOF
<1>1. /\ ItemsAreSound(item) /\ events \in 0 .. MaxEvents /\ WellMade(live) /\ WellMade(reduced)
      /\ LiveIsSound(live, item)
  BY DEF StreamsAreSound, LiveIsSound, ReducedIsSound
<1>2. /\ live \in TranslatorShape /\ reduced \in TranslatorShape
  BY <1>1 DEF WellMade
<1>3. TranslationTypeOK
  <2>1. /\ live.at \in Phase /\ DOMAIN live.open \subseteq Item /\ live.sealed \in SUBSET Item
        /\ live.next \in Nat
    BY <1>2, TranslatorIs
  <2>2. /\ reduced.at \in Phase /\ DOMAIN reduced.open \subseteq Item /\ reduced.sealed \in SUBSET Item
        /\ reduced.next \in Nat
    BY <1>2, TranslatorIs
  <2>3. DOMAIN live.message.blocks \subseteq 0 .. live.next - 1
    BY <1>1 DEF WellMade, Places
  <2> QED BY <1>1, <2>1, <2>2, <2>3 DEF TranslationTypeOK, ItemsAreSound
<1>4. BlocksWellFormed
  BY <1>1 DEF BlocksWellFormed, WellMade, LiveIsSound
<1>5. ToolsStopWhenDone
  BY <1>1, Zenon DEF ToolsStopWhenDone, LiveIsSound, Shut, DoneCalls, Calls
<1> QED BY <1>3, <1>4, <1>5

-----------------------------------------------------------------------------
(* Streamed and buffered alike. *)

\* A text that was begun, and not ended, after n pieces.
TextOf(n) == [kind |-> "text", units |-> n, signed |-> FALSE, open |-> TRUE]

\* The two are at the same place; the reducer lets nothing wait.
SamePlace(t, u) ==
    /\ u.next = t.next /\ u.thinking = t.thinking /\ u.sealed = t.sealed
    /\ DOMAIN u.searches = {} /\ DOMAIN u.deferred = {}

\* The same blocks are open; the pieces of a text are counted by t alone.
OpensAlike(t, u) ==
    /\ DOMAIN u.open = DOMAIN t.open
    /\ \A i \in DOMAIN t.open :
          /\ u.open[i].index = t.open[i].index /\ u.open[i].kind = t.open[i].kind
          /\ u.open[i].buffered = t.open[i].buffered /\ u.open[i].emitted = t.open[i].emitted
          /\ ~u.open[i].deferred
          /\ t.open[i].kind = "tool" => u.open[i].units = t.open[i].units

\* What t has sent is in m.
Shows(t, m) == \A b \in DOMAIN t.message.blocks : m.blocks[b] = t.message.blocks[b]

\* What waits in t is in m.
Owes(t, m) ==
    /\ \A i \in DOMAIN t.open : t.open[i].deferred => m.blocks[t.open[i].index] = TextOf(t.open[i].units)
    /\ \A k \in DOMAIN t.searches : /\ m.blocks[t.searches[k]] = WholeBlock("search", 1)
                                    /\ m.blocks[t.searches[k] + 1] = WholeBlock("result", 0)
    /\ \A k \in DOMAIN t.deferred :
          m.blocks[t.deferred[k].index] = WholeBlock("text", t.deferred[k].units)

\* How far the two translators are apart, while both read and every text has its
\* item.
Alike(t, u) ==
    /\ WellMade(t) /\ WellMade(u)
    /\ SamePlace(t, u) /\ OpensAlike(t, u) /\ Shows(t, u.message) /\ Owes(t, u.message)

\* The reducer has every block: nothing waits there.
LEMMA AlikeThere ==
    ASSUME NEW t, NEW u, Alike(t, u)
    PROVE  /\ DOMAIN u.message.blocks = 0 .. t.next - 1
           /\ DOMAIN t.message.blocks \subseteq DOMAIN u.message.blocks
           /\ \A b \in DOMAIN t.message.blocks : ~Waits(t, b)
           /\ \A i \in DOMAIN t.open : t.open[i].deferred => Waits(t, t.open[i].index)
           /\ \A k \in DOMAIN t.searches : Waits(t, t.searches[k]) /\ Waits(t, t.searches[k] + 1)
           /\ \A k \in DOMAIN t.deferred : Waits(t, t.deferred[k].index)
           /\ \A b : Waits(t, b) => b \in DOMAIN u.message.blocks
PROOF
<1>1. /\ t \in TranslatorShape /\ u \in TranslatorShape /\ t.next \in Nat /\ u.next = t.next
      /\ DOMAIN u.searches = {} /\ DOMAIN u.deferred = {}
  BY TranslatorIs DEF Alike, WellMade, SamePlace
<1>2. \A b : ~Waits(u, b)
  BY <1>1 DEF Waits, Alike, OpensAlike
<1>3. DOMAIN u.message.blocks = 0 .. t.next - 1
  BY <1>1, <1>2, Zenon DEF Alike, WellMade, Places
<1>4. \A b \in DOMAIN t.message.blocks : ~Waits(t, b) /\ b \in 0 .. t.next - 1
  BY DEF Alike, WellMade, Places
<1>5. /\ \A i \in DOMAIN t.open : t.open[i].deferred => Waits(t, t.open[i].index)
      /\ \A k \in DOMAIN t.searches : Waits(t, t.searches[k]) /\ Waits(t, t.searches[k] + 1)
      /\ \A k \in DOMAIN t.deferred : Waits(t, t.deferred[k].index)
  BY DEF Waits
<1>6. ASSUME NEW b, Waits(t, b) PROVE b \in 0 .. t.next - 1
  <2>1. Apart(t) /\ \A i \in DOMAIN t.open : t.open[i].index \in Nat
    BY <1>1, TranslatorIs DEF Alike, WellMade
  <2>2. /\ \A k \in DOMAIN t.searches : t.searches[k] \in Nat
        /\ \A k \in DOMAIN t.deferred : t.deferred[k].index \in Nat
    BY <1>1, TranslatorIs
  <2>3. CASE \E i \in DOMAIN t.open : t.open[i].deferred /\ t.open[i].index = b
    BY <1>1, <2>1, <2>3 DEF Apart
  <2>4. CASE \E k \in DOMAIN t.searches : b \in {t.searches[k], t.searches[k] + 1}
    BY <1>1, <2>1, <2>2, <2>4 DEF Apart
  <2>5. CASE \E k \in DOMAIN t.deferred : t.deferred[k].index = b
    BY <1>1, <2>1, <2>2, <2>5 DEF Apart
  <2> QED BY <1>6, <2>3, <2>4, <2>5 DEF Waits
<1> QED BY <1>3, <1>4, <1>5, <1>6

\* What waits is left alone by what changes only what t has sent.
LEMMA OwesStays ==
    ASSUME NEW t, NEW u, Alike(t, u), NEW v,
           \A b \in DOMAIN u.message.blocks :
               b \notin DOMAIN t.message.blocks => v.message.blocks[b] = u.message.blocks[b],
           NEW s, s.searches = t.searches, s.deferred = t.deferred,
           \A i \in DOMAIN s.open : s.open[i].deferred =>
               /\ i \in DOMAIN t.open /\ t.open[i].deferred
               /\ s.open[i].index = t.open[i].index /\ s.open[i].units = t.open[i].units
    PROVE  Owes(s, v.message)
PROOF
<1>1. \A b : Waits(t, b) => v.message.blocks[b] = u.message.blocks[b]
  BY AlikeThere
<1>2. Owes(t, u.message)
  BY DEF Alike
<1>3. \A i \in DOMAIN s.open : s.open[i].deferred => v.message.blocks[s.open[i].index] = TextOf(s.open[i].units)
  BY <1>1, <1>2, AlikeThere DEF Owes
<1>4. \A k \in DOMAIN s.searches : /\ v.message.blocks[s.searches[k]] = WholeBlock("search", 1)
                                   /\ v.message.blocks[s.searches[k] + 1] = WholeBlock("result", 0)
  BY <1>1, <1>2, AlikeThere DEF Owes
<1>5. \A k \in DOMAIN s.deferred :
          v.message.blocks[s.deferred[k].index] = WholeBlock("text", s.deferred[k].units)
  BY <1>1, <1>2, AlikeThere DEF Owes
<1> QED BY <1>3, <1>4, <1>5 DEF Owes

\* A step that leaves alone what waits.
LEMMA StaysAlike ==
    ASSUME NEW t, NEW u, Alike(t, u), NEW s, NEW v, WellMade(s), WellMade(v),
           SamePlace(s, v), OpensAlike(s, v), Shows(s, v.message),
           \A b \in DOMAIN u.message.blocks :
               b \notin DOMAIN t.message.blocks => v.message.blocks[b] = u.message.blocks[b],
           s.searches = t.searches, s.deferred = t.deferred,
           \A i \in DOMAIN s.open : s.open[i].deferred =>
               /\ i \in DOMAIN t.open /\ t.open[i].deferred
               /\ s.open[i].index = t.open[i].index /\ s.open[i].units = t.open[i].units
    PROVE  Alike(s, v)
BY OwesStays DEF Alike

\* Each handler keeps them alike: a signature is captured.
LEMMA CapturedAlike ==
    ASSUME NEW t, NEW u, Alike(t, u), NEW i \in Item, NEW seals \in BOOLEAN,
           NEW s, s = Captured(t, i, seals), NEW v, v = Captured(u, i, seals)
    PROVE  Alike(s, v)
PROOF
<1>1. WellMade(t) /\ WellMade(u) /\ SamePlace(t, u) /\ OpensAlike(t, u) /\ Shows(t, u.message) /\ Owes(t, u.message)
  BY DEF Alike
<1>2. /\ WellMade(s) /\ s.message = t.message /\ s.thinking = t.thinking /\ s.open = t.open /\ s.next = t.next
      /\ s.searches = t.searches /\ s.deferred = t.deferred
      /\ (seals => s.sealed = t.sealed \union {i}) /\ (~seals => s.sealed = t.sealed)
  BY <1>1, CapturedKeeps
<1>3. /\ WellMade(v) /\ v.message = u.message /\ v.thinking = u.thinking /\ v.open = u.open /\ v.next = u.next
      /\ v.searches = u.searches /\ v.deferred = u.deferred
      /\ (seals => v.sealed = u.sealed \union {i}) /\ (~seals => v.sealed = u.sealed)
  BY <1>1, CapturedKeeps
<1>4. v.sealed = s.sealed
  BY <1>1, <1>2, <1>3 DEF SamePlace
<1>5. SamePlace(s, v)
  BY <1>1, <1>2, <1>3, <1>4 DEF SamePlace
<1>6. OpensAlike(s, v) /\ Shows(s, v.message)
  BY <1>1, <1>2, <1>3 DEF OpensAlike, Shows
<1>7. Owes(s, v.message)
  BY <1>1, <1>2, <1>3 DEF Owes
<1> QED BY <1>2, <1>3, <1>5, <1>6, <1>7 DEF Alike

\* The thought ends in both.
LEMMA ClosedAlike ==
    ASSUME NEW t, NEW u, Alike(t, u), NEW s, s = ThinkingClosed(t), NEW v, v = ThinkingClosed(u)
    PROVE  Alike(s, v)
PROOF
<1>1. WellMade(t) /\ WellMade(u) /\ SamePlace(t, u) /\ OpensAlike(t, u) /\ Shows(t, u.message)
  BY DEF Alike
<1>2. /\ WellMade(s) /\ s.open = t.open /\ s.next = t.next /\ s.searches = t.searches /\ s.deferred = t.deferred
      /\ s.thinking = IF t.thinking.item = NoBlock THEN t.thinking ELSE NoThinking
      /\ s.sealed = t.sealed \ {t.thinking.item}
      /\ DOMAIN s.message.blocks = DOMAIN t.message.blocks
      /\ \A b \in DOMAIN t.message.blocks :
             s.message.blocks[b] = IF t.thinking.item # NoBlock /\ b = t.thinking.index
                                   THEN ClosedThought(t) ELSE t.message.blocks[b]
  BY <1>1, ThinkingClosedIs
<1>3. /\ WellMade(v) /\ v.open = u.open /\ v.next = u.next /\ v.searches = u.searches /\ v.deferred = u.deferred
      /\ v.thinking = IF u.thinking.item = NoBlock THEN u.thinking ELSE NoThinking
      /\ v.sealed = u.sealed \ {u.thinking.item}
      /\ DOMAIN v.message.blocks = DOMAIN u.message.blocks
      /\ \A b \in DOMAIN u.message.blocks :
             v.message.blocks[b] = IF u.thinking.item # NoBlock /\ b = u.thinking.index
                                   THEN ClosedThought(u) ELSE u.message.blocks[b]
  BY <1>1, ThinkingClosedIs
<1>4. t.thinking.item # NoBlock => t.thinking.index \in DOMAIN t.message.blocks
  BY <1>1 DEF WellMade, Thinks, IsOpen
<1>5. t.thinking.item # NoBlock => ClosedThought(t) = ClosedThought(u)
  BY <1>1, <1>4, Zenon DEF ClosedThought, SamePlace, Shows
<1>6. SamePlace(s, v) /\ OpensAlike(s, v)
  BY <1>1, <1>2, <1>3 DEF SamePlace, OpensAlike
<1>7. DOMAIN t.message.blocks \subseteq DOMAIN u.message.blocks
  BY AlikeThere
<1>8. Shows(s, v.message)
  BY <1>1, <1>2, <1>3, <1>4, <1>5, <1>7 DEF Shows, SamePlace
<1>9. \A b \in DOMAIN u.message.blocks :
          b \notin DOMAIN t.message.blocks => v.message.blocks[b] = u.message.blocks[b]
  BY <1>1, <1>3, <1>4 DEF SamePlace
<1> QED BY <1>2, <1>3, <1>6, <1>8, <1>9, StaysAlike

\* What waits in s has waited in t, or is in m.
OwesMore(t, s, m) ==
    /\ \A i \in DOMAIN s.open : s.open[i].deferred =>
          \/ /\ i \in DOMAIN t.open /\ t.open[i].deferred
             /\ s.open[i].index = t.open[i].index /\ s.open[i].units = t.open[i].units
          \/ m.blocks[s.open[i].index] = TextOf(s.open[i].units)
    /\ \A k \in DOMAIN s.searches :
          \/ \E j \in DOMAIN t.searches : s.searches[k] = t.searches[j]
          \/ /\ m.blocks[s.searches[k]] = WholeBlock("search", 1)
             /\ m.blocks[s.searches[k] + 1] = WholeBlock("result", 0)
    /\ \A k \in DOMAIN s.deferred :
          \/ \E j \in DOMAIN t.deferred : s.deferred[k] = t.deferred[j]
          \/ m.blocks[s.deferred[k].index] = WholeBlock("text", s.deferred[k].units)

\* What waits is kept in mind.
LEMMA OwesGrows ==
    ASSUME NEW t, NEW u, Alike(t, u), NEW v,
           \A b \in DOMAIN u.message.blocks :
               b \notin DOMAIN t.message.blocks => v.message.blocks[b] = u.message.blocks[b],
           NEW s, OwesMore(t, s, v.message)
    PROVE  Owes(s, v.message)
PROOF
<1>1. \A b : Waits(t, b) => v.message.blocks[b] = u.message.blocks[b]
  BY AlikeThere
<1>2. Owes(t, u.message)
  BY DEF Alike
<1>3. \A i \in DOMAIN s.open : s.open[i].deferred => v.message.blocks[s.open[i].index] = TextOf(s.open[i].units)
  BY <1>1, <1>2, AlikeThere DEF Owes, OwesMore
<1>4. \A k \in DOMAIN s.searches : /\ v.message.blocks[s.searches[k]] = WholeBlock("search", 1)
                                   /\ v.message.blocks[s.searches[k] + 1] = WholeBlock("result", 0)
  <2> SUFFICES ASSUME NEW k \in DOMAIN s.searches, NEW j \in DOMAIN t.searches, s.searches[k] = t.searches[j]
               PROVE  /\ v.message.blocks[s.searches[k]] = WholeBlock("search", 1)
                      /\ v.message.blocks[s.searches[k] + 1] = WholeBlock("result", 0)
    BY DEF OwesMore
  <2>1. Waits(t, t.searches[j]) /\ Waits(t, t.searches[j] + 1)
    BY AlikeThere
  <2> QED BY <1>1, <1>2, <2>1 DEF Owes
<1>5. \A k \in DOMAIN s.deferred :
          v.message.blocks[s.deferred[k].index] = WholeBlock("text", s.deferred[k].units)
  BY <1>1, <1>2, AlikeThere DEF Owes, OwesMore
<1> QED BY <1>3, <1>4, <1>5 DEF Owes

\* A block begins in both; it may wait, if it is a text.
LEMMA BegunAlike ==
    ASSUME NEW t, NEW u, Alike(t, u), NEW i \in Item, i \notin DOMAIN t.open,
           NEW block \in OpenShape, NEW plain \in OpenShape, NEW s, NEW v,
           WellMade(s), WellMade(v), Begins(t, s, i, block), Begins(u, v, i, plain),
           block.index = t.next, plain.index = u.next, plain.kind = block.kind,
           plain.buffered = block.buffered, plain.emitted = block.emitted, plain.units = block.units,
           ~plain.deferred, block.deferred => block.kind = "text" /\ block.units = 0
    PROVE  Alike(s, v)
PROOF
<1> DEFINE x == t.next
           kind == block.kind
<1>1. WellMade(t) /\ WellMade(u) /\ SamePlace(t, u) /\ OpensAlike(t, u) /\ Shows(t, u.message)
  BY DEF Alike
<1>2. /\ t \in TranslatorShape /\ t.message \in MessageShape /\ x \in Nat
      /\ u \in TranslatorShape /\ u.message \in MessageShape /\ u.next = x
      /\ kind \in {"thinking", "text", "tool", "search", "result"}
  BY <1>1, TranslatorIs DEF WellMade, SamePlace, OpenShape
<1>3. /\ DOMAIN u.message.blocks = 0 .. x - 1 /\ DOMAIN t.message.blocks \subseteq DOMAIN u.message.blocks
  BY AlikeThere
<1>4. x \notin DOMAIN u.message.blocks /\ x \notin DOMAIN t.message.blocks
  BY <1>2, <1>3
<1>5. v.message = Start(u.message, x, kind)
  BY <1>2 DEF Begins
<1>6. /\ DOMAIN v.message.blocks = DOMAIN u.message.blocks \union {x}
      /\ v.message.blocks[x] = NewBlock(kind)
      /\ \A b \in DOMAIN u.message.blocks : v.message.blocks[b] = u.message.blocks[b]
  BY <1>2, <1>4, <1>5, StartIs
<1>7. SamePlace(s, v)
  BY <1>1 DEF SamePlace, Begins
<1>8. OpensAlike(s, v)
  <2>1. DOMAIN s.open = DOMAIN t.open \union {i} /\ DOMAIN v.open = DOMAIN t.open \union {i}
    BY <1>1 DEF OpensAlike, Begins
  <2>2. s.open[i] = block /\ v.open[i] = plain
    BY DEF Begins
  <2>3. \A j \in DOMAIN t.open : s.open[j] = t.open[j] /\ v.open[j] = u.open[j]
    BY <1>1 DEF OpensAlike, Begins
  <2>4. plain.index = block.index
    BY <1>2
  <2> QED BY <1>1, <2>1, <2>2, <2>3, <2>4 DEF OpensAlike
<1>9. Shows(s, v.message)
  <2>1. CASE block.deferred
    BY <1>1, <1>3, <1>6, <2>1 DEF Shows, Begins
  <2>2. CASE ~block.deferred
    <3>1. s.message = Start(t.message, x, kind)
      BY <2>2 DEF Begins
    <3>2. /\ DOMAIN s.message.blocks = DOMAIN t.message.blocks \union {x}
          /\ s.message.blocks[x] = NewBlock(kind)
          /\ \A b \in DOMAIN t.message.blocks : s.message.blocks[b] = t.message.blocks[b]
      BY <1>2, <1>4, <3>1, StartIs
    <3> QED BY <1>1, <1>3, <1>6, <3>2 DEF Shows
  <2> QED BY <2>1, <2>2
<1>10. block.deferred => v.message.blocks[block.index] = TextOf(block.units)
  BY <1>6, Zenon DEF NewBlock, TextOf
<1>11. Owes(s, v.message)
  <2>1. /\ DOMAIN s.open = DOMAIN t.open \union {i} /\ s.open[i] = block
        /\ \A j \in DOMAIN t.open : j # i => s.open[j] = t.open[j]
        /\ s.searches = t.searches /\ s.deferred = t.deferred
    BY DEF Begins
  <2>2. \A j \in DOMAIN s.open : s.open[j].deferred =>
            \/ /\ j \in DOMAIN t.open /\ t.open[j].deferred
               /\ s.open[j].index = t.open[j].index /\ s.open[j].units = t.open[j].units
            \/ v.message.blocks[s.open[j].index] = TextOf(s.open[j].units)
    BY <1>10, <2>1
  <2>3. \A k \in DOMAIN s.searches :
            \/ \E j \in DOMAIN t.searches : s.searches[k] = t.searches[j]
            \/ /\ v.message.blocks[s.searches[k]] = WholeBlock("search", 1)
               /\ v.message.blocks[s.searches[k] + 1] = WholeBlock("result", 0)
    BY <2>1
  <2>4. \A k \in DOMAIN s.deferred :
            \/ \E j \in DOMAIN t.deferred : s.deferred[k] = t.deferred[j]
            \/ v.message.blocks[s.deferred[k].index] = WholeBlock("text", s.deferred[k].units)
    BY <2>1
  <2>5. \A b \in DOMAIN u.message.blocks :
            b \notin DOMAIN t.message.blocks => v.message.blocks[b] = u.message.blocks[b]
    BY <1>6
  <2>6. OwesMore(t, s, v.message)
    BY <2>2, <2>3, <2>4 DEF OwesMore
  <2> QED BY <2>5, <2>6, OwesGrows
<1> QED BY <1>7, <1>8, <1>9, <1>11 DEF Alike

\* A text begins: it may wait in t, and is shown at once in u.
LEMMA TextBegunAlike ==
    ASSUME NEW t, NEW u, Alike(t, u), NEW i \in Item, i \notin DOMAIN t.open, NEW waits \in BOOLEAN,
           NEW s, s = TextBegun(t, i, waits), NEW v, v = TextBegun(u, i, FALSE)
    PROVE  Alike(s, v)
PROOF
<1> DEFINE no == FALSE
           block == TextBlock(t.next, waits)
           plain == TextBlock(u.next, no)
<1>1. WellMade(t) /\ WellMade(u) /\ u.next = t.next /\ i \notin DOMAIN u.open /\ t.next \in Nat
  BY TranslatorIs DEF Alike, SamePlace, OpensAlike, WellMade
<1>2. v = TextBegun(u, i, no) /\ no \in BOOLEAN /\ ~no
  OBVIOUS
<1>3. /\ block \in OpenShape /\ plain \in OpenShape /\ block.index = t.next /\ plain.index = u.next
      /\ plain.kind = block.kind /\ plain.buffered = block.buffered /\ plain.emitted = block.emitted
      /\ plain.units = block.units /\ ~plain.deferred /\ block.kind = "text" /\ block.units = 0
  BY <1>1 DEF TextBlock, OpenBlock, OpenShape
<1> HIDE DEF no
<1>4. WellMade(s) /\ Begins(t, s, i, block)
  BY <1>1, TextBegins
<1>5. WellMade(v) /\ Begins(u, v, i, plain)
  BY <1>1, <1>2, TextBegins, Zenon
<1> HIDE DEF block, plain
<1> QED BY <1>3, <1>4, <1>5, BegunAlike, Zenon

\* A call begins in both.
LEMMA CallBegunAlike ==
    ASSUME NEW t, NEW u, Alike(t, u), NEW i \in Item, i \notin DOMAIN t.open, NEW type,
           NEW s, s = CallBegun(t, i, type), NEW v, v = CallBegun(u, i, type)
    PROVE  Alike(s, v)
PROOF
<1> DEFINE block == CallBlock(t.next, type)
           plain == CallBlock(u.next, type)
<1>1. WellMade(t) /\ WellMade(u) /\ u.next = t.next /\ i \notin DOMAIN u.open /\ t.next \in Nat
  BY TranslatorIs DEF Alike, SamePlace, OpensAlike, WellMade
<1>2. plain = block
  BY <1>1
<1>3. block \in OpenShape /\ block.index = t.next /\ ~block.deferred
  BY <1>1 DEF CallBlock, OpenBlock, OpenShape
<1>4. WellMade(s) /\ Begins(t, s, i, block)
  BY <1>1, CallBegunKeeps
<1>5. WellMade(v) /\ Begins(u, v, i, plain)
  BY <1>1, CallBegunKeeps
<1> HIDE DEF block, plain
<1> QED BY <1>1, <1>2, <1>3, <1>4, <1>5, BegunAlike

\* The texts that wait in s have waited in t, and have not grown.
SameWaits(t, s) ==
    /\ s.searches = t.searches /\ s.deferred = t.deferred
    /\ \A i \in DOMAIN s.open : s.open[i].deferred =>
           /\ i \in DOMAIN t.open /\ t.open[i].deferred
           /\ s.open[i].index = t.open[i].index /\ s.open[i].units = t.open[i].units

\* In n, only the block at x is not that of m.
OnlyAt(m, n, x) ==
    /\ DOMAIN n.blocks = DOMAIN m.blocks
    /\ \A b \in DOMAIN m.blocks : b # x => n.blocks[b] = m.blocks[b]

\* The same edit of a block that both have.
LEMMA EditAlike ==
    ASSUME NEW t, NEW u, Alike(t, u), NEW x \in DOMAIN t.message.blocks,
           NEW s, NEW v, WellMade(s), WellMade(v), SamePlace(s, v), OpensAlike(s, v), SameWaits(t, s),
           OnlyAt(t.message, s.message, x), OnlyAt(u.message, v.message, x),
           v.message.blocks[x] = s.message.blocks[x]
    PROVE  Alike(s, v)
PROOF
<1>1. Shows(t, u.message) /\ DOMAIN t.message.blocks \subseteq DOMAIN u.message.blocks
  BY AlikeThere DEF Alike
<1>2. Shows(s, v.message)
  BY <1>1 DEF Shows, OnlyAt
<1>3. \A b \in DOMAIN u.message.blocks :
          b \notin DOMAIN t.message.blocks => v.message.blocks[b] = u.message.blocks[b]
  BY DEF OnlyAt
<1>4. Owes(s, v.message)
  BY <1>3, OwesStays DEF SameWaits
<1> QED BY <1>2, <1>4 DEF Alike

\* A block that t has sent is the same in u.
LEMMA SameBlock ==
    ASSUME NEW t, NEW u, Alike(t, u), NEW x, IsOpen(t.message, x)
    PROVE  /\ IsOpen(u.message, x) /\ u.message.blocks[x] = t.message.blocks[x]
           /\ x \in DOMAIN t.message.blocks /\ t.message.blocks[x] \in BlockShape
           /\ t.message \in MessageShape /\ u.message \in MessageShape
           /\ SameWaits(t, t)
PROOF
<1>1. Shows(t, u.message) /\ DOMAIN t.message.blocks \subseteq DOMAIN u.message.blocks
  BY AlikeThere DEF Alike
<1>2. t \in TranslatorShape /\ u \in TranslatorShape
  BY DEF Alike, WellMade
<1>3. x \in DOMAIN t.message.blocks /\ t.message.blocks[x] \in BlockShape
  BY <1>2, TranslatorIs DEF IsOpen
<1>4. t.message \in MessageShape /\ u.message \in MessageShape
  BY <1>2, TranslatorIs
<1>5. SameWaits(t, t)
  BY DEF SameWaits
<1>6. u.message.blocks[x] = t.message.blocks[x] /\ IsOpen(u.message, x)
  BY <1>1, <1>3 DEF IsOpen, Shows
<1> QED BY <1>3, <1>4, <1>5, <1>6

\* An open block is written in both.
LEMMA WrittenAlike ==
    ASSUME NEW t, NEW u, Alike(t, u), NEW x, IsOpen(t.message, x), NEW n \in Nat,
           NEW s, s = Written(t, x, n), NEW v, v = Written(u, x, n)
    PROVE  Alike(s, v)
PROOF
<1>1. WellMade(t) /\ WellMade(u) /\ SamePlace(t, u) /\ OpensAlike(t, u)
  BY DEF Alike
<1>2. /\ IsOpen(u.message, x) /\ u.message.blocks[x] = t.message.blocks[x]
      /\ x \in DOMAIN t.message.blocks /\ t.message \in MessageShape /\ u.message \in MessageShape
      /\ SameWaits(t, t)
  BY SameBlock
<1>3. /\ WellMade(s) /\ s.message = Delta(t.message, x, n)
      /\ s.thinking = t.thinking /\ s.open = t.open /\ s.next = t.next
      /\ s.searches = t.searches /\ s.deferred = t.deferred /\ s.sealed = t.sealed
  BY <1>1, WrittenKeeps
<1>4. /\ WellMade(v) /\ v.message = Delta(u.message, x, n)
      /\ v.thinking = u.thinking /\ v.open = u.open /\ v.next = u.next
      /\ v.searches = u.searches /\ v.deferred = u.deferred /\ v.sealed = u.sealed
  BY <1>1, <1>2, WrittenKeeps
<1>5. OnlyAt(t.message, s.message, x) /\ s.message.blocks[x] = Longer(t.message.blocks[x], n)
  BY <1>2, <1>3, DeltaIs DEF OnlyAt
<1>6. OnlyAt(u.message, v.message, x) /\ v.message.blocks[x] = Longer(u.message.blocks[x], n)
  BY <1>2, <1>4, DeltaIs DEF OnlyAt
<1>7. SamePlace(s, v) /\ OpensAlike(s, v) /\ SameWaits(t, s)
  BY <1>1, <1>2, <1>3, <1>4 DEF SamePlace, OpensAlike, SameWaits
<1> QED BY <1>2, <1>3, <1>4, <1>5, <1>6, <1>7, EditAlike

\* A thought begins in both.
LEMMA ThoughtAlike ==
    ASSUME NEW t, NEW u, Alike(t, u), t.thinking.item = NoBlock, NEW i \in Item,
           NEW s, s = WithThought(t, i), NEW v, v = WithThought(u, i)
    PROVE  Alike(s, v) /\ IsOpen(s.message, t.next) /\ s.thinking.index = t.next
PROOF
<1> DEFINE x == t.next
<1>1. WellMade(t) /\ WellMade(u) /\ SamePlace(t, u) /\ OpensAlike(t, u) /\ Shows(t, u.message)
  BY DEF Alike
<1>2. /\ t.message \in MessageShape /\ u.message \in MessageShape /\ u.next = x /\ x \in Nat
      /\ u.thinking.item = NoBlock
  BY <1>1, TranslatorIs DEF WellMade, SamePlace
<1>3. /\ DOMAIN u.message.blocks = 0 .. x - 1 /\ DOMAIN t.message.blocks \subseteq DOMAIN u.message.blocks
  BY AlikeThere
<1>4. x \notin DOMAIN u.message.blocks /\ x \notin DOMAIN t.message.blocks
  BY <1>2, <1>3
<1>5. /\ WellMade(s) /\ s.message = Start(t.message, x, "thinking") /\ s.next = x + 1
      /\ s.thinking = [item |-> i, index |-> x] /\ s.open = t.open
      /\ s.searches = t.searches /\ s.deferred = t.deferred /\ s.sealed = t.sealed /\ IsOpen(s.message, x)
  BY <1>1, ThoughtBegins
<1>6. /\ WellMade(v) /\ v.message = Start(u.message, u.next, "thinking") /\ v.next = u.next + 1
      /\ v.thinking = [item |-> i, index |-> u.next] /\ v.open = u.open
      /\ v.searches = u.searches /\ v.deferred = u.deferred /\ v.sealed = u.sealed
  BY <1>1, <1>2, ThoughtBegins
<1> DEFINE b0 == NewBlock("thinking")
<1>7. /\ DOMAIN s.message.blocks = DOMAIN t.message.blocks \union {x} /\ s.message.blocks[x] = b0
      /\ \A b \in DOMAIN t.message.blocks : s.message.blocks[b] = t.message.blocks[b]
  BY <1>2, <1>4, <1>5, StartIs
<1>8. /\ v.message.blocks[x] = b0
      /\ \A b \in DOMAIN u.message.blocks : v.message.blocks[b] = u.message.blocks[b]
  BY <1>2, <1>4, <1>6, StartIs
<1> HIDE DEF b0
<1>9. SamePlace(s, v) /\ OpensAlike(s, v)
  BY <1>1, <1>2, <1>5, <1>6 DEF SamePlace, OpensAlike
<1>10. Shows(s, v.message)
  BY <1>1, <1>3, <1>7, <1>8 DEF Shows
<1>11. Alike(s, v)
  BY <1>5, <1>6, <1>8, <1>9, <1>10, StaysAlike
<1> QED BY <1>5, <1>11

\* A piece of a summary.
LEMMA SummarisedAlike ==
    ASSUME NEW t, NEW u, Alike(t, u), NEW i \in Item, NEW s, s = Summarised(t, i),
           NEW v, v = Summarised(u, i)
    PROVE  Alike(s, v)
PROOF
<1> DEFINE tc == ThinkingClosed(t)
           uc == ThinkingClosed(u)
           tn == WithThought(tc, i)
           un == WithThought(uc, i)
           tb == IF t.thinking.item = i THEN t ELSE tn
           ub == IF u.thinking.item = i THEN u ELSE un
           one == 1
<1>1. s = Written(tb, tb.thinking.index, one)
  BY Zenon DEF Summarised, WithThought, Written
<1>2. v = Written(ub, ub.thinking.index, one)
  BY Zenon DEF Summarised, WithThought, Written
<1>3. WellMade(t) /\ WellMade(u) /\ u.thinking = t.thinking /\ i # NoBlock /\ one \in Nat
  BY StreamTranslationAssumption DEF Alike, SamePlace, NoBlock
<1>4. Alike(tc, uc) /\ tc.thinking.item = NoBlock
  BY <1>3, ClosedAlike, ThinkingClosedIs
<1> HIDE DEF tc, uc, one
<1>5. Alike(tn, un) /\ IsOpen(tn.message, tc.next) /\ tn.thinking.index = tc.next
  BY <1>4, ThoughtAlike
<1> HIDE DEF tn, un
<1>6. Alike(tb, ub) /\ IsOpen(tb.message, tb.thinking.index)
  <2>1. CASE t.thinking.item = i
    <3>1. IsOpen(t.message, t.thinking.index)
      BY <1>3, <2>1 DEF WellMade, Thinks
    <3> QED BY <1>3, <2>1, <3>1
  <2>2. CASE t.thinking.item # i
    BY <1>3, <1>5, <2>2
  <2> QED BY <2>1, <2>2
<1>7. ub.thinking.index = tb.thinking.index
  BY <1>6 DEF Alike, SamePlace
<1> HIDE DEF tb, ub
<1> QED BY <1>1, <1>2, <1>3, <1>6, <1>7, WrittenAlike

\* A separator.
LEMMA SeparatedAlike ==
    ASSUME NEW t, NEW u, Alike(t, u), NEW i \in Item, NEW s, s = Separated(t, i),
           NEW v, v = Separated(u, i)
    PROVE  Alike(s, v)
PROOF
<1> DEFINE one == 1
<1>1. WellMade(t) /\ u.thinking = t.thinking /\ i # NoBlock /\ one \in Nat
  BY StreamTranslationAssumption DEF Alike, SamePlace, NoBlock
<1>2. CASE t.thinking.item # i
  <2>1. s = t /\ v = u
    BY <1>1, <1>2 DEF Separated
  <2> QED BY <2>1
<1>3. CASE t.thinking.item = i
  <2>1. IsOpen(t.message, t.thinking.index)
    BY <1>1, <1>3 DEF WellMade, Thinks
  <2>2. s = Written(t, t.thinking.index, one) /\ v = Written(u, t.thinking.index, one)
    BY <1>1, <1>3 DEF Separated
  <2> HIDE DEF one
  <2> QED BY <1>1, <2>1, <2>2, WrittenAlike
<1> QED BY <1>2, <1>3

\* A message with one more thought, of which there is only a signature.
SignedAlone(m, x) == Stop(Sign(Start(m, x, "thinking"), x), x)

\* A thought that is nothing but its signature.
LEMMA SignedAloneIs ==
    ASSUME NEW m \in MessageShape, NEW x \in Nat, x \notin DOMAIN m.blocks, NEW n, n = SignedAlone(m, x)
    PROVE  /\ DOMAIN n.blocks = DOMAIN m.blocks \union {x}
           /\ n.blocks[x] = Stopped(SignedBlock(NewBlock("thinking")))
           /\ \A b \in DOMAIN m.blocks : n.blocks[b] = m.blocks[b]
PROOF
<1> DEFINE m1 == Start(m, x, "thinking")
           m2 == Sign(m1, x)
           b0 == NewBlock("thinking")
<1>1. b0 \in BlockShape /\ b0.open
  BY NewBlockIs
<1>2. /\ m1 \in MessageShape /\ DOMAIN m1.blocks = DOMAIN m.blocks \union {x} /\ m1.blocks[x] = b0
      /\ \A b \in DOMAIN m.blocks : m1.blocks[b] = m.blocks[b]
  BY StartIs
<1> HIDE DEF b0, m1
<1>3. IsOpen(m1, x)
  BY <1>1, <1>2 DEF IsOpen
<1>4. /\ m2 \in MessageShape /\ DOMAIN m2.blocks = DOMAIN m1.blocks
      /\ m2.blocks[x] = SignedBlock(m1.blocks[x])
      /\ \A b \in DOMAIN m1.blocks : b # x => m2.blocks[b] = m1.blocks[b]
  BY <1>2, <1>3, SignIs
<1> HIDE DEF m2
<1>5. IsOpen(m2, x)
  BY <1>1, <1>2, <1>4, EditsAre DEF IsOpen
<1>6. n = Stop(m2, x)
  BY Zenon DEF SignedAlone, m1, m2
<1>7. /\ DOMAIN n.blocks = DOMAIN m2.blocks /\ n.blocks[x] = Stopped(m2.blocks[x])
      /\ \A b \in DOMAIN m2.blocks : b # x => n.blocks[b] = m2.blocks[b]
  BY <1>4, <1>5, <1>6, StopIs
<1>8. n.blocks[x] = Stopped(SignedBlock(b0))
  BY <1>2, <1>4, <1>7
<1>9. /\ DOMAIN n.blocks = DOMAIN m.blocks \union {x}
      /\ \A b \in DOMAIN m.blocks : n.blocks[b] = m.blocks[b]
  BY <1>2, <1>4, <1>7
<1> QED BY <1>8, <1>9 DEF b0

\* A signature without a summary.
LEMMA SignatureOnlyAlike ==
    ASSUME NEW t, NEW u, Alike(t, u), NEW i \in Item, NEW s, s = SignatureOnly(t, i),
           NEW v, v = SignatureOnly(u, i)
    PROVE  Alike(s, v)
PROOF
<1> DEFINE x == t.next
           m == SignedAlone(t.message, x)
           n == SignedAlone(u.message, x)
<1>1. /\ WellMade(t) /\ WellMade(u) /\ SamePlace(t, u) /\ OpensAlike(t, u) /\ Shows(t, u.message)
      /\ u.sealed = t.sealed
  BY DEF Alike, SamePlace
<1>2. CASE i \notin t.sealed
  BY <1>1, <1>2 DEF SignatureOnly
<1>3. CASE i \in t.sealed
  <2>1. /\ t \in TranslatorShape /\ u \in TranslatorShape /\ u.next = x /\ x \in Nat
        /\ t.message \in MessageShape /\ u.message \in MessageShape
    BY <1>1, TranslatorIs DEF WellMade, SamePlace
  <2>2. DOMAIN u.message.blocks = 0 .. x - 1 /\ DOMAIN t.message.blocks \subseteq DOMAIN u.message.blocks
    BY AlikeThere
  <2>3. x \notin DOMAIN u.message.blocks /\ x \notin DOMAIN t.message.blocks
    BY <2>1, <2>2
  <2>4. /\ s = [t EXCEPT !.sealed = @ \ {i}, !.next = @ + 1, !.message = m]
        /\ v = [u EXCEPT !.sealed = @ \ {i}, !.next = @ + 1, !.message = n]
    BY <1>1, <1>3, <2>1, Zenon DEF SignatureOnly, SignedAlone
  <2> DEFINE b0 == Stopped(SignedBlock(NewBlock("thinking")))
  <2>5. /\ DOMAIN m.blocks = DOMAIN t.message.blocks \union {x} /\ m.blocks[x] = b0
        /\ \A b \in DOMAIN t.message.blocks : m.blocks[b] = t.message.blocks[b]
    BY <2>1, <2>3, SignedAloneIs
  <2>6. /\ n.blocks[x] = b0
        /\ \A b \in DOMAIN u.message.blocks : n.blocks[b] = u.message.blocks[b]
    BY <2>1, <2>3, SignedAloneIs
  <2> HIDE DEF b0, m, n
  <2>7. /\ s.message = m /\ s.thinking = t.thinking /\ s.open = t.open /\ s.next = t.next + 1
        /\ s.searches = t.searches /\ s.deferred = t.deferred /\ s.sealed = t.sealed \ {i}
    BY <2>1, <2>4 DEF TranslatorShape
  <2>8. /\ v.message = n /\ v.thinking = u.thinking /\ v.open = u.open /\ v.next = u.next + 1
        /\ v.searches = u.searches /\ v.deferred = u.deferred /\ v.sealed = u.sealed \ {i}
    BY <2>1, <2>4 DEF TranslatorShape
  <2>9. WellMade(s) /\ WellMade(v)
    BY <1>1, SignatureOnlyKeeps
  <2>10. SamePlace(s, v) /\ OpensAlike(s, v)
    BY <1>1, <2>7, <2>8 DEF SamePlace, OpensAlike
  <2>11. Shows(s, v.message)
    BY <1>1, <2>2, <2>5, <2>6, <2>7, <2>8 DEF Shows
  <2> QED BY <2>6, <2>7, <2>8, <2>9, <2>10, <2>11, StaysAlike
<1> QED BY <1>2, <1>3

\* Reasoning is done.
LEMMA ReasoningDoneAlike ==
    ASSUME NEW t, NEW u, Alike(t, u), NEW i \in Item, NEW seals \in BOOLEAN,
           NEW s, s = ReasoningDone(t, i, seals), NEW v, v = ReasoningDone(u, i, seals)
    PROVE  Alike(s, v)
PROOF
<1> DEFINE tk == Captured(t, i, seals)
           uk == Captured(u, i, seals)
           tc == ThinkingClosed(tk)
           uc == ThinkingClosed(uk)
<1>1. Alike(tk, uk) /\ u.thinking = t.thinking
  BY CapturedAlike DEF Alike, SamePlace
<1>2. /\ s = IF t.thinking.item = i THEN tc ELSE SignatureOnly(tc, i)
      /\ v = IF u.thinking.item = i THEN uc ELSE SignatureOnly(uc, i)
  BY Zenon DEF ReasoningDone
<1> HIDE DEF tk, uk
<1>3. Alike(tc, uc)
  BY <1>1, ClosedAlike
<1> HIDE DEF tc, uc
<1> QED BY <1>1, <1>2, <1>3, SignatureOnlyAlike

-----------------------------------------------------------------------------
(* Blocks of items that end. *)

\* A block ends in both, with the same content.
LEMMA EndsAlike ==
    ASSUME NEW t, NEW u, Alike(t, u), NEW i \in DOMAIN t.open, ~t.open[i].deferred,
           NEW s, NEW v, WellMade(s), WellMade(v), Ends(t, s, i), Ends(u, v, i),
           v.message.blocks[t.open[i].index] = s.message.blocks[t.open[i].index]
    PROVE  Alike(s, v)
PROOF
<1> DEFINE x == t.open[i].index
<1>1. WellMade(t) /\ WellMade(u) /\ SamePlace(t, u) /\ OpensAlike(t, u)
  BY DEF Alike
<1>2. x \in DOMAIN t.message.blocks
  BY <1>1, ToolIs
<1>3. u.open[i].index = x
  <2>1. \A j \in DOMAIN t.open : u.open[j].index = t.open[j].index
    BY <1>1, Zenon DEF OpensAlike
  <2> QED BY <2>1, Zenon
<1>4. OnlyAt(t.message, s.message, x) /\ OnlyAt(u.message, v.message, x)
  BY SMTT(60), <1>3 DEF Ends, OnlyAt
<1>5. SamePlace(s, v)
  BY <1>1 DEF SamePlace, Ends
<1>6. OpensAlike(s, v)
  <2>1. /\ DOMAIN s.open = DOMAIN t.open \ {i} /\ DOMAIN v.open = DOMAIN t.open \ {i}
        /\ \A j \in DOMAIN t.open \ {i} : s.open[j] = t.open[j] /\ v.open[j] = u.open[j]
    BY <1>1, Zenon DEF OpensAlike, Ends
  <2> QED BY <1>1, <2>1 DEF OpensAlike
<1>7. SameWaits(t, s)
  BY Zenon DEF SameWaits, Ends
<1> HIDE DEF x
<1> QED BY <1>2, <1>4, <1>5, <1>6, <1>7, EditAlike DEF x

\* The arguments that a call has in the end.
UnitsGiven(o, given)   == IF given /\ o.units = 0 THEN 1 ELSE o.units
\* Whether they are shown only now.
ShownLate(o, given)    == UnitsGiven(o, given) > 0 /\ (o.buffered \/ ~o.emitted)
\* The block of a call, as it ends.
EndedCall(b, o, given) == Stopped(IF ShownLate(o, given) THEN Longer(b, UnitsGiven(o, given)) ELSE b)

\* A call's end, in closed form.
LEMMA CallEnds ==
    ASSUME NEW t, WellMade(t), NEW i \in DOMAIN t.open, t.open[i].kind = "tool",
           NEW given \in BOOLEAN, NEW u, u = CallDone(t, i, given)
    PROVE  u.message.blocks[t.open[i].index] = EndedCall(t.message.blocks[t.open[i].index], t.open[i], given)
PROOF
<1> DEFINE b == t.open[i]
           x == b.index
           units == UnitsGiven(b, given)
           some == ShownLate(b, given)
           v == Stop(IF some THEN Delta(t.message, x, units) ELSE t.message, x)
           w == WithoutBlock(t, i)
<1>1. ~b.deferred
  BY DEF WellMade, Opens
<1>2. /\ b \in OpenShape /\ IsOpen(t.message, x)
      /\ t \in TranslatorShape /\ t.message \in MessageShape
  BY <1>1, ToolIs
<1>3. u = [w EXCEPT !.message = v]
  BY Zenon DEF CallDone, UnitsGiven, ShownLate
<1>4. units \in Nat /\ some \in BOOLEAN
  BY <1>2 DEF OpenShape, UnitsGiven, ShownLate
<1> HIDE DEF units, some
<1>5. v.blocks[x] = Stopped(IF some THEN Longer(t.message.blocks[x], units) ELSE t.message.blocks[x])
  BY <1>2, <1>4, LastWords
<1> HIDE DEF v
<1>6. w \in TranslatorShape
  BY <1>2, WithoutIs
<1> HIDE DEF w
<1>7. u.message = v
  BY <1>3, <1>6 DEF TranslatorShape
<1> HIDE DEF b, x
<1>8. u.message.blocks[x] = EndedCall(t.message.blocks[x], b, given)
  BY <1>5, <1>7, Zenon DEF EndedCall, units, some
<1> QED BY <1>8 DEF b, x

\* A call is done in both.
LEMMA CallDoneAlike ==
    ASSUME NEW t, NEW u, Alike(t, u), NEW i \in DOMAIN t.open, t.open[i].kind = "tool",
           NEW given \in BOOLEAN, NEW s, s = CallDone(t, i, given), NEW v, v = CallDone(u, i, given)
    PROVE  Alike(s, v)
PROOF
<1> DEFINE x == t.open[i].index
<1>1. /\ WellMade(t) /\ WellMade(u) /\ i \in DOMAIN u.open /\ u.open[i].kind = "tool"
      /\ u.open[i].index = x
      /\ u.open[i].units = t.open[i].units /\ u.open[i].buffered = t.open[i].buffered
      /\ u.open[i].emitted = t.open[i].emitted
  BY DEF Alike, OpensAlike
<1>2. WellMade(s) /\ Ends(t, s, i) /\ ~t.open[i].deferred
  BY <1>1, CallDoneKeeps
<1>3. WellMade(v) /\ Ends(u, v, i)
  BY <1>1, CallDoneKeeps
<1>4. /\ s.message.blocks[x] = EndedCall(t.message.blocks[x], t.open[i], given)
      /\ v.message.blocks[x] = EndedCall(u.message.blocks[x], u.open[i], given)
  BY <1>1, CallEnds
<1>5. u.message.blocks[x] = t.message.blocks[x]
  <2>1. IsOpen(t.message, x)
    BY <1>1, <1>2, ToolIs
  <2> QED BY <2>1, SameBlock
<1>6. v.message.blocks[x] = s.message.blocks[x]
  BY <1>1, <1>4, <1>5, Zenon DEF EndedCall, UnitsGiven, ShownLate
<1> HIDE DEF x
<1> QED BY <1>2, <1>3, <1>6, EndsAlike DEF x

\* A text's end, in closed form.
LEMMA TextEnds ==
    ASSUME NEW t, WellMade(t), NEW i \in DOMAIN t.open, ~t.open[i].deferred,
           NEW u, u = TextStopped(t, i)
    PROVE  u.message.blocks[t.open[i].index] = Stopped(t.message.blocks[t.open[i].index])
PROOF
<1> DEFINE x == t.open[i].index
           v == Stop(t.message, x)
           w == WithoutBlock(t, i)
<1>1. IsOpen(t.message, x) /\ t \in TranslatorShape /\ t.message \in MessageShape
  BY ToolIs
<1>2. u = [w EXCEPT !.message = v]
  BY DEF TextStopped
<1>3. v.blocks[x] = Stopped(t.message.blocks[x])
  BY <1>1, StopIs
<1> HIDE DEF v
<1>4. w \in TranslatorShape
  BY <1>1, WithoutIs
<1> HIDE DEF w
<1>5. u.message = v
  BY SMTT(20), <1>2, <1>4 DEF TranslatorShape
<1> QED BY <1>3, <1>5

\* A text that does not wait ends in both.
LEMMA TextStoppedAlike ==
    ASSUME NEW t, NEW u, Alike(t, u), NEW i \in DOMAIN t.open, t.open[i].kind = "text", ~t.open[i].deferred,
           NEW s, s = TextStopped(t, i), NEW v, v = TextStopped(u, i)
    PROVE  Alike(s, v)
PROOF
<1> DEFINE x == t.open[i].index
<1>1. /\ WellMade(t) /\ WellMade(u) /\ i \in DOMAIN u.open /\ u.open[i].kind = "text"
      /\ u.open[i].index = x /\ ~u.open[i].deferred
  BY DEF Alike, OpensAlike
<1>2. WellMade(s) /\ Ends(t, s, i)
  BY <1>1, TextStoppedKeeps
<1>3. WellMade(v) /\ Ends(u, v, i)
  BY <1>1, TextStoppedKeeps
<1>4. /\ s.message.blocks[x] = Stopped(t.message.blocks[x])
      /\ v.message.blocks[x] = Stopped(u.message.blocks[x])
  BY <1>1, TextEnds
<1>5. u.message.blocks[x] = t.message.blocks[x]
  <2>1. IsOpen(t.message, x)
    BY <1>1, ToolIs
  <2> QED BY <2>1, SameBlock
<1> QED BY <1>2, <1>3, <1>4, <1>5, EndsAlike

\* A text that was begun and has ended is one that is sent at once.
LEMMA EndedText ==
    ASSUME NEW n \in Nat
    PROVE  /\ Stopped(TextOf(n)) = WholeBlock("text", n)
           /\ Longer(TextOf(n), 1) = TextOf(n + 1)
PROOF
<1> DEFINE b == TextOf(n)
           no == FALSE
           more == n + 1
<1>1. b \in BlockShape /\ b.kind = "text" /\ b.units = n /\ b.signed = no /\ b.open = TRUE
  BY DEF TextOf, BlockShape
<1> HIDE DEF b
<1>2. [b EXCEPT !.open = no] = [kind |-> "text", units |-> n, signed |-> no, open |-> no]
  <2> HIDE DEF no
  <2> QED BY <1>1 DEF BlockShape
<1>3. [b EXCEPT !.units = more] = [kind |-> "text", units |-> more, signed |-> no, open |-> TRUE]
  <2> DEFINE yes == TRUE
  <2>1. b \in BlockShape /\ b.kind = "text" /\ b.signed = no /\ b.open = yes
    BY <1>1
  <2> HIDE DEF no, more, yes
  <2>2. [b EXCEPT !.units = more] = [kind |-> "text", units |-> more, signed |-> no, open |-> yes]
    BY <2>1 DEF BlockShape
  <2> QED BY <2>2 DEF yes
<1>4. b.units + 1 = more
  BY <1>1
<1> QED BY <1>2, <1>3, <1>4, Zenon DEF Stopped, WholeBlock, Longer, TextOf, b

\* A text ends that waits in t.
LEMMA TextDeferredAlike ==
    ASSUME NEW t, NEW u, Alike(t, u), NEW i \in DOMAIN t.open, t.open[i].deferred,
           NEW s, s = TextDeferred(t, i), NEW v, v = TextStopped(u, i)
    PROVE  Alike(s, v)
PROOF
<1> DEFINE x == t.open[i].index
           n == t.open[i].units
<1>1. /\ WellMade(t) /\ WellMade(u) /\ SamePlace(t, u) /\ OpensAlike(t, u) /\ Shows(t, u.message)
      /\ Owes(t, u.message)
  BY DEF Alike
<1>2. /\ i \in DOMAIN u.open /\ u.open[i].kind = "text" /\ u.open[i].index = x /\ ~u.open[i].deferred
  BY <1>1 DEF OpensAlike, WellMade, Opens
<1>3. /\ WellMade(s) /\ s.message = t.message /\ s.thinking = t.thinking /\ s.sealed = t.sealed
      /\ s.next = t.next /\ s.searches = t.searches /\ s.deferred = Append(t.deferred, t.open[i])
      /\ DOMAIN s.open = DOMAIN t.open \ {i}
      /\ \A j \in DOMAIN t.open : j # i => s.open[j] = t.open[j]
  BY <1>1, TextDeferredKeeps
<1>4. WellMade(v) /\ Ends(u, v, i)
  BY <1>1, <1>2, TextStoppedKeeps
<1>5. v.message.blocks[x] = WholeBlock("text", n)
  <2>1. u.message.blocks[x] = TextOf(n)
    BY <1>1 DEF Owes
  <2>2. n \in Nat
    BY <1>1, TranslatorIs DEF WellMade, OpenShape
  <2>3. v.message.blocks[x] = Stopped(u.message.blocks[x])
    BY <1>1, <1>2, TextEnds
  <2> QED BY <2>1, <2>2, <2>3, EndedText
<1>6. \A b \in DOMAIN u.message.blocks : b # x => v.message.blocks[b] = u.message.blocks[b]
  BY <1>2, <1>4 DEF Ends
<1>7. /\ x \notin DOMAIN t.message.blocks /\ DOMAIN t.message.blocks \subseteq DOMAIN u.message.blocks
      /\ \A j \in DOMAIN t.open : t.open[j].deferred => t.open[j].index \in DOMAIN u.message.blocks
      /\ \A k \in DOMAIN t.deferred : t.deferred[k].index \in DOMAIN u.message.blocks
      /\ \A k \in DOMAIN t.searches : t.searches[k] \in DOMAIN u.message.blocks
                                      /\ t.searches[k] + 1 \in DOMAIN u.message.blocks
  BY AlikeThere
<1>8. SamePlace(s, v)
  BY SMTT(20), <1>1, <1>3, <1>4 DEF SamePlace, Ends
<1>9. OpensAlike(s, v)
  BY <1>1, <1>3, <1>4 DEF OpensAlike, Ends
<1>10. Shows(s, v.message)
  BY <1>1, <1>3, <1>6, <1>7 DEF Shows
<1>11. /\ \A j \in DOMAIN t.open : j # i => t.open[j].index # x
       /\ \A k \in DOMAIN t.searches : t.searches[k] # x /\ t.searches[k] + 1 # x
       /\ \A k \in DOMAIN t.deferred : t.deferred[k].index # x
  BY <1>1 DEF WellMade, Apart
<1>12. \A k \in DOMAIN s.deferred :
          \/ k \in DOMAIN t.deferred /\ s.deferred[k] = t.deferred[k]
          \/ s.deferred[k] = t.open[i]
  <2>1. t.deferred \in Seq(OpenShape)
    BY <1>1, TranslatorIs DEF WellMade
  <2> QED BY <1>3, <2>1
<1>13. Owes(s, v.message)
  <2>1. \A j \in DOMAIN s.open : s.open[j].deferred => v.message.blocks[s.open[j].index] = TextOf(s.open[j].units)
    BY <1>1, <1>3, <1>6, <1>7, <1>11 DEF Owes
  <2>2. \A k \in DOMAIN s.searches : /\ v.message.blocks[s.searches[k]] = WholeBlock("search", 1)
                                     /\ v.message.blocks[s.searches[k] + 1] = WholeBlock("result", 0)
    BY <1>1, <1>3, <1>6, <1>7, <1>11 DEF Owes
  <2>3. \A k \in DOMAIN s.deferred :
            v.message.blocks[s.deferred[k].index] = WholeBlock("text", s.deferred[k].units)
    <3> SUFFICES ASSUME NEW k \in DOMAIN s.deferred
                 PROVE v.message.blocks[s.deferred[k].index] = WholeBlock("text", s.deferred[k].units)
      OBVIOUS
    <3>1. CASE k \in DOMAIN t.deferred /\ s.deferred[k] = t.deferred[k]
      BY <1>1, <1>6, <1>7, <1>11, <3>1 DEF Owes
    <3>2. CASE s.deferred[k] = t.open[i]
      BY <1>5, <3>2
    <3> QED BY <1>12, <3>1, <3>2
  <2> QED BY <2>1, <2>2, <2>3 DEF Owes
<1> QED BY <1>3, <1>4, <1>8, <1>9, <1>10, <1>13 DEF Alike

-----------------------------------------------------------------------------
(* Pieces of arguments and of text. *)

\* A call is not deferred, and counts the same in both.
LEMMA CallsAlike ==
    ASSUME NEW t, NEW u, Alike(t, u), NEW i \in DOMAIN t.open, t.open[i].kind = "tool"
    PROVE  /\ WellMade(t) /\ WellMade(u) /\ ~t.open[i].deferred /\ ~u.open[i].deferred
           /\ i \in DOMAIN u.open /\ u.open[i].kind = "tool" /\ u.open[i].index = t.open[i].index
           /\ u.open[i].units = t.open[i].units /\ u.open[i].buffered = t.open[i].buffered
           /\ t.open[i].units \in Nat
           /\ t.open[i].index \in DOMAIN t.message.blocks
           /\ u.message.blocks[t.open[i].index] = t.message.blocks[t.open[i].index]
           /\ IsOpen(t.message, t.open[i].index) /\ IsOpen(u.message, t.open[i].index)
           /\ t.message \in MessageShape /\ u.message \in MessageShape
PROOF
<1>1. WellMade(t) /\ WellMade(u) /\ OpensAlike(t, u)
  BY DEF Alike
<1>2. ~t.open[i].deferred
  BY <1>1 DEF WellMade, Opens
<1>3. /\ i \in DOMAIN u.open /\ u.open[i].kind = "tool" /\ u.open[i].index = t.open[i].index
      /\ u.open[i].units = t.open[i].units /\ u.open[i].buffered = t.open[i].buffered
      /\ ~u.open[i].deferred
  BY <1>1 DEF OpensAlike
<1>4. t.open[i] \in OpenShape /\ IsOpen(t.message, t.open[i].index)
  BY <1>1, <1>2, ToolIs
<1>5. /\ t.open[i].index \in DOMAIN t.message.blocks
      /\ u.message.blocks[t.open[i].index] = t.message.blocks[t.open[i].index]
      /\ IsOpen(u.message, t.open[i].index)
      /\ t.message \in MessageShape /\ u.message \in MessageShape
  BY <1>4, SameBlock
<1>6. t.open[i].units \in Nat
  BY <1>4 DEF OpenShape
<1> QED BY <1>1, <1>2, <1>3, <1>4, <1>5, <1>6

\* Arguments are passed on by both.
LEMMA PassedAlike ==
    ASSUME NEW t, NEW u, Alike(t, u), NEW i \in DOMAIN t.open, t.open[i].kind = "tool",
           NEW s, s = Passed(t, i), NEW v, v = Passed(u, i)
    PROVE  Alike(s, v)
PROOF
<1> DEFINE x == t.open[i].index
           one == 1
<1>1. /\ WellMade(t) /\ WellMade(u) /\ ~t.open[i].deferred /\ ~u.open[i].deferred
      /\ i \in DOMAIN u.open /\ u.open[i].index = x /\ u.open[i].units = t.open[i].units
      /\ x \in DOMAIN t.message.blocks /\ u.message.blocks[x] = t.message.blocks[x]
      /\ IsOpen(t.message, x) /\ IsOpen(u.message, x)
      /\ t.message \in MessageShape /\ u.message \in MessageShape /\ one \in Nat
  BY CallsAlike
<1>2. /\ WellMade(s) /\ SameOpen(t, s) /\ s.next = t.next /\ s.thinking = t.thinking
      /\ s.sealed = t.sealed /\ s.searches = t.searches /\ s.deferred = t.deferred
      /\ \A j \in DOMAIN t.open :
             /\ s.open[j].buffered = t.open[j].buffered
             /\ s.open[j].emitted = (j = i \/ t.open[j].emitted)
             /\ s.open[j].units = IF j = i THEN t.open[i].units + 1 ELSE t.open[j].units
      /\ s.message = Delta(t.message, x, one)
  BY <1>1, PassedKeeps
<1>3. /\ WellMade(v) /\ SameOpen(u, v) /\ v.next = u.next /\ v.thinking = u.thinking
      /\ v.sealed = u.sealed /\ v.searches = u.searches /\ v.deferred = u.deferred
      /\ \A j \in DOMAIN u.open :
             /\ v.open[j].buffered = u.open[j].buffered
             /\ v.open[j].emitted = (j = i \/ u.open[j].emitted)
             /\ v.open[j].units = IF j = i THEN u.open[i].units + 1 ELSE u.open[j].units
      /\ v.message = Delta(u.message, x, one)
  BY <1>1, PassedKeeps
<1> HIDE DEF one, x
<1>4. OnlyAt(t.message, s.message, x) /\ s.message.blocks[x] = Longer(t.message.blocks[x], one)
  BY <1>1, <1>2, DeltaIs DEF OnlyAt
<1>5. OnlyAt(u.message, v.message, x) /\ v.message.blocks[x] = Longer(u.message.blocks[x], one)
  BY <1>1, <1>3, DeltaIs DEF OnlyAt
<1>6. SamePlace(t, u) /\ OpensAlike(t, u)
  BY DEF Alike
<1>7. SamePlace(s, v)
  BY <1>2, <1>3, <1>6 DEF SamePlace
<1>8. OpensAlike(s, v)
  <2>1. DOMAIN v.open = DOMAIN s.open /\ DOMAIN s.open = DOMAIN t.open /\ DOMAIN u.open = DOMAIN t.open
    BY <1>2, <1>3, <1>6 DEF OpensAlike, SameOpen
  <2> SUFFICES ASSUME NEW j \in DOMAIN t.open
               PROVE  /\ v.open[j].index = s.open[j].index /\ v.open[j].kind = s.open[j].kind
                      /\ v.open[j].buffered = s.open[j].buffered /\ v.open[j].emitted = s.open[j].emitted
                      /\ ~v.open[j].deferred
                      /\ s.open[j].kind = "tool" => v.open[j].units = s.open[j].units
    BY <2>1 DEF OpensAlike
  <2>2. /\ v.open[j].index = s.open[j].index /\ v.open[j].kind = s.open[j].kind /\ s.open[j].kind = t.open[j].kind
        /\ v.open[j].buffered = s.open[j].buffered /\ ~v.open[j].deferred
    BY <1>2, <1>3, <1>6, <2>1 DEF OpensAlike, SameOpen
  <2>3. v.open[j].emitted = s.open[j].emitted
    <3>1. s.open[j].emitted = (j = i \/ t.open[j].emitted)
      BY <1>2, Zenon
    <3>2. v.open[j].emitted = (j = i \/ u.open[j].emitted)
      BY <1>3, <2>1, Zenon
    <3>3. u.open[j].emitted = t.open[j].emitted
      BY <1>6, Zenon DEF OpensAlike
    <3> QED BY <3>1, <3>2, <3>3, Zenon
  <2>4. s.open[j].kind = "tool" => v.open[j].units = s.open[j].units
    <3>1. s.open[j].units = IF j = i THEN t.open[i].units + 1 ELSE t.open[j].units
      BY <1>2, Zenon
    <3>2. v.open[j].units = IF j = i THEN u.open[i].units + 1 ELSE u.open[j].units
      BY <1>3, <2>1, Zenon
    <3>3. t.open[j].kind = "tool" => u.open[j].units = t.open[j].units
      BY <1>6, Zenon DEF OpensAlike
    <3> QED BY <1>1, <2>2, <3>1, <3>2, <3>3
  <2> QED BY <2>2, <2>3, <2>4
<1>9. SameWaits(t, s)
  BY <1>1, <1>2 DEF SameWaits, SameOpen
<1> QED BY <1>1, <1>2, <1>3, <1>4, <1>5, <1>7, <1>8, <1>9, EditAlike

\* Arguments are buffered by both.
LEMMA CountedAlike ==
    ASSUME NEW t, NEW u, Alike(t, u), NEW i \in DOMAIN t.open, t.open[i].kind = "tool", NEW n \in Nat,
           NEW s, s = Counted(t, i, n), NEW v, v = Counted(u, i, n)
    PROVE  Alike(s, v)
PROOF
<1>1. /\ WellMade(t) /\ WellMade(u) /\ ~t.open[i].deferred /\ i \in DOMAIN u.open
  BY CallsAlike
<1>2. /\ WellMade(s) /\ SameOpen(t, s) /\ s.next = t.next /\ s.thinking = t.thinking
      /\ s.sealed = t.sealed /\ s.searches = t.searches /\ s.deferred = t.deferred /\ s.message = t.message
      /\ \A j \in DOMAIN t.open : /\ s.open[j].buffered = t.open[j].buffered
                                  /\ s.open[j].emitted = t.open[j].emitted
                                  /\ s.open[j].units = IF j = i THEN n ELSE t.open[j].units
  BY <1>1, BlockCountKeeps
<1>3. /\ WellMade(v) /\ SameOpen(u, v) /\ v.next = u.next /\ v.thinking = u.thinking
      /\ v.sealed = u.sealed /\ v.searches = u.searches /\ v.deferred = u.deferred /\ v.message = u.message
      /\ \A j \in DOMAIN u.open : /\ v.open[j].buffered = u.open[j].buffered
                                  /\ v.open[j].emitted = u.open[j].emitted
                                  /\ v.open[j].units = IF j = i THEN n ELSE u.open[j].units
  BY <1>1, BlockCountKeeps
<1>4. SamePlace(t, u) /\ OpensAlike(t, u) /\ Shows(t, u.message)
  BY DEF Alike
<1>5. SamePlace(s, v) /\ Shows(s, v.message)
  BY <1>2, <1>3, <1>4 DEF SamePlace, Shows
<1>6. OpensAlike(s, v)
  <2>1. DOMAIN v.open = DOMAIN s.open /\ DOMAIN s.open = DOMAIN t.open /\ DOMAIN u.open = DOMAIN t.open
    BY <1>2, <1>3, <1>4 DEF OpensAlike, SameOpen
  <2> QED BY <1>2, <1>3, <1>4, <2>1 DEF OpensAlike, SameOpen
<1>7. SameWaits(t, s)
  BY <1>1, <1>2 DEF SameWaits, SameOpen
<1>8. \A b \in DOMAIN u.message.blocks :
          b \notin DOMAIN t.message.blocks => v.message.blocks[b] = u.message.blocks[b]
  BY <1>3
<1> QED BY <1>2, <1>3, <1>5, <1>6, <1>7, <1>8, StaysAlike DEF SameWaits

\* Arguments leave the two alike, unless they stall, which ends both.
LEMMA ArgumentsReadAlike ==
    ASSUME NEW t, NEW u, Alike(t, u), NEW i, NEW stalls \in BOOLEAN,
           NEW s, s = ArgumentsRead(t, i, stalls), NEW v, v = ArgumentsRead(u, i, stalls)
    PROVE  (s.at = "repaired" /\ v.at = "repaired") \/ Alike(s, v)
PROOF
<1>1. IsTool(u, i) <=> IsTool(t, i)
  BY Zenon DEF Alike, OpensAlike, IsTool
<1>2. CASE ~IsTool(t, i)
  BY <1>1, <1>2, ArgumentsReadIs
<1>3. CASE IsTool(t, i)
  <2> DEFINE n == t.open[i].units + 1
  <2>1. i \in DOMAIN t.open /\ t.open[i].kind = "tool"
    BY <1>3 DEF IsTool
  <2>2. /\ WellMade(t) /\ WellMade(u) /\ ~t.open[i].deferred /\ ~u.open[i].deferred
        /\ i \in DOMAIN u.open /\ u.open[i].units = t.open[i].units /\ n \in Nat
    BY <2>1, CallsAlike
  <2>3. u.open[i].buffered <=> t.open[i].buffered
    <3>1. u.open[i].buffered = t.open[i].buffered
      BY <2>1, Zenon DEF Alike, OpensAlike
    <3> QED BY <3>1, Zenon
  <2>4. CASE ~t.open[i].buffered
    <3>1. s = Passed(t, i)
      BY <1>3, <2>4, ArgumentsReadIs
    <3>2. v = Passed(u, i)
      BY <1>1, <1>3, <2>3, <2>4, ArgumentsReadIs
    <3> QED BY <2>1, <3>1, <3>2, PassedAlike
  <2>5. CASE t.open[i].buffered /\ stalls
    <3>1. s = Repaired(t, i)
      BY <1>3, <2>5, ArgumentsReadIs, Zenon
    <3>2. v = Repaired(u, i)
      BY <1>1, <1>3, <2>3, <2>5, ArgumentsReadIs, Zenon
    <3> QED BY <2>1, <2>2, <3>1, <3>2, RepairedKeeps
  <2>6. CASE t.open[i].buffered /\ ~stalls
    <3>1. s = Counted(t, i, n)
      BY <1>3, <2>6, ArgumentsReadIs
    <3>2. v = Counted(u, i, n)
      <4>1. v = Counted(u, i, u.open[i].units + 1)
        BY <1>1, <1>3, <2>3, <2>6, ArgumentsReadIs
      <4> QED BY <2>2, <4>1
    <3> HIDE DEF n
    <3> QED BY <2>1, <2>2, <3>1, <3>2, CountedAlike
  <2> QED BY <2>4, <2>5, <2>6
<1> QED BY <1>2, <1>3

\* Arguments are given at once.
LEMMA ArgumentsGivenAlike ==
    ASSUME NEW t, NEW u, Alike(t, u), NEW i, NEW s, s = ArgumentsGiven(t, i), NEW v, v = ArgumentsGiven(u, i)
    PROVE  Alike(s, v)
PROOF
<1> DEFINE one == 1
<1>1. IsTool(u, i) <=> IsTool(t, i)
  BY Zenon DEF Alike, OpensAlike, IsTool
<1>2. IsTool(t, i) => u.open[i].units = t.open[i].units
  BY Zenon DEF Alike, OpensAlike, IsTool
<1>3. CASE ~(IsTool(t, i) /\ t.open[i].units = 0)
  <2>1. s = t /\ v = u
    BY <1>1, <1>2, <1>3, Zenon DEF ArgumentsGiven
  <2> QED BY <2>1
<1>4. CASE IsTool(t, i) /\ t.open[i].units = 0
  <2>1. s = Counted(t, i, one)
    BY Zenon, <1>4 DEF ArgumentsGiven, Counted
  <2>2. v = Counted(u, i, one)
    BY Zenon, <1>1, <1>2, <1>4 DEF ArgumentsGiven, Counted
  <2>3. i \in DOMAIN t.open /\ t.open[i].kind = "tool" /\ one \in Nat
    BY <1>4 DEF IsTool
  <2> HIDE DEF one
  <2> QED BY <2>1, <2>2, <2>3, CountedAlike
<1> QED BY <1>3, <1>4

\* A piece of a text, which may wait in t.
LEMMA TextCountedAlike ==
    ASSUME NEW t, NEW u, Alike(t, u), NEW i \in DOMAIN t.open, t.open[i].kind = "text",
           NEW s, s = TextCounted(t, i), NEW v, v = Written(u, t.open[i].index, 1)
    PROVE  Alike(s, v)
PROOF
<1> DEFINE x == t.open[i].index
           n == t.open[i].units
           one == 1
<1>1. /\ WellMade(t) /\ WellMade(u) /\ SamePlace(t, u) /\ OpensAlike(t, u) /\ Shows(t, u.message)
      /\ Owes(t, u.message)
  BY DEF Alike
<1>2. /\ i \in DOMAIN u.open /\ u.open[i].index = x /\ ~u.open[i].deferred /\ one \in Nat
  BY <1>1 DEF OpensAlike
<1>3. /\ WellMade(s) /\ SameOpen(t, s) /\ s.next = t.next /\ s.thinking = t.thinking
      /\ s.sealed = t.sealed /\ s.searches = t.searches /\ s.deferred = t.deferred
      /\ t.open[i].deferred => s.message = t.message
      /\ ~t.open[i].deferred => s.message = Delta(t.message, x, 1)
  BY <1>1, TextCountedKeeps
<1>4. \A j \in DOMAIN t.open :
          /\ s.open[j].buffered = t.open[j].buffered
          /\ s.open[j].emitted = t.open[j].emitted
          /\ s.open[j].units = IF j = i THEN t.open[i].units + 1 ELSE t.open[j].units
  BY <1>1, TextCountedKeeps
<1>5. IsOpen(u.message, x) /\ u.message \in MessageShape
  <2> HIDE DEF x
  <2> QED BY <1>1, <1>2, ToolIs
<1>6. v = Written(u, x, one)
  OBVIOUS
<1>7. s.message = IF t.open[i].deferred THEN t.message ELSE Delta(t.message, x, one)
  BY <1>3
<1> HIDE DEF one, x
<1>8. /\ WellMade(v) /\ v.message = Delta(u.message, x, one)
      /\ v.thinking = u.thinking /\ v.open = u.open /\ v.next = u.next
      /\ v.searches = u.searches /\ v.deferred = u.deferred /\ v.sealed = u.sealed
  BY <1>1, <1>2, <1>5, <1>6, WrittenKeeps
<1>9. OnlyAt(u.message, v.message, x) /\ v.message.blocks[x] = Longer(u.message.blocks[x], one)
  BY <1>2, <1>5, <1>8, DeltaIs DEF OnlyAt
<1>10. SamePlace(s, v)
  BY <1>1, <1>3, <1>8 DEF SamePlace
<1>11. OpensAlike(s, v)
  <2>1. DOMAIN v.open = DOMAIN s.open /\ DOMAIN s.open = DOMAIN t.open
    BY SMTT(20), <1>1, <1>3, <1>8 DEF OpensAlike, SameOpen
  <2> SUFFICES ASSUME NEW j \in DOMAIN t.open
               PROVE  /\ v.open[j].index = s.open[j].index /\ v.open[j].kind = s.open[j].kind
                      /\ v.open[j].buffered = s.open[j].buffered /\ v.open[j].emitted = s.open[j].emitted
                      /\ ~v.open[j].deferred
                      /\ s.open[j].kind = "tool" => v.open[j].units = s.open[j].units
    BY <2>1 DEF OpensAlike
  <2>2. /\ v.open[j].index = s.open[j].index /\ v.open[j].kind = s.open[j].kind /\ s.open[j].kind = t.open[j].kind
        /\ ~v.open[j].deferred
    BY <1>1, <1>3, <1>8 DEF OpensAlike, SameOpen
  <2>3. v.open[j].buffered = s.open[j].buffered /\ v.open[j].emitted = s.open[j].emitted
    BY <1>1, <1>4, <1>8, ZenonT(30) DEF OpensAlike
  <2>4. s.open[j].kind = "tool" => v.open[j].units = s.open[j].units
    <3>1. j # i => s.open[j].units = t.open[j].units
      BY <1>4
    <3>2. t.open[j].kind = "tool" => v.open[j].units = t.open[j].units
      BY <1>1, <1>8 DEF OpensAlike
    <3> QED BY <2>2, <3>1, <3>2, Zenon
  <2> QED BY <2>2, <2>3, <2>4
<1>12. CASE ~t.open[i].deferred
  <2>1. IsOpen(t.message, x)
    BY <1>1, <1>12, ToolIs DEF x
  <2>2. x \in DOMAIN t.message.blocks /\ t.message \in MessageShape /\ u.message.blocks[x] = t.message.blocks[x]
    BY <2>1, SameBlock
  <2>3. OnlyAt(t.message, s.message, x) /\ s.message.blocks[x] = Longer(t.message.blocks[x], one)
    BY <1>2, <1>7, <1>12, <2>1, <2>2, DeltaIs DEF OnlyAt
  <2>4. SameWaits(t, s)
    BY <1>3, <1>4, <1>12 DEF SameWaits, SameOpen
  <2> QED BY <1>3, <1>8, <1>9, <1>10, <1>11, <2>2, <2>3, <2>4, EditAlike
<1>13. CASE t.open[i].deferred
  <2>1. v.message.blocks[x] = TextOf(n + 1)
    <3>1. u.message.blocks[x] = TextOf(n)
      BY <1>1, <1>13 DEF Owes, x
    <3>2. n \in Nat
      BY <1>1, TranslatorIs DEF WellMade, OpenShape
    <3> HIDE DEF n
    <3>3. Longer(TextOf(n), one) = TextOf(n + 1)
      BY <3>2, EndedText DEF one
    <3> QED BY <1>9, <3>1, <3>3
  <2>2. /\ x \notin DOMAIN t.message.blocks /\ DOMAIN t.message.blocks \subseteq DOMAIN u.message.blocks
        /\ \A j \in DOMAIN t.open : t.open[j].deferred => t.open[j].index \in DOMAIN u.message.blocks
        /\ \A k \in DOMAIN t.deferred : t.deferred[k].index \in DOMAIN u.message.blocks
        /\ \A k \in DOMAIN t.searches : t.searches[k] \in DOMAIN u.message.blocks
                                        /\ t.searches[k] + 1 \in DOMAIN u.message.blocks
    BY <1>13, AlikeThere DEF x
  <2>3. /\ \A j \in DOMAIN t.open : j # i => t.open[j].index # x
        /\ \A k \in DOMAIN t.searches : t.searches[k] # x /\ t.searches[k] + 1 # x
        /\ \A k \in DOMAIN t.deferred : t.deferred[k].index # x
    BY <1>1 DEF WellMade, Apart, x
  <2>4. Shows(s, v.message)
    BY <1>1, <1>7, <1>9, <1>13, <2>2 DEF Shows, OnlyAt
  <2>5. \A j \in DOMAIN s.open : s.open[j].deferred => v.message.blocks[s.open[j].index] = TextOf(s.open[j].units)
    <3> SUFFICES ASSUME NEW j \in DOMAIN t.open, t.open[j].deferred
                 PROVE  v.message.blocks[t.open[j].index] = TextOf(s.open[j].units)
      BY <1>3 DEF SameOpen
    <3>1. CASE j = i
      BY SMTT(20), <1>4, <2>1, <3>1 DEF x
    <3>2. CASE j # i
      BY SMTT(20), <1>1, <1>4, <1>9, <2>2, <2>3, <3>2 DEF Owes, OnlyAt
    <3> QED BY <3>1, <3>2
  <2>6. \A k \in DOMAIN s.searches : /\ v.message.blocks[s.searches[k]] = WholeBlock("search", 1)
                                     /\ v.message.blocks[s.searches[k] + 1] = WholeBlock("result", 0)
    BY SMTT(20), <1>1, <1>3, <1>9, <2>2, <2>3 DEF Owes, OnlyAt
  <2>7. \A k \in DOMAIN s.deferred :
            v.message.blocks[s.deferred[k].index] = WholeBlock("text", s.deferred[k].units)
    BY SMTT(20), <1>1, <1>3, <1>9, <2>2, <2>3 DEF Owes, OnlyAt
  <2>8. Owes(s, v.message)
    BY <2>5, <2>6, <2>7 DEF Owes
  <2> QED BY <1>3, <1>8, <1>10, <1>11, <2>4, <2>8 DEF Alike
<1> QED BY <1>12, <1>13

\* A search: the reducer has it at once.
LEMMA SearchAlike ==
    ASSUME NEW t, NEW u, Alike(t, u), NEW s, s = SearchDelayed(t), NEW v, v = Searched(u)
    PROVE  Alike(s, v)
PROOF
<1> DEFINE x == t.next
<1>1. /\ WellMade(t) /\ WellMade(u) /\ SamePlace(t, u) /\ OpensAlike(t, u) /\ Shows(t, u.message)
      /\ Owes(t, u.message)
  BY DEF Alike
<1>2. /\ WellMade(s) /\ s.open = t.open /\ s.message = t.message
      /\ s.thinking = t.thinking /\ s.sealed = t.sealed /\ s.next = t.next + 2
      /\ s.searches = Append(t.searches, t.next) /\ s.deferred = t.deferred
  BY <1>1, SearchDelayedKeeps
<1>3. /\ WellMade(v) /\ v.open = u.open /\ v.message = SearchIn(u.message, u.next)
      /\ v.thinking = u.thinking /\ v.sealed = u.sealed /\ v.next = u.next + 2
      /\ v.searches = u.searches /\ v.deferred = u.deferred
  BY <1>1, SearchedKeeps
<1>4. u.next = x /\ x \in Nat /\ u.message \in MessageShape /\ t.searches \in Seq(Nat)
  BY <1>1, TranslatorIs DEF WellMade, SamePlace
<1>5. x \notin DOMAIN u.message.blocks /\ x + 1 \notin DOMAIN u.message.blocks
      /\ DOMAIN t.message.blocks \subseteq DOMAIN u.message.blocks
  BY <1>4, AlikeThere
<1>6. /\ v.message.blocks[x] = WholeBlock("search", 1) /\ v.message.blocks[x + 1] = WholeBlock("result", 0)
      /\ \A b \in DOMAIN u.message.blocks : v.message.blocks[b] = u.message.blocks[b]
  BY <1>3, <1>4, <1>5, SearchInIs
<1>7. SamePlace(s, v) /\ OpensAlike(s, v)
  BY <1>1, <1>2, <1>3 DEF SamePlace, OpensAlike
<1>8. Shows(s, v.message)
  BY <1>1, <1>2, <1>5, <1>6 DEF Shows
<1>9. \A k \in DOMAIN s.searches :
          \/ k \in DOMAIN t.searches /\ s.searches[k] = t.searches[k]
          \/ s.searches[k] = x
  BY <1>2, <1>4
<1>10. OwesMore(t, s, v.message)
  <2>1. \A k \in DOMAIN s.searches :
            \/ \E j \in DOMAIN t.searches : s.searches[k] = t.searches[j]
            \/ /\ v.message.blocks[s.searches[k]] = WholeBlock("search", 1)
               /\ v.message.blocks[s.searches[k] + 1] = WholeBlock("result", 0)
    BY <1>6, <1>9
  <2>2. \A j \in DOMAIN s.open : s.open[j].deferred =>
            j \in DOMAIN t.open /\ t.open[j].deferred
            /\ s.open[j].index = t.open[j].index /\ s.open[j].units = t.open[j].units
    BY <1>2
  <2>3. \A k \in DOMAIN s.deferred : \E j \in DOMAIN t.deferred : s.deferred[k] = t.deferred[j]
    BY <1>2
  <2> QED BY <2>1, <2>2, <2>3 DEF OwesMore
<1>11. Owes(s, v.message)
  BY <1>6, <1>10, OwesGrows
<1> QED BY <1>2, <1>3, <1>7, <1>8, <1>11 DEF Alike

-----------------------------------------------------------------------------
(* The two streams, as long as both are read. *)

\* No text has come without its item.
TextsHaveItems(it) == \A i \in Item : it[i].at \notin {"begun", "ended"}

\* What holds of both when the upstream has told it.
Match(l, r, it) ==
    /\ l.at = "open" => r.at # "completed"
    /\ TextsHaveItems(it) /\ l.at = "open" /\ r.at = "open" => Alike(l, r)
    /\ TextsHaveItems(it) /\ l.at = "completed" /\ r.at = "completed" => l.message.blocks = r.message.blocks

\* The inductive invariant that relates the two.
StreamsMatch == Match(live, reduced, item)

\* It is enough to look at two that both still read.
LEMMA StepMatches ==
    ASSUME StreamsMatch, NEW l, NEW r, Event, Reads(l, r), reduced.at = "open" => Match(l, r, item')
    PROVE  StreamsMatch'
PROOF
<1>1. /\ live.at = "open" /\ live' = l /\ (reduced.at = "open" => reduced' = r)
      /\ (reduced.at # "open" => reduced' = reduced)
  BY ReadsIs
<1>2. CASE reduced.at = "open"
  BY <1>1, <1>2 DEF StreamsMatch, Match, TextsHaveItems
<1>3. CASE reduced.at # "open"
  <2>1. reduced.at # "completed"
    BY <1>1 DEF StreamsMatch, Match
  <2>2. Match(l, reduced, item')
    BY <1>3, <2>1 DEF Match
  <2> QED BY <1>1, <1>3, <2>2 DEF StreamsMatch, Match, TextsHaveItems
<1> QED BY <1>2, <1>3

\* A step that ends neither, and keeps them alike.
LEMMA OpenMatch ==
    ASSUME NEW l, NEW r, NEW it, l.at # "completed", r.at # "completed",
           TextsHaveItems(it) => Alike(l, r) \/ l.at = "repaired"
    PROVE  Match(l, r, it)
BY DEF Match

\* What is known of two that both read.
LEMMA BothOpen ==
    ASSUME StreamsAreSound, StreamsMatch, Event, reduced.at = "open"
    PROVE  /\ live.at = "open" /\ WellMade(live) /\ WellMade(reduced)
           /\ Tracks(live, item, {"added", "begun"}) /\ Tracks(reduced, item, {"added"})
           /\ \A j \in DOMAIN reduced.open : ~reduced.open[j].deferred
           /\ item \in [Item -> ItemTold]
           /\ \A j \in Item : item[j].at = "new" <=> item[j].type = "none"
           /\ TextsHaveItems(item) => Alike(live, reduced)
BY DEF StreamsAreSound, StreamsMatch, Match, Event, LiveIsSound, ReducedIsSound, ItemsAreSound

\* A text that came without its item is never forgotten.
LEMMA HeardBefore ==
    ASSUME NEW it \in [Item -> ItemTold], NEW i \in Item, NEW new, NEW toldOf,
           toldOf = [it EXCEPT ![i] = new], TextsHaveItems(toldOf), it[i].at \notin {"begun", "ended"}
    PROVE  TextsHaveItems(it)
BY DEF TextsHaveItems

\* An item is added to both.
LEMMA AddedAlike ==
    ASSUME NEW t, NEW u, Alike(t, u), NEW i \in Item, i \notin DOMAIN t.open, NEW type \in Types,
           NEW seals \in BOOLEAN, NEW waits \in BOOLEAN, NEW no, no = FALSE,
           NEW s, s = Added(t, i, type, seals, waits), NEW v, v = Added(u, i, type, seals, no)
    PROVE  Alike(s, v)
PROOF
<1> DEFINE c == ThinkingClosed(t)
           d == ThinkingClosed(u)
<1>1. Alike(c, d) /\ i \notin DOMAIN c.open
  <2>1. Alike(c, d)
    BY ClosedAlike
  <2>2. c.open = t.open
    BY ThinkingClosedIs DEF Alike
  <2> QED BY <2>1, <2>2
<1>2. CASE type = "reasoning"
  <2>1. s = Captured(t, i, seals) /\ v = Captured(u, i, seals)
    BY <1>2, Zenon DEF Added
  <2> QED BY <2>1, CapturedAlike
<1>3. CASE type = "message"
  <2>1. s = TextBegun(c, i, waits) /\ v = TextBegun(d, i, FALSE)
    BY <1>3, "message" # "reasoning", Zenon DEF Added
  <2> HIDE DEF c, d
  <2> QED BY <1>1, <2>1, TextBegunAlike, Zenon
<1>4. CASE type = "search"
  <2>1. s = t /\ v = u
    BY <1>4 DEF Added
  <2> QED BY <2>1
<1>5. CASE type \in {"call", "read"}
  <2>1. type # "reasoning" /\ type # "message" /\ type # "search"
    BY <1>5
  <2>2. s = CallBegun(c, i, type) /\ v = CallBegun(d, i, type)
    BY <2>1, Zenon DEF Added
  <2> HIDE DEF c, d
  <2> QED BY <1>1, <2>2, CallBegunAlike
<1> QED BY <1>2, <1>3, <1>4, <1>5 DEF Types

\* Each event keeps them in step.
LEMMA ItemAddedMatches ==
    ASSUME StreamsAreSound, StreamsMatch, NEW i \in Item, ItemAdded(i)
    PROVE  StreamsMatch'
PROOF
<1>1. PICK type \in Types, seals \in BOOLEAN :
         /\ Tells(i, type, "added")
         /\ Reads(LiveAdded(i, type, seals), ReducedAdded(i, type, seals))
  BY DEF ItemAdded
<1> DEFINE l == LiveAdded(i, type, seals)
           r == ReducedAdded(i, type, seals)
           new == ItemKnown(type, "added")
           waits == live.searches # <<>>
           no == FALSE
<1>2. Event /\ Reads(l, r) /\ item[i].at = "new"
  BY <1>1 DEF ItemAdded
<1>3. item' = [item EXCEPT ![i] = new]
  BY <1>1 DEF Tells, ItemKnown
<1>4. l = Added(live, i, type, seals, waits) /\ r = Added(reduced, i, type, seals, no)
  BY Zenon DEF LiveAdded, ReducedAdded, Added
<1>5. waits \in BOOLEAN /\ no = FALSE /\ no \in BOOLEAN
  OBVIOUS
<1> HIDE DEF l, r, new, waits, no
<1>6. ASSUME reduced.at = "open" PROVE Match(l, r, item')
  <2>1. /\ live.at = "open" /\ WellMade(live) /\ WellMade(reduced) /\ item \in [Item -> ItemTold]
        /\ i \notin DOMAIN live.open /\ i \notin DOMAIN reduced.open
        /\ TextsHaveItems(item) => Alike(live, reduced)
    BY <1>2, <1>6, BothOpen DEF Tracks
  <2>2. l.at = live.at
    BY <1>4, <1>5, <2>1, AddedKeeps
  <2>3. r.at = reduced.at
    BY <1>4, <1>5, <2>1, AddedKeeps
  <2>4. ASSUME TextsHaveItems(item') PROVE Alike(l, r)
    <3>1. TextsHaveItems(item)
      BY <1>2, <1>3, <2>1, <2>4, HeardBefore, Zenon
    <3> QED BY <1>4, <1>5, <2>1, <3>1, AddedAlike, Zenon
  <2> QED BY <1>6, <2>1, <2>2, <2>3, <2>4, OpenMatch
<1> QED BY <1>2, <1>6, StepMatches

\* A piece of a summary keeps them in step.
LEMMA SummaryDeltaMatches ==
    ASSUME StreamsAreSound, StreamsMatch, NEW i \in Item, SummaryDelta(i)
    PROVE  StreamsMatch'
PROOF
<1> DEFINE l == Summarised(live, i)
           r == Summarised(reduced, i)
           new == ItemKnown("reasoning", "added")
<1>1. Event /\ Reads(l, r) /\ item[i].at \in {"new", "added"}
  BY DEF SummaryDelta
<1>2. IF item[i].at = "new" THEN item' = [item EXCEPT ![i] = new] ELSE item' = item
  BY DEF SummaryDelta, Tells, ItemKnown
<1> HIDE DEF l, r, new
<1>3. ASSUME reduced.at = "open" PROVE Match(l, r, item')
  <2>1. /\ live.at = "open" /\ WellMade(live) /\ WellMade(reduced) /\ item \in [Item -> ItemTold]
        /\ TextsHaveItems(item) => Alike(live, reduced)
    BY <1>1, <1>3, BothOpen
  <2>2. l.at = live.at /\ r.at = reduced.at
    BY <2>1, SummarisedKeeps DEF l, r
  <2>3. ASSUME TextsHaveItems(item') PROVE Alike(l, r)
    <3>1. TextsHaveItems(item)
      BY <1>1, <1>2, <2>1, <2>3, HeardBefore
    <3> QED BY <2>1, <3>1, SummarisedAlike DEF l, r
  <2> QED BY <1>3, <2>1, <2>2, <2>3, OpenMatch
<1> QED BY <1>1, <1>3, StepMatches

\* A separator keeps them in step.
LEMMA SummaryPartMatches ==
    ASSUME StreamsAreSound, StreamsMatch, NEW i \in Item, SummaryPart(i)
    PROVE  StreamsMatch'
PROOF
<1> DEFINE l == Separated(live, i)
           r == Separated(reduced, i)
<1>1. Event /\ Reads(l, r) /\ item' = item
  BY Zenon DEF SummaryPart, Separated, Written
<1> HIDE DEF l, r
<1>2. ASSUME reduced.at = "open" PROVE Match(l, r, item')
  <2>1. /\ live.at = "open" /\ WellMade(live) /\ WellMade(reduced)
        /\ TextsHaveItems(item) => Alike(live, reduced)
    BY <1>1, <1>2, BothOpen
  <2>2. l.at = live.at /\ r.at = reduced.at
    BY <2>1, SeparatedKeeps DEF l, r
  <2>3. TextsHaveItems(item') => Alike(l, r)
    BY <1>1, <2>1, SeparatedAlike DEF l, r
  <2> QED BY <1>2, <2>1, <2>2, <2>3, OpenMatch
<1> QED BY <1>1, <1>2, StepMatches

\* A piece of arguments keeps them in step: both repair a stalled Read, or neither.
LEMMA ArgumentsDeltaMatches ==
    ASSUME StreamsAreSound, StreamsMatch, NEW i \in Item, ArgumentsDelta(i)
    PROVE  StreamsMatch'
PROOF
<1>1. PICK stalls \in BOOLEAN : Reads(ArgumentsRead(live, i, stalls), ArgumentsRead(reduced, i, stalls))
  BY DEF ArgumentsDelta
<1> DEFINE l == ArgumentsRead(live, i, stalls)
           r == ArgumentsRead(reduced, i, stalls)
<1>2. Event /\ Reads(l, r) /\ item' = item
  BY <1>1 DEF ArgumentsDelta
<1> HIDE DEF l, r
<1>3. ASSUME reduced.at = "open" PROVE Match(l, r, item')
  <2>1. /\ live.at = "open" /\ WellMade(live) /\ WellMade(reduced)
        /\ TextsHaveItems(item) => Alike(live, reduced)
    BY <1>2, <1>3, BothOpen
  <2>2. l.at \in {"open", "repaired"}
    BY <2>1, ArgumentsReadKeeps DEF l
  <2>3. r.at \in {"open", "repaired"}
    BY <1>3, <2>1, ArgumentsReadKeeps DEF r
  <2>4. TextsHaveItems(item') => Alike(l, r) \/ l.at = "repaired"
    BY <1>2, <2>1, ArgumentsReadAlike DEF l, r
  <2> QED BY <2>2, <2>3, <2>4, OpenMatch
<1> QED BY <1>2, <1>3, StepMatches

\* Arguments that are given at once keep them in step.
LEMMA ArgumentsDoneMatches ==
    ASSUME StreamsAreSound, StreamsMatch, NEW i \in Item, ArgumentsDone(i)
    PROVE  StreamsMatch'
PROOF
<1> DEFINE l == ArgumentsGiven(live, i)
           r == ArgumentsGiven(reduced, i)
<1>1. Event /\ Reads(l, r) /\ item' = item
  BY DEF ArgumentsDone
<1> HIDE DEF l, r
<1>2. ASSUME reduced.at = "open" PROVE Match(l, r, item')
  <2>1. /\ live.at = "open" /\ WellMade(live) /\ WellMade(reduced)
        /\ TextsHaveItems(item) => Alike(live, reduced)
    BY <1>1, <1>2, BothOpen
  <2>2. l.at = live.at /\ r.at = reduced.at
    BY <2>1, ArgumentsGivenKeeps DEF l, r
  <2>3. TextsHaveItems(item') => Alike(l, r)
    BY <1>1, <2>1, ArgumentsGivenAlike DEF l, r
  <2> QED BY <1>2, <2>1, <2>2, <2>3, OpenMatch
<1> QED BY <1>1, <1>2, StepMatches

\* Live text of an item that was added.
LEMMA LiveTextIs ==
    ASSUME NEW i \in DOMAIN live.open, WellMade(live), live.open[i].kind = "text",
           NEW c, c = ThinkingClosed(live)
    PROVE  LiveText(i) = TextCounted(c, i)
PROOF
<1>1. c.open = live.open
  BY ThinkingClosedIs
<1>2. i \in DOMAIN c.open /\ c.open[i].kind = "text"
  BY <1>1
<1> QED BY <1>2, Zenon DEF LiveText, TextCounted

\* Reduced text of an item that was added.
LEMMA ReducedTextIs ==
    ASSUME NEW i \in DOMAIN reduced.open, WellMade(reduced), reduced.open[i].kind = "text",
           NEW d, d = ThinkingClosed(reduced)
    PROVE  ReducedText(i) = Written(d, reduced.open[i].index, 1)
PROOF
<1>1. d.open = reduced.open
  BY ThinkingClosedIs
<1>2. i \in DOMAIN d.open /\ d.open[i].kind = "text"
  BY <1>1
<1>3. ReducedText(i) = Written(d, d.open[i].index, 1)
  BY <1>2, Zenon DEF ReducedText, Written
<1> QED BY <1>1, <1>3

\* A piece of text keeps them in step, if its item was added.
LEMMA TextDeltaMatches ==
    ASSUME StreamsAreSound, StreamsMatch, NEW i \in Item, TextDelta(i)
    PROVE  StreamsMatch'
PROOF
<1> DEFINE l == LiveText(i)
           r == ReducedText(i)
           new == ItemKnown("message", "begun")
           c == ThinkingClosed(live)
           d == ThinkingClosed(reduced)
<1>1. Event /\ Reads(l, r) /\ item[i].at \in {"new", "begun", "added"} /\ item[i].type \in {"none", "message"}
  BY DEF TextDelta
<1>2. IF item[i].at = "new" THEN item' = [item EXCEPT ![i] = new] ELSE item' = item
  BY DEF TextDelta, Tells, ItemKnown
<1>3. new.at = "begun"
  BY DEF ItemKnown
<1> HIDE DEF l, r, new, c, d
<1>4. ASSUME reduced.at = "open" PROVE Match(l, r, item')
  <2>1. /\ live.at = "open" /\ WellMade(live) /\ WellMade(reduced) /\ item \in [Item -> ItemTold]
        /\ Tracks(live, item, {"added", "begun"}) /\ (TextsHaveItems(item) => Alike(live, reduced))
        /\ \A j \in DOMAIN reduced.open : ~reduced.open[j].deferred
        /\ item[i].at = "new" <=> item[i].type = "none"
    BY <1>1, <1>4, BothOpen
  <2>2. \A j \in DOMAIN live.open : live.open[j].kind = "tool" \/ live.open[j].kind = "text"
    BY <2>1, TranslatorIs DEF WellMade, OpenShape
  <2>3. i \in DOMAIN live.open => live.open[i].kind = "text"
    BY <1>1, <2>1, <2>2 DEF Tracks, Calls
  <2>4. l.at = live.at
    BY <2>1, <2>3, LiveTextKeeps DEF l
  <2>5. r.at = reduced.at
    BY <2>1, ReducedTextKeeps DEF r
  <2>6. ASSUME TextsHaveItems(item') PROVE Alike(l, r)
    <3>1. item[i].at # "new" /\ item' = item
      BY <1>2, <1>3, <2>1, <2>6 DEF TextsHaveItems
    <3>2. Alike(live, reduced) /\ item[i].at = "added" /\ item[i].type = "message"
      BY <1>1, <2>1, <2>6, <3>1 DEF TextsHaveItems
    <3>3. i \in DOMAIN live.open
      BY <2>1, <3>2 DEF Tracks, Blocky
    <3>4. live.open[i].kind = "text"
      BY <2>3, <3>3
    <3>5. /\ i \in DOMAIN reduced.open /\ reduced.open[i].kind = "text"
          /\ reduced.open[i].index = live.open[i].index
      BY <3>2, <3>3, <3>4 DEF Alike, OpensAlike
    <3>6. l = TextCounted(c, i)
      BY <2>1, <3>3, <3>4, LiveTextIs DEF l, c
    <3>7. r = Written(d, live.open[i].index, 1)
      BY <2>1, <3>5, ReducedTextIs DEF r, d
    <3>8. Alike(c, d)
      BY <3>2, ClosedAlike DEF c, d
    <3>9. c.open = live.open
      BY <2>1, ThinkingClosedIs DEF c
    <3> QED BY <3>3, <3>4, <3>6, <3>7, <3>8, <3>9, TextCountedAlike
  <2> QED BY <1>4, <2>1, <2>4, <2>5, <2>6, OpenMatch
<1> QED BY <1>1, <1>4, StepMatches

\* An item is done in both.
LEMMA DoneAlike ==
    ASSUME Alike(live, reduced), NEW i \in Item, item[i].type \in Types, item[i].at = "added",
           Tracks(live, item, {"added", "begun"}), NEW given \in BOOLEAN, NEW seals \in BOOLEAN,
           NEW l, l = LiveDone(i, given, seals), NEW r, r = ReducedDone(i, given, seals)
    PROVE  Alike(l, r)
PROOF
<1>1. WellMade(live) /\ WellMade(reduced) /\ OpensAlike(live, reduced)
  BY DEF Alike
<1>2. CASE item[i].type = "reasoning"
  <2>1. l = ReasoningDone(live, i, seals) /\ r = ReasoningDone(reduced, i, seals)
    BY <1>2 DEF LiveDone, ReducedDone
  <2> QED BY <2>1, ReasoningDoneAlike
<1>3. CASE item[i].type = "search"
  <2> DEFINE c == ThinkingClosed(live)
             d == ThinkingClosed(reduced)
  <2>1. l = SearchDelayed(c)
    BY <1>3, Zenon DEF LiveDone, SearchDelayed
  <2>2. r = Searched(d)
    BY <1>3, Zenon DEF ReducedDone, Searched, SearchIn
  <2>3. Alike(c, d)
    BY ClosedAlike
  <2> HIDE DEF c, d
  <2> QED BY <2>1, <2>2, <2>3, SearchAlike
<1>4. CASE item[i].type \in Blocky
  <2>1. i \in DOMAIN live.open /\ i \in DOMAIN reduced.open /\ reduced.open[i].kind = live.open[i].kind
    BY <1>1, <1>4 DEF Tracks, OpensAlike
  <2>2. item[i].type # "reasoning" /\ item[i].type # "search"
    BY <1>4 DEF Blocky
  <2>3. CASE live.open[i].kind = "tool"
    <3>1. l = CallDone(live, i, given) /\ r = CallDone(reduced, i, given)
      BY <2>1, <2>2, <2>3 DEF LiveDone, ReducedDone
    <3> QED BY <2>1, <2>3, <3>1, CallDoneAlike
  <2>4. CASE live.open[i].kind # "tool"
    <3>1. live.open[i].kind = "text"
      BY <1>1, <2>1, <2>4, TranslatorIs DEF WellMade, OpenShape
    <3>2. r = TextStopped(reduced, i)
      <4>1. WithoutBlock(reduced, i).message = reduced.message
        BY <1>1, WithoutIs DEF WellMade
      <4> QED BY <2>1, <2>2, <2>4, <4>1, Zenon DEF ReducedDone, TextStopped
    <3>3. CASE live.open[i].deferred
      <4>1. l = TextDeferred(live, i)
        BY <2>1, <2>2, <2>4, <3>3, Zenon DEF LiveDone, TextDeferred
      <4> QED BY <2>1, <3>2, <3>3, <4>1, TextDeferredAlike
    <3>4. CASE ~live.open[i].deferred
      <4>1. l = TextStopped(live, i)
        <5>1. WithoutBlock(live, i).message = live.message
          BY <1>1, WithoutIs DEF WellMade
        <5> QED BY <2>1, <2>2, <2>4, <3>4, <5>1, Zenon DEF LiveDone, TextStopped
      <4> QED BY <2>1, <3>1, <3>2, <3>4, <4>1, TextStoppedAlike
    <3> QED BY <3>3, <3>4
  <2> QED BY <2>3, <2>4
<1> QED BY <1>2, <1>3, <1>4 DEF Types, Blocky

\* An item's end keeps them in step.
LEMMA ItemDoneMatches ==
    ASSUME StreamsAreSound, StreamsMatch, NEW i \in Item, ItemDone(i)
    PROVE  StreamsMatch'
PROOF
<1>1. PICK given \in BOOLEAN, seals \in BOOLEAN :
         Reads(LiveDone(i, given, seals), ReducedDone(i, given, seals))
  BY DEF ItemDone
<1> DEFINE l == LiveDone(i, given, seals)
           r == ReducedDone(i, given, seals)
           new == ItemKnown(item[i].type, IF item[i].at = "begun" THEN "ended" ELSE "done")
<1>2. Event /\ Reads(l, r) /\ item[i].at \in {"begun", "added"}
  BY <1>1 DEF ItemDone
<1>3. item' = [item EXCEPT ![i] = new]
  BY DEF ItemDone, Tells, ItemKnown
<1>4. item[i].at = "begun" => new.at = "ended"
  BY DEF ItemKnown
<1> HIDE DEF l, r, new
<1>5. ASSUME reduced.at = "open" PROVE Match(l, r, item')
  <2>1. /\ live.at = "open" /\ WellMade(live) /\ WellMade(reduced) /\ item \in [Item -> ItemTold]
        /\ Tracks(live, item, {"added", "begun"}) /\ (TextsHaveItems(item) => Alike(live, reduced))
        /\ \A j \in DOMAIN reduced.open : ~reduced.open[j].deferred
        /\ item[i].at = "new" <=> item[i].type = "none"
    BY <1>2, <1>5, BothOpen
  <2>2. item[i].type \in Types
    BY <1>2, <2>1 DEF ItemTold
  <2>3. l.at = live.at
    BY <2>1, <2>2, LiveDoneKeeps DEF l
  <2>4. r.at = reduced.at
    BY <2>1, <2>2, ReducedDoneKeeps DEF r
  <2>5. ASSUME TextsHaveItems(item') PROVE Alike(l, r)
    <3>1. item[i].at = "added"
      BY <1>2, <1>3, <1>4, <2>1, <2>5 DEF TextsHaveItems
    <3>2. TextsHaveItems(item)
      BY <1>3, <2>1, <2>5, <3>1, HeardBefore, Zenon
    <3> QED BY <2>1, <2>2, <3>1, <3>2, DoneAlike DEF l, r
  <2> QED BY <1>5, <2>1, <2>3, <2>4, <2>5, OpenMatch
<1> QED BY <1>2, <1>5, StepMatches

\* What the live stream sends at the end is what the reducer has.
LEMMA FinishedAlike ==
    ASSUME Alike(live, reduced), DOMAIN reduced.open = {},
           NEW l, l = LiveFinished, NEW d, d = ThinkingClosed(reduced)
    PROVE  l.message.blocks = d.message.blocks
PROOF
<1> DEFINE c == ThinkingClosed(live)
<1>1. WellMade(live) /\ WellMade(reduced) /\ DOMAIN live.open = {}
  BY DEF Alike, OpensAlike
<1>2. AllSent(c, l.message) /\ c.open = live.open
  BY <1>1, LiveFinishedKeeps, ThinkingClosedIs
<1>3. Alike(c, d)
  BY ClosedAlike
<1> HIDE DEF c
<1>4. WellMade(c) /\ WellMade(d) /\ Shows(c, d.message) /\ Owes(c, d.message)
  BY <1>3 DEF Alike
<1>5. DOMAIN d.message.blocks = 0 .. c.next - 1
  BY <1>3, AlikeThere
<1>6. DOMAIN l.message.blocks = 0 .. c.next - 1 /\ l.message \in MessageShape
  BY <1>2 DEF AllSent
<1>7. d.message \in MessageShape
  BY <1>4, TranslatorIs DEF WellMade
<1>8. ASSUME NEW b \in 0 .. c.next - 1 PROVE l.message.blocks[b] = d.message.blocks[b]
  <2>1. CASE b \in DOMAIN c.message.blocks
    <3>1. ~\E i \in Now(c) : c.open[i].index = b
      BY <1>1, <1>2 DEF Now
    <3>2. l.message.blocks[b] = c.message.blocks[b]
      BY <1>2, <2>1, <3>1 DEF AllSent
    <3> QED BY <1>4, <2>1, <3>2 DEF Shows
  <2>2. CASE b \notin DOMAIN c.message.blocks
    <3>1. Waits(c, b)
      BY <1>4, <2>2 DEF WellMade, Places
    <3>2. \/ \E k \in DOMAIN c.searches : b \in {c.searches[k], c.searches[k] + 1}
          \/ \E k \in DOMAIN c.deferred : c.deferred[k].index = b
      BY <1>1, <1>2, <3>1 DEF Waits
    <3> QED BY <1>2, <1>4, <3>2 DEF AllSent, Owes
  <2> QED BY <2>1, <2>2
<1>9. /\ l.message.blocks = [b \in DOMAIN l.message.blocks |-> l.message.blocks[b]]
      /\ d.message.blocks = [b \in DOMAIN d.message.blocks |-> d.message.blocks[b]]
  <2>1. /\ l.message.blocks \in PartialFunctions(Nat, BlockShape)
        /\ d.message.blocks \in PartialFunctions(Nat, BlockShape)
    BY <1>6, <1>7 DEF MessageShape
  <2> QED BY <2>1, PartialIs
<1> QED BY <1>5, <1>6, <1>8, <1>9, Zenon

\* The end of the answer keeps them in step, however it comes.
LEMMA EndMatches ==
    ASSUME StreamsAreSound, StreamsMatch, Completed \/ Breaks \/ Closes
    PROVE  StreamsMatch'
PROOF
<1> DEFINE fail == EndedAs(reduced, "failed")
<1>1. "failed" \in Phase /\ "completed" \in Phase
  BY DEF Phase
<1>2. WellMade(reduced)
  BY DEF StreamsAreSound, ReducedIsSound
<1>3. fail.at = "failed"
  <2>1. fail = EndedAs(reduced, "failed")
    OBVIOUS
  <2> HIDE DEF fail
  <2> QED BY <1>1, <1>2, <2>1, EndedKeeps
<1>4. CASE Completed
  <2> DEFINE l == LiveFinished
             r == ReducedFinished
             d == ThinkingClosed(reduced)
  <2>1. Event /\ Reads(l, r) /\ item' = item
    BY <1>4 DEF Completed
  <2>2. ASSUME reduced.at = "open" PROVE Match(l, r, item')
    <3>1. /\ live.at = "open" /\ WellMade(live) /\ (TextsHaveItems(item) => Alike(live, reduced))
          /\ \A j \in DOMAIN reduced.open : ~reduced.open[j].deferred
      BY <2>1, <2>2, BothOpen
    <3>2. l.at = "completed"
      <4>1. l = LiveFinished
        OBVIOUS
      <4> HIDE DEF l
      <4> QED BY <3>1, <4>1, LiveFinishedKeeps
    <3>3. CASE DOMAIN reduced.open # {}
      <4>1. r = fail
        BY <3>3, Zenon DEF ReducedFinished, EndedAs
      <4>2. r.at = "failed"
        BY <1>3, <4>1
      <4> HIDE DEF l, r
      <4> QED BY <3>2, <4>2 DEF Match
    <3>4. CASE DOMAIN reduced.open = {}
      <4>1. r = EndedAs(d, "completed")
        BY <3>4, Zenon DEF ReducedFinished, EndedAs
      <4>2. WellMade(d)
        BY <1>2, ThinkingClosedIs
      <4>3. r.message = d.message
        <5> HIDE DEF r, d
        <5> QED BY <1>1, <4>1, <4>2, EndedKeeps
      <4>4. TextsHaveItems(item) => l.message.blocks = d.message.blocks
        <5>1. l = LiveFinished /\ d = ThinkingClosed(reduced)
          OBVIOUS
        <5> HIDE DEF l, d
        <5> QED BY <3>1, <3>4, <5>1, FinishedAlike
      <4> HIDE DEF l, r, d
      <4> QED BY <2>1, <3>2, <4>3, <4>4 DEF Match
    <3> QED BY <3>3, <3>4
  <2> HIDE DEF l, r
  <2> QED BY <2>1, <2>2, StepMatches
<1>5. CASE Breaks
  <2> DEFINE l == EndedAs(live, "failed")
  <2>1. Event /\ Reads(l, fail)
    BY <1>5, Zenon DEF Breaks, EndedAs
  <2>2. l.at = "failed"
    <3>1. l = EndedAs(live, "failed") /\ WellMade(live)
      BY DEF StreamsAreSound, LiveIsSound
    <3> HIDE DEF l
    <3> QED BY <1>1, <3>1, EndedKeeps
  <2> HIDE DEF l, fail
  <2>3. Match(l, fail, item')
    BY <1>3, <2>2 DEF Match
  <2> QED BY <2>1, <2>3, StepMatches
<1>6. CASE Closes
  <2> DEFINE l == LiveClosed
  <2>1. Event /\ Reads(l, fail)
    BY <1>6, Zenon DEF Closes, EndedAs
  <2>2. l.at \in {"closed", "failed"}
    <3>1. l = LiveClosed /\ WellMade(live)
      BY DEF StreamsAreSound, LiveIsSound
    <3> HIDE DEF l
    <3> QED BY <3>1, LiveClosedKeeps
  <2> HIDE DEF l, fail
  <2>3. Match(l, fail, item')
    BY <1>3, <2>2 DEF Match
  <2> QED BY <2>1, <2>3, StepMatches
<1> QED BY <1>4, <1>5, <1>6

\* They begin alike.
LEMMA StreamsBeginAlike ==
    ASSUME TranslationInit
    PROVE  StreamsMatch
PROOF
<1>1. StreamsAreSound
  BY StreamsBegin
<1>2. WellMade(live) /\ WellMade(reduced)
  BY <1>1 DEF StreamsAreSound, LiveIsSound, ReducedIsSound
<1>3. /\ live = reduced /\ live.at = "open" /\ DOMAIN live.open = {}
      /\ DOMAIN live.searches = {} /\ DOMAIN live.deferred = {}
  BY DEF TranslationInit
<1>4. Alike(live, reduced)
  BY <1>2, <1>3 DEF Alike, SamePlace, OpensAlike, Shows, Owes
<1> QED BY <1>3, <1>4 DEF StreamsMatch, Match

\* As long as both are read, the reducer has every block that the live stream has sent or owes.
THEOREM StreamsStayAlike == TranslationSpec => [](StreamsAreSound /\ StreamsMatch)
PROOF
<1>1. TranslationInit => StreamsAreSound /\ StreamsMatch
  BY StreamsBegin, StreamsBeginAlike
<1>2. StreamsAreSound /\ StreamsMatch /\ [TranslationNext]_streamVars => StreamsMatch'
  <2> SUFFICES ASSUME StreamsAreSound, StreamsMatch, [TranslationNext]_streamVars PROVE StreamsMatch'
    OBVIOUS
  <2>1. CASE TranslationNext
    BY <2>1, ItemAddedMatches, SummaryDeltaMatches, SummaryPartMatches, TextDeltaMatches,
       ArgumentsDeltaMatches, ArgumentsDoneMatches, ItemDoneMatches, EndMatches DEF TranslationNext
  <2>2. CASE UNCHANGED streamVars
    BY <2>2 DEF streamVars, StreamsMatch, Match, TextsHaveItems
  <2> QED BY <2>1, <2>2
<1> QED BY <1>1, <1>2, StreamsStaySound, PTL DEF TranslationSpec

\* What the two invariants say of the safety properties.
LEMMA AlikeStreams ==
    ASSUME StreamsAreSound, StreamsMatch
    PROVE  TranslationSafety
PROOF
<1>1. LiveMatchesBuffered
  BY Zenon DEF StreamsMatch, Match, TextsHaveItems, LiveMatchesBuffered
<1> QED BY <1>1, SoundStreams DEF TranslationSafety

(* For any items, however their events interleave: each translator starts a block
   once and writes and stops it only while it is open; a call is shown as ended
   only when it is complete; and an answer that both accept, whose texts do not
   come without their items, is the same message streamed and whole. *)
THEOREM TranslationsAreSafe == TranslationSpec => []TranslationSafety
BY StreamsStayAlike, AlikeStreams, PTL
=============================================================================

