----------------------------- MODULE Network_proofs -----------------------------
(***************************************************************************)
(* The HTTP client's side of the network, for any requests, networks and    *)
(* limits: the streamed requests that read their answer from one attempt    *)
(* at a time, the buffered ones that are posted again, and the pool of      *)
(* clients with its leases of the network path.                             *)
(*                                                                          *)
(* A streamed request is safe because of what the task holds between two    *)
(* events: what it has read of the attempt is either sent, held back, or in *)
(* a row about to be sent, and nothing has been sent of an attempt that     *)
(* may still be given up.  The attempts of all paths are counted, so that   *)
(* their number is bounded, and the posts of a buffered request by what has *)
(* made each of them necessary.                                             *)
(***************************************************************************)
EXTENDS NetworkPool, BufferedPost, FiniteSums_proofs

-----------------------------------------------------------------------------
(* Requests over HTTP. *)

PerPath == MaxHttpRetries + 1
Retrying == {"opening", "dns", "waiting", "pausing"}
Unopened == Retrying \union {"idle"}

\* The indices of the events of an attempt among the first n of s.
SentOf(s, a, n) == {s[k][2] : k \in {k \in 1 .. n : s[k][1] = a}}

\* The attempts of the earlier paths, and one for each retry on this one.
AttemptsCounted ==
    /\ task.lease <= route
    /\ task.attempt <= task.lease * PerPath + task.retries
                         + (IF task.at \in Unopened THEN 0 ELSE 1)

\* Where nothing is read, nothing waits to be sent; what waits for output has
\* been read in order and consists of structural events.
HeldBack ==
    /\ task.at \in Unopened => ~task.forwarded /\ task.pending = <<>> /\ task.outbox = <<>>
    /\ task.at = "idle" => sent = <<>>
    /\ task.at = "reading" => task.outbox = <<>>

\* What has been sent.
History ==
    /\ \A k \in DOMAIN sent : sent[k][1] <= task.attempt
    /\ \A k \in DOMAIN sent : sent[k][3] \in Final => k = Len(sent) /\ task.at = "over"
    /\ \A k \in DOMAIN sent : sent[k][3] = "semantic" =>
          /\ task.forwarded
          /\ \A j \in k .. Len(sent) : sent[j][1] = task.attempt
          /\ SentOf(sent, sent[k][1], k) = 1 .. sent[k][2]
    /\ task.at = "over" /\ ~task.left => sent # <<>> /\ sent[Len(sent)][3] \in Final

\* What the attempt has read: sent, held back, or about to be sent.
AllRead ==
    IF task.forwarded
    THEN task.pending = <<>> /\ SentOf(sent, task.attempt, Len(sent)) = 1 .. task.read
    ELSE /\ Len(task.pending) = task.read /\ SentOf(sent, task.attempt, Len(sent)) = {}
         /\ \A i \in 1 .. task.read : task.pending[i] = <<task.attempt, i, "structural">>

\* Events in a row, of which the last is one that lets them go.
DrainsAfter(t, s, m) ==
    /\ SentOf(s, t.attempt, Len(s)) = 1 .. m /\ t.pending = <<>>
    /\ m + Len(t.outbox) = t.read
    /\ t.forwarded \/ t.outbox[Len(t.outbox)][3] \in Final
    /\ \A i \in DOMAIN t.outbox :
          /\ t.outbox[i][1] = t.attempt /\ t.outbox[i][2] = m + i
          /\ t.outbox[i][3] = "semantic" => t.forwarded
          /\ i < Len(t.outbox) => t.outbox[i][3] = "structural"

Draining == \E m \in 0 .. MaxBody : DrainsAfter(task, sent, m)

LastWord ==
    Len(task.outbox) = 1 /\ task.outbox[1][1] = task.attempt /\ task.outbox[1][3] \in {"failure", "error"}

Current ==
    /\ task.at = "reading" => AllRead
    /\ task.at = "sending" => IF task.outbox = <<>> THEN AllRead ELSE LastWord \/ Draining

HttpInv == HttpTypeOK /\ WaitsWithinBudget /\ AttemptsCounted /\ HeldBack /\ History /\ Current

LEMMA Limits ==
    /\ MaxHttpRetries \in Nat /\ InitialDelay \in Nat /\ LongestDelay \in Nat
    /\ MaxPathChanges \in Nat /\ MaxBody \in Nat
    /\ NotAsked \in Asked /\ NotAsked \notin Nat /\ \A a \in Asked : a # NotAsked => a \in Nat
BY HttpTurnsAssumption


-----------------------------------------------------------------------------
(* The delays. *)

Doubling(f, retries) ==
    LET doubled == IF retries = 0 THEN InitialDelay ELSE 2 * f[retries - 1]
    IN  IF doubled > LongestDelay THEN LongestDelay ELSE doubled

IsCeiling(f, n) == \A r \in 0 .. n : f[r] \in 0 .. LongestDelay /\ f[r] = Doubling(f, r)

\* The recursion has a solution, with all delays within the longest one.
LEMMA SomeCeiling == \E f : IsCeiling(f, MaxHttpRetries)
<1> DEFINE Bad == {n \in 0 .. MaxHttpRetries : ~\E f : IsCeiling(f, n)}
<1>1. ASSUME Bad # {} PROVE FALSE
  <2>1. Bad \in SUBSET (0 .. MaxHttpRetries)
    OBVIOUS
  <2> HIDE DEF Bad
  <2>2. PICK n \in Bad : \A m \in Bad : n <= m
    BY <1>1, <2>1, LeastOf, Limits
  <2>3. n \in 0 .. MaxHttpRetries
    BY <2>1
  <2>4. ASSUME n = 0 PROVE \E f : IsCeiling(f, n)
    <3> DEFINE f == [r \in 0 .. 0 |-> IF InitialDelay > LongestDelay THEN LongestDelay ELSE InitialDelay]
    <3>1. \A r \in 0 .. 0 : r = 0 /\ f[r] \in 0 .. LongestDelay /\ f[r] = Doubling(f, r)
      BY Limits DEF Doubling
    <3> HIDE DEF f
    <3> QED BY <2>4, <3>1 DEF IsCeiling
  <2>5. ASSUME n # 0 PROVE \E f : IsCeiling(f, n)
    <3>1. n - 1 \in 0 .. MaxHttpRetries /\ ~(n <= n - 1)
      BY <2>3, <2>5, Limits
    <3>2. n - 1 \notin Bad
      BY <2>2, <3>1
    <3>3. PICK g : IsCeiling(g, n - 1)
      BY <3>1, <3>2 DEF Bad
    <3> DEFINE f == [r \in 0 .. n |-> IF r = n THEN Doubling(g, n) ELSE g[r]]
    <3>4. g[n - 1] \in 0 .. LongestDelay
      BY <2>3, <2>5, <3>3, Limits DEF IsCeiling
    <3>5. Doubling(g, n) \in 0 .. LongestDelay
      BY <2>3, <2>5, <3>4, Limits DEF Doubling
    <3>6. ASSUME NEW r \in 0 .. n PROVE f[r] \in 0 .. LongestDelay /\ f[r] = Doubling(f, r)
      <4>1. r # 0 => r - 1 \in 0 .. n /\ r - 1 # n
        BY <2>3
      <4>2. Doubling(f, r) = Doubling(g, r)
        BY <4>1 DEF Doubling
      <4>3. CASE r = n
        BY <3>5, <4>2, <4>3
      <4>4. CASE r # n
        <5>1. r \in 0 .. n - 1
          BY <2>3, <4>4
        <5> QED BY <3>3, <4>2, <4>4, <5>1 DEF IsCeiling
      <4> QED BY <4>3, <4>4
    <3> HIDE DEF f
    <3> QED BY <3>6 DEF IsCeiling
  <2> QED BY <2>2, <2>4, <2>5 DEF Bad
<1> HIDE DEF Bad
<1>2. MaxHttpRetries \in 0 .. MaxHttpRetries
  BY Limits
<1> QED BY <1>1, <1>2 DEF Bad

LEMMA CeilingIs == \A r \in 0 .. MaxHttpRetries : Ceiling[r] \in 0 .. LongestDelay
<1> DEFINE Solution(f) == f = [r \in 0 .. MaxHttpRetries |-> Doubling(f, r)]
<1>1. PICK f : IsCeiling(f, MaxHttpRetries)
  BY SomeCeiling
<1> DEFINE g == [r \in 0 .. MaxHttpRetries |-> f[r]]
<1>2. ASSUME NEW r \in 0 .. MaxHttpRetries PROVE Doubling(f, r) = Doubling(g, r)
  <2>1. r # 0 => r - 1 \in 0 .. MaxHttpRetries
    BY Limits
  <2> QED BY <2>1 DEF Doubling
<1>3. Solution(g)
  BY <1>1, <1>2 DEF IsCeiling
<1>4. Solution(Ceiling)
  <2>1. Ceiling = CHOOSE h : Solution(h)
    BY Zenon DEF Ceiling, Doubling
  <2> HIDE DEF Solution, g
  <2> QED BY <1>3, <2>1
<1> DEFINE Bad == {r \in 0 .. MaxHttpRetries : Ceiling[r] \notin 0 .. LongestDelay}
<1>5. ASSUME Bad # {} PROVE FALSE
  <2>1. Bad \in SUBSET (0 .. MaxHttpRetries)
    OBVIOUS
  <2> HIDE DEF Bad
  <2>2. PICK r \in Bad : \A m \in Bad : r <= m
    BY <1>5, <2>1, LeastOf, Limits
  <2>3. r \in 0 .. MaxHttpRetries /\ Ceiling[r] \notin 0 .. LongestDelay
    BY DEF Bad
  <2>4. Ceiling[r] = Doubling(Ceiling, r)
    BY <1>4, <2>3
  <2>5. r # 0 => r - 1 \in 0 .. MaxHttpRetries /\ ~(r <= r - 1)
    BY <2>3, Limits
  <2>6. r # 0 => Ceiling[r - 1] \in 0 .. LongestDelay
    BY <2>2, <2>5 DEF Bad
  <2>7. Doubling(Ceiling, r) \in 0 .. LongestDelay
    BY <2>3, <2>6, Limits DEF Doubling
  <2> QED BY <2>3, <2>4, <2>7
<1> QED BY <1>5

\* A delay lies within the budget, whether it is computed or asked for.
LEMMA BackoffWithin ==
    ASSUME NEW r \in 0 .. MaxHttpRetries, NEW asked \in Asked, ~ExceedsBudget(asked),
           NEW wait \in Backoff(r, asked)
    PROVE  wait \in 0 .. LongestDelay /\ (asked # NotAsked => wait >= asked)
<1>1. Ceiling[r] \in 0 .. LongestDelay
  BY CeilingIs
<1>2. CASE asked # NotAsked
  BY <1>2, Limits DEF ExceedsBudget, Backoff
<1>3. CASE asked = NotAsked
  <2>1. wait \in Ceiling[r] \div 2 .. Ceiling[r]
    BY <1>3 DEF Backoff
  <2>2. \A c \in 0 .. LongestDelay : \A w \in c \div 2 .. c : w \in 0 .. LongestDelay
    BY Limits
  <2> QED BY <1>1, <1>3, <2>1, <2>2
<1> QED BY <1>2, <1>3

-----------------------------------------------------------------------------
(* What has been sent. *)

LEMMA EventsAre == \A e \in Events : e[1] \in Nat /\ e[2] \in Nat
<1>1. Attempts \subseteq Nat
  BY Limits DEF Attempts
<1>2. 0 .. MaxBody \subseteq Nat
  BY Limits
<1>3. \A e \in Events : e[1] \in Attempts /\ e[2] \in 0 .. MaxBody
  BY DEF Events
<1> QED BY <1>1, <1>2, <1>3

LEMMA SentBefore ==
    ASSUME NEW s \in Seq(Events), NEW e \in Events, NEW a, NEW n \in 0 .. Len(s)
    PROVE  SentOf(Append(s, e), a, n) = SentOf(s, a, n)
BY DEF SentOf

LEMMA SentMore ==
    ASSUME NEW s \in Seq(Events), NEW e \in Events
    PROVE  SentOf(Append(s, e), e[1], Len(Append(s, e))) = SentOf(s, e[1], Len(s)) \union {e[2]}
<1> DEFINE t == Append(s, e)
           Old == {k \in 1 .. Len(s) : s[k][1] = e[1]}
<1>1. /\ Len(t) = Len(s) + 1 /\ Len(s) \in Nat /\ t[Len(s) + 1] = e
      /\ \A k \in 1 .. Len(s) : t[k] = s[k]
  OBVIOUS
<1> HIDE DEF t
<1>2. {k \in 1 .. Len(t) : t[k][1] = e[1]} = Old \union {Len(s) + 1}
  BY <1>1
<1>3. SentOf(t, e[1], Len(t)) = {t[k][2] : k \in Old \union {Len(s) + 1}}
  BY <1>2 DEF SentOf
<1>4. {t[k][2] : k \in Old \union {Len(s) + 1}} = {s[k][2] : k \in Old} \union {e[2]}
  BY <1>1
<1> QED BY <1>3, <1>4 DEF SentOf, t

\* Nothing is sent.
LEMMA HistoryStays ==
    ASSUME HttpTypeOK, HttpTypeOK', History, sent' = sent, task'.attempt >= task.attempt,
           task.at # "over",
           task.forwarded => task'.forwarded /\ task'.attempt = task.attempt,
           task'.at = "over" => task'.left
    PROVE  History'
<1>1. \A k \in DOMAIN sent : sent[k][1] \in Nat
  BY EventsAre DEF HttpTypeOK
<1>2. task.attempt \in Nat /\ task'.attempt \in Nat
  BY Limits DEF HttpTypeOK, HttpTask, Attempts
<1>3. \A k \in DOMAIN sent : sent[k][1] <= task'.attempt
  BY <1>1, <1>2 DEF History
<1>4. \A k \in DOMAIN sent : sent[k][3] \notin Final
  BY DEF History
<1> QED BY <1>3, <1>4 DEF History

\* An event is sent.
LEMMA HistoryGrows ==
    ASSUME HttpTypeOK, History, NEW e \in Events, sent' = Append(sent, e), task.at # "over",
           e[1] = task.attempt, task'.attempt = task.attempt, task.forwarded => task'.forwarded,
           e[3] \in Final => task'.at = "over",
           task'.at = "over" /\ ~task'.left => e[3] \in Final,
           e[3] = "semantic" =>
               task'.forwarded /\ SentOf(sent, e[1], Len(sent)) \union {e[2]} = 1 .. e[2]
    PROVE  History'
<1> DEFINE n == Len(sent)
<1>1. /\ sent \in Seq(Events) /\ n \in Nat /\ sent' \in Seq(Events) /\ Len(sent') = n + 1
      /\ sent'[n + 1] = e /\ DOMAIN sent' = 1 .. n + 1 /\ DOMAIN sent = 1 .. n
      /\ \A k \in 1 .. n : sent'[k] = sent[k]
  BY DEF HttpTypeOK
<1>2. \A k \in 1 .. n : SentOf(sent', sent[k][1], k) = SentOf(sent, sent[k][1], k)
  BY <1>1, SentBefore
<1>3. SentOf(sent', e[1], n + 1) = SentOf(sent, e[1], n) \union {e[2]}
  BY <1>1, SentMore
<1>4. task.attempt \in Nat
  BY Limits DEF HttpTypeOK, HttpTask, Attempts
<1>5. \A k \in 1 .. n : sent[k][3] \notin Final /\ sent[k][1] <= task.attempt
  BY <1>1 DEF History
<1>6. ASSUME NEW k \in DOMAIN sent' PROVE sent'[k][1] <= task'.attempt
  BY <1>1, <1>4, <1>5, <1>6
<1>7. ASSUME NEW k \in DOMAIN sent', sent'[k][3] \in Final PROVE k = Len(sent') /\ task'.at = "over"
  BY <1>1, <1>5, <1>7
<1>8. ASSUME NEW k \in DOMAIN sent', sent'[k][3] = "semantic"
      PROVE  /\ task'.forwarded
             /\ \A j \in k .. Len(sent') : sent'[j][1] = task'.attempt
             /\ SentOf(sent', sent'[k][1], k) = 1 .. sent'[k][2]
  <2>1. CASE k = n + 1
    <3>1. \A j \in k .. Len(sent') : j = n + 1
      BY <1>1, <2>1
    <3> QED BY <1>1, <1>3, <1>8, <2>1, <3>1
  <2>2. CASE k # n + 1
    <3>1. k \in 1 .. n /\ sent[k][3] = "semantic" /\ sent'[k] = sent[k]
      BY <1>1, <1>8, <2>2
    <3>2. /\ task.forwarded /\ SentOf(sent, sent[k][1], k) = 1 .. sent[k][2]
          /\ \A j \in k .. n : sent[j][1] = task.attempt
      BY <1>1, <3>1 DEF History
    <3>3. ASSUME NEW j \in k .. n + 1 PROVE j = n + 1 \/ (j \in k .. n /\ j \in 1 .. n)
      <4>1. n \in Nat /\ k \in 1 .. n
        BY <1>1, <3>1
      <4> HIDE DEF n
      <4> QED BY <3>3, <4>1
    <3>4. \A j \in k .. Len(sent') : sent'[j][1] = task'.attempt
      BY <1>1, <3>2, <3>3
    <3> QED BY <1>2, <3>1, <3>2, <3>4
  <2> QED BY <2>1, <2>2
<1>9. task'.at = "over" /\ ~task'.left => sent' # <<>> /\ sent'[Len(sent')][3] \in Final
  BY <1>1
<1> HIDE DEF n
<1> QED BY <1>6, <1>7, <1>8, <1>9 DEF History

-----------------------------------------------------------------------------
(* The steps of a request. *)

LEMMA AttemptsMultiply ==
    /\ PerPath \in Nat /\ PerPath >= 1
    /\ \A l, m \in Nat : l < m => l * PerPath + PerPath <= m * PerPath
    /\ \A l \in 0 .. MaxPathChanges :
          l * PerPath + PerPath <= (MaxHttpRetries + 1) * (MaxPathChanges + 1)
<1>1. PerPath \in Nat /\ PerPath >= 1
  BY Limits DEF PerPath
<1>2. \A l, d, p \in Nat : (l + d) * p = l * p + d * p /\ d * p \in Nat
  OBVIOUS
<1>3. \A p \in Nat, d \in Nat : d >= 1 => d * p >= p
  OBVIOUS
<1>4. ASSUME NEW l \in Nat, NEW m \in Nat, l < m PROVE l * PerPath + PerPath <= m * PerPath
  <2> DEFINE d == m - l
  <2>1. d \in Nat /\ d >= 1 /\ m = l + d
    BY <1>4
  <2> HIDE DEF d
  <2>2. m * PerPath = l * PerPath + d * PerPath /\ d * PerPath >= PerPath
    BY <1>1, <1>2, <1>3, <2>1
  <2>3. l * PerPath \in Nat /\ d * PerPath \in Nat
    BY <1>1, <1>2, <2>1
  <2> QED BY <1>1, <2>2, <2>3
<1>5. (MaxHttpRetries + 1) * (MaxPathChanges + 1) = (MaxPathChanges + 1) * PerPath
  BY Limits DEF PerPath
<1>6. \A l \in 0 .. MaxPathChanges : l \in Nat /\ MaxPathChanges + 1 \in Nat /\ l < MaxPathChanges + 1
  BY Limits
<1> QED BY <1>1, <1>4, <1>5, <1>6

\* A later path has room for the attempts of the paths before it.
LEMMA LaterPath ==
    ASSUME NEW l \in 0 .. MaxPathChanges, NEW m \in 0 .. MaxPathChanges, l < m,
           NEW r \in 0 .. MaxHttpRetries, NEW a \in Nat, a <= l * PerPath + r + 1
    PROVE  m * PerPath \in Nat /\ a <= m * PerPath
<1>1. l \in Nat /\ m \in Nat /\ r \in Nat /\ r + 1 <= PerPath
  BY Limits DEF PerPath
<1>2. l * PerPath + PerPath <= m * PerPath
  BY <1>1, AttemptsMultiply
<1>3. l * PerPath \in Nat /\ m * PerPath \in Nat
  BY <1>1, AttemptsMultiply
<1> DEFINE x == l * PerPath
           y == m * PerPath
<1>4. x \in Nat /\ y \in Nat /\ x + PerPath <= y /\ a <= x + r + 1
  BY <1>2, <1>3
<1> HIDE DEF x, y
<1>5. a <= y
  BY <1>1, <1>4, AttemptsMultiply
<1> QED BY <1>4, <1>5 DEF y

LEMMA TaskTyped ==
    ASSUME HttpTypeOK
    PROVE  /\ task.attempt \in Nat /\ task.retries \in 0 .. MaxHttpRetries
           /\ task.lease \in 0 .. MaxPathChanges /\ task.read \in 0 .. MaxBody
           /\ task.forwarded \in BOOLEAN /\ task.pending \in Seq(Events) /\ task.outbox \in Seq(Events)
           /\ task.attempt \in Attempts /\ route \in 0 .. MaxPathChanges
BY Limits DEF HttpTypeOK, HttpTask, Attempts

\* The request is, or is again, on its way to a response.
LEMMA ReopeningKeeps ==
    ASSUME HttpInv, NEW t \in HttpTask, Becomes(t), UNCHANGED route, task.at # "over",
           t.at \in Retrying, t.attempt = task.attempt, ~t.forwarded, ~task.forwarded,
           t.pending = <<>>, t.outbox = <<>>, t.lease <= route,
           t.attempt <= t.lease * PerPath + t.retries,
           t.at \in {"waiting", "pausing"} =>
               t.wait <= LongestDelay /\ (t.asked # NotAsked => t.wait >= t.asked)
    PROVE  HttpInv'
<1>1. task' = t /\ sent' = sent /\ route' = route
  BY DEF Becomes
<1>2. HttpTypeOK /\ HttpTypeOK' /\ History
  BY <1>1 DEF HttpInv, HttpTypeOK
<1>3. task'.at # "over" /\ task'.at # "reading" /\ task'.at # "sending" /\ task'.at # "idle"
  BY <1>1 DEF Retrying
<1>4. History'
  BY <1>1, <1>2, <1>3, TaskTyped, HistoryStays
<1>5. HeldBack' /\ Current'
  BY <1>1, <1>3 DEF HeldBack, Current, Unopened
<1>6. AttemptsCounted'
  <2>1. PerPath' = PerPath /\ task'.at \in Unopened
    BY <1>1 DEF PerPath, Unopened
  <2>2. t.attempt + 0 = t.attempt /\ t.lease * PerPath + t.retries + 0 = t.lease * PerPath + t.retries
    <3>1. \A a, b, c \in Nat : a + 0 = a /\ b + c + 0 = b + c
      OBVIOUS
    <3>2. t.attempt \in Nat /\ t.retries \in Nat /\ t.lease \in Nat
      BY Limits DEF HttpTask, Attempts
    <3>3. t.lease * PerPath \in Nat
      <4>1. \A l, p \in Nat : l * p \in Nat
        OBVIOUS
      <4> QED BY <3>2, <4>1, AttemptsMultiply
    <3> QED BY <3>1, <3>2, <3>3
  <2> QED BY <1>1, <2>1, <2>2 DEF AttemptsCounted
<1>7. WaitsWithinBudget'
  BY <1>1 DEF WaitsWithinBudget
<1> QED BY <1>2, <1>4, <1>5, <1>6, <1>7 DEF HttpInv

\* It ends with an error.
LEMMA EndingKeeps ==
    ASSUME HttpInv, NEW t \in HttpTask, EndsInError(t), UNCHANGED route,
           task.at \notin {"idle", "over"}, t.attempt = task.attempt, t.lease = task.lease,
           t.retries = task.retries, t.forwarded = task.forwarded
    PROVE  HttpInv'
<1>1. HttpTypeOK /\ History /\ AttemptsCounted
  BY DEF HttpInv
<1>2. Error \in Events /\ Error[1] = task.attempt /\ Error[3] = "error"
  BY <1>1, TaskTyped, Limits DEF Error, Events, EventKinds
<1>3. task.attempt <= task.lease * PerPath + task.retries + 1
  <2>1. \A a, b, c \in Nat : a <= b + c => a <= b + c + 1
    OBVIOUS
  <2>2. task.lease * PerPath \in Nat
    BY <1>1, TaskTyped, AttemptsMultiply
  <2> QED BY <1>1, <2>1, <2>2, TaskTyped DEF AttemptsCounted
<1>4. CASE t.spawned
  <2>1. task' = [t EXCEPT !.at = "sending", !.outbox = <<Error>>] /\ sent' = sent
    BY <1>4 DEF EndsInError
  <2>2. /\ task' \in HttpTask /\ task'.at = "sending" /\ task'.outbox = <<Error>>
        /\ task'.attempt = task.attempt /\ task'.lease = task.lease
        /\ task'.retries = task.retries /\ task'.forwarded = task.forwarded
    <3>1. <<Error>> \in Seq(Events)
      BY <1>2
    <3> DEFINE outbox == <<Error>>
    <3> HIDE DEF outbox
    <3>2. outbox \in Seq(Events)
      BY <3>1 DEF outbox
    <3>3. task' = [t EXCEPT !.at = "sending", !.outbox = outbox]
      BY <2>1 DEF outbox
    <3>4. /\ task' \in HttpTask /\ task'.at = "sending" /\ task'.outbox = outbox
          /\ task'.attempt = task.attempt /\ task'.lease = task.lease
          /\ task'.retries = task.retries /\ task'.forwarded = task.forwarded
      BY <3>2, <3>3 DEF HttpTask
    <3> QED BY <3>4 DEF outbox
  <2>3. HttpTypeOK'
    BY <1>1, <2>1, <2>2 DEF HttpTypeOK
  <2>4. History'
    BY <1>1, <2>1, <2>2, <2>3, TaskTyped, HistoryStays
  <2>5. HeldBack' /\ WaitsWithinBudget'
    BY <2>2 DEF HeldBack, Unopened, Retrying, WaitsWithinBudget
  <2>6. AttemptsCounted'
    BY <1>1, <1>3, <2>2 DEF AttemptsCounted, PerPath, Unopened, Retrying
  <2>7. LastWord'
    BY <1>2, <2>2 DEF LastWord
  <2>8. Current'
    BY <2>2, <2>7 DEF Current
  <2> QED BY <2>3, <2>4, <2>5, <2>6, <2>8 DEF HttpInv
<1>5. CASE ~t.spawned
  <2>1. task' = [t EXCEPT !.at = "over"] /\ sent' = Append(sent, Error)
    BY <1>5 DEF EndsInError
  <2>2. /\ task' \in HttpTask /\ task'.at = "over" /\ task'.attempt = task.attempt
        /\ task'.lease = task.lease /\ task'.retries = task.retries
        /\ task'.forwarded = task.forwarded
    BY <2>1 DEF HttpTask
  <2>3. HttpTypeOK'
    BY <1>1, <1>2, <2>1, <2>2 DEF HttpTypeOK
  <2>4. History'
    BY <1>1, <1>2, <2>1, <2>2, HistoryGrows DEF Final
  <2>5. HeldBack' /\ WaitsWithinBudget' /\ Current'
    BY <2>2 DEF HeldBack, Unopened, Retrying, WaitsWithinBudget, Current
  <2>6. AttemptsCounted'
    BY <1>1, <1>3, <2>2 DEF AttemptsCounted, PerPath, Unopened, Retrying
  <2> QED BY <2>3, <2>4, <2>5, <2>6 DEF HttpInv
<1> QED BY <1>4, <1>5

\* A retryable failure.
LEMMA AgainKeeps ==
    ASSUME HttpInv, NEW asked \in Asked, NEW at \in {"waiting", "pausing"}, Again(task, asked, at),
           UNCHANGED route, task.at \in {"opening", "reading"}, ~task.forwarded
    PROVE  HttpInv'
<1>1. HttpTypeOK /\ HeldBack /\ AttemptsCounted /\ task \in HttpTask
  BY DEF HttpInv, HttpTypeOK
<1>2. CASE EndsInError(task)
  BY <1>1, <1>2, EndingKeeps
<1>3. CASE /\ ~(task.retries >= MaxHttpRetries \/ ExceedsBudget(asked))
           /\ \E wait \in Backoff(task.retries, asked) :
                 Becomes([task EXCEPT !.at = at, !.retries = @ + 1, !.wait = wait, !.asked = asked,
                                      !.pending = <<>>])
  <2>1. PICK wait \in Backoff(task.retries, asked) :
           Becomes([task EXCEPT !.at = at, !.retries = @ + 1, !.wait = wait, !.asked = asked,
                                !.pending = <<>>])
    BY <1>3
  <2>2. wait \in 0 .. LongestDelay /\ (asked # NotAsked => wait >= asked)
    BY <1>1, <1>3, <2>1, TaskTyped, BackoffWithin
  <2>3. task.retries + 1 \in 0 .. MaxHttpRetries
    BY <1>1, <1>3, TaskTyped, Limits
  <2>4. task.outbox = <<>>
    BY <1>1 DEF HeldBack, Unopened, Retrying
  <2> DEFINE t == [task EXCEPT !.at = at, !.retries = @ + 1, !.wait = wait, !.asked = asked,
                               !.pending = <<>>]
  <2>5. /\ t \in HttpTask /\ t.at = at /\ t.attempt = task.attempt /\ t.forwarded = task.forwarded
        /\ t.pending = <<>> /\ t.outbox = <<>> /\ t.lease = task.lease
        /\ t.retries = task.retries + 1 /\ t.wait = wait /\ t.asked = asked
    BY <1>1, <2>2, <2>3, <2>4 DEF HttpTask
  <2> HIDE DEF t
  <2>6. Becomes(t)
    BY <2>1 DEF t
  <2>7. t.attempt <= t.lease * PerPath + t.retries
    <3>1. task.attempt <= task.lease * PerPath + task.retries + 1
      <4>1. \A a, b, c \in Nat : a <= b + c => a <= b + c + 1
        OBVIOUS
      <4>2. task.lease * PerPath \in Nat
        BY <1>1, TaskTyped, AttemptsMultiply
      <4> QED BY <1>1, <4>1, <4>2, TaskTyped DEF AttemptsCounted
    <3>2. \A a, b, c \in Nat : a <= b + c + 1 => a <= b + (c + 1)
      OBVIOUS
    <3>3. task.lease * PerPath \in Nat
      BY <1>1, TaskTyped, AttemptsMultiply
    <3> QED BY <1>1, <2>5, <3>1, <3>2, <3>3, TaskTyped
  <2>8. t.lease <= route
    BY <1>1, <2>5 DEF AttemptsCounted
  <2>9. t.wait <= LongestDelay
    BY <2>2, <2>5, Limits
  <2>10. t.at \in Retrying /\ task.at # "over"
    BY <2>5 DEF Retrying
  <2> QED BY <2>2, <2>5, <2>6, <2>7, <2>8, <2>9, <2>10, ReopeningKeeps
<1> QED BY <1>2, <1>3 DEF Again

\* A response has come.
LEMMA OpenedKeeps == ASSUME HttpInv, Opened PROVE HttpInv'
<1>1. HttpTypeOK /\ HeldBack /\ AttemptsCounted /\ History /\ task \in HttpTask
  BY DEF HttpInv, HttpTypeOK
<1>2. ~task.forwarded /\ task.pending = <<>> /\ task.outbox = <<>>
  BY <1>1 DEF HeldBack, Opened, Unopened, Retrying
<1>3. task.attempt <= task.lease * PerPath + task.retries
  <2>1. task.at \in Unopened
    BY DEF Opened, Unopened, Retrying
  <2>2. \A a, b, c \in Nat : a <= b + c + 0 => a <= b + c
    OBVIOUS
  <2>3. task.lease * PerPath \in Nat
    BY <1>1, TaskTyped, AttemptsMultiply
  <2> QED BY <1>1, <2>1, <2>2, <2>3, TaskTyped DEF AttemptsCounted
<1>4. task.attempt + 1 \in Attempts
  <2>1. \A a, b, c, p, t \in Nat : a <= b + c /\ c + 1 <= p /\ b + p <= t => a + 1 \in 0 .. t
    OBVIOUS
  <2>2. task.lease * PerPath \in Nat /\ (MaxHttpRetries + 1) * (MaxPathChanges + 1) \in Nat
    BY <1>1, TaskTyped, AttemptsMultiply, Limits
  <2>3. task.retries + 1 <= PerPath
    BY <1>1, TaskTyped, Limits DEF PerPath
  <2>4. task.lease * PerPath + PerPath <= (MaxHttpRetries + 1) * (MaxPathChanges + 1)
    BY <1>1, TaskTyped, AttemptsMultiply
  <2> DEFINE b == task.lease * PerPath
             t == (MaxHttpRetries + 1) * (MaxPathChanges + 1)
  <2>5. task.attempt <= b + task.retries /\ b \in Nat /\ t \in Nat /\ b + PerPath <= t
    BY <1>3, <2>2, <2>4
  <2> HIDE DEF b, t
  <2>6. /\ task.attempt \in Nat /\ task.retries \in Nat /\ PerPath \in Nat
        /\ b \in Nat /\ t \in Nat
    BY <1>1, <2>5, TaskTyped, Limits DEF PerPath
  <2> DEFINE a == task.attempt
             c == task.retries
  <2> HIDE DEF a, c
  <2>7. a \in Nat /\ c \in Nat /\ a <= b + c /\ c + 1 <= PerPath /\ b + PerPath <= t
    BY <2>3, <2>5, <2>6 DEF a, c
  <2>8. a + 1 \in 0 .. t
    BY <2>1, <2>6, <2>7
  <2> QED BY <2>8 DEF Attempts, a, t
<1>5. /\ task' = [task EXCEPT !.at = IF task.greets THEN "sending" ELSE "reading",
                              !.greets = FALSE, !.spawned = TRUE,
                              !.attempt = @ + 1, !.read = 0]
      /\ sent' = sent /\ route' = route
  BY DEF Opened, Becomes
<1>6. 0 \in 0 .. MaxBody
  BY Limits
<1>7. /\ task' \in HttpTask /\ task'.at \in {"sending", "reading"}
      /\ task'.attempt = task.attempt + 1 /\ task'.read = 0 /\ task'.forwarded = task.forwarded
      /\ task'.lease = task.lease /\ task'.retries = task.retries
      /\ task'.pending = task.pending /\ task'.outbox = task.outbox
  <2>1. CASE task.greets
    BY <1>1, <1>4, <1>5, <1>6, <2>1 DEF HttpTask
  <2>2. CASE ~task.greets
    BY <1>1, <1>4, <1>5, <1>6, <2>2 DEF HttpTask
  <2> QED BY <2>1, <2>2
<1>8. HttpTypeOK'
  BY <1>1, <1>5, <1>7 DEF HttpTypeOK
<1>9. task.at # "over"
  BY DEF Opened
<1>10. History'
  BY <1>1, <1>2, <1>5, <1>7, <1>8, <1>9, TaskTyped, HistoryStays
<1>11. HeldBack' /\ WaitsWithinBudget'
  BY <1>2, <1>7 DEF HeldBack, Unopened, Retrying, WaitsWithinBudget
<1>12. AttemptsCounted'
  <2>1. task'.attempt <= task'.lease * PerPath + task'.retries + 1
    <3>1. \A a, b, c \in Nat : a <= b + c => a + 1 <= b + c + 1
      OBVIOUS
    <3>2. task.lease * PerPath \in Nat
      BY <1>1, TaskTyped, AttemptsMultiply
    <3> QED BY <1>1, <1>3, <1>7, <3>1, <3>2, TaskTyped
  <2> QED BY <1>1, <1>5, <1>7, <2>1 DEF AttemptsCounted, PerPath, Unopened, Retrying
<1>13. AllRead'
  <2>1. \A k \in 1 .. Len(sent) : sent[k][1] \in Nat /\ sent[k][1] <= task.attempt
    BY <1>1, EventsAre DEF History, HttpTypeOK
  <2>2. \A k \in 1 .. Len(sent) : sent[k][1] # task.attempt + 1
    BY <1>1, <2>1, TaskTyped
  <2>3. SentOf(sent, task.attempt + 1, Len(sent)) = {}
    BY <2>2 DEF SentOf
  <2>4. SentOf(sent', task'.attempt, Len(sent')) = {}
    BY <1>5, <1>7, <2>3
  <2>5. Len(task'.pending) = task'.read /\ \A i \in 1 .. task'.read : FALSE
    BY <1>2, <1>7
  <2> QED BY <1>2, <1>7, <2>4, <2>5 DEF AllRead
<1>14. Current'
  BY <1>2, <1>7, <1>13 DEF Current
<1> QED BY <1>8, <1>10, <1>11, <1>12, <1>14 DEF HttpInv

\* While the task reads and sends, its attempt is of this path.
LEMMA BusyCounted ==
    ASSUME HttpTypeOK, AttemptsCounted, route' = route, task.at \notin Unopened,
           task'.attempt = task.attempt, task'.lease = task.lease, task'.retries = task.retries,
           task'.at \notin Unopened
    PROVE  AttemptsCounted'
BY DEF AttemptsCounted, PerPath, Unopened, Retrying

\* An event reaches the client.
LEMMA SendsKeeps == ASSUME HttpInv, Sends PROVE HttpInv'
<1>1. /\ HttpTypeOK /\ HeldBack /\ AttemptsCounted /\ History /\ Current /\ task \in HttpTask
      /\ task.at = "sending" /\ task.outbox \in Seq(Events) /\ task.at \notin Unopened
      /\ route' = route
  BY TaskTyped DEF HttpInv, HttpTypeOK, Sends, Unopened, Retrying
<1>2. CASE task.outbox = <<>>
  <2>1. task' = [task EXCEPT !.at = "reading"] /\ sent' = sent
    BY <1>2 DEF Sends, Becomes
  <2>2. /\ task' \in HttpTask /\ task'.at = "reading" /\ task'.attempt = task.attempt
        /\ task'.lease = task.lease /\ task'.retries = task.retries /\ task'.read = task.read
        /\ task'.forwarded = task.forwarded /\ task'.pending = task.pending
        /\ task'.outbox = task.outbox
    BY <1>1, <2>1 DEF HttpTask
  <2>3. HttpTypeOK'
    BY <1>1, <2>1, <2>2 DEF HttpTypeOK
  <2>4. History'
    BY <1>1, <2>1, <2>2, <2>3, TaskTyped, HistoryStays
  <2>5. HeldBack' /\ WaitsWithinBudget'
    BY <1>2, <2>2 DEF HeldBack, Unopened, Retrying, WaitsWithinBudget
  <2>6. AttemptsCounted'
    BY <1>1, <2>2, BusyCounted DEF Unopened, Retrying
  <2>7. AllRead
    BY <1>1, <1>2 DEF Current
  <2>8. AllRead'
    BY <2>1, <2>2, <2>7 DEF AllRead
  <2>9. Current'
    BY <2>2, <2>8 DEF Current
  <2> QED BY <2>3, <2>4, <2>5, <2>6, <2>9 DEF HttpInv
<1>3. CASE task.outbox # <<>>
  <2> DEFINE event == Head(task.outbox)
             rest == Tail(task.outbox)
             at == IF Len(task.outbox) > 1 THEN "sending" ELSE IF event[3] \in Final THEN "over" ELSE "reading"
  <2>1. /\ event \in Events /\ event = task.outbox[1] /\ rest \in Seq(Events)
        /\ Len(task.outbox) \in Nat /\ Len(task.outbox) >= 1
        /\ Len(rest) = Len(task.outbox) - 1
        /\ \A i \in 1 .. Len(rest) : rest[i] = task.outbox[i + 1]
    BY <1>1, <1>3
  <2>2. sent' = Append(sent, event) /\ task' = [task EXCEPT !.outbox = rest, !.at = at]
    BY <1>3 DEF Sends
  <2>3. at \in {"sending", "over", "reading"}
    OBVIOUS
  <2>4. (at = "sending" => Len(task.outbox) > 1) /\ (Len(task.outbox) > 1 => at = "sending")
    OBVIOUS
  <2>5. /\ at = "over" => event[3] \in Final
        /\ ~(Len(task.outbox) > 1) /\ event[3] \in Final => at = "over"
    OBVIOUS
  <2> HIDE DEF event, rest, at
  <2>6. /\ task' \in HttpTask /\ task'.at = at /\ task'.attempt = task.attempt
        /\ task'.lease = task.lease /\ task'.retries = task.retries /\ task'.read = task.read
        /\ task'.forwarded = task.forwarded /\ task'.pending = task.pending
        /\ task'.outbox = rest
    BY <1>1, <2>1, <2>2, <2>3 DEF HttpTask
  <2>7. HttpTypeOK'
    BY <1>1, <2>1, <2>2, <2>6 DEF HttpTypeOK
  <2>8. LastWord \/ Draining
    BY <1>1, <1>3 DEF Current
  <2>9. AttemptsCounted' /\ WaitsWithinBudget'
    BY <1>1, <2>3, <2>6, BusyCounted DEF Unopened, Retrying, WaitsWithinBudget
  <2>10. CASE LastWord
    <3>1. Len(task.outbox) = 1 /\ event[1] = task.attempt /\ event[3] \in {"failure", "error"}
      BY <2>1, <2>10 DEF LastWord
    <3>2. at = "over"
      BY <2>5, <3>1 DEF Final
    <3>3. History'
      BY <1>1, <2>1, <2>2, <2>6, <3>1, <3>2, HistoryGrows DEF Final
    <3>4. HeldBack' /\ Current'
      BY <2>6, <3>2 DEF HeldBack, Current, Unopened, Retrying
    <3> QED BY <2>7, <2>9, <3>3, <3>4 DEF HttpInv
  <2>11. CASE Draining
    <3>0. PICK m \in 0 .. MaxBody : DrainsAfter(task, sent, m)
      BY <2>11 DEF Draining
    <3>1. /\ SentOf(sent, task.attempt, Len(sent)) = 1 .. m /\ task.pending = <<>>
          /\ m + Len(task.outbox) = task.read
          /\ task.forwarded \/ task.outbox[Len(task.outbox)][3] \in Final
          /\ \A i \in DOMAIN task.outbox :
                /\ task.outbox[i][1] = task.attempt /\ task.outbox[i][2] = m + i
                /\ task.outbox[i][3] = "semantic" => task.forwarded
                /\ i < Len(task.outbox) => task.outbox[i][3] = "structural"
      BY <3>0 DEF DrainsAfter
    <3>2. m \in Nat /\ task.read \in 0 .. MaxBody /\ m + 1 \in 0 .. MaxBody
      BY <1>1, <2>1, <3>1, TaskTyped, Limits
    <3>3. DOMAIN task.outbox = 1 .. Len(task.outbox) /\ 1 \in DOMAIN task.outbox
      BY <1>1, <2>1
    <3>4. /\ event[1] = task.attempt /\ event[2] = m + 1
          /\ event[3] = "semantic" => task.forwarded
          /\ 1 < Len(task.outbox) => event[3] = "structural"
      BY <2>1, <3>1, <3>3
    <3>5. SentOf(sent, event[1], Len(sent)) \union {event[2]} = 1 .. event[2]
      BY <3>1, <3>2, <3>4
    <3>6. SentOf(sent', task'.attempt, Len(sent')) = 1 .. m + 1
      <4>1. sent \in Seq(Events)
        BY <1>1 DEF HttpTypeOK
      <4>2. SentOf(Append(sent, event), event[1], Len(Append(sent, event)))
              = SentOf(sent, event[1], Len(sent)) \union {event[2]}
        BY <2>1, <4>1, SentMore
      <4>3. sent' = Append(sent, event) /\ task'.attempt = event[1] /\ m + 1 = event[2]
        BY <2>2, <2>6, <3>4
      <4> QED BY Zenon, <3>5, <4>2, <4>3
    <3>7. event[3] \in Final => at = "over"
      <4>1. event[3] \in Final => event[3] # "structural"
        BY DEF Final
      <4> QED BY <2>1, <2>5, <3>4, <4>1
    <3>8. History'
      BY <1>1, <2>1, <2>2, <2>5, <2>6, <3>4, <3>5, <3>7, HistoryGrows
    <3>9. HeldBack'
      <4>1. at = "reading" => Len(task.outbox) = 1
        <5>1. \A n \in Nat : n >= 1 /\ ~(n > 1) => n = 1
          OBVIOUS
        <5> QED BY <2>1, <2>4, <5>1
      <4>2. at = "reading" => rest = <<>>
        BY <2>1, <4>1
      <4> QED BY <2>3, <2>6, <4>2 DEF HeldBack, Unopened, Retrying
    <3>10. CASE at = "over"
      <4>1. Current'
        BY <2>6, <3>10 DEF Current
      <4> QED BY <2>7, <2>9, <3>8, <3>9, <4>1 DEF HttpInv
    <3>11. CASE at = "reading"
      <4>1. Len(task.outbox) = 1 /\ event[3] \notin Final
        <5>1. \A n \in Nat : n >= 1 /\ ~(n > 1) => n = 1
          OBVIOUS
        <5>2. ~(Len(task.outbox) > 1)
          BY <2>4, <3>11
        <5>3. event[3] \notin Final
          BY <2>5, <3>11, <5>2
        <5> QED BY <2>1, <5>1, <5>2, <5>3
      <4>2. task.forwarded
        BY <2>1, <3>1, <4>1
      <4>3. task.read = m + 1
        BY <3>1, <4>1
      <4>4. AllRead'
        BY <2>6, <3>1, <3>6, <4>2, <4>3 DEF AllRead
      <4>5. Current'
        BY <2>6, <3>11, <4>4 DEF Current
      <4> QED BY <2>7, <2>9, <3>8, <3>9, <4>5 DEF HttpInv
    <3>12. CASE at = "sending"
      <4>1. Len(task.outbox) > 1
        BY <2>4, <3>12
      <4>2. rest # <<>> /\ Len(rest) \in Nat /\ Len(rest) >= 1 /\ DOMAIN rest = 1 .. Len(rest)
        BY <2>1, <4>1
      <4>3. (m + 1) + Len(rest) = task.read
        <5>2. /\ m + Len(task.outbox) = task.read /\ Len(rest) = Len(task.outbox) - 1
              /\ Len(task.outbox) \in Nat /\ Len(rest) \in Nat /\ m \in Nat
          BY <2>1, <3>1, <3>2, <4>2
        <5>4. \A n, l \in Nat : n = l - 1 => (m + 1) + n = m + l
          BY <5>2
        <5> QED BY <5>2, <5>4
      <4>4. rest[Len(rest)] = task.outbox[Len(task.outbox)]
        BY <2>1, <4>2
      <4>5. ASSUME NEW i \in DOMAIN rest
            PROVE  /\ rest[i][1] = task.attempt /\ rest[i][2] = (m + 1) + i
                   /\ rest[i][3] = "semantic" => task.forwarded
                   /\ i < Len(rest) => rest[i][3] = "structural"
        <5>1. i \in 1 .. Len(rest) /\ i + 1 \in DOMAIN task.outbox
          BY <2>1, <3>3, <4>2, <4>5
        <5>2. rest[i] = task.outbox[i + 1]
          BY <2>1, <5>1
        <5>3. i < Len(rest) => i + 1 < Len(task.outbox)
          BY <2>1, <4>2, <5>1
        <5>4. m + (i + 1) = (m + 1) + i
          BY <3>2, <5>1, <4>2
        <5> QED BY <3>1, <5>1, <5>2, <5>3, <5>4
      <4>6. Draining'
        <5>1. task'.forwarded \/ task'.outbox[Len(task'.outbox)][3] \in Final
          BY <2>6, <3>1, <4>4
        <5>2. /\ m + 1 \in 0 .. MaxBody /\ task'.pending = <<>>
              /\ SentOf(sent', task'.attempt, Len(sent')) = 1 .. m + 1
              /\ m + 1 + Len(task'.outbox) = task'.read
          BY <2>6, <3>1, <3>2, <3>6, <4>3
        <5>3. \A i \in DOMAIN task'.outbox :
                 /\ task'.outbox[i][1] = task'.attempt /\ task'.outbox[i][2] = m + 1 + i
                 /\ task'.outbox[i][3] = "semantic" => task'.forwarded
                 /\ i < Len(task'.outbox) => task'.outbox[i][3] = "structural"
          BY <2>6, <4>5
        <5>4. PICK k \in 0 .. MaxBody : k = m + 1
          BY <5>2
        <5>5. DrainsAfter(task', sent', k)
          BY <5>1, <5>2, <5>3, <5>4 DEF DrainsAfter
        <5> QED BY <5>4, <5>5 DEF Draining
      <4>7. Current'
        BY <2>6, <3>12, <4>2, <4>6 DEF Current
      <4> QED BY <2>7, <2>9, <3>8, <3>9, <4>7 DEF HttpInv
    <3> QED BY <2>3, <3>10, <3>11, <3>12
  <2> QED BY <2>8, <2>10, <2>11
<1> QED BY <1>2, <1>3

\* An event is read, and is held back or goes out with what was.
LEMMA ReadsEventKeeps == ASSUME HttpInv, ReadsEvent PROVE HttpInv'
<1>1. /\ HttpTypeOK /\ HeldBack /\ AttemptsCounted /\ History /\ Current /\ task \in HttpTask
      /\ task.at = "reading" /\ task.at \notin Unopened /\ route' = route
  BY DEF HttpInv, HttpTypeOK, ReadsEvent, Unopened, Retrying
<1>2. /\ task.read \in Nat /\ task.read + 1 \in 0 .. MaxBody /\ task.forwarded \in BOOLEAN
      /\ task.pending \in Seq(Events) /\ task.outbox = <<>>
  BY <1>1, TaskTyped, Limits DEF ReadsEvent, HeldBack
<1>3. AllRead
  BY <1>1 DEF Current
<1>4. PICK kind \in {"structural", "semantic", "success", "failure"} :
          LET event == <<task.attempt, task.read + 1, kind>>
              after == [task EXCEPT !.read = @ + 1, !.forwarded = Forwards(kind)]
          IN  IF kind = "structural" /\ ~task.forwarded
              THEN Becomes([after EXCEPT !.pending = Append(@, event)])
              ELSE Becomes([after EXCEPT !.at = "sending", !.pending = <<>>,
                       !.outbox = IF kind = "failure" THEN <<event>> ELSE task.pending \o <<event>>])
  BY DEF ReadsEvent
<1> DEFINE event == <<task.attempt, task.read + 1, kind>>
           after == [task EXCEPT !.read = @ + 1, !.forwarded = Forwards(kind)]
<1>5. /\ event \in Events /\ event[1] = task.attempt /\ event[2] = task.read + 1 /\ event[3] = kind
  BY <1>1, <1>2, TaskTyped DEF Events, EventKinds
<1>6. Forwards(kind) \in BOOLEAN /\ (task.forwarded => Forwards(kind))
      /\ (kind = "semantic" => Forwards(kind)) /\ (Forwards(kind) => task.forwarded \/ kind = "semantic")
  BY <1>2 DEF Forwards
<1>7. /\ after \in HttpTask /\ after.at = "reading" /\ after.read = task.read + 1
      /\ after.forwarded = Forwards(kind) /\ after.attempt = task.attempt
      /\ after.lease = task.lease /\ after.retries = task.retries
      /\ after.pending = task.pending /\ after.outbox = <<>>
  BY <1>1, <1>2, <1>6 DEF HttpTask
<1>8. CASE kind = "structural" /\ ~task.forwarded
  <2>1. Becomes([after EXCEPT !.pending = Append(@, event)])
    BY <1>4, <1>8
  <2> HIDE DEF event, after
  <2>2. Append(after.pending, event) \in Seq(Events)
    BY <1>2, <1>5, <1>7
  <2>3. task' = [after EXCEPT !.pending = Append(@, event)] /\ sent' = sent
    BY <2>1 DEF Becomes
  <2>4. /\ task' \in HttpTask /\ task'.at = "reading" /\ task'.read = task.read + 1
        /\ task'.forwarded = Forwards(kind) /\ task'.attempt = task.attempt
        /\ task'.lease = task.lease /\ task'.retries = task.retries
        /\ task'.pending = Append(task.pending, event) /\ task'.outbox = <<>>
    BY <1>7, <2>2, <2>3 DEF HttpTask
  <2>5. ~task'.forwarded
    BY <1>6, <1>8, <2>4
  <2>6. HttpTypeOK'
    BY <1>1, <2>3, <2>4 DEF HttpTypeOK
  <2>7. History'
    BY <1>1, <1>8, <2>3, <2>4, <2>6, TaskTyped, HistoryStays
  <2>8. HeldBack' /\ WaitsWithinBudget'
    BY <2>4 DEF HeldBack, Unopened, Retrying, WaitsWithinBudget
  <2>9. AttemptsCounted'
    BY <1>1, <2>4, BusyCounted DEF Unopened, Retrying
  <2>10. AllRead'
    <3>1. /\ Len(task.pending) = task.read /\ SentOf(sent, task.attempt, Len(sent)) = {}
          /\ \A i \in 1 .. task.read : task.pending[i] = <<task.attempt, i, "structural">>
      BY <1>3, <1>8 DEF AllRead
    <3>2. SentOf(sent', task'.attempt, Len(sent')) = {}
      BY <2>3, <2>4, <3>1
    <3>3. Len(task'.pending) = task'.read
      BY <1>2, <1>5, <2>4, <3>1
    <3>4. \A i \in 1 .. task.read : task'.pending[i] = task.pending[i]
      BY <1>2, <1>5, <2>4, <3>1
    <3>5. task'.pending[task.read + 1] = event
      BY <1>2, <1>5, <2>4, <3>1
    <3>6. event = <<task'.attempt, task.read + 1, "structural">>
      BY <1>8, <2>4 DEF event
    <3>7. \A i \in 1 .. task'.read : i \in 1 .. task.read \/ i = task.read + 1
      BY <1>2, <2>4
    <3>8. \A i \in 1 .. task'.read : task'.pending[i] = <<task'.attempt, i, "structural">>
      BY <2>4, <3>1, <3>4, <3>5, <3>6, <3>7
    <3> QED BY <2>5, <3>2, <3>3, <3>8 DEF AllRead
  <2>11. Current'
    BY <2>4, <2>10 DEF Current
  <2> QED BY <2>6, <2>7, <2>8, <2>9, <2>11 DEF HttpInv
<1>9. CASE ~(kind = "structural" /\ ~task.forwarded)
  <2> DEFINE outbox == IF kind = "failure" THEN <<event>> ELSE task.pending \o <<event>>
  <2>1. Becomes([after EXCEPT !.at = "sending", !.pending = <<>>, !.outbox = outbox])
    BY <1>4, <1>9
  <2>2. /\ kind = "failure" => outbox = <<event>>
        /\ kind # "failure" => outbox = task.pending \o <<event>>
    OBVIOUS
  <2> HIDE DEF event, after, outbox
  <2>3. outbox \in Seq(Events)
    <3>1. <<event>> \in Seq(Events)
      BY <1>5
    <3>2. CASE kind = "failure"
      BY <2>2, <3>1, <3>2
    <3>3. CASE kind # "failure"
      <4> DEFINE single == <<event>>
      <4> HIDE DEF single
      <4>1. single \in Seq(Events)
        BY <3>1 DEF single
      <4>2. task.pending \o single \in Seq(Events)
        BY <1>2, <4>1
      <4> QED BY <2>2, <3>3, <4>2 DEF single
    <3> QED BY <3>2, <3>3
  <2>4. task' = [after EXCEPT !.at = "sending", !.pending = <<>>, !.outbox = outbox] /\ sent' = sent
    BY <2>1 DEF Becomes
  <2>5. /\ task' \in HttpTask /\ task'.at = "sending" /\ task'.read = task.read + 1
        /\ task'.forwarded = Forwards(kind) /\ task'.attempt = task.attempt
        /\ task'.lease = task.lease /\ task'.retries = task.retries
        /\ task'.pending = <<>> /\ task'.outbox = outbox
    BY <1>7, <2>3, <2>4 DEF HttpTask
  <2>6. HttpTypeOK'
    BY <1>1, <2>4, <2>5 DEF HttpTypeOK
  <2>7. History'
    BY <1>1, <1>6, <2>4, <2>5, <2>6, TaskTyped, HistoryStays
  <2>8. HeldBack' /\ WaitsWithinBudget'
    BY <2>5 DEF HeldBack, Unopened, Retrying, WaitsWithinBudget
  <2>9. AttemptsCounted'
    BY <1>1, <2>5, BusyCounted DEF Unopened, Retrying
  <2>10. Current'
    <3>1. CASE kind = "failure"
      <4>1. LastWord' /\ task'.outbox # <<>>
        <5>1. Len(<<event>>) = 1 /\ <<event>>[1] = event /\ <<event>> # <<>>
          OBVIOUS
        <5>2. task'.outbox = <<event>>
          BY <2>2, <2>5, <3>1
        <5>3. event[3] \in {"failure", "error"} /\ event[1] = task'.attempt
          BY <1>5, <2>5, <3>1
        <5> QED BY <5>1, <5>2, <5>3 DEF LastWord
      <4> QED BY <2>5, <4>1 DEF Current
    <3>2. CASE kind # "failure"
      <4> DEFINE p == task.pending
                 l == Len(task.pending)
      <4>1. /\ p \in Seq(Events) /\ l \in Nat /\ l = Len(p) /\ outbox = p \o <<event>>
        BY <1>2, <2>2, <3>2
      <4> HIDE DEF p, l
      <4>2. /\ Len(outbox) = l + 1 /\ outbox[l + 1] = event /\ DOMAIN outbox = 1 .. l + 1
            /\ \A i \in 1 .. l : outbox[i] = p[i]
        BY <1>5, <4>1
      <4>3. \A i \in 1 .. l + 1 : i \in 1 .. l \/ i = l + 1
        BY <4>1
      <4>4. outbox # <<>>
        BY <4>1, <4>2
      <4>5. \E m \in 0 .. MaxBody :
               /\ SentOf(sent, task.attempt, Len(sent)) = 1 .. m /\ m + l = task.read
               /\ \A i \in 1 .. l : p[i] = <<task.attempt, m + i, "structural">>
        <5>1. CASE task.forwarded
          <6>1. task.pending = <<>> /\ SentOf(sent, task.attempt, Len(sent)) = 1 .. task.read
            BY <1>3, <5>1 DEF AllRead
          <6>2. l = 0 /\ task.read + l = task.read /\ \A i \in 1 .. l : FALSE
            BY <1>2, <6>1 DEF l
          <6>3. task.read \in 0 .. MaxBody
            BY <1>1, TaskTyped
          <6> QED BY <6>1, <6>2, <6>3
        <5>2. CASE ~task.forwarded
          <6>1. /\ Len(task.pending) = task.read /\ SentOf(sent, task.attempt, Len(sent)) = {}
                /\ \A i \in 1 .. task.read : task.pending[i] = <<task.attempt, i, "structural">>
            BY <1>3, <5>2 DEF AllRead
          <6>2. 0 \in 0 .. MaxBody /\ 1 .. 0 = {} /\ 0 + l = task.read
            BY <1>2, <6>1, Limits DEF l
          <6>3. \A i \in 1 .. l : p[i] = <<task.attempt, 0 + i, "structural">>
            BY <1>2, <6>1 DEF l, p
          <6> QED BY <6>1, <6>2, <6>3
        <5> QED BY <5>1, <5>2
      <4>6. PICK m \in 0 .. MaxBody :
               /\ SentOf(sent, task.attempt, Len(sent)) = 1 .. m /\ m + l = task.read
               /\ \A i \in 1 .. l : p[i] = <<task.attempt, m + i, "structural">>
        BY <4>5
      <4>7. m \in Nat /\ m + (l + 1) = task.read + 1
        BY <1>2, <4>1, <4>6, Limits
      <4>8. kind \in Final \/ task'.forwarded
        BY <1>6, <1>9, <2>5, <3>2 DEF Final
      <4>9. ASSUME NEW i \in 1 .. l + 1
            PROVE  /\ outbox[i][1] = task.attempt /\ outbox[i][2] = m + i
                   /\ outbox[i][3] = "semantic" => task'.forwarded
                   /\ i < l + 1 => outbox[i][3] = "structural"
        <5>1. CASE i \in 1 .. l
          <6>1. outbox[i] = <<task.attempt, m + i, "structural">>
            BY <4>2, <4>6, <5>1
          <6> QED BY <6>1
        <5>2. CASE i = l + 1
          <6>1. m + i = task.read + 1 /\ ~(i < l + 1)
            BY <4>1, <4>7, <5>2
          <6> QED BY <1>5, <1>6, <2>5, <4>2, <5>2, <6>1
        <5> QED BY <4>3, <4>9, <5>1, <5>2
      <4>10. DrainsAfter(task', sent', m)
        BY <1>5, <2>4, <2>5, <4>2, <4>6, <4>7, <4>8, <4>9 DEF DrainsAfter
      <4>11. Draining'
        BY <4>6, <4>10 DEF Draining
      <4> QED BY <2>5, <4>4, <4>11 DEF Current
    <3> QED BY <3>1, <3>2
  <2> QED BY <2>6, <2>7, <2>8, <2>9, <2>10 DEF HttpInv
<1> QED BY <1>8, <1>9

\* A control event goes out in between.
LEMMA ReadsControlKeeps == ASSUME HttpInv, ReadsControl PROVE HttpInv'
<1>1. /\ HttpTypeOK /\ HeldBack /\ AttemptsCounted /\ History /\ Current /\ task \in HttpTask
      /\ task.at = "reading" /\ task.at \notin Unopened /\ route' = route
  BY DEF HttpInv, HttpTypeOK, ReadsControl, Unopened, Retrying
<1>2. task' = [task EXCEPT !.at = "sending"] /\ sent' = sent
  BY DEF ReadsControl, Becomes
<1>3. /\ task' \in HttpTask /\ task'.at = "sending" /\ task'.attempt = task.attempt
      /\ task'.lease = task.lease /\ task'.retries = task.retries /\ task'.read = task.read
      /\ task'.forwarded = task.forwarded /\ task'.pending = task.pending
      /\ task'.outbox = task.outbox
  BY <1>1, <1>2 DEF HttpTask
<1>4. HttpTypeOK'
  BY <1>1, <1>2, <1>3 DEF HttpTypeOK
<1>5. History'
  BY <1>1, <1>2, <1>3, <1>4, TaskTyped, HistoryStays
<1>6. HeldBack' /\ WaitsWithinBudget'
  BY <1>3 DEF HeldBack, Unopened, Retrying, WaitsWithinBudget
<1>7. AttemptsCounted'
  BY <1>1, <1>3, BusyCounted DEF Unopened, Retrying
<1>8. AllRead /\ task.outbox = <<>>
  BY <1>1 DEF Current, HeldBack
<1>9. AllRead'
  BY <1>2, <1>3, <1>8 DEF AllRead
<1>10. Current'
  BY <1>3, <1>8, <1>9 DEF Current
<1> QED BY <1>4, <1>5, <1>6, <1>7, <1>10 DEF HttpInv

\* The network path changes under the request.
LEMMA PathInterruptsKeeps == ASSUME HttpInv, PathInterrupts PROVE HttpInv'
<1>1. /\ HttpTypeOK /\ HeldBack /\ AttemptsCounted /\ History /\ task \in HttpTask
      /\ task.at \notin {"idle", "over"} /\ task.lease # route /\ route' = route
  BY DEF HttpInv, HttpTypeOK, PathInterrupts
<1>2. task.attempt <= task.lease * PerPath + task.retries + 1
  <2>1. \A a, b, c \in Nat : a <= b + c => a <= b + c + 1
    OBVIOUS
  <2>2. task.lease * PerPath \in Nat
    BY <1>1, TaskTyped, AttemptsMultiply
  <2> QED BY <1>1, <2>1, <2>2, TaskTyped DEF AttemptsCounted
<1>3. CASE ~task.forwarded /\ MayRecover
  <2> DEFINE refreshed == IF task.spawned THEN task.refreshed ELSE FALSE
             t == [Recovering(task) EXCEPT
                    !.at = "opening", !.lease = route, !.retries = 0, !.wait = 0,
                    !.refreshed = refreshed,
                    !.asked = NotAsked, !.greets = TRUE, !.pending = <<>>, !.outbox = <<>>]
  <2>1. Becomes(t)
    <3>1. Recovering(task).refreshed = task.refreshed
      BY <1>1 DEF Recovering, HttpTask
    <3> QED BY <1>3, <3>1 DEF PathInterrupts
  <2>2. refreshed \in BOOLEAN /\ NotAsked \in Asked /\ 0 \in 0 .. LongestDelay
        /\ 0 \in 0 .. MaxHttpRetries /\ route \in 0 .. MaxPathChanges
    <3>1. task.refreshed \in BOOLEAN /\ route \in 0 .. MaxPathChanges
      BY <1>1 DEF HttpTask, HttpTypeOK
    <3>2. refreshed \in BOOLEAN
      BY <3>1
    <3> HIDE DEF refreshed
    <3> QED BY <3>1, <3>2, Limits
  <2>0. <<>> \in Seq(Events)
    OBVIOUS
  <2> HIDE DEF refreshed
  <2>3. Recovering(task) \in HttpTask /\ Recovering(task).attempt = task.attempt
        /\ Recovering(task).forwarded = task.forwarded
    BY <1>1 DEF Recovering, HttpTask
  <2>4. /\ t \in HttpTask /\ t.at = "opening" /\ t.attempt = task.attempt
        /\ t.forwarded = task.forwarded /\ t.pending = <<>> /\ t.outbox = <<>>
        /\ t.lease = route /\ t.retries = 0
    BY <2>0, <2>2, <2>3 DEF HttpTask
  <2> HIDE DEF t
  <2>5. t.attempt <= t.lease * PerPath + t.retries
    <3>1. task.lease < route
      BY <1>1, TaskTyped DEF AttemptsCounted
    <3>2. route * PerPath \in Nat /\ task.attempt <= route * PerPath
      BY <1>1, <1>2, <3>1, TaskTyped, LaterPath
    <3>3. route * PerPath + 0 = route * PerPath
      BY <3>2
    <3> QED BY <2>4, <3>2, <3>3
  <2>6. t.lease <= route /\ t.at \in Retrying /\ t.at \notin {"waiting", "pausing"}
    BY <1>1, <2>4, TaskTyped DEF Retrying
  <2> QED BY <1>1, <1>3, <2>1, <2>4, <2>5, <2>6, ReopeningKeeps
<1>4. CASE ~(~task.forwarded /\ MayRecover)
  <2>1. task' = [task EXCEPT !.at = "over", !.wait = 0, !.asked = NotAsked] /\ sent' = Append(sent, Error)
    BY <1>4 DEF PathInterrupts
  <2>2. 0 \in 0 .. LongestDelay /\ NotAsked \in Asked
    BY Limits
  <2>3. /\ task' \in HttpTask /\ task'.at = "over" /\ task'.attempt = task.attempt
        /\ task'.lease = task.lease /\ task'.retries = task.retries
        /\ task'.forwarded = task.forwarded
    BY <1>1, <2>1, <2>2 DEF HttpTask
  <2>4. Error \in Events /\ Error[1] = task.attempt /\ Error[3] = "error"
    BY <1>1, TaskTyped, Limits DEF Error, Events, EventKinds
  <2>5. HttpTypeOK'
    BY <1>1, <2>1, <2>3, <2>4 DEF HttpTypeOK
  <2>6. History'
    BY <1>1, <2>1, <2>3, <2>4, HistoryGrows DEF Final
  <2>7. HeldBack' /\ WaitsWithinBudget' /\ Current'
    BY <2>3 DEF HeldBack, Unopened, Retrying, WaitsWithinBudget, Current
  <2>8. AttemptsCounted'
    BY <1>1, <1>2, <2>3 DEF AttemptsCounted, PerPath, Unopened, Retrying
  <2> QED BY <2>5, <2>6, <2>7, <2>8 DEF HttpInv
<1> QED BY <1>3, <1>4

LEMMA ClientLeavesKeeps == ASSUME HttpInv, ClientLeaves PROVE HttpInv'
<1>1. /\ HttpTypeOK /\ AttemptsCounted /\ History /\ task \in HttpTask
      /\ task.at \notin {"idle", "over"} /\ route' = route
  BY DEF HttpInv, HttpTypeOK, ClientLeaves
<1>2. /\ task' = [task EXCEPT !.at = "over", !.left = TRUE, !.wait = 0, !.asked = NotAsked]
      /\ sent' = sent
  BY DEF ClientLeaves, Becomes
<1>3. 0 \in 0 .. LongestDelay /\ NotAsked \in Asked
  BY Limits
<1>4. /\ task' \in HttpTask /\ task'.at = "over" /\ task'.attempt = task.attempt
      /\ task'.lease = task.lease /\ task'.retries = task.retries /\ task'.left
      /\ task'.forwarded = task.forwarded
  BY <1>1, <1>2, <1>3 DEF HttpTask
<1>5. HttpTypeOK'
  BY <1>1, <1>2, <1>4 DEF HttpTypeOK
<1>6. History'
  BY <1>1, <1>2, <1>4, <1>5, TaskTyped, HistoryStays
<1>7. HeldBack' /\ WaitsWithinBudget' /\ Current'
  BY <1>4 DEF HeldBack, Unopened, Retrying, WaitsWithinBudget, Current
<1>8. AttemptsCounted'
  <2>1. task.attempt <= task.lease * PerPath + task.retries + 1
    <3>1. \A a, b, c \in Nat : a <= b + c => a <= b + c + 1
      OBVIOUS
    <3>2. task.lease * PerPath \in Nat
      BY <1>1, TaskTyped, AttemptsMultiply
    <3> QED BY <1>1, <3>1, <3>2, TaskTyped DEF AttemptsCounted
  <2> QED BY <1>1, <1>4, <2>1 DEF AttemptsCounted, PerPath, Unopened, Retrying
<1> QED BY <1>5, <1>6, <1>7, <1>8 DEF HttpInv

LEMMA PathChangesKeeps == ASSUME HttpInv, PathChanges PROVE HttpInv'
<1>1. task' = task /\ sent' = sent /\ route' = route + 1 /\ route \in 0 .. MaxPathChanges /\ route < MaxPathChanges
  BY DEF PathChanges, HttpInv, HttpTypeOK
<1>2. HttpTypeOK'
  BY <1>1, Limits DEF HttpInv, HttpTypeOK
<1>3. AttemptsCounted'
  <2>1. task.lease <= route + 1
    BY <1>1, TaskTyped DEF HttpInv, AttemptsCounted
  <2> QED BY <1>1, <2>1 DEF HttpInv, AttemptsCounted, PerPath
<1>4. HeldBack' /\ WaitsWithinBudget' /\ History' /\ Current'
  BY <1>1 DEF HttpInv, HeldBack, WaitsWithinBudget, History, Current, AllRead, LastWord, Draining
<1> QED BY <1>2, <1>3, <1>4 DEF HttpInv

LEMMA DeadlinePassesKeeps == ASSUME HttpInv, DeadlinePasses PROVE HttpInv'
<1>1. /\ task \in HttpTask /\ task' = [task EXCEPT !.recovery = "past"]
      /\ sent' = sent /\ route' = route
  BY DEF DeadlinePasses, Becomes, HttpInv, HttpTypeOK
<1>2. /\ task' \in HttpTask /\ task'.at = task.at /\ task'.attempt = task.attempt
      /\ task'.lease = task.lease /\ task'.retries = task.retries /\ task'.read = task.read
      /\ task'.forwarded = task.forwarded /\ task'.pending = task.pending
      /\ task'.outbox = task.outbox /\ task'.left = task.left
      /\ task'.wait = task.wait /\ task'.asked = task.asked
  BY <1>1 DEF HttpTask
<1>3. HttpTypeOK' /\ AttemptsCounted'
  BY <1>1, <1>2 DEF HttpInv, HttpTypeOK, AttemptsCounted, PerPath
<1>4. HeldBack' /\ WaitsWithinBudget'
  BY <1>1, <1>2 DEF HttpInv, HeldBack, WaitsWithinBudget
<1>5. History'
  BY <1>1, <1>2 DEF HttpInv, History
<1>6. AllRead => AllRead'
  BY <1>1, <1>2 DEF AllRead
<1>7. LastWord => LastWord'
  BY <1>2 DEF LastWord
<1>8. Draining => Draining'
  <2>1. ASSUME NEW m \in 0 .. MaxBody, DrainsAfter(task, sent, m) PROVE DrainsAfter(task', sent', m)
    BY <1>1, <1>2, <2>1 DEF DrainsAfter
  <2> QED BY <2>1 DEF Draining
<1>9. Current'
  BY <1>2, <1>6, <1>7, <1>8 DEF HttpInv, Current
<1> QED BY <1>3, <1>4, <1>5, <1>9 DEF HttpInv

\* A step that is one of several on the way to a response.
LEMMA OpeningKeeps ==
    ASSUME HttpInv, HttpStarts \/ RefreshedOnce401 \/ NameUnresolved \/ Resumes
    PROVE  HttpInv'
<1>1. /\ HttpTypeOK /\ HeldBack /\ AttemptsCounted /\ task \in HttpTask /\ task.at \in Unopened
      /\ task.at # "over" /\ route' = route /\ route \in 0 .. MaxPathChanges
  BY DEF HttpInv, HttpTypeOK, HttpStarts, RefreshedOnce401, NameUnresolved, Resumes, Unopened, Retrying
<1>2. ~task.forwarded /\ task.pending = <<>> /\ task.outbox = <<>>
  BY <1>1 DEF HeldBack
<1>3. task.attempt <= task.lease * PerPath + task.retries /\ task.lease <= route
  <2>1. \A a, b, c \in Nat : a <= b + c + 0 => a <= b + c
    OBVIOUS
  <2>2. task.lease * PerPath \in Nat
    BY <1>1, TaskTyped, AttemptsMultiply
  <2> QED BY <1>1, <2>1, <2>2, TaskTyped DEF AttemptsCounted
<1>4. 0 \in 0 .. LongestDelay /\ NotAsked \in Asked
  BY Limits
<1>5. ASSUME NEW t \in HttpTask, Becomes(t), t.at \in {"opening", "dns"},
             t.attempt = task.attempt, t.forwarded = task.forwarded,
             t.pending = task.pending, t.outbox = task.outbox, t.retries = task.retries,
             t.lease = task.lease \/ (t.lease = route /\ task.lease <= route)
      PROVE  HttpInv'
  <2>1. t.lease <= route
    BY <1>1, <1>3, <1>5, TaskTyped
  <2>2. t.attempt <= t.lease * PerPath + t.retries
    <3>1. CASE t.lease = task.lease
      BY <1>3, <1>5, <3>1
    <3>2. CASE t.lease = route /\ t.lease # task.lease
      <4>1. task.lease < route
        BY <1>1, <1>3, <3>2, TaskTyped
      <4>2. task.attempt <= task.lease * PerPath + task.retries + 1
        <5>1. \A a, b, c \in Nat : a <= b + c => a <= b + c + 1
          OBVIOUS
        <5>2. task.lease * PerPath \in Nat
          BY <1>1, TaskTyped, AttemptsMultiply
        <5> QED BY <1>1, <1>3, <5>1, <5>2, TaskTyped
      <4>3. route * PerPath \in Nat /\ task.attempt <= route * PerPath
        BY <1>1, <4>1, <4>2, TaskTyped, LaterPath
      <4>4. \A a, b, c \in Nat : a <= b => a <= b + c
        OBVIOUS
      <4> QED BY <1>1, <1>5, <3>2, <4>3, <4>4, TaskTyped
    <3> QED BY <1>5, <3>1, <3>2
  <2>3. t.at \in Retrying /\ t.at \notin {"waiting", "pausing"}
    BY <1>5 DEF Retrying
  <2> QED BY <1>1, <1>2, <1>5, <2>1, <2>2, <2>3, ReopeningKeeps
<1>6. CASE HttpStarts
  <2> DEFINE t == [task EXCEPT !.at = "opening", !.lease = route]
  <2>1. /\ t \in HttpTask /\ t.at = "opening" /\ t.attempt = task.attempt
        /\ t.forwarded = task.forwarded /\ t.pending = task.pending /\ t.outbox = task.outbox
        /\ t.retries = task.retries /\ t.lease = route
    BY <1>1 DEF HttpTask
  <2>2. Becomes(t)
    BY <1>6 DEF HttpStarts
  <2> HIDE DEF t
  <2> QED BY <1>3, <1>5, <2>1, <2>2
<1>7. CASE RefreshedOnce401
  <2> DEFINE t == [task EXCEPT !.refreshed = TRUE]
  <2>1. /\ t \in HttpTask /\ t.at = task.at /\ t.attempt = task.attempt
        /\ t.forwarded = task.forwarded /\ t.pending = task.pending /\ t.outbox = task.outbox
        /\ t.retries = task.retries /\ t.lease = task.lease
    BY <1>1 DEF HttpTask
  <2>2. Becomes(t) /\ task.at = "opening"
    BY <1>7 DEF RefreshedOnce401
  <2> HIDE DEF t
  <2> QED BY <1>5, <2>1, <2>2
<1>8. CASE NameUnresolved
  <2>1. CASE MayRecover
    <3> DEFINE t == [Recovering(task) EXCEPT !.at = "dns"]
    <3>1. /\ t \in HttpTask /\ t.at = "dns" /\ t.attempt = task.attempt
          /\ t.forwarded = task.forwarded /\ t.pending = task.pending /\ t.outbox = task.outbox
          /\ t.retries = task.retries /\ t.lease = task.lease
      BY <1>1 DEF HttpTask, Recovering
    <3>2. Becomes(t)
      BY <1>8, <2>1 DEF NameUnresolved
    <3> HIDE DEF t
    <3> QED BY <1>5, <3>1, <3>2
  <2>2. CASE ~MayRecover
    <3>1. EndsInError(task) /\ task.at = "opening"
      BY <1>8, <2>2 DEF NameUnresolved
    <3> QED BY <1>1, <3>1, EndingKeeps
  <2> QED BY <2>1, <2>2
<1>9. CASE Resumes
  <2> DEFINE t == [task EXCEPT !.at = "opening", !.wait = 0, !.asked = NotAsked]
  <2>1. /\ t \in HttpTask /\ t.at = "opening" /\ t.attempt = task.attempt
        /\ t.forwarded = task.forwarded /\ t.pending = task.pending /\ t.outbox = task.outbox
        /\ t.retries = task.retries /\ t.lease = task.lease
    BY <1>1, <1>4 DEF HttpTask
  <2>2. Becomes(t)
    BY <1>9 DEF Resumes
  <2> HIDE DEF t
  <2> QED BY <1>5, <2>1, <2>2
<1> QED BY <1>6, <1>7, <1>8, <1>9

LEMMA FailingKeeps ==
    ASSUME HttpInv, OpenFails \/ RecoveryTimesOut \/ ReadsFailure \/ ReadFailsOver
    PROVE  HttpInv'
<1>1. /\ HttpTypeOK /\ HeldBack /\ task \in HttpTask /\ task.at \notin {"idle", "over"} /\ route' = route
  BY DEF HttpInv, HttpTypeOK, OpenFails, RecoveryTimesOut, ReadsFailure, ReadFailsOver
<1>2. ASSUME EndsInError(task) PROVE HttpInv'
  BY <1>1, <1>2, EndingKeeps
<1>3. CASE RecoveryTimesOut
  <2> DEFINE t == [task EXCEPT !.wait = 0, !.asked = NotAsked]
  <2>1. 0 \in 0 .. LongestDelay /\ NotAsked \in Asked
    BY Limits
  <2>2. /\ t \in HttpTask /\ t.attempt = task.attempt /\ t.forwarded = task.forwarded
        /\ t.retries = task.retries /\ t.lease = task.lease
    BY <1>1, <2>1 DEF HttpTask
  <2>3. EndsInError(t)
    BY <1>3 DEF RecoveryTimesOut
  <2> HIDE DEF t
  <2> QED BY <1>1, <2>2, <2>3, EndingKeeps
<1>4. CASE OpenFails
  <2>1. task.at = "opening" /\ ~task.forwarded
    BY <1>1, <1>4 DEF OpenFails, HeldBack, Unopened, Retrying
  <2>2. ASSUME NEW asked \in Asked, Again(task, asked, "waiting") PROVE HttpInv'
    BY <1>1, <2>1, <2>2, AgainKeeps
  <2> QED BY <1>2, <1>4, <2>2 DEF OpenFails
<1>5. CASE ReadsFailure
  <2>1. task.at = "reading" /\ ~task.forwarded
    BY <1>5 DEF ReadsFailure
  <2>2. ASSUME NEW asked \in Asked, Again(task, asked, "pausing") PROVE HttpInv'
    BY <1>1, <2>1, <2>2, AgainKeeps
  <2> QED BY <1>2, <1>5, <2>2 DEF ReadsFailure
<1>6. CASE ReadFailsOver
  <2>1. task.at = "reading"
    BY <1>6 DEF ReadFailsOver
  <2>2. ASSUME ~task.forwarded, Again(task, NotAsked, "pausing") PROVE HttpInv'
    BY <1>1, <2>1, <2>2, AgainKeeps, Limits
  <2> QED BY <1>2, <1>6, <2>2 DEF ReadFailsOver
<1> QED BY <1>3, <1>4, <1>5, <1>6

LEMMA HttpStart == HttpInit => HttpInv
<1> SUFFICES ASSUME HttpInit PROVE HttpInv
  OBVIOUS
<1>1. /\ task.at = "idle" /\ task.lease = 0 /\ task.retries = 0 /\ task.attempt = 0 /\ ~task.forwarded
      /\ task.pending = <<>> /\ task.outbox = <<>> /\ sent = <<>> /\ route = 0
  BY DEF HttpInit
<1>2. 0 \in Attempts
  BY Limits DEF Attempts
<1>3. task \in HttpTask
  BY <1>2, Limits DEF HttpInit, HttpTask
<1>4. HttpTypeOK
  BY <1>1, <1>3, Limits DEF HttpTypeOK
<1>5. History /\ HeldBack /\ Current /\ WaitsWithinBudget
  BY <1>1 DEF History, HeldBack, Current, WaitsWithinBudget
<1>6. AttemptsCounted
  BY <1>1, AttemptsMultiply DEF AttemptsCounted, Unopened
<1> QED BY <1>4, <1>5, <1>6 DEF HttpInv

LEMMA HttpStep == HttpInv /\ [HttpNext]_httpVars => HttpInv'
<1> SUFFICES ASSUME HttpInv, [HttpNext]_httpVars PROVE HttpInv'
  OBVIOUS
<1>1. CASE UNCHANGED httpVars
  BY <1>1 DEF httpVars, HttpInv, HttpTypeOK, WaitsWithinBudget, AttemptsCounted, PerPath, HeldBack,
              History, Current, AllRead, LastWord, Draining
<1>2. CASE HttpNext
  BY <1>2, OpenedKeeps, SendsKeeps, ReadsEventKeeps, ReadsControlKeeps, PathInterruptsKeeps,
     ClientLeavesKeeps, PathChangesKeeps, DeadlinePassesKeeps, OpeningKeeps, FailingKeeps
     DEF HttpNext, HttpProgress
<1> QED BY <1>1, <1>2

\* Whatever the retries, the changes of the path and the failures at any await,
\* one attempt answers a request, in order and without a gap, its client learns
\* of one end, and no delay exceeds the budget.
THEOREM HttpRequestsAreSafe == HttpSpec => []HttpSafety
<1>1. HttpInv => HttpSafety
  <2> SUFFICES ASSUME HttpInv PROVE HttpSafety
    OBVIOUS
  <2>1. HttpTypeOK /\ WaitsWithinBudget /\ History /\ sent \in Seq(Events)
    BY DEF HttpInv, HttpTypeOK
  <2>2. \A i \in DOMAIN sent : i \in 1 .. Len(sent) /\ Len(sent) \in Nat
    BY <2>1
  <2>3. ASSUME NEW i \in DOMAIN sent, NEW j \in DOMAIN sent, i < j, sent[i][3] = "semantic"
        PROVE  sent[j][1] = sent[i][1]
    <3>1. i \in i .. Len(sent) /\ j \in i .. Len(sent)
      BY <2>2, <2>3
    <3> QED BY <2>1, <2>3, <3>1 DEF History
  <2>4. ASSUME NEW j \in DOMAIN sent, sent[j][3] = "semantic"
        PROVE  {sent[k][2] : k \in {k \in 1 .. j : sent[k][1] = sent[j][1]}} = 1 .. sent[j][2]
    BY <2>1, <2>4 DEF History, SentOf
  <2>5. ASSUME NEW i \in 1 .. Len(sent) - 1 PROVE sent[i][3] \notin Final
    <3>1. i \in DOMAIN sent /\ i # Len(sent)
      BY <2>1
    <3> QED BY <2>1, <3>1 DEF History
  <2>6. task.at = "over" /\ ~task.left => sent # <<>> /\ Last(sent)[3] \in Final
    BY <2>1 DEF History, Last
  <2>7. OneAttemptAnswers
    BY <2>3, <2>4, <2>5, <2>6 DEF OneAttemptAnswers
  <2> QED BY <2>1, <2>7 DEF HttpSafety
<1> QED
  BY <1>1, HttpStart, HttpStep, PTL DEF HttpSpec
-----------------------------------------------------------------------------
(* Buffered requests. *)

\* How often this run was posted with a continuation, and without.
Continuing == posts[TRUE]
Anew == posts[FALSE]
PostsTyped == posts \in [{TRUE, FALSE} -> Nat]

Lost == IF post.continues THEN 0 ELSE 1
Renewed == IF post.refreshed THEN 1 ELSE 0

\* The posts so far but the last one, and its fallback, by what has made them necessary.
Earlier == 2 * (post.failures + Renewed + Lost)

PostsCounted ==
    /\ post.at = "idle" => Continuing = 0 /\ Anew = 0
    /\ Continuing <= post.failures + 1
    /\ post.at = "sleeping" /\ post.continues => Continuing <= post.failures
    /\ Continuing + Anew <= Earlier + 2
    /\ post.at = "posting" => Continuing + Anew <= Earlier + 1
    /\ post.at \in {"refreshing", "sleeping"} => Continuing + Anew <= Earlier

BufferedInv == BufferedTypeOK /\ route \in 0 .. MaxPathChanges /\ PostsCounted
LEMMA BufferedStart == HttpInit /\ BufferedInit => BufferedInv
<1> SUFFICES ASSUME HttpInit, BufferedInit PROVE BufferedInv
  OBVIOUS
<1>1. post \in Posted /\ PostsTyped /\ Continuing = 0 /\ Anew = 0
  BY Limits DEF BufferedInit, Posted, Transport, Continuing, Anew, PostsTyped
<1>2. post.failures = 0 /\ post.at = "idle"
  BY DEF BufferedInit
<1>3. Renewed \in Nat /\ Lost \in Nat
  BY DEF Renewed, Lost
<1>4. PostsCounted
  BY <1>1, <1>2, <1>3 DEF PostsCounted, Earlier
<1>5. route \in 0 .. MaxPathChanges
  BY Limits DEF HttpInit
<1>6. QED
  BY <1>1, <1>4, <1>5 DEF BufferedInv, BufferedTypeOK, PostsTyped

\* What a request has cost, as numbers.
LEMMA CostsAreNumbers ==
    ASSUME BufferedInv
    PROVE  /\ post.failures \in 0 .. MaxHttpRetries /\ Renewed \in {0, 1} /\ Lost \in {0, 1}
           /\ Continuing \in Nat /\ Anew \in Nat
BY DEF BufferedInv, BufferedTypeOK, Posted, Renewed, Lost, Continuing, Anew

LEMMA CountedUp ==
    ASSUME NEW A, NEW a \in A, NEW b \in A, a # b, NEW f \in [A -> Nat], NEW g,
           g = [f EXCEPT ![a] = @ + 1]
    PROVE  g \in [A -> Nat] /\ g[a] = f[a] + 1 /\ g[b] = f[b]
OBVIOUS

LEMMA OneMore ==
    ASSUME PostsTyped
    PROVE  /\ posts' = [posts EXCEPT ![TRUE] = @ + 1] =>
              PostsTyped' /\ Continuing' = Continuing + 1 /\ Anew' = Anew
           /\ posts' = [posts EXCEPT ![FALSE] = @ + 1] =>
              PostsTyped' /\ Continuing' = Continuing /\ Anew' = Anew + 1
<1>1. TRUE \in {TRUE, FALSE} /\ FALSE \in {TRUE, FALSE} /\ TRUE # FALSE
  OBVIOUS
<1>2. QED
  BY Zenon, <1>1, CountedUp DEF Continuing, Anew, PostsTyped

\* A post goes out: the first, or after a wait, or in the place of one whose
\* continuation was lost.
LEMMA PostKeeps ==
    ASSUME BufferedInv, NEW p \in Posted, Posts(p), UNCHANGED route,
           p.failures = post.failures, p.refreshed = post.refreshed,
           \/ post.at = "idle"
           \/ post.at = "sleeping" /\ p.continues = post.continues
           \/ post.at = "refreshing" /\ ~p.continues
           \/ post.at = "posting" /\ post.continues /\ ~p.continues
    PROVE  BufferedInv'
<1>1. post' = [p EXCEPT !.at = "posting"] /\ posts' = [posts EXCEPT ![p.continues] = @ + 1]
  BY DEF Posts, Now
<1>2. post' \in Posted
  BY <1>1 DEF Posted
<1>3. PostsTyped
  BY DEF BufferedInv, BufferedTypeOK, PostsTyped
<1>4. /\ PostsTyped' /\ Continuing' \in Nat /\ Anew' \in Nat
      /\ Continuing' + Anew' = Continuing + Anew + 1
      /\ Continuing' <= Continuing + 1
      /\ ~p.continues => Continuing' = Continuing
  <2>1. CASE p.continues
    <3>1. p.continues = TRUE
      BY <2>1 DEF Posted
    <3>2. posts' = [posts EXCEPT ![TRUE] = @ + 1]
      BY <1>1, <3>1
    <3>3. PostsTyped' /\ Continuing' = Continuing + 1 /\ Anew' = Anew
      BY Zenon, <1>3, <3>2, OneMore
    <3> QED BY <2>1, <3>3, CostsAreNumbers
  <2>2. CASE ~p.continues
    <3>1. p.continues = FALSE
      BY <2>2 DEF Posted
    <3>2. posts' = [posts EXCEPT ![FALSE] = @ + 1]
      BY <1>1, <3>1
    <3>3. PostsTyped' /\ Continuing' = Continuing /\ Anew' = Anew + 1
      BY Zenon, <1>3, <3>2, OneMore
    <3> QED BY <3>3, CostsAreNumbers
  <2> QED BY <2>1, <2>2
<1>5. /\ post'.at = "posting" /\ post'.failures = post.failures /\ post'.refreshed = post.refreshed
      /\ post'.continues = p.continues
  BY <1>1 DEF Posted
<1>6. Renewed' = Renewed /\ (~p.continues => Lost' = 1) /\ (p.continues = post.continues => Lost' = Lost)
  BY <1>5 DEF Renewed, Lost
<1>7. Lost' \in {0, 1} /\ (post.continues => Lost = 0)
  BY DEF Lost
<1>8. Earlier' = 2 * (post.failures + Renewed + Lost') /\ Earlier = 2 * (post.failures + Renewed + Lost)
  BY <1>5, <1>6 DEF Earlier
<1>9. PostsCounted
  BY DEF BufferedInv
<1>10. CASE post.at = "idle"
  <2>1. Continuing' <= 1 /\ Continuing' + Anew' = 1
    <3>1. Continuing = 0 /\ Anew = 0
      BY <1>9, <1>10 DEF PostsCounted
    <3>2. Continuing' <= Continuing + 1 /\ Continuing' + Anew' = Continuing + Anew + 1
      BY <1>4
    <3> QED BY <3>1, <3>2
  <2>2. PostsCounted'
    <3>1. Earlier' \in Nat
      BY <1>7, <1>8, CostsAreNumbers
    <3>2. Continuing' <= post'.failures + 1
      BY <1>4, <1>5, <2>1, CostsAreNumbers
    <3>3. Continuing' + Anew' <= Earlier' + 1 /\ Continuing' + Anew' <= Earlier' + 2
      BY <2>1, <3>1
    <3> QED BY <1>5, <3>2, <3>3 DEF PostsCounted
  <2> QED BY <1>2, <1>4, <2>2 DEF BufferedInv, BufferedTypeOK, PostsTyped
<1>11. CASE post.at = "sleeping" /\ p.continues = post.continues
  <2>1. Continuing' <= post.failures + 1
    BY <1>3, <1>4, <1>9, <1>11, CostsAreNumbers DEF PostsCounted
  <2>2. Continuing' + Anew' <= Earlier + 1
    BY <1>4, <1>8, <1>9, <1>11, CostsAreNumbers DEF PostsCounted
  <2>3. PostsCounted'
    BY <1>4, <1>5, <1>6, <1>8, <1>11, <2>1, <2>2, CostsAreNumbers DEF PostsCounted
  <2> QED BY <1>2, <1>4, <2>3 DEF BufferedInv, BufferedTypeOK, PostsTyped
<1>12. CASE post.at = "refreshing" /\ ~p.continues
  <2>1. Continuing' <= post.failures + 1 /\ Continuing' + Anew' <= Earlier + 1
    BY <1>4, <1>8, <1>9, <1>12, CostsAreNumbers DEF PostsCounted
  <2>2. Earlier' >= Earlier
    BY <1>6, <1>8, <1>12, CostsAreNumbers
  <2>3. PostsCounted'
    BY <1>4, <1>5, <1>7, <1>8, <2>1, <2>2, CostsAreNumbers DEF PostsCounted
  <2> QED BY <1>2, <1>4, <2>3 DEF BufferedInv, BufferedTypeOK, PostsTyped
<1>13. CASE post.at = "posting" /\ post.continues /\ ~p.continues
  <2>1. Continuing' <= post.failures + 1 /\ Continuing' + Anew' <= Earlier + 2
    BY <1>4, <1>8, <1>9, <1>13, CostsAreNumbers DEF PostsCounted
  <2>2. Earlier' = Earlier + 2
    BY <1>6, <1>7, <1>8, <1>13, CostsAreNumbers
  <2>3. PostsCounted'
    BY <1>4, <1>5, <1>8, <2>1, <2>2, CostsAreNumbers DEF PostsCounted
  <2> QED BY <1>2, <1>4, <2>3 DEF BufferedInv, BufferedTypeOK, PostsTyped
<1> QED BY <1>10, <1>11, <1>12, <1>13

\* A wait, or an end.
LEMMA WaitKeeps ==
    ASSUME BufferedInv, NEW p \in Posted, Waits(p), UNCHANGED route, post.at # "idle",
           p.continues = post.continues \/ ~p.continues,
           \/ /\ p.at \in {"answered", "failed"}
              /\ p.failures = post.failures /\ p.refreshed = post.refreshed
           \/ /\ post.at \in {"posting", "fallback"} /\ p.at = "refreshing"
              /\ ~post.refreshed /\ p.refreshed /\ p.failures = post.failures
           \/ /\ post.at \in {"posting", "fallback"} /\ p.at = "sleeping"
              /\ p.failures = post.failures + 1 /\ p.refreshed = post.refreshed
    PROVE  BufferedInv'
<1>1. post' = p /\ posts' = posts
  BY DEF Waits, Now
<1>2. Lost' \in {0, 1} /\ Lost' >= Lost
  <2>1. CASE p.continues = post.continues
    BY <1>1, <2>1 DEF Lost
  <2>2. CASE ~p.continues
    BY <1>1, <2>2 DEF Lost
  <2> QED BY <2>1, <2>2
<1>3. /\ p.refreshed = post.refreshed => Renewed' = Renewed
      /\ ~post.refreshed /\ p.refreshed => Renewed' = Renewed + 1
  BY <1>1 DEF Renewed
<1>4. Earlier' = 2 * (p.failures + Renewed' + Lost') /\ Earlier = 2 * (post.failures + Renewed + Lost)
  BY <1>1 DEF Earlier
<1>5. PostsCounted /\ Continuing' = Continuing /\ Anew' = Anew
  BY <1>1 DEF BufferedInv, Continuing, Anew
<1>6. CASE /\ p.at \in {"answered", "failed"}
           /\ p.failures = post.failures /\ p.refreshed = post.refreshed
  <2>1. Earlier' >= Earlier
    BY <1>2, <1>3, <1>4, <1>6, CostsAreNumbers
  <2>2. Earlier \in Nat /\ Earlier' \in Nat
    BY <1>2, <1>3, <1>4, <1>6, CostsAreNumbers
  <2>3. Continuing + Anew <= Earlier + 2 /\ Continuing <= post.failures + 1
    BY <1>5 DEF PostsCounted
  <2>4. PostsCounted'
    BY <1>1, <1>5, <1>6, <2>1, <2>2, <2>3, CostsAreNumbers DEF PostsCounted
  <2> QED BY <1>1, <2>4 DEF BufferedInv, BufferedTypeOK, PostsTyped
<1>7. CASE /\ post.at \in {"posting", "fallback"} /\ p.at = "refreshing"
           /\ ~post.refreshed /\ p.refreshed /\ p.failures = post.failures
  <2>1. Earlier' >= Earlier + 2
    BY <1>2, <1>3, <1>4, <1>7, CostsAreNumbers
  <2>2. Earlier \in Nat /\ Earlier' \in Nat
    BY <1>2, <1>3, <1>4, <1>7, CostsAreNumbers
  <2>3. Continuing + Anew <= Earlier + 2 /\ Continuing <= post.failures + 1
    BY <1>5 DEF PostsCounted
  <2>4. PostsCounted'
    BY <1>1, <1>5, <1>7, <2>1, <2>2, <2>3, CostsAreNumbers DEF PostsCounted
  <2> QED BY <1>1, <2>4 DEF BufferedInv, BufferedTypeOK, PostsTyped
<1>8. CASE /\ post.at \in {"posting", "fallback"} /\ p.at = "sleeping"
           /\ p.failures = post.failures + 1 /\ p.refreshed = post.refreshed
  <2>1. Earlier' >= Earlier + 2
    BY <1>2, <1>3, <1>4, <1>8, CostsAreNumbers
  <2>2. Earlier \in Nat /\ Earlier' \in Nat
    BY <1>2, <1>3, <1>4, <1>8, CostsAreNumbers
  <2>3. Continuing + Anew <= Earlier + 2 /\ Continuing <= post.failures + 1
    BY <1>5 DEF PostsCounted
  <2>4. PostsCounted'
    BY <1>1, <1>5, <1>8, <2>1, <2>2, <2>3, CostsAreNumbers DEF PostsCounted
  <2> QED BY <1>1, <2>4 DEF BufferedInv, BufferedTypeOK, PostsTyped
<1> QED BY <1>6, <1>7, <1>8

LEMMA BufferedProgressKeeps == ASSUME BufferedInv, BufferedProgress, UNCHANGED route PROVE BufferedInv'
<1> post \in Posted
  BY DEF BufferedInv, BufferedTypeOK, PostsTyped
<1>1. ASSUME NEW p \in Posted, post.at \in {"posting", "fallback"}, Sleeps(p),
             p = post \/ p = [post EXCEPT !.continues = FALSE]
      PROVE  BufferedInv'
  <2>1. /\ p.failures = post.failures /\ p.refreshed = post.refreshed
        /\ (p.continues = post.continues \/ ~p.continues)
    BY <1>1 DEF Posted
  <2>2. CASE Waits([p EXCEPT !.at = "failed"])
    <3> DEFINE q == [p EXCEPT !.at = "failed"]
    <3>1. q \in Posted /\ q.at = "failed" /\ q.failures = post.failures
          /\ q.refreshed = post.refreshed /\ (q.continues = post.continues \/ ~q.continues)
      BY <2>1 DEF Posted
    <3> HIDE DEF q
    <3>2. Waits(q)
      BY <2>2 DEF q
    <3> QED BY <1>1, <3>1, <3>2, WaitKeeps
  <2>3. CASE p.failures < MaxHttpRetries /\ Waits([p EXCEPT !.at = "sleeping", !.failures = @ + 1])
    <3> DEFINE q == [p EXCEPT !.at = "sleeping", !.failures = @ + 1]
    <3>1. q \in Posted /\ q.at = "sleeping" /\ q.failures = post.failures + 1
          /\ q.refreshed = post.refreshed /\ (q.continues = post.continues \/ ~q.continues)
      <4>1. p.failures + 1 \in 0 .. MaxHttpRetries
        BY <2>1, <2>3, Limits, CostsAreNumbers
      <4> QED BY <1>1, <2>1, <4>1 DEF Posted
    <3> HIDE DEF q
    <3>2. Waits(q)
      BY <2>3 DEF q
    <3> QED BY <1>1, <3>1, <3>2, WaitKeeps
  <2> QED BY <1>1, <2>2, <2>3 DEF Sleeps
<1>2. ASSUME NEW at \in {"answered", "failed"}, post.at \in {"posting", "fallback", "refreshing"},
             Waits([post EXCEPT !.at = at])
      PROVE  BufferedInv'
  <2> DEFINE q == [post EXCEPT !.at = at]
  <2>1. q \in Posted /\ q.at = at /\ q.failures = post.failures
        /\ q.refreshed = post.refreshed /\ q.continues = post.continues
    BY DEF Posted
  <2> HIDE DEF q
  <2>2. Waits(q)
    BY <1>2 DEF q
  <2> QED BY <1>2, <2>1, <2>2, WaitKeeps
<1>3. CASE IsAnswered
  BY <1>2, <1>3 DEF IsAnswered
<1>4. CASE FallsBack
  <2>1. post' = [post EXCEPT !.at = "fallback"] /\ posts' = [posts EXCEPT ![FALSE] = @ + 1]
    BY <1>4 DEF FallsBack, Now
  <2>2. post' \in Posted /\ post'.at = "fallback" /\ post'.failures = post.failures
        /\ post'.refreshed = post.refreshed /\ post'.continues = post.continues
    BY <2>1 DEF Posted
  <2>3. /\ PostsTyped' /\ Continuing' = Continuing
        /\ Continuing' + Anew' = Continuing + Anew + 1
    <3>1. PostsTyped
      BY DEF BufferedInv, BufferedTypeOK, PostsTyped
    <3>2. PostsTyped' /\ Continuing' = Continuing /\ Anew' = Anew + 1
      BY Zenon, <2>1, <3>1, OneMore
    <3> QED BY <3>2, CostsAreNumbers
  <2>4. Earlier' = Earlier /\ Earlier \in Nat
    BY <2>2, CostsAreNumbers DEF Earlier, Renewed, Lost
  <2>5. PostsCounted'
    <3>1. Continuing + Anew <= Earlier + 1 /\ Continuing <= post.failures + 1
      BY <1>4 DEF FallsBack, PostsCounted, BufferedInv
    <3> QED BY <2>2, <2>3, <2>4, <3>1, CostsAreNumbers DEF PostsCounted
  <2> QED BY <2>2, <2>3, <2>5 DEF BufferedInv, BufferedTypeOK, PostsTyped
<1>5. CASE Unauthorized
  <2> DEFINE q == [post EXCEPT !.at = "refreshing", !.refreshed = TRUE]
  <2>1. q \in Posted /\ q.at = "refreshing" /\ q.refreshed /\ q.failures = post.failures
        /\ q.continues = post.continues
    BY DEF Posted
  <2> HIDE DEF q
  <2>2. Waits(q) /\ post.at \in {"posting", "fallback"} /\ ~post.refreshed
    BY <1>5 DEF q, Unauthorized, Posted
  <2> QED BY <2>1, <2>2, WaitKeeps
<1>6. CASE IsRefreshed
  <2>1. CASE Posts([post EXCEPT !.continues = FALSE])
    <3> DEFINE q == [post EXCEPT !.continues = FALSE]
    <3>1. q \in Posted /\ q.failures = post.failures /\ q.refreshed = post.refreshed /\ ~q.continues
      BY DEF Posted
    <3> HIDE DEF q
    <3>2. Posts(q) /\ post.at = "refreshing"
      BY <1>6, <2>1 DEF q, IsRefreshed
    <3> QED BY <3>1, <3>2, PostKeeps
  <2> QED BY <1>2, <1>6, <2>1 DEF IsRefreshed
<1>7. CASE FailedInBody
  <2>1. [post EXCEPT !.continues = FALSE] \in Posted
    BY DEF Posted
  <2> QED BY <1>1, <1>7, <2>1 DEF FailedInBody
<1>8. CASE FailedInTransport
  BY <1>1, <1>8 DEF FailedInTransport
<1>9. CASE Awakes
  BY <1>9, PostKeeps DEF Awakes
<1>10. CASE ContinuationFails
  <2> DEFINE q == WithFullContext(post)
  <2>1. q \in Posted /\ q.failures = post.failures /\ q.refreshed = post.refreshed /\ ~q.continues
    BY DEF Posted, WithFullContext
  <2> HIDE DEF q
  <2>2. Posts(q) /\ post.at = "posting" /\ post.continues
    BY <1>10 DEF q, ContinuationFails, Posted
  <2> QED BY <2>1, <2>2, PostKeeps
<1> QED BY <1>3, <1>4, <1>5, <1>6, <1>7, <1>8, <1>9, <1>10 DEF BufferedProgress

LEMMA BufferedStep ==
    ASSUME BufferedInv, [BufferedNext]_<<httpVars, bufferedVars>>
    PROVE  BufferedInv'
<1> post \in Posted
  BY DEF BufferedInv, BufferedTypeOK, PostsTyped
<1>1. CASE BufferedStarts /\ UNCHANGED httpVars
  <2>1. PICK transport \in Transport, offered \in BOOLEAN :
           Posts([post EXCEPT !.transport = transport, !.lease = route, !.offered = offered,
                              !.continues = offered /\ transport # "http"])
    BY <1>1 DEF BufferedStarts
  <2> DEFINE q == [post EXCEPT !.transport = transport, !.lease = route, !.offered = offered,
                               !.continues = offered /\ transport # "http"]
  <2>2. q \in Posted /\ q.failures = post.failures /\ q.refreshed = post.refreshed
    BY DEF Posted, BufferedInv
  <2> HIDE DEF q
  <2>3. Posts(q) /\ UNCHANGED route /\ post.at = "idle"
    BY <1>1, <2>1 DEF q, BufferedStarts, httpVars
  <2> QED BY <2>2, <2>3, PostKeeps
<1>2. CASE BufferedProgress /\ UNCHANGED httpVars
  BY <1>2, BufferedProgressKeeps DEF httpVars
<1>3. CASE BufferedInterrupted /\ UNCHANGED httpVars
  <2>1. CASE post.restarted
    <3> DEFINE q == [post EXCEPT !.at = "failed"]
    <3>1. q \in Posted /\ q.at = "failed" /\ q.failures = post.failures
          /\ q.refreshed = post.refreshed /\ q.continues = post.continues
      BY DEF Posted
    <3> HIDE DEF q
    <3>2. Waits(q) /\ UNCHANGED route /\ post.at # "idle"
      BY <1>3, <2>1 DEF q, BufferedInterrupted, httpVars
    <3> QED BY <3>1, <3>2, WaitKeeps
  <2>2. CASE ~post.restarted
    <3> DEFINE continues == post.offered /\ post.transport # "http"
    <3>1. /\ post' = [post EXCEPT !.at = "posting", !.lease = route, !.restarted = TRUE,
                                  !.continues = continues, !.failures = 0, !.refreshed = FALSE]
          /\ posts' = [c \in {TRUE, FALSE} |-> IF c = continues THEN 1 ELSE 0]
          /\ UNCHANGED route
      BY <1>3, <2>2 DEF BufferedInterrupted, httpVars
    <3>2. continues \in BOOLEAN
      OBVIOUS
    <3> HIDE DEF continues
    <3>3. post' \in Posted /\ post'.at = "posting" /\ post'.failures = 0 /\ ~post'.refreshed
          /\ post'.continues = continues
      <4>1. route \in 0 .. MaxPathChanges /\ 0 \in 0 .. MaxHttpRetries
        BY Limits DEF BufferedInv
      <4> QED BY <3>1, <3>2, <4>1 DEF Posted
    <3>4. PostsTyped' /\ Continuing' <= 1 /\ Continuing' + Anew' = 1
      <4>1. CASE continues
        <5>1. continues = TRUE
          BY <3>2, <4>1
        <5> QED BY <3>1, <5>1 DEF Continuing, Anew, PostsTyped
      <4>2. CASE ~continues
        <5>1. continues = FALSE
          BY <3>2, <4>2
        <5>2. posts'[TRUE] = 0 /\ posts'[FALSE] = 1
          BY Zenon, <3>1, <5>1
        <5>3. PostsTyped'
          BY <3>1, <5>1 DEF PostsTyped
        <5> QED BY <5>2, <5>3 DEF Continuing, Anew
      <4> QED BY <4>1, <4>2
    <3>5. Renewed' \in Nat /\ Lost' \in Nat /\ Earlier' \in Nat
      BY <3>3 DEF Earlier, Renewed, Lost
    <3>6. PostsCounted'
      BY <3>3, <3>4, <3>5 DEF PostsCounted
    <3> QED BY <3>1, <3>3, <3>4, <3>6 DEF BufferedInv, BufferedTypeOK, PostsTyped
  <2> QED BY <2>1, <2>2
<1>4. CASE BufferedLeaves /\ UNCHANGED httpVars
  <2> DEFINE q == [post EXCEPT !.at = "failed"]
  <2>1. q \in Posted /\ q.at = "failed" /\ q.failures = post.failures
        /\ q.refreshed = post.refreshed /\ q.continues = post.continues
    BY DEF Posted
  <2> HIDE DEF q
  <2>2. Waits(q) /\ UNCHANGED route /\ post.at # "idle"
    BY <1>4 DEF q, BufferedLeaves, httpVars
  <2> QED BY <2>1, <2>2, WaitKeeps
<1>5. CASE route < MaxPathChanges /\ route' = route + 1 /\ UNCHANGED <<task, sent, bufferedVars>>
  <2>1. route' \in 0 .. MaxPathChanges
    BY <1>5, Limits DEF BufferedInv
  <2> QED BY <1>5, <2>1 DEF BufferedInv, BufferedTypeOK, PostsCounted, Earlier, Renewed, Lost, bufferedVars,
                            Continuing, Anew
<1>6. CASE UNCHANGED <<httpVars, bufferedVars>>
  BY <1>6 DEF BufferedInv, BufferedTypeOK, PostsCounted, Earlier, Renewed, Lost, httpVars,
              bufferedVars, Continuing, Anew
<1> QED BY <1>1, <1>2, <1>3, <1>4, <1>5, <1>6 DEF BufferedNext

\* A buffered request is posted no more often than its retries, one refresh and
\* one lost continuation allow, for any limit and any changes of the path.
THEOREM PostsAreBounded == BufferedSpec => []BufferedSafety
<1>1. BufferedInv => BufferedSafety
  <2> SUFFICES ASSUME BufferedInv PROVE BufferedSafety
    OBVIOUS
  <2>1. Continuing <= MaxHttpRetries + 1 /\ Continuing + Anew <= 2 * (MaxHttpRetries + 3)
    BY CostsAreNumbers, Limits DEF BufferedInv, PostsCounted, Earlier
  <2> QED BY <2>1 DEF BufferedInv, BufferedSafety, PostsBounded, Continuing, Anew
<1> QED
  BY <1>1, BufferedStart, BufferedStep, PTL DEF BufferedSpec

-----------------------------------------------------------------------------
(* The pool of clients.  What makes the properties inductive is that the      *)
(* revision in the pool is the newest, that it was made for the pool's        *)
(* generation, and that no request holds or has broken one that was not made. *)

RevisionsAreOld ==
    /\ \A r \in failed : r <= cached.revision
    /\ \A h \in Holder : holder[h].at = "using" => holder[h].revision <= cached.revision

MadeForGeneration == made[cached.revision] = cached.generation

NetworkInv == NetworkSafety /\ RevisionsAreOld /\ MadeForGeneration

Held == [at: {"idle", "leased", "using", "over"}, lease: Nat, revision: Nat, observed: Nat]

\* A request that takes its lease, or its client, remains well typed.
LEMMA LeaseTyping ==
    ASSUME NEW h \in Holder, holder \in [Holder -> Held], path_generation \in Nat, Lease(h)
    PROVE  holder' \in [Holder -> Held]
BY DEF Held, Lease

LEMMA GetTyping ==
    ASSUME NEW h \in Holder, holder \in [Holder -> Held], NEW n \in Nat, NEW g \in Nat,
           holder' = [holder EXCEPT ![h].at = "using", ![h].revision = n, ![h].observed = g]
    PROVE  holder' \in [Holder -> Held]
BY ZenonT(40) DEF Held

USE DEF RevisionsAreOld, MadeForGeneration, NetworkInv, NetworkSafety, CachedIffHealthy,
        SharedWithinGeneration, NothingMissed, NetworkTypeOK, networkVars, poolVars,
        osVars, watchVars

LEMMA NetworkStart == NetworkInit => NetworkInv
<1> SUFFICES ASSUME NetworkInit PROVE NetworkInv
    OBVIOUS
<1>1. network \in Identity /\ moves \in 0 .. MaxMoves
    BY NetworkPoolAssumption DEF NetworkInit
<1>2. watcher \in [at: {"initial", "registered", "watching"}, previous: Identity]
    BY DEF NetworkInit
<1>3. cached \in [generation: Nat, revision: Nat, client: BOOLEAN]
    BY DEF NetworkInit
<1>4. holder \in [Holder -> [at: {"idle", "leased", "using", "over"},
                             lease: Nat, revision: Nat, observed: Nat]]
    BY DEF NetworkInit
<1>5. made \in [0 .. cached.revision -> Nat] /\ made[cached.revision] = 0
    BY DEF NetworkInit
<1>6. NetworkTypeOK
    BY <1>1, <1>2, <1>3, <1>4, <1>5 DEF NetworkInit
<1> QED
    BY <1>5, <1>6 DEF NetworkInit

\* The watcher and the operating system change nothing that the pool's users hold.
LEMMA WatcherKeeps ==
    ASSUME NetworkInv, Move \/ Register \/ StartWatching \/ Settled
    PROVE  NetworkInv'
<1>1. CASE Move
    <2>1. network' \in Identity /\ moves' \in 0 .. MaxMoves
        BY <1>1, NetworkPoolAssumption DEF Move
    <2>2. pending' \in BOOLEAN
        BY <1>1 DEF Move
    <2>3. watcher.at = "watching" => pending'
        BY <1>1 DEF Move
    <2> QED
        BY <1>1, <2>1, <2>2, <2>3 DEF Move
<1>2. CASE Register
    BY <1>2 DEF Register
<1>3. CASE StartWatching
    BY <1>3 DEF StartWatching
<1>4. CASE Settled
    <2>1. generation' \in Nat /\ path_generation' \in Nat
        BY <1>4 DEF Settled
    <2>2. watcher' \in [at: {"initial", "registered", "watching"}, previous: Identity]
        BY <1>4 DEF Settled
    <2>3. watcher'.previous = network'
        BY <1>4 DEF Settled
    <2> QED
        BY <1>4, <2>1, <2>2, <2>3 DEF Settled
<1> QED
    BY <1>1, <1>2, <1>3, <1>4

\* A client that is handed out is the newest; whoever held an older one keeps it.
LEMMA GetKeeps ==
    ASSUME NetworkInv, NEW h \in Holder, Get(h)
    PROVE  NetworkInv'
<1> DEFINE rebuilds == cached.generation # generation \/ ~cached.client
           revision == IF rebuilds THEN cached.revision + 1 ELSE cached.revision
<1>1. /\ cached' = [generation |-> generation, revision |-> revision, client |-> TRUE]
      /\ made' = [r \in 0 .. revision |-> IF r > cached.revision THEN generation ELSE made[r]]
      /\ holder' = [holder EXCEPT ![h].at = "using", ![h].revision = revision,
                                  ![h].observed = generation]
      /\ UNCHANGED <<network, moves, watcher, pending, generation, path_generation, failed>>
    BY DEF Get
<1>2. revision \in Nat /\ revision >= cached.revision
    OBVIOUS
<1>3. NetworkTypeOK'
    <2>1. cached' \in [generation: Nat, revision: Nat, client: BOOLEAN] /\ cached'.revision = revision
        BY <1>1, <1>2
    <2>2. made' \in [0 .. revision -> Nat]
        BY <1>1, <1>2
    <2>3. holder' \in [Holder -> Held]
        BY <1>1, <1>2, GetTyping DEF Held
    <2> QED
        BY <1>1, <2>1, <2>2, <2>3 DEF Held
<1>4. \A r \in 0 .. cached.revision : made'[r] = made[r]
    BY <1>1, <1>2
<1>5. made'[revision] = generation
    BY <1>1, <1>2
<1>6. cached'.client /\ cached'.revision \notin failed'
    BY <1>1
<1>7. RevisionsAreOld' /\ MadeForGeneration'
    BY SMTT(40), ZenonT(40), <1>1, <1>2, <1>5
<1>8. SharedWithinGeneration'
    BY <1>1, <1>2, <1>4, <1>5
<1> QED
    BY <1>1, <1>3, <1>6, <1>7, <1>8

LEMMA FailsKeeps ==
    ASSUME NetworkInv, NEW h \in Holder, Fails(h)
    PROVE  NetworkInv'
<1>1. NetworkTypeOK'
    BY ZenonT(40) DEF Fails, Retires
<1>2. CachedIffHealthy'
    BY DEF Fails, Retires
<1>3. RevisionsAreOld' /\ MadeForGeneration' /\ SharedWithinGeneration'
    BY DEF Fails, Retires
<1> QED
    BY <1>1, <1>2, <1>3 DEF Fails

LEMMA NetworkStep == NetworkInv /\ [NetworkNext]_networkVars => NetworkInv'
<1> SUFFICES ASSUME NetworkInv, [NetworkNext]_networkVars PROVE NetworkInv'
    OBVIOUS
<1>1. CASE Move \/ Register \/ StartWatching \/ Settled
    BY <1>1, WatcherKeeps
<1>2. ASSUME NEW h \in Holder, Lease(h) PROVE NetworkInv'
    <2>1. NetworkTypeOK'
        <3>1. holder' \in [Holder -> Held]
            BY <1>2, LeaseTyping DEF Held
        <3> QED
            BY <1>2, <3>1 DEF Lease, Held
    <2>2. \A g \in Holder : holder'[g].at = "using" => holder[g].at = "using" /\ holder'[g] = holder[g]
        BY <1>2 DEF Lease
    <2> QED
        BY <1>2, <2>1, <2>2 DEF Lease
<1>3. ASSUME NEW h \in Holder, Get(h) PROVE NetworkInv'
    BY <1>3, GetKeeps
<1>4. ASSUME NEW h \in Holder, Fails(h) PROVE NetworkInv'
    BY <1>4, FailsKeeps
<1>5. ASSUME NEW h \in Holder, Ends(h) PROVE NetworkInv'
    <2>1. NetworkTypeOK'
        BY ZenonT(40), <1>5 DEF Ends
    <2>2. \A g \in Holder : holder'[g].at = "using" => holder[g].at = "using" /\ holder'[g] = holder[g]
        BY <1>5 DEF Ends
    <2> QED
        BY <1>5, <2>1, <2>2 DEF Ends
<1>6. CASE UNCHANGED networkVars
    BY <1>6
<1> QED
    BY <1>1, <1>2, <1>3, <1>4, <1>5, <1>6 DEF NetworkNext

(* The pool holds a client exactly when no request has found it broken, those
   who share a client obtained it under one generation, and the watcher misses
   no change, for any number of requests and changes (ClientPool, watch). *)
THEOREM PoolIsSound == NetworkSpec => []NetworkSafety
<1>1. NetworkInv => NetworkSafety
    OBVIOUS
<1> QED
    BY NetworkStart, NetworkStep, <1>1, PTL DEF NetworkSpec
=================================================================================
