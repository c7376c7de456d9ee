--------------------------- MODULE Requests_proofs -----------------------------
(***************************************************************************)
(* Theorems about CodexTurns and RelayedRequests, for any owners, requests   *)
(* and sockets, any limits and any number of faults.  Requests that are      *)
(* passed on share no more than the path, and what holds of each is shown    *)
(* action by action, in the last part.                                       *)
(*                                                                          *)
(* The inductive invariant of turns has three layers, proved in this order:  *)
(* where the three tasks of a request can stand and what their channels can  *)
(* hold (Control); that a step of a turn is a step of the registry or leaves  *)
(* it alone, so that what is proved of the registry holds here (Consistent,  *)
(* InOrder); and which socket belongs to whom (Claims and the rest of         *)
(* Sockets).                                                                 *)
(***************************************************************************)
EXTENDS CodexTurns, RelayedRequests, Continuation_proofs, SequenceTheorems

Terminal == Successes \union Failures

-----------------------------------------------------------------------------
(* The channels: at most one output, then at most one terminal item.        *)

Queue(s) ==
    \/ s = <<>>
    \/ s = <<"output">>
    \/ \E t \in Terminal : s = <<t>>
    \/ \E t \in Terminal : s = <<"output", t>>

HasOutput(s) == s # <<>> /\ Head(s) = "output"

\* The channel ends in this terminal item; it ends at all.
EndsIn(s, t) == s = <<t>> \/ s = <<"output", t>>
Ended(s)   == \E t \in Terminal : EndsIn(s, t)

\* A channel of one item grows to two.
LEMMA AppendToOne ==
    ASSUME NEW a, NEW b
    PROVE  Append(<<a>>, b) = <<a, b>>
<1> DEFINE S    == {a, b}
           one  == Append(<<a>>, b)
           both == <<a, b>>
<1>1. one \in Seq(S) /\ Len(one) = 2 /\ one[1] = a /\ one[2] = b
  <2>1. <<a>> \in Seq(S) /\ Len(<<a>>) = 1
    OBVIOUS
  <2>2. QED
    BY <2>1
<1>2. both \in Seq(S) /\ Len(both) = 2 /\ both[1] = a /\ both[2] = b
  OBVIOUS
<1> HIDE DEF S, one, both
<1>3. \A i \in 1 .. Len(one) : one[i] = both[i]
  BY <1>1, <1>2
<1>4. one = both
  BY <1>1, <1>2, <1>3, SeqEqual
<1>5. QED
  BY <1>4 DEF one, both

\* What is appended to a channel that has not ended.
LEMMA QueueGrows ==
    ASSUME NEW s, Queue(s), ~Ended(s), NEW x \in Items, x = "output" => ~HasOutput(s)
    PROVE  /\ Queue(Append(s, x))
           /\ HasOutput(Append(s, x)) <=> HasOutput(s) \/ x = "output"
           /\ \A t \in Terminal : EndsIn(Append(s, x), t) <=> t = x
<1>1. x = "output" \/ x \in Terminal
  BY DEF Items, Terminal
<1>2. "output" \notin Terminal
  BY DEF Terminal, Successes, Failures
<1>3. s = <<>> \/ s = <<"output">>
  BY DEF Queue, Ended, EndsIn
<1>4. CASE s = <<>>
  <2>1. Append(s, x) = <<x>> /\ Head(<<x>>) = x
    BY <1>4
  <2>2. QED
    BY <1>1, <1>2, <1>4, <2>1 DEF Queue, HasOutput, EndsIn
<1>5. CASE s = <<"output">>
  <2>1. Append(s, x) = <<"output", x>> /\ Head(<<"output", x>>) = "output" /\ Head(s) = "output"
    BY <1>5, AppendToOne
  <2>2. x \in Terminal
    BY <1>1, <1>5, <2>1 DEF HasOutput
  <2>3. QED
    BY <1>2, <1>5, <2>1, <2>2 DEF Queue, HasOutput, EndsIn
<1>6. QED
  BY <1>3, <1>4, <1>5

\* What is left of a channel when its first item has been taken.
LEMMA QueueShrinks ==
    ASSUME NEW s, Queue(s), s # <<>>
    PROVE  /\ Head(s) \in Items
           /\ Queue(Tail(s)) /\ ~HasOutput(Tail(s))
           /\ HasOutput(s) => \A t \in Terminal : EndsIn(Tail(s), t) <=> EndsIn(s, t)
           /\ ~HasOutput(s) => Head(s) \in Terminal /\ EndsIn(s, Head(s)) /\ Tail(s) = <<>>
<1>1. "output" \notin Terminal
  BY DEF Terminal, Successes, Failures
<1>2. Items = {"output"} \union Terminal
  BY DEF Items, Terminal
<1>3. CASE s = <<"output">>
  <2>1. Tail(s) = <<>> /\ Head(s) = "output"
    BY <1>3
  <2>2. QED
    BY <1>1, <1>2, <1>3, <2>1 DEF Queue, HasOutput, EndsIn
<1>4. ASSUME NEW t \in Terminal, s = <<t>>
      PROVE  /\ Head(s) \in Terminal /\ Tail(s) = <<>> /\ ~HasOutput(s) /\ EndsIn(s, Head(s))
             /\ Queue(<<>>) /\ ~HasOutput(<<>>)
  <2>1. Tail(s) = <<>> /\ Head(s) = t
    BY <1>4
  <2>2. QED
    BY <1>1, <1>4, <2>1 DEF Queue, HasOutput, EndsIn
<1>5. ASSUME NEW t \in Terminal, s = <<"output", t>>
      PROVE  /\ Head(s) = "output" /\ HasOutput(s) /\ Queue(Tail(s)) /\ ~HasOutput(Tail(s))
             /\ \A u \in Terminal : EndsIn(Tail(s), u) <=> EndsIn(s, u)
  <2>1. Tail(s) = <<t>> /\ Head(s) = "output" /\ Head(<<t>>) = t
    BY <1>5
  <2>2. QED
    BY <1>1, <1>5, <2>1 DEF Queue, HasOutput, EndsIn
<1>6. QED
  BY <1>2, <1>3, <1>4, <1>5 DEF Queue

-----------------------------------------------------------------------------
(* Where the tasks of a request stand.                                      *)

\* The coordinator prepares a socket.
Preparing == {"take", "validate", "gate", "connect", "refresh"}

\* The socket task holds its socket.
Holding == {"send", "read", "more", "settle"}

HandlerControl(r) ==
    /\ hpc[r] = "idle" <=> res[r] = None
    /\ hpc[r] = "numbered" => ~res[r].entered
    /\ hpc[r] \notin {"idle", "numbered"} => res[r].entered
    /\ hpc[r] \in {"idle", "numbered", "ready"} => cpc[r] = "off" /\ outs[r] = <<>>
    /\ hpc[r] \in {"idle", "numbered"} => stored[r] = None
    /\ hpc[r] = "over" => outs[r] = <<>>
    /\ hpc[r] = "streaming" => coord[r].forwarded

CoordinatorControl(r) ==
    /\ cpc[r] \in Preparing => /\ ipc[r] = "off" /\ items[r] = <<>> /\ outs[r] = <<>>
                               /\ ~coord[r].forwarded /\ stored[r] = None
    /\ cpc[r] \in {"off", "aborting"} => items[r] = <<>>
    /\ cpc[r] = "aborting" => hpc[r] = "over"
    /\ cpc[r] = "off" /\ hpc[r] # "over" => ipc[r] = "off"
    /\ Queue(outs[r])
    /\ HasOutput(outs[r]) => hpc[r] = "waiting" /\ coord[r].forwarded
    /\ Ended(outs[r]) => cpc[r] = "off"

SocketControl(r) ==
    /\ held[r] # None <=> cpc[r] = "validate" \/ ipc[r] \in Holding
    /\ ipc[r] \in Holding => stored[r] = None
    /\ ipc[r] \in {"settle", "deliver"} => final[r] \in Successes
    /\ ipc[r] \in {"send", "read"} => items[r] = <<>> /\ ~coord[r].forwarded
    /\ Queue(items[r])
    /\ HasOutput(items[r]) => ~coord[r].forwarded
    /\ Ended(items[r]) => ipc[r] = "off"
    /\ \A t \in Failures : EndsIn(items[r], t) => stored[r] = None

ControlOf(r) == HandlerControl(r) /\ CoordinatorControl(r) /\ SocketControl(r)

Control == \A r \in Request : ControlOf(r)

-----------------------------------------------------------------------------
(* Which socket belongs to whom.                                            *)

Opened(s) == s \in 1 .. Len(sockets)

\* A socket of the owner that no attempt holds, with this newest response.
Fresh(o, s, t) ==
    /\ Opened(s)
    /\ sockets[s].owner = o /\ sockets[s].last = t
    /\ \A q \in Request : held[q] # s

\* What an owner's current turn counts on finding: its own answer on the socket
\* it was stored with, or the response it is to continue on its origin.
ClaimedBy(r, s, t) ==
    \/ stored[r] # None /\ s = stored[r] /\ t = res[r].turn
    \/ hpc[r] = "ready" /\ res[r].previous # None /\ s = res[r].origin /\ t = res[r].previous
    \/ cpc[r] = "take" /\ coord[r].previous # None /\ s = coord[r].origin /\ t = coord[r].previous

Offered(o, s, t) ==
    LET c == Held(registry, o) IN c # None /\ s = c.socket /\ t = c.response

Claims ==
    /\ \A o \in Owner : \A s, t : Offered(o, s, t) => Fresh(o, s, t)
    /\ \A r \in Request : \A s, t :
           res[r] # None /\ Current(r) /\ ClaimedBy(r, s, t) => Fresh(res[r].owner, s, t)

\* An owner's entry in the pool is the socket its last answer came over.
PoolMatches ==
    /\ \A o \in DOMAIN registry.owners :
           Held(registry, o) # None /\ o \in DOMAIN pool => pool[o] = Held(registry, o).socket
    /\ \A r \in Request :
           res[r] # None /\ Current(r) /\ stored[r] # None /\ res[r].owner \in DOMAIN pool =>
               pool[res[r].owner] = stored[r]

\* A turn whose answer is on offer is over, and so are its tasks.
RecordedIsOver ==
    \A r \in Request :
        res[r] # None /\ Current(r) /\ Held(registry, res[r].owner) # None => IsOver(r)

\* What the attempt of a request holds, and what it is to continue.
AttemptOf(r) ==
    /\ held[r] # None => Opened(held[r])
    /\ stored[r] # None => Opened(stored[r])
    /\ res[r] # None /\ res[r].previous # None => res[r].origin \in Socket
    /\ coord[r].previous # None => coord[r].origin \in Socket
    /\ cpc[r] \in {"gate", "connect"} => coord[r].previous = None
    /\ (cpc[r] = "validate" \/ ipc[r] = "send") /\ coord[r].previous # None =>
           sockets[held[r]].last = coord[r].previous
    /\ ipc[r] = "settle" => sockets[held[r]].last = res[r].turn

Attempts == \A r \in Request : AttemptOf(r)

Dangling == \E r \in Request : res[r] # None /\ hpc[r] = "over" /\ Current(r)
                                 /\ Held(registry, res[r].owner) = None

Sockets ==
    Claims /\ PoolMatches /\ RecordedIsOver /\ Attempts /\ SocketsAreExclusive /\ ~Dangling

-----------------------------------------------------------------------------
(* The types of what is not in the registry.                                *)

SocketState == [owner: Owner, epoch: Nat, last: Turn \union {None}]

CoordState ==
    [previous: Turn \union {None}, origin: Socket \union {None}, epoch: Nat,
     authTried: BOOLEAN, forwarded: BOOLEAN, full: BOOLEAN]

HandlerTypes ==
    /\ hpc \in [Request -> {"idle", "numbered", "ready", "waiting", "streaming", "over"}]
    /\ attempt \in [Request -> 0 .. MaxRetries]
    /\ here \in [Request -> BOOLEAN]

CoordinatorTypes ==
    /\ cpc \in [Request -> Preparing \union {"off", "listen", "aborting"}]
    /\ coord \in [Request -> CoordState]

SocketTypes ==
    /\ ipc \in [Request -> Holding \union {"off", "deliver"}]
    /\ held \in [Request -> Socket \union {None}]
    /\ stored \in [Request -> Socket \union {None}]
    /\ final \in [Request -> Successes \union {None}]

ChannelTypes ==
    /\ items \in [Request -> Seq(Items)]
    /\ outs \in [Request -> Seq(Items)]

TaskTypes == HandlerTypes /\ CoordinatorTypes /\ SocketTypes /\ ChannelTypes

\* A socket or a coordinator belongs to a path there has been, and a path ends
\* in a fault.
NetTypes ==
    /\ sockets \in Seq(SocketState) /\ Len(sockets) <= Cardinality(Socket)
    /\ epoch \in Nat /\ faults \in 0 .. MaxFaults /\ epoch <= faults
    /\ \A s \in 1 .. Len(sockets) : sockets[s].epoch <= epoch
    /\ \A r \in Request : coord[r].epoch <= epoch
    /\ DOMAIN pool \subseteq Owner /\ \A o \in DOMAIN pool : pool[o] \in 1 .. Len(sockets)

\* A step of one request.
StepOf(r) == Arrival(r) \/ Handler(r) \/ Coordinator(r) \/ SocketTask(r) \/ Misfortune(r)

\* What the tasks of a request have between them is left as it is.
SameTasks(q) ==
    /\ res'[q] = res[q] /\ hpc'[q] = hpc[q] /\ cpc'[q] = cpc[q] /\ ipc'[q] = ipc[q]
    /\ coord'[q] = coord[q] /\ held'[q] = held[q] /\ stored'[q] = stored[q]
    /\ final'[q] = final[q] /\ items'[q] = items[q] /\ outs'[q] = outs[q]

-----------------------------------------------------------------------------
(* What each action does to the request that takes it.                      *)

USE DEF regVars, handlerVars, coordVars, socketVars, netVars

SameHandler(r) == res'[r] = res[r] /\ hpc'[r] = hpc[r]
SameCoordinator(r) == cpc'[r] = cpc[r] /\ coord'[r] = coord[r]
SameSocket(r) ==
    ipc'[r] = ipc[r] /\ held'[r] = held[r] /\ stored'[r] = stored[r] /\ final'[r] = final[r]

\* A request is numbered.
LEMMA BeginDoes ==
    ASSUME TaskTypes, Consistent, NEW r \in Request, NEW owner \in Owner,
           Begin(r, owner)
    PROVE  /\ res[r] = None /\ res'[r] # None /\ ~res'[r].entered
           /\ hpc[r] = "idle" /\ hpc'[r] = "numbered"
           /\ SameCoordinator(r)
           /\ SameSocket(r)
           /\ items'[r] = items[r]
           /\ outs'[r] = outs[r]
<1>1. res[r] = None /\ res'[r] # None /\ ~res'[r].entered
  <2> DEFINE new == [owner |-> owner, turn |-> nextTurn, at |-> now, entered |-> FALSE,
                     previous |-> None, origin |-> None]
  <2>1. new \in Reservation
    BY DEF Begin, TakeTurn, Consistent, Structured, Reservation, Turn
  <2>2. res[r] = None /\ res'[r] = new
    BY DEF Begin, TakeTurn, Consistent, Structured
  <2>3. ~res'[r].entered
    BY <2>2
  <2> HIDE DEF new
  <2>4. QED
    BY <2>1, <2>2, <2>3, NoneAssumption
<1>2. QED
  BY <1>1
     DEF TaskTypes, HandlerTypes, CoordinatorTypes, SocketTypes, ChannelTypes, Begin,
         TakeTurn, SameHandler, SameCoordinator, SameSocket

\* A turn enters.
LEMMA EnterDoes ==
    ASSUME TaskTypes, Consistent, NEW r \in Request, NEW fit \in Fits, Enter(r, fit)
    PROVE  /\ res'[r] # None /\ res'[r].entered
           /\ hpc[r] = "numbered" /\ hpc'[r] = "ready"
           /\ SameCoordinator(r)
           /\ SameSocket(r)
           /\ items'[r] = items[r]
           /\ outs'[r] = outs[r]
<1>1. res'[r] # None /\ res'[r].entered
  BY OfferedTurn, CandidateReservation, NoneAssumption DEF Enter, Consistent
<1>2. QED
  BY <1>1
     DEF TaskTypes, HandlerTypes, CoordinatorTypes, SocketTypes, ChannelTypes, Enter,
         Candidate, SameHandler, SameCoordinator, SameSocket

\* An attempt starts with a clean coordinator.
LEMMA StartAttemptDoes ==
    ASSUME TaskTypes, NEW r \in Request, StartAttempt(r)
    PROVE  /\ res'[r] = res[r] /\ hpc[r] = "ready" /\ hpc'[r] = "waiting"
           /\ cpc'[r] = "take" /\ ~coord'[r].forwarded
           /\ ipc'[r] = ipc[r] /\ held'[r] = held[r] /\ final'[r] = final[r]
           /\ stored'[r] = None
           /\ items'[r] = items[r]
           /\ outs'[r] = outs[r]
BY DEF TaskTypes, HandlerTypes, CoordinatorTypes, SocketTypes, ChannelTypes,
       StartAttempt, CoordState, NoCoordinator

\* No credentials: the request is over before any task exists.
LEMMA NoCredentialsDoes ==
    ASSUME TaskTypes, NEW r \in Request, NoCredentials(r)
    PROVE  /\ hpc[r] = "ready"
           /\ res'[r] = res[r] /\ hpc'[r] = "over" /\ outs'[r] = <<>>
           /\ SameCoordinator(r)
           /\ SameSocket(r)
           /\ items'[r] = items[r]
BY DEF TaskTypes, HandlerTypes, CoordinatorTypes, SocketTypes, ChannelTypes,
       NoCredentials, EndAborted, Abort, Fault, SameHandler,
       SameCoordinator, SameSocket

\* The client leaves: only before any output is the request over with it.
LEMMA LeaveDoes ==
    ASSUME TaskTypes, NEW r \in Request, Leave(r)
    PROVE  /\ hpc[r] \in {"ready", "waiting", "streaming"}
           /\ res'[r] = res[r]
           /\ \/ hpc'[r] = hpc[r] /\ outs'[r] = outs[r]
              \/ hpc'[r] = "over" /\ outs'[r] = <<>>
           /\ SameCoordinator(r)
           /\ SameSocket(r)
           /\ items'[r] = items[r]
<1>1. res'[r] = res[r]
  BY DEF Leave, EndAborted, Abort
<1>2. \/ hpc'[r] = hpc[r] /\ outs'[r] = outs[r]
      \/ hpc'[r] = "over" /\ outs'[r] = <<>>
  <2>1. CASE hpc[r] = "streaming"
    BY <2>1 DEF Leave
  <2>2. CASE hpc[r] # "streaming"
    BY <2>2
       DEF Leave, EndAborted, TaskTypes, HandlerTypes, CoordinatorTypes, SocketTypes,
           ChannelTypes
  <2>3. QED
    BY <2>1, <2>2
<1>3. QED
  BY <1>1, <1>2
     DEF TaskTypes, HandlerTypes, CoordinatorTypes, SocketTypes, ChannelTypes, Leave,
         EndAborted, Abort, Fault, SameHandler, SameCoordinator,
         SameSocket

\* The streaming task notices.
LEMMA NoticeLeaveDoes ==
    ASSUME TaskTypes, NEW r \in Request, NoticeLeave(r)
    PROVE  /\ hpc[r] = "streaming"
           /\ res'[r] = res[r] /\ hpc'[r] = "over" /\ outs'[r] = <<>>
           /\ SameCoordinator(r)
           /\ SameSocket(r)
           /\ items'[r] = items[r]
BY DEF TaskTypes, HandlerTypes, CoordinatorTypes, SocketTypes, ChannelTypes,
       NoticeLeave, EndAborted, Abort, SameHandler, SameCoordinator,
       SameSocket

\* Output reaches the client, and so it had been forwarded.
LEMMA FirstOutputDoes ==
    ASSUME TaskTypes, NEW r \in Request, FirstOutput(r)
    PROVE  /\ hpc[r] = "waiting" /\ hpc'[r] = "streaming" /\ res'[r] = res[r]
           /\ outs[r] # <<>> /\ HasOutput(outs[r]) /\ outs'[r] = Tail(outs[r])
           /\ SameCoordinator(r)
           /\ SameSocket(r)
           /\ items'[r] = items[r]
BY DEF TaskTypes, HandlerTypes, CoordinatorTypes, SocketTypes, ChannelTypes,
       FirstOutput, SameHandler, SameCoordinator, SameSocket, HasOutput

\* The terminal item of a coordinator that has ended is taken.
LEMMA CompleteDoes ==
    ASSUME TaskTypes, NEW r \in Request, Complete(r)
    PROVE  /\ hpc[r] \in {"waiting", "streaming"}
           /\ res'[r] = res[r] /\ hpc'[r] = "over" /\ outs'[r] = <<>>
           /\ SameCoordinator(r)
           /\ SameSocket(r)
           /\ items'[r] = items[r]
BY DEF TaskTypes, HandlerTypes, CoordinatorTypes, SocketTypes, ChannelTypes, Complete,
       Record, Abort, SameHandler, SameCoordinator, SameSocket

\* Another attempt, of the same turn.
LEMMA RetryDoes ==
    ASSUME TaskTypes, Consistent, NEW r \in Request, Retry(r)
    PROVE  /\ hpc[r] = "waiting" /\ hpc'[r] = "ready" /\ outs'[r] = <<>>
           /\ res[r] # None => res'[r] # None /\ res'[r].entered = res[r].entered
           /\ outs[r] # <<>> /\ Head(outs[r]) \in Retryable
           /\ SameCoordinator(r)
           /\ SameSocket(r)
           /\ items'[r] = items[r]
<1>1. res[r] # None => res'[r] # None /\ res'[r].entered = res[r].entered
  <2>1. CASE res[r].previous = None
    BY <2>1 DEF Retry
  <2>2. CASE res[r].previous # None /\ res[r] # None
    <3>1. res[r] \in Reservation
      BY <2>2, HeldReservation DEF Consistent
    <3>2. res' = [res EXCEPT ![r].previous = None, ![r].origin = None]
      BY <2>2 DEF Retry, FullContext
    <3>3. res'[r] \in Reservation /\ res'[r].entered = res[r].entered
      BY <3>1, <3>2 DEF Consistent, Structured, Reservation
    <3>4. QED
      BY <3>3, NoneAssumption
  <2>3. QED
    BY <2>1, <2>2
<1>2. QED
  BY <1>1
     DEF TaskTypes, HandlerTypes, CoordinatorTypes, SocketTypes, ChannelTypes, Retry,
         MayRetry, FullContext, SameHandler, SameCoordinator,
         SameSocket

\* A failure ends the request.
LEMMA GiveUpDoes ==
    ASSUME TaskTypes, NEW r \in Request, GiveUp(r)
    PROVE  /\ hpc[r] \in {"waiting", "streaming"}
           /\ res'[r] = res[r] /\ hpc'[r] = "over" /\ outs'[r] = <<>>
           /\ SameCoordinator(r)
           /\ SameSocket(r)
           /\ items'[r] = items[r]
BY DEF TaskTypes, HandlerTypes, CoordinatorTypes, SocketTypes, ChannelTypes, GiveUp,
       EndAborted, Abort, SameHandler, SameCoordinator,
       SameSocket

\* Only a socket that was taken is held.
LEMMA TakeSocketDoes ==
    ASSUME TaskTypes, NEW r \in Request, TakeSocket(r)
    PROVE  /\ SameHandler(r)
           /\ cpc[r] = "take" /\ coord'[r].forwarded = coord[r].forwarded
           /\ \/ cpc'[r] = "validate" /\ held'[r] # None
              \/ cpc'[r] \in {"gate", "take"} /\ held'[r] = held[r]
           /\ stored'[r] \in {stored[r], None}
           /\ ipc'[r] = ipc[r] /\ final'[r] = final[r]
           /\ items'[r] = items[r]
           /\ outs'[r] = outs[r]
BY DEF TaskTypes, HandlerTypes, CoordinatorTypes, SocketTypes, ChannelTypes, TakeSocket,
       Closed, FullContextAttempt, Goto, Hold, SameHandler,
       SameCoordinator, SameSocket, CoordState, NoCoordinator

\* The pooled socket answers, and its task starts.
LEMMA ValidatedDoes ==
    ASSUME TaskTypes, NEW r \in Request, Validated(r)
    PROVE  /\ SameHandler(r)
           /\ cpc[r] = "validate" /\ cpc'[r] = "listen" /\ ipc'[r] = "send"
           /\ coord'[r] = coord[r]
           /\ held'[r] = held[r] /\ stored'[r] = stored[r] /\ final'[r] = final[r]
           /\ items'[r] = items[r]
           /\ outs'[r] = outs[r]
BY DEF TaskTypes, HandlerTypes, CoordinatorTypes, SocketTypes, ChannelTypes, Validated,
       Closed, StartSocketTask, Goto, SameHandler,
       SameCoordinator, SameSocket, CoordState, NoCoordinator

\* The pooled socket is dropped.
LEMMA NotValidatedDoes ==
    ASSUME TaskTypes, NEW r \in Request, NotValidated(r)
    PROVE  /\ SameHandler(r)
           /\ hpc[r] # "over" /\ cpc[r] = "validate" /\ held'[r] = None
           /\ coord'[r].forwarded = coord[r].forwarded
           /\ \/ cpc'[r] = "take" /\ stored'[r] = None /\ outs'[r] = outs[r]
              \/ cpc'[r] = "off" /\ stored'[r] = stored[r] /\ outs'[r] = Append(outs[r], "busy")
           /\ ipc'[r] = ipc[r] /\ final'[r] = final[r]
           /\ items'[r] = items[r]
BY DEF TaskTypes, HandlerTypes, CoordinatorTypes, SocketTypes, ChannelTypes,
       NotValidated, Closed, FullContextAttempt, Goto, Hold, SendOut,
       Trouble, Fault, SameHandler, SameCoordinator, SameSocket, CoordState,
       NoCoordinator

\* Nothing but the next wait.
LEMMA PassGateDoes ==
    ASSUME TaskTypes, NEW r \in Request, PassGate(r)
    PROVE  /\ SameHandler(r)
           /\ cpc[r] = "gate" /\ cpc'[r] = "connect" /\ coord'[r] = coord[r]
           /\ SameSocket(r)
           /\ items'[r] = items[r]
           /\ outs'[r] = outs[r]
BY DEF TaskTypes, HandlerTypes, CoordinatorTypes, SocketTypes, ChannelTypes, PassGate,
       Closed, Goto, SameHandler, SameCoordinator, SameSocket,
       CoordState, NoCoordinator

\* A new socket is held, and its task starts.
LEMMA ConnectedDoes ==
    ASSUME TaskTypes, NetTypes, NEW r \in Request, Connected(r)
    PROVE  /\ SameHandler(r)
           /\ cpc[r] = "connect" /\ cpc'[r] = "listen" /\ ipc'[r] = "send"
           /\ coord'[r] = coord[r]
           /\ held'[r] # None /\ stored'[r] = stored[r] /\ final'[r] = final[r]
           /\ items'[r] = items[r]
           /\ outs'[r] = outs[r]
<1>1. held'[r] # None /\ stored'[r] = stored[r] /\ final'[r] = final[r]
  <2>1. Len(sockets) + 1 \in Socket
    BY CodexTurnsAssumption, FS_CardinalityType DEF NetTypes, Connected
  <2>2. QED
    BY <2>1, ContinuationAssumption
       DEF TaskTypes, HandlerTypes, CoordinatorTypes, SocketTypes, ChannelTypes,
           Connected, Hold
<1>2. QED
  BY <1>1
     DEF TaskTypes, HandlerTypes, CoordinatorTypes, SocketTypes, ChannelTypes,
         Connected, Closed, StartSocketTask, Goto, Hold, SameHandler,
         SameCoordinator, SameSocket, CoordState

\* A refresh, or the end of the coordinator.
LEMMA ConnectFailsDoes ==
    ASSUME TaskTypes, NEW r \in Request, NEW kind \in Failures, ConnectFails(r, kind)
    PROVE  /\ SameHandler(r)
           /\ hpc[r] # "over" /\ cpc[r] = "connect"
           /\ coord'[r].forwarded = coord[r].forwarded
           /\ \/ cpc'[r] = "refresh" /\ outs'[r] = outs[r]
              \/ cpc'[r] = "off" /\ outs'[r] = Append(outs[r], kind)
           /\ SameSocket(r)
           /\ items'[r] = items[r]
BY DEF TaskTypes, HandlerTypes, CoordinatorTypes, SocketTypes, ChannelTypes,
       ConnectFails, Closed, StartRefresh, MayRefresh, Goto, SendOut,
       Trouble, Fault, SameHandler, SameCoordinator, SameSocket, CoordState,
       NoCoordinator

\* Full context after a refresh.
LEMMA RefreshedDoes ==
    ASSUME TaskTypes, NEW r \in Request, Refreshed(r)
    PROVE  /\ SameHandler(r)
           /\ cpc[r] = "refresh" /\ cpc'[r] = "take"
           /\ coord'[r].forwarded = coord[r].forwarded
           /\ held'[r] = held[r] /\ stored'[r] = None
           /\ ipc'[r] = ipc[r] /\ final'[r] = final[r]
           /\ items'[r] = items[r]
           /\ outs'[r] = outs[r]
BY DEF TaskTypes, HandlerTypes, CoordinatorTypes, SocketTypes, ChannelTypes, Refreshed,
       Closed, FullContextAttempt, Goto, SameHandler,
       SameCoordinator, SameSocket, CoordState, NoCoordinator

\* The end of the coordinator.
LEMMA NotRefreshedDoes ==
    ASSUME TaskTypes, NEW r \in Request, NotRefreshed(r)
    PROVE  /\ SameHandler(r)
           /\ hpc[r] # "over" /\ cpc[r] = "refresh" /\ cpc'[r] = "off"
           /\ coord'[r] = coord[r]
           /\ outs'[r] = Append(outs[r], "unauthorized")
           /\ SameSocket(r)
           /\ items'[r] = items[r]
BY DEF TaskTypes, HandlerTypes, CoordinatorTypes, SocketTypes, ChannelTypes,
       NotRefreshed, Closed, Goto, SendOut, SameHandler, SameCoordinator,
       SameSocket, CoordState, NoCoordinator

\* An item is taken: a refresh, full context, or passed on.
LEMMA HandleItemDoes ==
    ASSUME TaskTypes, NEW r \in Request, HandleItem(r)
    PROVE  /\ SameHandler(r)
           /\ hpc[r] # "over" /\ cpc[r] = "listen" /\ items[r] # <<>>
           /\ items'[r] = Tail(items[r])
           /\ \/ /\ cpc'[r] \in {"refresh", "take"} /\ Head(items[r]) \in Failures
                 /\ ~coord[r].forwarded
                 /\ ~coord'[r].forwarded /\ outs'[r] = outs[r]
              \/ /\ Head(items[r]) = "output" /\ cpc'[r] = "listen" /\ coord'[r].forwarded
                 /\ outs'[r] = Append(outs[r], "output")
              \/ /\ Head(items[r]) # "output" /\ cpc'[r] = "off"
                 /\ coord'[r].forwarded = coord[r].forwarded
                 /\ outs'[r] = Append(outs[r], Head(items[r]))
           /\ held'[r] = held[r] /\ stored'[r] \in {stored[r], None}
           /\ ipc'[r] = ipc[r] /\ final'[r] = final[r]
<1>1. \/ /\ cpc'[r] \in {"refresh", "take"} /\ Head(items[r]) \in Failures
         /\ ~coord[r].forwarded
         /\ ~coord'[r].forwarded /\ outs'[r] = outs[r]
      \/ /\ Head(items[r]) = "output" /\ cpc'[r] = "listen" /\ coord'[r].forwarded
         /\ outs'[r] = Append(outs[r], "output")
      \/ /\ Head(items[r]) # "output" /\ cpc'[r] = "off"
         /\ coord'[r].forwarded = coord[r].forwarded
         /\ outs'[r] = Append(outs[r], Head(items[r]))
  <2> DEFINE x == Head(items[r])
  <2>1. CASE MayRefresh(r, x) /\ StartRefresh(r) /\ UNCHANGED <<outs, stored>>
    BY <2>1
       DEF MayRefresh, StartRefresh, Goto, TaskTypes, HandlerTypes, CoordinatorTypes,
           SocketTypes, ChannelTypes, CoordState, Failures
  <2>2. CASE /\ x \in ContinuationRetry /\ coord[r].previous # None /\ ~coord[r].forwarded
             /\ FullContextAttempt(r) /\ UNCHANGED <<outs, pool>>
    BY <2>2
       DEF FullContextAttempt, Goto, TaskTypes, HandlerTypes, CoordinatorTypes,
           SocketTypes, ChannelTypes, CoordState, ContinuationRetry, Failures
  <2>3. CASE /\ SendOut(r, x)
             /\ coord' = [coord EXCEPT ![r].forwarded = @ \/ x = "output"]
             /\ Goto(r, IF x = "output" THEN "listen" ELSE "off")
    <3> HIDE DEF x
    <3>1. outs'[r] = Append(outs[r], x)
      BY <2>3
         DEF SendOut, TaskTypes, HandlerTypes, CoordinatorTypes, SocketTypes,
             ChannelTypes
    <3>2. coord'[r].forwarded = (coord[r].forwarded \/ x = "output")
      BY <2>3
         DEF TaskTypes, HandlerTypes, CoordinatorTypes, SocketTypes, ChannelTypes,
             CoordState
    <3>3. cpc'[r] = IF x = "output" THEN "listen" ELSE "off"
      BY <2>3
         DEF Goto, TaskTypes, HandlerTypes, CoordinatorTypes, SocketTypes, ChannelTypes
    <3>4. coord[r].forwarded \in BOOLEAN
      BY DEF TaskTypes, HandlerTypes, CoordinatorTypes, SocketTypes, ChannelTypes,
             CoordState
    <3>5. QED
      BY <3>1, <3>2, <3>3, <3>4 DEF x
  <2>4. QED
    BY <2>1, <2>2, <2>3 DEF HandleItem
<1>2. QED
  BY <1>1
     DEF TaskTypes, HandlerTypes, CoordinatorTypes, SocketTypes, ChannelTypes,
         HandleItem, Closed, StartRefresh, MayRefresh,
         FullContextAttempt, Goto, SendOut, SameHandler, SameCoordinator,
         SameSocket, CoordState

\* A closed coordinator first stops listening, then ends.
LEMMA CoordinatorClosedDoes ==
    ASSUME TaskTypes, NEW r \in Request, CoordinatorClosed(r)
    PROVE  /\ res'[r] = res[r] /\ hpc[r] = "over" /\ hpc'[r] = "over"
           /\ coord'[r] = coord[r]
           /\ \/ cpc[r] = "listen" /\ cpc'[r] = "aborting" /\ items'[r] = <<>> /\ held'[r] = held[r]
              \/ cpc[r] = "validate" /\ cpc'[r] = "off" /\ items'[r] = items[r] /\ held'[r] = None
              \/ /\ cpc[r] \in (Preparing \ {"validate"}) \union {"aborting"}
                 /\ cpc'[r] = "off"
                 /\ items'[r] = items[r] /\ held'[r] = held[r]
           /\ ipc'[r] = ipc[r] /\ stored'[r] = stored[r] /\ final'[r] = final[r]
           /\ outs'[r] = outs[r]
BY DEF TaskTypes, HandlerTypes, CoordinatorTypes, SocketTypes, ChannelTypes,
       CoordinatorClosed, Closed, Goto, Preparing, CoordState,
       NoCoordinator

\* The request is sent.
LEMMA SendRequestDoes ==
    ASSUME TaskTypes, NEW r \in Request, SendRequest(r)
    PROVE  /\ SameHandler(r)
           /\ SameCoordinator(r)
           /\ ipc[r] = "send" /\ ipc'[r] = "read"
           /\ held'[r] = held[r] /\ stored'[r] = stored[r] /\ final'[r] = final[r]
           /\ items'[r] = items[r]
           /\ outs'[r] = outs[r]
BY DEF TaskTypes, HandlerTypes, CoordinatorTypes, SocketTypes, ChannelTypes,
       SendRequest, SameHandler, SameCoordinator, SameSocket

\* It is not, and the socket is let go.
LEMMA SendFailsDoes ==
    ASSUME TaskTypes, NEW r \in Request, SendFails(r)
    PROVE  /\ SameHandler(r)
           /\ SameCoordinator(r)
           /\ ipc[r] \in {"send"} /\ ipc'[r] = "off" /\ held'[r] = None
           /\ stored'[r] = stored[r] /\ final'[r] = final[r]
           /\ Listening(r) => items'[r] = Append(items[r], "busy")
           /\ ~Listening(r) => items'[r] = items[r]
           /\ outs'[r] = outs[r]
BY DEF TaskTypes, HandlerTypes, CoordinatorTypes, SocketTypes, ChannelTypes, SendFails,
       SocketFails, Hold, Trouble, Fault, SameHandler,
       SameCoordinator, SameSocket

\* Output of the answer.
LEMMA ReadOutputDoes ==
    ASSUME TaskTypes, NEW r \in Request, ReadOutput(r)
    PROVE  /\ SameHandler(r)
           /\ SameCoordinator(r)
           /\ cpc[r] = "listen" /\ ipc[r] = "read" /\ ipc'[r] = "more"
           /\ held'[r] = held[r] /\ stored'[r] = stored[r] /\ final'[r] = final[r]
           /\ items'[r] = Append(items[r], "output")
           /\ outs'[r] = outs[r]
BY DEF TaskTypes, HandlerTypes, CoordinatorTypes, SocketTypes, ChannelTypes, ReadOutput,
       Listening, SameHandler, SameCoordinator, SameSocket

\* The end of the answer, which is yet to be delivered.
LEMMA ReadCompletedDoes ==
    ASSUME TaskTypes, NEW r \in Request, NEW success \in Successes,
           ReadCompleted(r, success)
    PROVE  /\ SameHandler(r)
           /\ SameCoordinator(r)
           /\ ipc[r] \in {"read", "more"} /\ ipc'[r] = "settle" /\ final'[r] \in Successes
           /\ held'[r] = held[r] /\ stored'[r] = stored[r]
           /\ items'[r] = items[r]
           /\ outs'[r] = outs[r]
BY DEF TaskTypes, HandlerTypes, CoordinatorTypes, SocketTypes, ChannelTypes,
       ReadCompleted, Fault, SameHandler, SameCoordinator, SameSocket,
       Successes

\* The answer fails, and the socket is let go.
LEMMA ReadFailsDoes ==
    ASSUME TaskTypes, NEW r \in Request, NEW kind \in Failures, ReadFails(r, kind)
    PROVE  /\ SameHandler(r)
           /\ SameCoordinator(r)
           /\ ipc[r] \in {"read", "more"} /\ ipc'[r] = "off" /\ held'[r] = None
           /\ stored'[r] = stored[r] /\ final'[r] = final[r]
           /\ Listening(r) => items'[r] = Append(items[r], kind)
           /\ ~Listening(r) => items'[r] = items[r]
           /\ outs'[r] = outs[r]
BY DEF TaskTypes, HandlerTypes, CoordinatorTypes, SocketTypes, ChannelTypes, ReadFails,
       SocketFails, Hold, Trouble, Fault, SameHandler,
       SameCoordinator, SameSocket

\* So it is when nobody listens.
LEMMA ReaderClosedDoes ==
    ASSUME TaskTypes, NEW r \in Request, ReaderClosed(r)
    PROVE  /\ SameHandler(r)
           /\ SameCoordinator(r)
           /\ ipc[r] \in {"read", "more"} /\ ipc'[r] = "off" /\ held'[r] = None
           /\ stored'[r] = stored[r] /\ final'[r] = final[r]
           /\ Listening(r) => items'[r] = Append(items[r], "fatal")
           /\ ~Listening(r) => items'[r] = items[r]
           /\ outs'[r] = outs[r]
BY DEF TaskTypes, HandlerTypes, CoordinatorTypes, SocketTypes, ChannelTypes,
       ReaderClosed, SocketFails, Hold, SameHandler, SameCoordinator,
       SameSocket

\* The socket is let go before the answer is delivered.
LEMMA SettleDoes ==
    ASSUME TaskTypes, NEW r \in Request, Settle(r)
    PROVE  /\ SameHandler(r)
           /\ SameCoordinator(r)
           /\ ipc[r] = "settle" /\ ipc'[r] = "deliver" /\ final'[r] = final[r]
           /\ held'[r] = None
           /\ items'[r] = items[r]
           /\ outs'[r] = outs[r]
BY DEF TaskTypes, HandlerTypes, CoordinatorTypes, SocketTypes, ChannelTypes, Settle,
       Hold, SameHandler, SameCoordinator, SameSocket

\* The answer is delivered to whoever listens.
LEMMA DeliverDoes ==
    ASSUME TaskTypes, NEW r \in Request, Deliver(r)
    PROVE  /\ SameHandler(r)
           /\ SameCoordinator(r)
           /\ ipc[r] = "deliver" /\ ipc'[r] = "off" /\ final'[r] = None
           /\ held'[r] = held[r] /\ stored'[r] = stored[r]
           /\ Listening(r) => items'[r] = Append(items[r], final[r])
           /\ ~Listening(r) => items'[r] = items[r]
           /\ outs'[r] = outs[r]
BY DEF TaskTypes, HandlerTypes, CoordinatorTypes, SocketTypes, ChannelTypes, Deliver,
       SameHandler, SameCoordinator, SameSocket

-----------------------------------------------------------------------------
(* Where the tasks stand after a step.                                      *)

\* The failures of a run are failures.
LEMMA KindsAreFailures == Kinds \subseteq Failures /\ {"completed", "empty"} = Successes
BY CodexTurnsAssumption DEF Successes

\* A channel with nothing in it.
LEMMA QueueEmpty == Queue(<<>>) /\ ~HasOutput(<<>>) /\ ~Ended(<<>>) /\ \A t : ~EndsIn(<<>>, t)
BY DEF Queue, HasOutput, Ended, EndsIn

\* A step of a request leaves its tasks where they can stand.
LEMMA ControlStep ==
    ASSUME TaskTypes, NetTypes, Consistent, NEW r \in Request, ControlOf(r), StepOf(r)
    PROVE  ControlOf(r)'
<1> USE DEF Preparing, Holding, ControlOf, HandlerControl, CoordinatorControl,
            SocketControl,
           SameHandler, SameCoordinator, SameSocket, Listening
<1>1. ASSUME NEW owner \in Owner, Begin(r, owner) PROVE ControlOf(r)'
  BY <1>1, BeginDoes, QueueEmpty
<1>2. ASSUME NEW fit \in Fits, Enter(r, fit) PROVE ControlOf(r)'
  BY <1>2, EnterDoes, QueueEmpty
<1>3. ASSUME StartAttempt(r) PROVE ControlOf(r)'
  BY <1>3, StartAttemptDoes, QueueEmpty
<1>4. ASSUME NoCredentials(r) PROVE ControlOf(r)'
  BY <1>4, NoCredentialsDoes, QueueEmpty
<1>5. ASSUME Leave(r) PROVE ControlOf(r)'
  BY <1>5, LeaveDoes, QueueEmpty
<1>6. ASSUME NoticeLeave(r) PROVE ControlOf(r)'
  BY <1>6, NoticeLeaveDoes, QueueEmpty
<1>7. ASSUME FirstOutput(r) PROVE ControlOf(r)'
  <2>1. /\ Queue(outs'[r]) /\ ~HasOutput(outs'[r])
        /\ Ended(outs'[r]) => Ended(outs[r])
    <3>1. Queue(outs[r])
      BY DEF ControlOf, CoordinatorControl
    <3>2. QED
      BY <1>7, FirstOutputDoes, <3>1, QueueShrinks DEF Ended
  <2>2. QED
    BY <1>7, FirstOutputDoes, <2>1
<1>8. ASSUME Complete(r) PROVE ControlOf(r)'
  BY <1>8, CompleteDoes, QueueEmpty
<1>9. ASSUME Retry(r) PROVE ControlOf(r)'
  <2>1. Ended(outs[r])
    <3>1. Queue(outs[r]) /\ ~HasOutput(outs[r])
      BY <1>9, RetryDoes DEF ControlOf, CoordinatorControl, HasOutput, Retryable
    <3>2. QED
      BY <1>9, RetryDoes, <3>1, QueueShrinks DEF Ended
  <2>2. QED
    BY <1>9, RetryDoes, <2>1, QueueEmpty
<1>10. ASSUME GiveUp(r) PROVE ControlOf(r)'
  BY <1>10, GiveUpDoes, QueueEmpty
<1>11. ASSUME TakeSocket(r) PROVE ControlOf(r)'
  BY <1>11, TakeSocketDoes, QueueEmpty
<1>12. ASSUME Validated(r) PROVE ControlOf(r)'
  BY <1>12, ValidatedDoes, QueueEmpty
<1>13. ASSUME NotValidated(r) PROVE ControlOf(r)'
  <2>1. outs[r] = <<>> /\ items[r] = <<>> /\ ipc[r] = "off"
    BY <1>13, NotValidatedDoes
  <2>2. /\ Queue(Append(outs[r], "busy")) /\ ~HasOutput(Append(outs[r], "busy"))
    <3>1. "busy" \in Items /\ "busy" # "output"
      BY DEF Items, Failures
    <3>2. QED
      BY <2>1, <3>1, QueueEmpty, QueueGrows
  <2>3. QED
    BY <1>13, NotValidatedDoes, <2>1, <2>2, QueueEmpty
<1>14. ASSUME PassGate(r) PROVE ControlOf(r)'
  BY <1>14, PassGateDoes, QueueEmpty
<1>15. ASSUME Connected(r) PROVE ControlOf(r)'
  BY <1>15, ConnectedDoes, QueueEmpty
<1>16. ASSUME NEW kind \in Failures, ConnectFails(r, kind) PROVE ControlOf(r)'
  <2>1. outs[r] = <<>> /\ items[r] = <<>> /\ ipc[r] = "off"
    BY <1>16, ConnectFailsDoes
  <2>2. /\ Queue(Append(outs[r], kind)) /\ ~HasOutput(Append(outs[r], kind))
    <3>1. kind \in Items /\ kind # "output"
      BY DEF Items, Failures
    <3>2. QED
      BY <2>1, <3>1, QueueEmpty, QueueGrows
  <2>3. QED
    BY <1>16, ConnectFailsDoes, <2>1, <2>2, QueueEmpty
<1>17. ASSUME Refreshed(r) PROVE ControlOf(r)'
  BY <1>17, RefreshedDoes, QueueEmpty
<1>18. ASSUME NotRefreshed(r) PROVE ControlOf(r)'
  <2>1. outs[r] = <<>> /\ items[r] = <<>> /\ ipc[r] = "off"
    BY <1>18, NotRefreshedDoes
  <2>2. /\ Queue(Append(outs[r], "unauthorized"))
        /\ ~HasOutput(Append(outs[r], "unauthorized"))
    <3>1. "unauthorized" \in Items /\ "unauthorized" # "output"
      BY DEF Items, Failures
    <3>2. QED
      BY <2>1, <3>1, QueueEmpty, QueueGrows
  <2>3. QED
    BY <1>18, NotRefreshedDoes, <2>1, <2>2, QueueEmpty
<1>19. ASSUME HandleItem(r) PROVE ControlOf(r)'
  <2> DEFINE x == Head(items[r])
  <2>1. /\ Queue(items[r]) /\ Queue(outs[r]) /\ ~Ended(outs[r])
        /\ HasOutput(outs[r]) => coord[r].forwarded
    BY <1>19, HandleItemDoes
  <2>2. /\ x \in Items /\ Queue(Tail(items[r])) /\ ~HasOutput(Tail(items[r]))
        /\ HasOutput(items[r]) => \A t \in Terminal : EndsIn(Tail(items[r]), t) <=> EndsIn(items[r], t)
        /\ ~HasOutput(items[r]) => x \in Terminal /\ EndsIn(items[r], x) /\ Tail(items[r]) = <<>>
    BY <1>19, HandleItemDoes, <2>1, QueueShrinks
  <2>3. HasOutput(items[r]) <=> x = "output"
    BY <1>19, HandleItemDoes DEF HasOutput
  <2> HIDE DEF x
  <2>4. CASE x # "output"
    <3>1. items'[r] = <<>> /\ Ended(items[r]) /\ ipc[r] = "off"
      BY <1>19, HandleItemDoes, <2>2, <2>3, <2>4 DEF Ended
    <3>2. Queue(Append(outs[r], x)) /\ (HasOutput(Append(outs[r], x)) <=> HasOutput(outs[r]))
      BY <2>1, <2>2, <2>4, QueueGrows
    <3>3. x \in Failures => stored[r] = None
      BY <2>2, <2>3, <2>4
    <3>4. CASE /\ cpc'[r] = "off" /\ coord'[r].forwarded = coord[r].forwarded
               /\ outs'[r] = Append(outs[r], x)
      BY <1>19, HandleItemDoes, <2>1, <3>1, <3>2, <3>4, QueueEmpty
    <3>5. CASE /\ cpc'[r] \in {"refresh", "take"} /\ x \in Failures /\ ~coord[r].forwarded
               /\ ~coord'[r].forwarded /\ outs'[r] = outs[r]
      <4>1. outs[r] = <<>>
        BY <2>1, <3>5 DEF Queue, Ended, EndsIn, HasOutput
      <4>2. QED
        BY <1>19, HandleItemDoes, <2>1, <3>1, <3>3, <3>5, <4>1, QueueEmpty
    <3>6. QED
      BY <1>19, HandleItemDoes, <2>4, <3>4, <3>5 DEF x
  <2>5. CASE x = "output"
    <3>1. /\ cpc'[r] = "listen" /\ coord'[r].forwarded
          /\ outs'[r] = Append(outs[r], "output")
          /\ stored'[r] \in {stored[r], None}
      BY <1>19, HandleItemDoes, <2>5 DEF x, Failures
    <3>2. ~coord[r].forwarded
      BY <2>3, <2>5
    <3>3. /\ Queue(outs'[r])
          /\ \A t \in Terminal : ~EndsIn(outs'[r], t)
      <4>1. "output" \in Items /\ "output" \notin Terminal
        BY DEF Items, Terminal, Failures, Successes
      <4>2. QED
        BY <2>1, <3>1, <3>2, <4>1, QueueGrows
    <3>4. ~Ended(outs'[r]) /\ hpc[r] = "waiting"
      <4>1. hpc[r] \notin {"idle", "numbered", "ready", "over", "streaming"}
        BY <1>19, HandleItemDoes, <3>2
      <4>2. QED
        BY <3>3, <4>1
           DEF Ended, TaskTypes, HandlerTypes, CoordinatorTypes, SocketTypes,
               ChannelTypes
    <3>5. /\ Ended(items'[r]) => Ended(items[r])
          /\ \A t \in Failures : EndsIn(items'[r], t) => EndsIn(items[r], t)
      BY <1>19, HandleItemDoes, <2>2, <2>3, <2>5 DEF Ended, Terminal
    <3>6. items[r] # <<>> /\ ipc[r] \notin {"send", "read"}
      BY <1>19, HandleItemDoes
    <3>7. QED
      BY <1>19, HandleItemDoes, <2>2, <3>1, <3>3, <3>4, <3>5, <3>6
  <2>6. QED
    BY <2>4, <2>5
<1>20. ASSUME CoordinatorClosed(r) PROVE ControlOf(r)'
  BY <1>20, CoordinatorClosedDoes, QueueEmpty
<1>21. ASSUME SendRequest(r) PROVE ControlOf(r)'
  BY <1>21, SendRequestDoes, QueueEmpty
<1>22. ASSUME SendFails(r) PROVE ControlOf(r)'
  <2>1. "busy" \in Items /\ "busy" # "output" /\ stored[r] = None
    BY <1>22, SendFailsDoes DEF Items, Failures, Successes
  <2>2. Queue(items[r]) /\ ~Ended(items[r])
    BY <1>22, SendFailsDoes
  <2>3. /\ Queue(Append(items[r], "busy"))
        /\ HasOutput(Append(items[r], "busy")) <=> HasOutput(items[r])
        /\ \A t \in Terminal : EndsIn(Append(items[r], "busy"), t) <=> t = "busy"
    BY <2>1, <2>2, QueueGrows
  <2>4. CASE Listening(r)
    <3>1. \A t \in Failures : EndsIn(items'[r], t) => stored'[r] = None
      BY <1>22, SendFailsDoes, <2>1, <2>3, <2>4 DEF Terminal
    <3>2. HandlerControl(r)'
      BY <1>22, SendFailsDoes
    <3>3. CoordinatorControl(r)'
      BY <1>22, SendFailsDoes, <2>4
    <3>4. HasOutput(items'[r]) => ~coord'[r].forwarded
      BY <1>22, SendFailsDoes, <2>3, <2>4
    <3>5. Queue(items'[r])
      BY <1>22, SendFailsDoes, <2>3, <2>4
    <3>6. SocketControl(r)'
      BY <1>22, SendFailsDoes, <3>1, <3>4, <3>5
    <3>7. QED
      BY <3>2, <3>6, <3>3
  <2>5. CASE ~Listening(r)
    <3>1. \A t \in Failures : ~EndsIn(items[r], t)
      BY <2>2 DEF Ended, Terminal
    <3>2. QED
      BY <1>22, SendFailsDoes, <2>1, <2>2, <2>5, <3>1, QueueEmpty
  <2>6. QED
    BY <2>4, <2>5
<1>23. ASSUME ReadOutput(r) PROVE ControlOf(r)'
  <2>1. items[r] = <<>> /\ ~coord[r].forwarded
    BY <1>23, ReadOutputDoes
  <2>2. /\ Queue(Append(items[r], "output"))
        /\ \A t \in Terminal : ~EndsIn(Append(items[r], "output"), t)
    <3>1. "output" \in Items /\ "output" \notin Terminal
      BY DEF Items, Terminal, Failures, Successes
    <3>2. QED
      BY <2>1, <3>1, QueueEmpty, QueueGrows
  <2>3. ~Ended(items'[r]) /\ \A t \in Failures : ~EndsIn(items'[r], t)
    BY <1>23, ReadOutputDoes, <2>2 DEF Ended, Terminal
  <2>4. QED
    BY <1>23, ReadOutputDoes, <2>1, <2>2, <2>3, QueueEmpty
<1>24. ASSUME NEW success \in Successes, ReadCompleted(r, success) PROVE ControlOf(r)'
  BY <1>24, ReadCompletedDoes, QueueEmpty
<1>25. ASSUME NEW kind \in Failures, ReadFails(r, kind) PROVE ControlOf(r)'
  <2>1. kind \in Items /\ kind # "output" /\ stored[r] = None
    BY <1>25, ReadFailsDoes DEF Items, Failures, Successes
  <2>2. Queue(items[r]) /\ ~Ended(items[r])
    BY <1>25, ReadFailsDoes
  <2>3. /\ Queue(Append(items[r], kind))
        /\ HasOutput(Append(items[r], kind)) <=> HasOutput(items[r])
        /\ \A t \in Terminal : EndsIn(Append(items[r], kind), t) <=> t = kind
    BY <2>1, <2>2, QueueGrows
  <2>4. CASE Listening(r)
    <3>1. \A t \in Failures : EndsIn(items'[r], t) => stored'[r] = None
      BY <1>25, ReadFailsDoes, <2>1, <2>3, <2>4 DEF Terminal
    <3>2. HandlerControl(r)'
      BY <1>25, ReadFailsDoes
    <3>3. CoordinatorControl(r)'
      BY <1>25, ReadFailsDoes, <2>4
    <3>4. HasOutput(items'[r]) => ~coord'[r].forwarded
      BY <1>25, ReadFailsDoes, <2>3, <2>4
    <3>5. Queue(items'[r])
      BY <1>25, ReadFailsDoes, <2>3, <2>4
    <3>6. SocketControl(r)'
      BY <1>25, ReadFailsDoes, <3>1, <3>4, <3>5
    <3>7. QED
      BY <3>2, <3>6, <3>3
  <2>5. CASE ~Listening(r)
    <3>1. \A t \in Failures : ~EndsIn(items[r], t)
      BY <2>2 DEF Ended, Terminal
    <3>2. QED
      BY <1>25, ReadFailsDoes, <2>1, <2>2, <2>5, <3>1, QueueEmpty
  <2>6. QED
    BY <2>4, <2>5
<1>26. ASSUME ReaderClosed(r) PROVE ControlOf(r)'
  <2>1. "fatal" \in Items /\ "fatal" # "output" /\ stored[r] = None
    BY <1>26, ReaderClosedDoes DEF Items, Failures, Successes
  <2>2. Queue(items[r]) /\ ~Ended(items[r])
    BY <1>26, ReaderClosedDoes
  <2>3. /\ Queue(Append(items[r], "fatal"))
        /\ HasOutput(Append(items[r], "fatal")) <=> HasOutput(items[r])
        /\ \A t \in Terminal : EndsIn(Append(items[r], "fatal"), t) <=> t = "fatal"
    BY <2>1, <2>2, QueueGrows
  <2>4. CASE Listening(r)
    <3>1. \A t \in Failures : EndsIn(items'[r], t) => stored'[r] = None
      BY <1>26, ReaderClosedDoes, <2>1, <2>3, <2>4 DEF Terminal
    <3>2. HandlerControl(r)'
      BY <1>26, ReaderClosedDoes
    <3>3. CoordinatorControl(r)'
      BY <1>26, ReaderClosedDoes, <2>4
    <3>4. HasOutput(items'[r]) => ~coord'[r].forwarded
      BY <1>26, ReaderClosedDoes, <2>3, <2>4
    <3>5. Queue(items'[r])
      BY <1>26, ReaderClosedDoes, <2>3, <2>4
    <3>6. SocketControl(r)'
      BY <1>26, ReaderClosedDoes, <3>1, <3>4, <3>5
    <3>7. QED
      BY <3>2, <3>6, <3>3
  <2>5. CASE ~Listening(r)
    <3>1. \A t \in Failures : ~EndsIn(items[r], t)
      BY <2>2 DEF Ended, Terminal
    <3>2. QED
      BY <1>26, ReaderClosedDoes, <2>1, <2>2, <2>5, <3>1, QueueEmpty
  <2>6. QED
    BY <2>4, <2>5
<1>27. ASSUME Settle(r) PROVE ControlOf(r)'
  <2>1. ~Ended(items[r]) /\ \A t \in Failures : ~EndsIn(items[r], t)
    BY <1>27, SettleDoes DEF Ended, Terminal
  <2>2. QED
    BY <1>27, SettleDoes, <2>1
<1>28. ASSUME Deliver(r) PROVE ControlOf(r)'
  <2>1. final[r] \in Items /\ final[r] # "output" /\ final[r] \notin Failures
    BY <1>28, DeliverDoes DEF Items, Failures, Successes
  <2>2. Queue(items[r]) /\ ~Ended(items[r])
    BY <1>28, DeliverDoes
  <2>3. /\ Queue(Append(items[r], final[r]))
        /\ HasOutput(Append(items[r], final[r])) <=> HasOutput(items[r])
        /\ \A t \in Terminal : EndsIn(Append(items[r], final[r]), t) <=> t = final[r]
    BY <2>1, <2>2, QueueGrows
  <2>4. CASE Listening(r)
    <3>1. \A t \in Failures : EndsIn(items'[r], t) => stored'[r] = None
      BY <1>28, DeliverDoes, <2>1, <2>3, <2>4 DEF Terminal
    <3>2. HandlerControl(r)'
      BY <1>28, DeliverDoes
    <3>3. CoordinatorControl(r)'
      BY <1>28, DeliverDoes, <2>4
    <3>4. HasOutput(items'[r]) => ~coord'[r].forwarded
      BY <1>28, DeliverDoes, <2>3, <2>4
    <3>5. Queue(items'[r])
      BY <1>28, DeliverDoes, <2>3, <2>4
    <3>6. SocketControl(r)'
      BY <1>28, DeliverDoes, <3>1, <3>4, <3>5
    <3>7. QED
      BY <3>2, <3>6, <3>3
  <2>5. CASE ~Listening(r)
    <3>1. \A t \in Failures : ~EndsIn(items[r], t)
      BY <2>2 DEF Ended, Terminal
    <3>2. QED
      BY <1>28, DeliverDoes, <2>1, <2>2, <2>5, <3>1, QueueEmpty
  <2>6. QED
    BY <2>4, <2>5
<1>29. QED
  BY <1>1, <1>2, <1>3, <1>4, <1>5, <1>6, <1>7, <1>8, <1>9, <1>10, <1>11, <1>12,
     <1>13, <1>14, <1>15, <1>16, <1>17, <1>18, <1>19, <1>20, <1>21, <1>22, <1>23,
     <1>24, <1>25, <1>26, <1>27, <1>28, KindsAreFailures
     DEF StepOf, Arrival, Handler, Coordinator, SocketTask, Misfortune

-----------------------------------------------------------------------------
(* The types after a step.                                                  *)

\* What is sent to a channel and taken from it.
LEMMA ChannelTyped ==
    ASSUME NEW f \in [Request -> Seq(Items)], NEW r \in Request, NEW x \in Items
    PROVE  /\ [f EXCEPT ![r] = Append(@, x)] \in [Request -> Seq(Items)]
           /\ [f EXCEPT ![r] = <<>>] \in [Request -> Seq(Items)]
           /\ f[r] # <<>> => /\ [f EXCEPT ![r] = Tail(@)] \in [Request -> Seq(Items)]
                             /\ Head(f[r]) \in Items
OBVIOUS

\* What the coordinator sends.
LEMMA SendOutTyped ==
    ASSUME TaskTypes, NEW r \in Request, NEW x \in Items, SendOut(r, x)
    PROVE  outs' \in [Request -> Seq(Items)]
BY ChannelTyped DEF TaskTypes, ChannelTypes, SendOut

\* Every item is an item.
LEMMA ItemsTyped == Failures \subseteq Items /\ Successes \subseteq Items /\ "output" \in Items
                    /\ "busy" \in Failures /\ "fatal" \in Failures
                    /\ "unauthorized" \in Failures
BY DEF Items, Failures

\* A coordinator's types survive a new attempt.
LEMMA FullContextTyped ==
    ASSUME TaskTypes, NEW r \in Request, FullContextAttempt(r)
    PROVE  /\ CoordinatorTypes'
           /\ stored' \in [Request -> Socket \union {None}]
<1>1. coord \in [Request -> CoordState] /\ coord[r] \in CoordState
  BY DEF TaskTypes, CoordinatorTypes
<1> DEFINE new == [coord[r] EXCEPT !.previous = None, !.origin = None,
                                   !.full = @ \/ coord[r].previous # None]
<1>2. new \in CoordState
  <2>1. (coord[r].full \/ coord[r].previous # None) \in BOOLEAN
    BY <1>1 DEF CoordState
  <2>2. QED
    BY <1>1, <2>1 DEF CoordState
<1>3. coord' = [coord EXCEPT ![r] = new]
  BY <1>1 DEF FullContextAttempt
<1> HIDE DEF new
<1>4. coord' \in [Request -> CoordState]
  BY <1>1, <1>2, <1>3
<1>5. QED
  BY <1>4
     DEF TaskTypes, CoordinatorTypes, SocketTypes, FullContextAttempt, Goto, Preparing

\* They survive a refresh.
LEMMA RefreshTyped ==
    ASSUME TaskTypes, NEW r \in Request, StartRefresh(r)
    PROVE  CoordinatorTypes'
<1>1. coord \in [Request -> CoordState] /\ coord[r] \in CoordState
  BY DEF TaskTypes, CoordinatorTypes
<1>2. [coord[r] EXCEPT !.authTried = TRUE] \in CoordState
  BY <1>1 DEF CoordState
<1>3. QED
  BY <1>1, <1>2 DEF TaskTypes, CoordinatorTypes, StartRefresh, Goto, Preparing

\* What the pool gives is a socket.
LEMMA PooledSocket ==
    ASSUME NetTypes, NEW r \in Request
    PROVE  Pooled(r) # None => Pooled(r) \in Socket /\ Opened(Pooled(r))
<1>1. \A o \in DOMAIN pool : pool[o] \in Socket /\ Opened(pool[o])
  BY CodexTurnsAssumption, FS_CardinalityType DEF NetTypes, Opened
<1>2. QED
  BY <1>1 DEF Pooled

\* A socket task's types survive its failure.
LEMMA SocketFailsTyped ==
    ASSUME TaskTypes, NEW r \in Request, NEW kind \in Failures, SocketFails(r, kind)
    PROVE  /\ items' \in [Request -> Seq(Items)]
           /\ held' \in [Request -> Socket \union {None}]
           /\ ipc' \in [Request -> Holding \union {"off", "deliver"}]
BY ChannelTyped, ItemsTyped DEF TaskTypes, SocketTypes, ChannelTypes, SocketFails, Hold

\* A full-context attempt starts over without a continuation.
LEMMA FullContextKeeps ==
    ASSUME TaskTypes, NEW r \in Request, FullContextAttempt(r)
    PROVE  /\ coord'[r].previous = None /\ coord'[r].epoch = coord[r].epoch
           /\ coord'[r].forwarded = coord[r].forwarded
           /\ cpc'[r] = "take" /\ stored'[r] = None
BY DEF TaskTypes, CoordinatorTypes, SocketTypes, CoordState, FullContextAttempt, Goto

\* A refresh leaves the continuation.
LEMMA RefreshKeeps ==
    ASSUME TaskTypes, NEW r \in Request, StartRefresh(r)
    PROVE  /\ coord'[r].previous = coord[r].previous /\ coord'[r].epoch = coord[r].epoch
           /\ coord'[r].origin = coord[r].origin
           /\ coord'[r].forwarded = coord[r].forwarded /\ cpc'[r] = "refresh"
BY DEF TaskTypes, CoordinatorTypes, CoordState, StartRefresh, Goto

\* Every step of a request keeps the types of what its tasks have.
LEMMA TasksTyped ==
    ASSUME TaskTypes, NetTypes, Consistent, NEW r \in Request, ControlOf(r), StepOf(r)
    PROVE  TaskTypes'
<1>1. ASSUME NEW owner \in Owner, Begin(r, owner) PROVE TaskTypes'
  <2>1. HandlerTypes'
    BY <1>1 DEF TaskTypes, HandlerTypes, Begin, TakeTurn
  <2>2. CoordinatorTypes' /\ SocketTypes' /\ ChannelTypes'
    BY <1>1 DEF TaskTypes, CoordinatorTypes, SocketTypes, ChannelTypes, Begin
  <2>3. QED
    BY <2>1, <2>2 DEF TaskTypes
<1>2. ASSUME NEW fit \in Fits, Enter(r, fit) PROVE TaskTypes'
  <2>1. HandlerTypes'
    BY <1>2 DEF TaskTypes, HandlerTypes, Enter, Candidate
  <2>2. CoordinatorTypes' /\ SocketTypes' /\ ChannelTypes'
    BY <1>2 DEF TaskTypes, CoordinatorTypes, SocketTypes, ChannelTypes, Enter
  <2>3. QED
    BY <2>1, <2>2 DEF TaskTypes
<1>3. ASSUME StartAttempt(r) PROVE TaskTypes'
  <2>1. HandlerTypes'
    BY <1>3 DEF TaskTypes, HandlerTypes, StartAttempt
  <2>2. CoordinatorTypes'
    <3>1. [NoCoordinator EXCEPT !.previous = res[r].previous, !.origin = res[r].origin]
              \in CoordState
      BY <1>3, HeldReservation, NoneAssumption
         DEF Consistent, NoCoordinator, CoordState, Reservation, StartAttempt,
             ControlOf, HandlerControl
    <3>2. QED
      BY <1>3, <3>1 DEF TaskTypes, CoordinatorTypes, StartAttempt, Preparing
  <2>3. SocketTypes'
    BY <1>3 DEF TaskTypes, SocketTypes, Holding, Successes, StartAttempt
  <2>4. ChannelTypes'
    BY <1>3 DEF TaskTypes, ChannelTypes, StartAttempt
  <2>5. QED
    BY <2>1, <2>2, <2>3, <2>4 DEF TaskTypes
<1>4. ASSUME NoCredentials(r) PROVE TaskTypes'
  <2>1. HandlerTypes'
    BY <1>4 DEF TaskTypes, HandlerTypes, NoCredentials, EndAborted, Abort, Fault
  <2>2. ChannelTypes'
    BY <1>4, ChannelTyped, ItemsTyped
       DEF TaskTypes, ChannelTypes, NoCredentials, EndAborted, Abort, Fault
  <2>3. CoordinatorTypes' /\ SocketTypes'
    BY <1>4
       DEF TaskTypes, CoordinatorTypes, SocketTypes, NoCredentials, EndAborted, Abort
  <2>4. QED
    BY <2>1, <2>2, <2>3 DEF TaskTypes
<1>5. ASSUME Leave(r) PROVE TaskTypes'
  <2>1. HandlerTypes'
    BY <1>5 DEF TaskTypes, HandlerTypes, Leave, EndAborted, Abort, Fault
  <2>2. ChannelTypes'
    <3>1. CASE UNCHANGED outs
      BY <1>5, <3>1, ItemsTyped, ChannelTyped DEF TaskTypes, ChannelTypes, Leave
    <3>2. CASE EndAborted(r)
      BY <1>5, <3>2, ItemsTyped, ChannelTyped
         DEF TaskTypes, ChannelTypes, Leave, EndAborted
    <3>3. QED
      BY <1>5, <3>1, <3>2 DEF Leave
  <2>3. CoordinatorTypes' /\ SocketTypes'
    BY <1>5 DEF TaskTypes, CoordinatorTypes, SocketTypes, Leave, EndAborted, Abort
  <2>4. QED
    BY <2>1, <2>2, <2>3 DEF TaskTypes
<1>6. ASSUME NoticeLeave(r) PROVE TaskTypes'
  <2>1. HandlerTypes'
    BY <1>6 DEF TaskTypes, HandlerTypes, NoticeLeave, EndAborted, Abort
  <2>2. ChannelTypes'
    BY <1>6, ChannelTyped, ItemsTyped
       DEF TaskTypes, ChannelTypes, NoticeLeave, EndAborted, Abort
  <2>3. CoordinatorTypes' /\ SocketTypes'
    BY <1>6 DEF TaskTypes, CoordinatorTypes, SocketTypes, NoticeLeave, EndAborted, Abort
  <2>4. QED
    BY <2>1, <2>2, <2>3 DEF TaskTypes
<1>7. ASSUME FirstOutput(r) PROVE TaskTypes'
  <2>1. HandlerTypes'
    BY <1>7 DEF TaskTypes, HandlerTypes, FirstOutput
  <2>2. ChannelTypes'
    BY <1>7, ChannelTyped, ItemsTyped DEF TaskTypes, ChannelTypes, FirstOutput
  <2>3. CoordinatorTypes' /\ SocketTypes'
    BY <1>7 DEF TaskTypes, CoordinatorTypes, SocketTypes, FirstOutput
  <2>4. QED
    BY <2>1, <2>2, <2>3 DEF TaskTypes
<1>8. ASSUME Complete(r) PROVE TaskTypes'
  <2>1. HandlerTypes'
    BY <1>8 DEF TaskTypes, HandlerTypes, Complete, Record, Abort
  <2>2. ChannelTypes'
    BY <1>8, ChannelTyped, ItemsTyped
       DEF TaskTypes, ChannelTypes, Complete, Record, Abort
  <2>3. CoordinatorTypes' /\ SocketTypes'
    BY <1>8 DEF TaskTypes, CoordinatorTypes, SocketTypes, Complete
  <2>4. QED
    BY <2>1, <2>2, <2>3 DEF TaskTypes
<1>9. ASSUME Retry(r) PROVE TaskTypes'
  <2>1. HandlerTypes'
    BY <1>9, CodexTurnsAssumption
       DEF TaskTypes, HandlerTypes, Retry, MayRetry, FullContext
  <2>2. ChannelTypes'
    BY <1>9, ChannelTyped, ItemsTyped
       DEF TaskTypes, ChannelTypes, Retry, MayRetry, FullContext
  <2>3. CoordinatorTypes' /\ SocketTypes'
    BY <1>9 DEF TaskTypes, CoordinatorTypes, SocketTypes, Retry
  <2>4. QED
    BY <2>1, <2>2, <2>3 DEF TaskTypes
<1>10. ASSUME GiveUp(r) PROVE TaskTypes'
  <2>1. HandlerTypes'
    BY <1>10 DEF TaskTypes, HandlerTypes, GiveUp, EndAborted, Abort
  <2>2. ChannelTypes'
    BY <1>10, ChannelTyped, ItemsTyped
       DEF TaskTypes, ChannelTypes, GiveUp, EndAborted, Abort
  <2>3. CoordinatorTypes' /\ SocketTypes'
    BY <1>10 DEF TaskTypes, CoordinatorTypes, SocketTypes, GiveUp, EndAborted, Abort
  <2>4. QED
    BY <2>1, <2>2, <2>3 DEF TaskTypes
<1>11. ASSUME TakeSocket(r) PROVE TaskTypes'
  <2>1. CoordinatorTypes'
    <3>1. [coord[r] EXCEPT !.epoch = epoch] \in CoordState /\ coord[r] \in CoordState
      BY DEF TaskTypes, CoordinatorTypes, CoordState, NetTypes
    <3>2. CASE FullContextAttempt(r)
      BY <3>2, FullContextTyped
    <3>3. CASE /\ coord' = [coord EXCEPT ![r].epoch = epoch]
               /\ Goto(r, "validate") \/ Goto(r, "gate")
      BY <3>1, <3>3 DEF TaskTypes, CoordinatorTypes, Goto, Preparing
    <3>4. QED
      BY <1>11, <3>2, <3>3 DEF TakeSocket
  <2>2. SocketTypes'
    <3>1. CASE FullContextAttempt(r) /\ UNCHANGED held
      BY <1>11, <3>1, FullContextTyped DEF TakeSocket, TaskTypes, SocketTypes
    <3>2. CASE UNCHANGED <<held, stored>>
      BY <1>11, <3>2 DEF TakeSocket, TaskTypes, SocketTypes
    <3>3. CASE Hold(r, Pooled(r)) /\ UNCHANGED stored
      BY <1>11, <3>3, PooledSocket DEF TakeSocket, TaskTypes, SocketTypes, Hold
    <3>4. QED
      BY <1>11, <3>1, <3>2, <3>3 DEF TakeSocket
  <2>3. HandlerTypes' /\ ChannelTypes'
    BY <1>11 DEF TaskTypes, HandlerTypes, ChannelTypes, TakeSocket
  <2>4. QED
    BY <2>1, <2>2, <2>3 DEF TaskTypes
<1>12. ASSUME Validated(r) PROVE TaskTypes'
  <2>1. CoordinatorTypes'
    BY <1>12
       DEF TaskTypes, CoordinatorTypes, Preparing, Validated, Closed,
           StartSocketTask, Goto
  <2>2. SocketTypes'
    BY <1>12
       DEF TaskTypes, SocketTypes, Holding, Successes, Validated, Closed,
           StartSocketTask, Goto
  <2>3. HandlerTypes' /\ ChannelTypes'
    BY <1>12 DEF TaskTypes, HandlerTypes, ChannelTypes, Validated
  <2>4. QED
    BY <2>1, <2>2, <2>3 DEF TaskTypes
<1>13. ASSUME NotValidated(r) PROVE TaskTypes'
  <2>1. CoordinatorTypes'
    BY <1>13, FullContextTyped
       DEF TaskTypes, CoordinatorTypes, Preparing, NotValidated, Goto
  <2>2. SocketTypes'
    BY <1>13, FullContextTyped
       DEF TaskTypes, SocketTypes, Holding, Successes, NotValidated, Hold
  <2>3. ChannelTypes'
    <3>1. CASE UNCHANGED outs
      BY <1>13, <3>1, ItemsTyped, ChannelTyped
         DEF TaskTypes, ChannelTypes, NotValidated
    <3>2. CASE SendOut(r, "busy")
      BY <1>13, <3>2, ItemsTyped, SendOutTyped
         DEF TaskTypes, ChannelTypes, NotValidated
    <3>3. QED
      BY <1>13, <3>1, <3>2 DEF NotValidated
  <2>4. HandlerTypes'
    BY <1>13 DEF TaskTypes, HandlerTypes, NotValidated
  <2>5. QED
    BY <2>1, <2>2, <2>3, <2>4 DEF TaskTypes
<1>14. ASSUME PassGate(r) PROVE TaskTypes'
  <2>1. CoordinatorTypes'
    BY <1>14 DEF TaskTypes, CoordinatorTypes, Preparing, PassGate, Closed, Goto
  <2>2. HandlerTypes' /\ SocketTypes' /\ ChannelTypes'
    BY <1>14 DEF TaskTypes, HandlerTypes, SocketTypes, ChannelTypes, PassGate
  <2>3. QED
    BY <2>1, <2>2 DEF TaskTypes
<1>15. ASSUME Connected(r) PROVE TaskTypes'
  <2>1. CoordinatorTypes'
    BY <1>15
       DEF TaskTypes, CoordinatorTypes, Preparing, Connected, Closed,
           StartSocketTask, Goto, Hold
  <2>2. SocketTypes'
    <3>1. Len(sockets) + 1 \in Socket
      BY <1>15, CodexTurnsAssumption, FS_CardinalityType DEF NetTypes, Connected
    <3>2. QED
      BY <1>15, <3>1
         DEF TaskTypes, SocketTypes, Connected, Hold, StartSocketTask, Holding
  <2>3. HandlerTypes' /\ ChannelTypes'
    BY <1>15 DEF TaskTypes, HandlerTypes, ChannelTypes, Connected
  <2>4. QED
    BY <2>1, <2>2, <2>3 DEF TaskTypes
<1>16. ASSUME NEW kind \in Failures, ConnectFails(r, kind) PROVE TaskTypes'
  <2>1. CoordinatorTypes'
    BY <1>16, RefreshTyped
       DEF TaskTypes, CoordinatorTypes, Preparing, ConnectFails, Goto
  <2>2. ChannelTypes'
    <3>1. CASE UNCHANGED outs
      BY <1>16, <3>1, ItemsTyped, ChannelTyped
         DEF TaskTypes, ChannelTypes, ConnectFails
    <3>2. CASE SendOut(r, kind)
      BY <1>16, <3>2, ItemsTyped, SendOutTyped
         DEF TaskTypes, ChannelTypes, ConnectFails
    <3>3. QED
      BY <1>16, <3>1, <3>2 DEF ConnectFails
  <2>3. HandlerTypes' /\ SocketTypes'
    BY <1>16 DEF TaskTypes, HandlerTypes, SocketTypes, ConnectFails
  <2>4. QED
    BY <2>1, <2>2, <2>3 DEF TaskTypes
<1>17. ASSUME Refreshed(r) PROVE TaskTypes'
  <2>1. CoordinatorTypes'
    BY <1>17, FullContextTyped DEF TaskTypes, CoordinatorTypes, Preparing, Refreshed
  <2>2. SocketTypes'
    BY <1>17, FullContextTyped
       DEF TaskTypes, SocketTypes, Holding, Successes, Refreshed
  <2>3. HandlerTypes' /\ ChannelTypes'
    BY <1>17 DEF TaskTypes, HandlerTypes, ChannelTypes, Refreshed
  <2>4. QED
    BY <2>1, <2>2, <2>3 DEF TaskTypes
<1>18. ASSUME NotRefreshed(r) PROVE TaskTypes'
  <2>1. CoordinatorTypes'
    BY <1>18
       DEF TaskTypes, CoordinatorTypes, Preparing, NotRefreshed, Closed, Goto,
           SendOut
  <2>2. ChannelTypes'
    BY <1>18, ChannelTyped, ItemsTyped
       DEF TaskTypes, ChannelTypes, NotRefreshed, Closed, Goto, SendOut
  <2>3. HandlerTypes' /\ SocketTypes'
    BY <1>18 DEF TaskTypes, HandlerTypes, SocketTypes, NotRefreshed
  <2>4. QED
    BY <2>1, <2>2, <2>3 DEF TaskTypes
<1>19. ASSUME HandleItem(r) PROVE TaskTypes'
  <2>1. CoordinatorTypes'
    <3>1. CASE StartRefresh(r)
      BY <3>1, RefreshTyped
    <3>2. CASE FullContextAttempt(r)
      BY <3>2, FullContextTyped
    <3>3. CASE /\ coord' = [coord EXCEPT ![r].forwarded = @ \/ Head(items[r]) = "output"]
               /\ Goto(r, "listen") \/ Goto(r, "off")
      <4>1. coord[r] \in CoordState /\ coord \in [Request -> CoordState]
        BY DEF TaskTypes, CoordinatorTypes
      <4> DEFINE b == coord[r].forwarded \/ Head(items[r]) = "output"
      <4>2. b \in BOOLEAN
        BY <4>1 DEF CoordState
      <4>3. coord' = [coord EXCEPT ![r].forwarded = b]
        BY <3>3, <4>1
      <4> HIDE DEF b
      <4>4. [coord[r] EXCEPT !.forwarded = b] \in CoordState
        BY <4>1, <4>2 DEF CoordState
      <4>5. QED
        BY <3>3, <4>1, <4>3, <4>4 DEF TaskTypes, CoordinatorTypes, Goto
    <3>4. QED
      BY <1>19, <3>1, <3>2, <3>3 DEF HandleItem
  <2>2. SocketTypes'
    BY <1>19, FullContextTyped
       DEF TaskTypes, SocketTypes, Holding, Successes, HandleItem, StartRefresh
  <2>3. ChannelTypes'
    <3>1. /\ items' \in [Request -> Seq(Items)]
          /\ Head(items[r]) \in Items
      BY <1>19, ChannelTyped DEF TaskTypes, ChannelTypes, HandleItem
    <3>2. CASE UNCHANGED outs
      BY <3>1, <3>2 DEF TaskTypes, ChannelTypes
    <3>3. CASE SendOut(r, Head(items[r]))
      BY <3>1, <3>3, SendOutTyped DEF ChannelTypes
    <3>4. QED
      BY <1>19, <3>2, <3>3 DEF HandleItem
  <2>4. HandlerTypes'
    BY <1>19 DEF TaskTypes, HandlerTypes, HandleItem
  <2>5. QED
    BY <2>1, <2>2, <2>3, <2>4 DEF TaskTypes
<1>20. ASSUME CoordinatorClosed(r) PROVE TaskTypes'
  <2>1. CoordinatorTypes'
    BY <1>20
       DEF TaskTypes, CoordinatorTypes, Preparing, CoordinatorClosed, Closed, Goto
  <2>2. SocketTypes'
    BY <1>20
       DEF TaskTypes, SocketTypes, Holding, Successes, CoordinatorClosed, Closed,
           Goto
  <2>3. ChannelTypes'
    <3>1. CASE UNCHANGED items
      BY <1>20, <3>1, ItemsTyped, ChannelTyped
         DEF TaskTypes, ChannelTypes, CoordinatorClosed
    <3>2. CASE items' = [items EXCEPT ![r] = <<>>]
      BY <1>20, <3>2, ItemsTyped, ChannelTyped
         DEF TaskTypes, ChannelTypes, CoordinatorClosed
    <3>3. QED
      BY <1>20, <3>1, <3>2 DEF CoordinatorClosed
  <2>4. HandlerTypes'
    BY <1>20 DEF TaskTypes, HandlerTypes, CoordinatorClosed
  <2>5. QED
    BY <2>1, <2>2, <2>3, <2>4 DEF TaskTypes
<1>21. ASSUME SendRequest(r) PROVE TaskTypes'
  <2>1. SocketTypes'
    BY <1>21 DEF TaskTypes, SocketTypes, Holding, Successes, SendRequest
  <2>2. HandlerTypes' /\ CoordinatorTypes' /\ ChannelTypes'
    BY <1>21 DEF TaskTypes, HandlerTypes, CoordinatorTypes, ChannelTypes, SendRequest
  <2>3. QED
    BY <2>1, <2>2 DEF TaskTypes
<1>22. ASSUME SendFails(r) PROVE TaskTypes'
  <2>1. SocketTypes'
    BY <1>22, SocketFailsTyped, ItemsTyped DEF TaskTypes, SocketTypes, SendFails
  <2>2. ChannelTypes'
    BY <1>22, ItemsTyped, SocketFailsTyped DEF TaskTypes, ChannelTypes, SendFails
  <2>3. HandlerTypes' /\ CoordinatorTypes'
    BY <1>22 DEF TaskTypes, HandlerTypes, CoordinatorTypes, SendFails
  <2>4. QED
    BY <2>1, <2>2, <2>3 DEF TaskTypes
<1>23. ASSUME ReadOutput(r) PROVE TaskTypes'
  <2>1. SocketTypes'
    BY <1>23 DEF TaskTypes, SocketTypes, Holding, Successes, ReadOutput, Listening
  <2>2. ChannelTypes'
    BY <1>23, ChannelTyped, ItemsTyped
       DEF TaskTypes, ChannelTypes, ReadOutput, Listening
  <2>3. HandlerTypes' /\ CoordinatorTypes'
    BY <1>23 DEF TaskTypes, HandlerTypes, CoordinatorTypes, ReadOutput
  <2>4. QED
    BY <2>1, <2>2, <2>3 DEF TaskTypes
<1>24. ASSUME NEW success \in Successes, ReadCompleted(r, success) PROVE TaskTypes'
  <2>1. SocketTypes'
    BY <1>24
       DEF TaskTypes, SocketTypes, Holding, Successes, ReadCompleted, Listening,
           Fault
  <2>2. HandlerTypes' /\ CoordinatorTypes' /\ ChannelTypes'
    BY <1>24 DEF TaskTypes, HandlerTypes, CoordinatorTypes, ChannelTypes, ReadCompleted
  <2>3. QED
    BY <2>1, <2>2 DEF TaskTypes
<1>25. ASSUME NEW kind \in Failures, ReadFails(r, kind) PROVE TaskTypes'
  <2>1. SocketTypes'
    BY <1>25, SocketFailsTyped
       DEF TaskTypes, SocketTypes, Holding, Successes, ReadFails
  <2>2. ChannelTypes'
    BY <1>25, ItemsTyped, SocketFailsTyped DEF TaskTypes, ChannelTypes, ReadFails
  <2>3. HandlerTypes' /\ CoordinatorTypes'
    BY <1>25 DEF TaskTypes, HandlerTypes, CoordinatorTypes, ReadFails
  <2>4. QED
    BY <2>1, <2>2, <2>3 DEF TaskTypes
<1>26. ASSUME ReaderClosed(r) PROVE TaskTypes'
  <2>1. SocketTypes'
    BY <1>26, SocketFailsTyped, ItemsTyped DEF TaskTypes, SocketTypes, ReaderClosed
  <2>2. ChannelTypes'
    BY <1>26, ItemsTyped, SocketFailsTyped DEF TaskTypes, ChannelTypes, ReaderClosed
  <2>3. HandlerTypes' /\ CoordinatorTypes'
    BY <1>26 DEF TaskTypes, HandlerTypes, CoordinatorTypes, ReaderClosed
  <2>4. QED
    BY <2>1, <2>2, <2>3 DEF TaskTypes
<1>27. ASSUME Settle(r) PROVE TaskTypes'
  <2>1. SocketTypes'
    BY <1>27 DEF TaskTypes, SocketTypes, Holding, Successes, Settle, Hold
  <2>2. HandlerTypes' /\ CoordinatorTypes' /\ ChannelTypes'
    BY <1>27 DEF TaskTypes, HandlerTypes, CoordinatorTypes, ChannelTypes, Settle
  <2>3. QED
    BY <2>1, <2>2 DEF TaskTypes
<1>28. ASSUME Deliver(r) PROVE TaskTypes'
  <2>1. SocketTypes'
    BY <1>28 DEF TaskTypes, SocketTypes, Holding, Successes, Deliver, Listening
  <2>2. ChannelTypes'
    <3>1. CASE Listening(r)
      <4>1. final[r] \in Items
        BY <1>28, ItemsTyped DEF ControlOf, SocketControl, Deliver
      <4>2. QED
        <5>1. items' = [items EXCEPT ![r] = Append(@, final[r])] /\ outs' = outs
          BY <1>28, <3>1 DEF Deliver
        <5>2. items \in [Request -> Seq(Items)] /\ outs \in [Request -> Seq(Items)]
          BY DEF TaskTypes, ChannelTypes
        <5>3. items' \in [Request -> Seq(Items)]
          BY <4>1, <5>1, <5>2, ChannelTyped
        <5>4. QED
          BY <5>1, <5>2, <5>3 DEF ChannelTypes
    <3>2. CASE ~Listening(r)
      BY <1>28, <3>2 DEF TaskTypes, ChannelTypes, Deliver
    <3>3. QED
      BY <3>1, <3>2
  <2>3. HandlerTypes' /\ CoordinatorTypes'
    BY <1>28 DEF TaskTypes, HandlerTypes, CoordinatorTypes, Deliver
  <2>4. QED
    BY <2>1, <2>2, <2>3 DEF TaskTypes
<1>29. QED
  BY <1>1, <1>2, <1>3, <1>4, <1>5, <1>6, <1>7, <1>8, <1>9, <1>10, <1>11, <1>12,
     <1>13, <1>14, <1>15, <1>16, <1>17, <1>18, <1>19, <1>20, <1>21, <1>22, <1>23,
     <1>24, <1>25, <1>26, <1>27, <1>28, KindsAreFailures
     DEF StepOf, Arrival, Handler, Coordinator, SocketTask, Misfortune

-----------------------------------------------------------------------------
(* The pool, the sockets and the path after a step.                         *)

\* A pool with nothing in it that is not in the pool.
PartOfPool(p) == DOMAIN p \subseteq DOMAIN pool /\ \A o \in DOMAIN p : p[o] = pool[o]

\* Most of what is done to the pool takes entries out.
LEMMA PoolShrinks ==
    ASSUME NEW r \in Request
    PROVE  /\ PartOfPool(pool) /\ PartOfPool(ResetPool(r))
           /\ \A o, s : PartOfPool(PoolLessEntry(o, s))
           /\ \A p \in CleanedPool : PartOfPool(p)
<1>1. \A o : PartOfPool(PoolLess(o))
  BY DEF PartOfPool, PoolLess, Restrict
<1>2. \A p \in CleanedPool : PartOfPool(p)
  BY DEF PartOfPool, CleanedPool, Restrict
<1>3. QED
  BY <1>1, <1>2 DEF PartOfPool, ResetPool, PoolLessEntry

\* A turn that puts its socket back may also push others out.
LEMMA PoolGrows ==
    ASSUME NEW r \in Request, NEW s, NEW p \in PoolAfterTurn(r, s)
    PROVE  \/ PartOfPool(p)
           \/ /\ Current(r) /\ res[r].owner \notin DOMAIN pool
              /\ res[r].owner \in DOMAIN p /\ p[res[r].owner] = s
              /\ \A o \in DOMAIN p \ {res[r].owner} : o \in DOMAIN pool /\ p[o] = pool[o]
BY ZenonT(40) DEF PoolAfterTurn, PoolWith, PartOfPool

\* A step that opens no socket, notes no answer and puts no socket back.
Still ==
    /\ epoch' = epoch /\ sockets' = sockets /\ PartOfPool(pool')

\* All steps but three are of that kind.
LEMMA StillSteps ==
    ASSUME NEW r \in Request, StepOf(r)
    PROVE  \/ Still
           \/ Connected(r) \/ Settle(r)
           \/ \E success \in Successes : ReadCompleted(r, success)
<1>1. ASSUME NEW owner \in Owner, Begin(r, owner) PROVE Still
  BY <1>1, PoolShrinks DEF Still, Begin
<1>2. ASSUME NEW fit \in Fits, Enter(r, fit) PROVE Still
  BY <1>2, PoolShrinks DEF Still, Enter
<1>3. ASSUME StartAttempt(r) PROVE Still
  BY <1>3, PoolShrinks DEF Still, StartAttempt
<1>4. ASSUME NoCredentials(r) PROVE Still
  BY <1>4, PoolShrinks DEF Still, NoCredentials
<1>5. ASSUME Leave(r) PROVE Still
  BY <1>5, PoolShrinks DEF Still, Leave
<1>6. ASSUME NoticeLeave(r) PROVE Still
  BY <1>6, PoolShrinks DEF Still, NoticeLeave
<1>7. ASSUME FirstOutput(r) PROVE Still
  BY <1>7, PoolShrinks DEF Still, FirstOutput
<1>8. ASSUME Complete(r) PROVE Still
  BY <1>8, PoolShrinks DEF Still, Complete
<1>9. ASSUME Retry(r) PROVE Still
  BY <1>9, PoolShrinks DEF Still, Retry
<1>10. ASSUME GiveUp(r) PROVE Still
  BY <1>10, PoolShrinks DEF Still, GiveUp
<1>11. ASSUME TakeSocket(r) PROVE Still
  BY <1>11, PoolShrinks DEF Still, TakeSocket
<1>12. ASSUME Validated(r) PROVE Still
  BY <1>12, PoolShrinks DEF Still, Validated
<1>13. ASSUME NotValidated(r) PROVE Still
  BY <1>13, PoolShrinks DEF Still, NotValidated
<1>14. ASSUME PassGate(r) PROVE Still
  BY <1>14, PoolShrinks DEF Still, PassGate
<1>15. ASSUME NEW kind \in Failures, ConnectFails(r, kind) PROVE Still
  BY <1>15, PoolShrinks DEF Still, ConnectFails, StartRefresh
<1>16. ASSUME Refreshed(r) PROVE Still
  BY <1>16, PoolShrinks DEF Still, Refreshed
<1>17. ASSUME NotRefreshed(r) PROVE Still
  BY <1>17, PoolShrinks DEF Still, NotRefreshed
<1>18. ASSUME HandleItem(r) PROVE Still
  BY <1>18, PoolShrinks DEF Still, HandleItem, StartRefresh
<1>19. ASSUME CoordinatorClosed(r) PROVE Still
  BY <1>19, PoolShrinks DEF Still, CoordinatorClosed
<1>20. ASSUME SendRequest(r) PROVE Still
  BY <1>20, PoolShrinks DEF Still, SendRequest
<1>21. ASSUME SendFails(r) PROVE Still
  BY <1>21, PoolShrinks DEF Still, SendFails, SocketFails
<1>22. ASSUME ReadOutput(r) PROVE Still
  BY <1>22, PoolShrinks DEF Still, ReadOutput
<1>23. ASSUME NEW kind \in Failures, ReadFails(r, kind) PROVE Still
  BY <1>23, PoolShrinks DEF Still, ReadFails, SocketFails
<1>24. ASSUME ReaderClosed(r) PROVE Still
  BY <1>24, PoolShrinks DEF Still, ReaderClosed, SocketFails
<1>25. ASSUME Deliver(r) PROVE Still
  BY <1>25, PoolShrinks DEF Still, Deliver
<1>26. QED
  BY <1>1, <1>2, <1>3, <1>4, <1>5, <1>6, <1>7, <1>8, <1>9, <1>10, <1>11, <1>12,
     <1>13, <1>14, <1>15, <1>16, <1>17, <1>18, <1>19, <1>20, <1>21, <1>22, <1>23,
     <1>24, <1>25, KindsAreFailures
     DEF StepOf, Arrival, Handler, Coordinator, SocketTask, Misfortune

\* Faults are counted.
FaultCounted == faults' \in {faults, faults + 1} /\ faults' <= MaxFaults

LEMMA FaultsCounted ==
    ASSUME NetTypes, NEW r \in Request, StepOf(r)
    PROVE  faults' \in 0 .. MaxFaults /\ faults <= faults'
<1> USE DEF FaultCounted
<1>1. ASSUME NEW owner \in Owner, Begin(r, owner) PROVE FaultCounted
  BY <1>1, CodexTurnsAssumption DEF NetTypes, Begin
<1>2. ASSUME NEW fit \in Fits, Enter(r, fit) PROVE FaultCounted
  BY <1>2, CodexTurnsAssumption DEF NetTypes, Enter
<1>3. ASSUME StartAttempt(r) PROVE FaultCounted
  BY <1>3, CodexTurnsAssumption DEF NetTypes, StartAttempt
<1>4. ASSUME NoCredentials(r) PROVE FaultCounted
  BY <1>4, CodexTurnsAssumption DEF NetTypes, NoCredentials, Fault
<1>5. ASSUME Leave(r) PROVE FaultCounted
  BY <1>5, CodexTurnsAssumption DEF NetTypes, Leave, Fault
<1>6. ASSUME NoticeLeave(r) PROVE FaultCounted
  BY <1>6, CodexTurnsAssumption DEF NetTypes, NoticeLeave
<1>7. ASSUME FirstOutput(r) PROVE FaultCounted
  BY <1>7, CodexTurnsAssumption DEF NetTypes, FirstOutput
<1>8. ASSUME Complete(r) PROVE FaultCounted
  BY <1>8, CodexTurnsAssumption DEF NetTypes, Complete
<1>9. ASSUME Retry(r) PROVE FaultCounted
  BY <1>9, CodexTurnsAssumption DEF NetTypes, Retry
<1>10. ASSUME GiveUp(r) PROVE FaultCounted
  BY <1>10, CodexTurnsAssumption DEF NetTypes, GiveUp
<1>11. ASSUME TakeSocket(r) PROVE FaultCounted
  BY <1>11, CodexTurnsAssumption DEF NetTypes, TakeSocket
<1>12. ASSUME Validated(r) PROVE FaultCounted
  BY <1>12, CodexTurnsAssumption DEF NetTypes, Validated
<1>13. ASSUME NotValidated(r) PROVE FaultCounted
  BY <1>13, CodexTurnsAssumption DEF NetTypes, NotValidated, Trouble, Fault
<1>14. ASSUME PassGate(r) PROVE FaultCounted
  BY <1>14, CodexTurnsAssumption DEF NetTypes, PassGate
<1>15. ASSUME Connected(r) PROVE FaultCounted
  BY <1>15, CodexTurnsAssumption DEF NetTypes, Connected
<1>16. ASSUME NEW kind \in Failures, ConnectFails(r, kind) PROVE FaultCounted
  BY <1>16, CodexTurnsAssumption DEF NetTypes, ConnectFails, Trouble, Fault
<1>17. ASSUME Refreshed(r) PROVE FaultCounted
  BY <1>17, CodexTurnsAssumption DEF NetTypes, Refreshed
<1>18. ASSUME NotRefreshed(r) PROVE FaultCounted
  BY <1>18, CodexTurnsAssumption DEF NetTypes, NotRefreshed
<1>19. ASSUME HandleItem(r) PROVE FaultCounted
  BY <1>19, CodexTurnsAssumption DEF NetTypes, HandleItem
<1>20. ASSUME CoordinatorClosed(r) PROVE FaultCounted
  BY <1>20, CodexTurnsAssumption DEF NetTypes, CoordinatorClosed
<1>21. ASSUME SendRequest(r) PROVE FaultCounted
  BY <1>21, CodexTurnsAssumption DEF NetTypes, SendRequest
<1>22. ASSUME SendFails(r) PROVE FaultCounted
  BY <1>22, CodexTurnsAssumption DEF NetTypes, SendFails, Trouble, Fault
<1>23. ASSUME ReadOutput(r) PROVE FaultCounted
  BY <1>23, CodexTurnsAssumption DEF NetTypes, ReadOutput
<1>24. ASSUME NEW success \in Successes, ReadCompleted(r, success) PROVE FaultCounted
  BY <1>24, CodexTurnsAssumption DEF NetTypes, Successes, ReadCompleted, Fault
<1>25. ASSUME NEW kind \in Failures, ReadFails(r, kind) PROVE FaultCounted
  BY <1>25, CodexTurnsAssumption DEF NetTypes, ReadFails, Trouble, Fault
<1>26. ASSUME ReaderClosed(r) PROVE FaultCounted
  BY <1>26, CodexTurnsAssumption DEF NetTypes, ReaderClosed
<1>27. ASSUME Settle(r) PROVE FaultCounted
  BY <1>27, CodexTurnsAssumption DEF NetTypes, Settle
<1>28. ASSUME Deliver(r) PROVE FaultCounted
  BY <1>28, CodexTurnsAssumption DEF NetTypes, Deliver
<1>29. FaultCounted
  BY <1>1, <1>2, <1>3, <1>4, <1>5, <1>6, <1>7, <1>8, <1>9, <1>10, <1>11, <1>12,
     <1>13, <1>14, <1>15, <1>16, <1>17, <1>18, <1>19, <1>20, <1>21, <1>22, <1>23,
     <1>24, <1>25, <1>26, <1>27, <1>28, KindsAreFailures
     DEF StepOf, Arrival, Handler, Coordinator, SocketTask, Misfortune
<1>30. QED
  BY <1>29 DEF NetTypes

\* What a coordinator takes for the path is the path of that moment.
LEMMA PathsKnown ==
    ASSUME TaskTypes, NEW r \in Request, StepOf(r)
    PROVE  coord'[r].epoch \in {0, epoch, coord[r].epoch}
<1>1. CASE UNCHANGED coord
  BY <1>1
<1>2. CASE StartAttempt(r)
  BY <1>2 DEF StartAttempt, TaskTypes, CoordinatorTypes, NoCoordinator
<1>3. CASE coord' = [coord EXCEPT ![r].epoch = epoch]
  BY <1>3 DEF TaskTypes, CoordinatorTypes, CoordState
<1>4. CASE FullContextAttempt(r)
  BY <1>4, FullContextKeeps
<1>5. CASE StartRefresh(r)
  BY <1>5, RefreshKeeps
<1>6. CASE coord' = [coord EXCEPT ![r].forwarded = @ \/ Head(items[r]) = "output"]
  BY <1>6 DEF TaskTypes, CoordinatorTypes, CoordState
<1>7. ASSUME TakeSocket(r) PROVE coord'[r].epoch \in {0, epoch, coord[r].epoch}
  BY <1>7, <1>1, <1>3, <1>4, <1>5, <1>6 DEF TakeSocket
<1>8. ASSUME NotValidated(r) PROVE coord'[r].epoch \in {0, epoch, coord[r].epoch}
  BY <1>8, <1>1, <1>3, <1>4, <1>5, <1>6 DEF NotValidated
<1>9. ASSUME NEW kind \in Failures, ConnectFails(r, kind)
      PROVE  coord'[r].epoch \in {0, epoch, coord[r].epoch}
  BY <1>9, <1>1, <1>3, <1>4, <1>5, <1>6 DEF ConnectFails
<1>10. ASSUME Refreshed(r) PROVE coord'[r].epoch \in {0, epoch, coord[r].epoch}
  BY <1>10, <1>1, <1>3, <1>4, <1>5, <1>6 DEF Refreshed
<1>11. ASSUME HandleItem(r) PROVE coord'[r].epoch \in {0, epoch, coord[r].epoch}
  BY <1>11, <1>1, <1>3, <1>4, <1>5, <1>6 DEF HandleItem
<1>12. QED
  BY <1>1, <1>2, <1>7, <1>8, <1>9, <1>10, <1>11, KindsAreFailures
     DEF StepOf, Arrival, Handler, Coordinator, SocketTask, Misfortune, Begin,
         Enter, NoCredentials, Leave, NoticeLeave, FirstOutput, Complete, Retry,
         GiveUp, Validated, PassGate, Connected, NotRefreshed, CoordinatorClosed,
         SendRequest, SendFails, ReadOutput, ReadCompleted, ReadFails, ReaderClosed,
         Settle, Deliver

\* A request whose tasks are at work has entered the registry.
LEMMA AtWork ==
    ASSUME Consistent, NEW r \in Request, ControlOf(r), cpc[r] # "off" \/ ipc[r] # "off"
    PROVE  /\ res[r] \in Reservation /\ res[r] # None /\ res[r].entered
           /\ hpc[r] \notin {"idle", "numbered", "ready"}
<1>1. hpc[r] \notin {"idle", "numbered", "ready"}
  BY DEF ControlOf, HandlerControl, CoordinatorControl
<1>2. QED
  BY <1>1, HeldReservation DEF Consistent, ControlOf, HandlerControl

\* Every step of a request keeps the types of the pool, the sockets and the path.
LEMMA NetTypesStep ==
    ASSUME TaskTypes, NetTypes, Consistent, NEW r \in Request, ControlOf(r), StepOf(r),
           held[r] # None => Opened(held[r]),
           \A q \in Request \ {r} : coord'[q] = coord[q]
    PROVE  NetTypes'
<1>1. faults' \in 0 .. MaxFaults /\ faults <= faults'
  BY FaultsCounted
<1>2. \A q \in Request : coord'[q].epoch \in {0, epoch, coord[q].epoch}
  BY PathsKnown
<1>3. \A q \in Request : coord'[q].epoch <= epoch
  BY <1>2 DEF NetTypes
<1>4. \A s \in 1 .. Len(sockets) : s \in Socket
  BY CodexTurnsAssumption, FS_CardinalityType DEF NetTypes
<1>5. CASE Still
  BY <1>1, <1>3, <1>5 DEF Still, PartOfPool, NetTypes
<1>6. CASE Connected(r)
  <2> DEFINE new == [owner |-> res[r].owner, epoch |-> coord[r].epoch, last |-> None]
  <2>1. new \in SocketState /\ new.epoch <= epoch
    <3>1. res[r] \in Reservation
      BY <1>6, AtWork DEF Connected
    <3>2. coord[r].epoch \in Nat /\ coord[r].epoch <= epoch
      BY DEF TaskTypes, CoordinatorTypes, CoordState, NetTypes
    <3>3. QED
      BY <3>1, <3>2 DEF SocketState, Reservation
  <2>2. /\ sockets' = Append(sockets, new) /\ pool' = pool /\ epoch' = epoch
        /\ Len(sockets) < Cardinality(Socket)
    BY <1>6 DEF Connected
  <2> HIDE DEF new
  <2>3. QED
    BY <1>1, <1>3, <2>1, <2>2, CodexTurnsAssumption, FS_CardinalityType DEF NetTypes
<1>7. CASE Settle(r)
  <2>1. held[r] \in 1 .. Len(sockets)
    <3>1. ipc[r] \in Holding
      BY <1>7 DEF Settle, Holding
    <3>2. held[r] # None
      BY <3>1 DEF ControlOf, SocketControl
    <3>3. QED
      BY <3>2 DEF Opened
  <2>2. res[r].owner \in Owner
    BY <1>7, AtWork DEF Settle, Reservation
  <2>3. /\ sockets' = sockets /\ epoch' = epoch
        /\ pool' \in PoolAfterTurn(r, held[r])
    BY <1>7 DEF Settle
  <2>4. \A o \in DOMAIN pool' : o \in Owner /\ pool'[o] \in 1 .. Len(sockets)
    BY <2>1, <2>2, <2>3, PoolGrows DEF NetTypes, PartOfPool
  <2>5. QED
    BY <1>1, <1>3, <2>3, <2>4 DEF NetTypes
<1>8. ASSUME NEW success \in Successes, ReadCompleted(r, success) PROVE NetTypes'
  <2>1. held[r] \in 1 .. Len(sockets) /\ sockets \in Seq(SocketState)
    <3>1. ipc[r] \in Holding
      BY <1>8 DEF ReadCompleted, Holding
    <3>2. held[r] # None
      BY <3>1 DEF ControlOf, SocketControl
    <3>3. QED
      BY <3>2 DEF Opened, NetTypes
  <2>2. res[r].turn \in Turn
    BY <1>8, AtWork DEF ReadCompleted, Reservation
  <2>3. /\ sockets' = [sockets EXCEPT ![held[r]].last = res[r].turn]
        /\ pool' = pool /\ epoch' = epoch
    BY <1>8 DEF ReadCompleted
  <2>4. /\ sockets' \in Seq(SocketState) /\ Len(sockets') = Len(sockets)
        /\ \A s \in 1 .. Len(sockets) : sockets'[s].epoch = sockets[s].epoch
    <3> DEFINE was == sockets[held[r]]
               new == [was EXCEPT !.last = res[r].turn]
    <3>1. was \in SocketState
      BY <2>1
    <3>2. new \in SocketState /\ new.epoch = was.epoch
      <4> HIDE DEF was
      <4>1. QED
        BY <2>2, <3>1 DEF SocketState
    <3>3. sockets' = [sockets EXCEPT ![held[r]] = new]
      BY <2>1, <2>3
    <3> HIDE DEF new
    <3>4. QED
      BY <2>1, <3>2, <3>3
  <2>5. QED
    BY <1>1, <1>3, <2>3, <2>4 DEF NetTypes
<1>9. QED
  BY <1>5, <1>6, <1>7, <1>8, StillSteps

-----------------------------------------------------------------------------
(* One request at a time, and the registry.                                 *)

\* Two current turns have two owners.
LEMMA OneCurrent ==
    ASSUME Consistent, NEW r \in Request, NEW q \in Request, r # q,
           res[r] # None, res[q] # None, Current(r), Current(q)
    PROVE  res[r].owner # res[q].owner
BY DEF Consistent, Numbered, Current, IsCurrent

\* A step of the request leaves what the others have.
OthersStay(r) == \A q \in Request \ {r} : SameTasks(q)

\* A step of one request leaves what the others have.
LEMMA OthersKeep ==
    ASSUME TaskTypes, Structured, NEW r \in Request, StepOf(r)
    PROVE  OthersStay(r)
<1> USE DEF TaskTypes, HandlerTypes, CoordinatorTypes, SocketTypes, ChannelTypes,
           Structured, OthersStay, SameTasks
<1>1. ASSUME NEW owner \in Owner, Begin(r, owner) PROVE OthersStay(r)
  BY <1>1 DEF Begin, TakeTurn
<1>2. ASSUME NEW fit \in Fits, Enter(r, fit) PROVE OthersStay(r)
  BY <1>2 DEF Enter, Candidate
<1>3. ASSUME StartAttempt(r) PROVE OthersStay(r)
  BY <1>3 DEF StartAttempt
<1>4. ASSUME NoCredentials(r) PROVE OthersStay(r)
  BY <1>4 DEF NoCredentials, EndAborted, Abort, Fault
<1>5. ASSUME Leave(r) PROVE OthersStay(r)
  BY <1>5 DEF Leave, EndAborted, Abort, Fault
<1>6. ASSUME NoticeLeave(r) PROVE OthersStay(r)
  BY <1>6 DEF NoticeLeave, EndAborted, Abort
<1>7. ASSUME FirstOutput(r) PROVE OthersStay(r)
  BY <1>7 DEF FirstOutput
<1>8. ASSUME Complete(r) PROVE OthersStay(r)
  BY <1>8 DEF Complete, Record, Abort
<1>9. ASSUME Retry(r) PROVE OthersStay(r)
  BY <1>9 DEF Retry, MayRetry, FullContext
<1>10. ASSUME GiveUp(r) PROVE OthersStay(r)
  BY <1>10 DEF GiveUp, EndAborted, Abort
<1>11. ASSUME TakeSocket(r) PROVE OthersStay(r)
  BY <1>11 DEF TakeSocket, Closed, FullContextAttempt, Goto, Hold
<1>12. ASSUME Validated(r) PROVE OthersStay(r)
  BY <1>12 DEF Validated, Closed, StartSocketTask, Goto
<1>13. ASSUME NotValidated(r) PROVE OthersStay(r)
  BY <1>13
     DEF NotValidated, Closed, FullContextAttempt, Goto, Hold, SendOut, Trouble, Fault
<1>14. ASSUME PassGate(r) PROVE OthersStay(r)
  BY <1>14 DEF PassGate, Closed, Goto
<1>15. ASSUME Connected(r) PROVE OthersStay(r)
  BY <1>15 DEF Connected, Closed, StartSocketTask, Goto, Hold
<1>16. ASSUME NEW kind \in Failures, ConnectFails(r, kind) PROVE OthersStay(r)
  BY <1>16
     DEF ConnectFails, Closed, StartRefresh, MayRefresh, Goto, SendOut, Trouble, Fault
<1>17. ASSUME Refreshed(r) PROVE OthersStay(r)
  BY <1>17 DEF Refreshed, Closed, FullContextAttempt, Goto
<1>18. ASSUME NotRefreshed(r) PROVE OthersStay(r)
  BY <1>18 DEF NotRefreshed, Closed, Goto, SendOut
<1>19. ASSUME HandleItem(r) PROVE OthersStay(r)
  BY <1>19
     DEF HandleItem, Closed, StartRefresh, MayRefresh, FullContextAttempt, Goto, SendOut
<1>20. ASSUME CoordinatorClosed(r) PROVE OthersStay(r)
  BY <1>20 DEF CoordinatorClosed, Closed, Goto
<1>21. ASSUME SendRequest(r) PROVE OthersStay(r)
  BY <1>21 DEF SendRequest
<1>22. ASSUME SendFails(r) PROVE OthersStay(r)
  BY <1>22 DEF SendFails, Listening, SocketFails, Hold, Trouble, Fault
<1>23. ASSUME ReadOutput(r) PROVE OthersStay(r)
  BY <1>23 DEF ReadOutput, Listening
<1>24. ASSUME NEW success \in Successes, ReadCompleted(r, success) PROVE OthersStay(r)
  BY <1>24 DEF ReadCompleted, Listening, Fault
<1>25. ASSUME NEW kind \in Failures, ReadFails(r, kind) PROVE OthersStay(r)
  BY <1>25 DEF ReadFails, Listening, SocketFails, Hold, Trouble, Fault
<1>26. ASSUME ReaderClosed(r) PROVE OthersStay(r)
  BY <1>26 DEF ReaderClosed, Listening, SocketFails, Hold
<1>27. ASSUME Settle(r) PROVE OthersStay(r)
  BY <1>27 DEF Settle, Hold
<1>28. ASSUME Deliver(r) PROVE OthersStay(r)
  BY <1>28 DEF Deliver, Listening
<1>29. QED
  BY <1>1, <1>2, <1>3, <1>4, <1>5, <1>6, <1>7, <1>8, <1>9, <1>10, <1>11, <1>12,
     <1>13, <1>14, <1>15, <1>16, <1>17, <1>18, <1>19, <1>20, <1>21, <1>22, <1>23,
     <1>24, <1>25, <1>26, <1>27, <1>28, KindsAreFailures
     DEF StepOf, Arrival, Handler, Coordinator, SocketTask, Misfortune

\* A step of a request is a step of the registry, or leaves the registry alone.
LEMMA RegistryStep ==
    ASSUME TaskTypes, Consistent, NEW r \in Request, ControlOf(r), StepOf(r)
    PROVE  [Next]_regVars
<1>1. ASSUME NEW owner \in Owner, Begin(r, owner) PROVE [Next]_regVars
  BY <1>1 DEF Begin, Next
<1>2. ASSUME NEW fit \in Fits, Enter(r, fit) PROVE [Next]_regVars
  BY <1>2 DEF Enter, Next
<1>3. ASSUME StartAttempt(r) PROVE [Next]_regVars
  BY <1>3 DEF StartAttempt
<1>4. ASSUME NoCredentials(r) PROVE [Next]_regVars
  BY <1>4 DEF NoCredentials, EndAborted, Next
<1>5. ASSUME Leave(r) PROVE [Next]_regVars
  BY <1>5 DEF Leave, EndAborted, Next
<1>6. ASSUME NoticeLeave(r) PROVE [Next]_regVars
  BY <1>6 DEF NoticeLeave, EndAborted, Next
<1>7. ASSUME FirstOutput(r) PROVE [Next]_regVars
  BY <1>7 DEF FirstOutput
<1>8. ASSUME Complete(r) PROVE [Next]_regVars
  <2>1. stored[r] \in Socket \union {None}
    BY DEF TaskTypes, SocketTypes
  <2>2. QED
    BY <1>8, <2>1 DEF Complete, Next
<1>9. ASSUME Retry(r) PROVE [Next]_regVars
  BY <1>9 DEF Retry, Next
<1>10. ASSUME GiveUp(r) PROVE [Next]_regVars
  BY <1>10 DEF GiveUp, EndAborted, Next
<1>11. ASSUME TakeSocket(r) PROVE [Next]_regVars
  BY <1>11 DEF TakeSocket
<1>12. ASSUME Validated(r) PROVE [Next]_regVars
  BY <1>12 DEF Validated
<1>13. ASSUME NotValidated(r) PROVE [Next]_regVars
  BY <1>13 DEF NotValidated
<1>14. ASSUME PassGate(r) PROVE [Next]_regVars
  BY <1>14 DEF PassGate
<1>15. ASSUME Connected(r) PROVE [Next]_regVars
  BY <1>15 DEF Connected
<1>16. ASSUME NEW kind \in Failures, ConnectFails(r, kind) PROVE [Next]_regVars
  BY <1>16 DEF ConnectFails
<1>17. ASSUME Refreshed(r) PROVE [Next]_regVars
  BY <1>17 DEF Refreshed
<1>18. ASSUME NotRefreshed(r) PROVE [Next]_regVars
  BY <1>18 DEF NotRefreshed
<1>19. ASSUME HandleItem(r) PROVE [Next]_regVars
  BY <1>19 DEF HandleItem
<1>20. ASSUME CoordinatorClosed(r) PROVE [Next]_regVars
  <2>1. CASE UNCHANGED registry
    BY <1>20, <2>1 DEF CoordinatorClosed
  <2>2. CASE registry' = Aborted(registry, res[r].owner, res[r].turn) /\ cpc[r] # "off"
    BY <1>20, <2>2, AtWork DEF CoordinatorClosed, Abort, Next
  <2>3. QED
    BY <1>20, <2>1, <2>2 DEF CoordinatorClosed
<1>21. ASSUME SendRequest(r) PROVE [Next]_regVars
  BY <1>21 DEF SendRequest
<1>22. ASSUME SendFails(r) PROVE [Next]_regVars
  BY <1>22 DEF SendFails
<1>23. ASSUME ReadOutput(r) PROVE [Next]_regVars
  BY <1>23 DEF ReadOutput
<1>24. ASSUME NEW success \in Successes, ReadCompleted(r, success) PROVE [Next]_regVars
  BY <1>24 DEF ReadCompleted
<1>25. ASSUME NEW kind \in Failures, ReadFails(r, kind) PROVE [Next]_regVars
  BY <1>25 DEF ReadFails
<1>26. ASSUME ReaderClosed(r) PROVE [Next]_regVars
  BY <1>26 DEF ReaderClosed
<1>27. ASSUME Settle(r) PROVE [Next]_regVars
  BY <1>27 DEF Settle
<1>28. ASSUME Deliver(r) PROVE [Next]_regVars
  BY <1>28 DEF Deliver
<1>29. QED
  BY <1>1, <1>2, <1>3, <1>4, <1>5, <1>6, <1>7, <1>8, <1>9, <1>10, <1>11, <1>12,
     <1>13, <1>14, <1>15, <1>16, <1>17, <1>18, <1>19, <1>20, <1>21, <1>22, <1>23,
     <1>24, <1>25, <1>26, <1>27, <1>28, KindsAreFailures
     DEF StepOf, Arrival, Handler, Coordinator, SocketTask, Misfortune

-----------------------------------------------------------------------------
(* Which socket belongs to whom: the steps that only take away.             *)

\* A step that only takes away: sockets and the path are as they were, the pool
\* and the registry keep part of what they had, and no request has a claim or a
\* socket it did not have.
Wanes(q) ==
    /\ res'[q] = None <=> res[q] = None
    /\ res'[q].owner = res[q].owner /\ res'[q].turn = res[q].turn
    /\ held'[q] \in {held[q], None} /\ stored'[q] \in {stored[q], None}
    /\ \A s, t : ClaimedBy(q, s, t)' => ClaimedBy(q, s, t)
    /\ IsOver(q) => IsOver(q)'
    /\ hpc'[q] = "over" => hpc[q] = "over" \/ ~Current(q)'
    /\ AttemptOf(q)'

RegistryWanes == \A o \in DOMAIN registry'.owners : Unchanged(o)

\* What is on offer after such a step was on offer before it.
LEMMA HeldWanes ==
    ASSUME RegistryWanes
    PROVE  /\ \A o : Held(registry', o) # None => Held(registry, o) = Held(registry', o)
           /\ \A o, t : IsCurrent(registry', o, t) =>
                  IsCurrent(registry, o, t) /\ Held(registry', o) = Held(registry, o)
BY DEF RegistryWanes, Unchanged, Held, IsCurrent

\* Such a step keeps every socket where it belongs.
LEMMA WaningStep ==
    ASSUME NetTypes, Sockets, Still, RegistryWanes, \A q \in Request : Wanes(q)
    PROVE  Sockets'
<1>1. \A o, s, t : Fresh(o, s, t) => Fresh(o, s, t)'
  <2>1. \A q \in Request : held'[q] \in {held[q], None}
    BY DEF Wanes
  <2>2. \A s : Opened(s) => s # None
    BY SMTT(40), CodexTurnsAssumption, ContinuationAssumption, FS_CardinalityType
       DEF NetTypes, Opened
  <2>3. QED
    BY <2>1, <2>2 DEF Fresh, Opened, Still
<1>2. \A q \in Request : Current(q)' => Current(q)
  BY HeldWanes DEF Current, Wanes
<1>3. Claims'
  <2>1. \A o, s, t : Offered(o, s, t)' => Offered(o, s, t)
    BY HeldWanes DEF Offered
  <2>2. QED
    BY <1>1, <1>2, <2>1 DEF Sockets, Claims, Wanes
<1>4. PoolMatches'
  BY <1>2, HeldWanes
     DEF Sockets, PoolMatches, Wanes, Still, PartOfPool, RegistryWanes, Unchanged
<1>5. RecordedIsOver'
  BY <1>2, HeldWanes DEF Sockets, RecordedIsOver, Wanes
<1>6. Attempts'
  BY DEF Attempts, Wanes
<1>7. SocketsAreExclusive'
  BY DEF Sockets, SocketsAreExclusive, Wanes, Still, PartOfPool
<1>8. ~Dangling'
  <2>1. \A q \in Request :
            Current(q)' => Held(registry', res'[q].owner) = Held(registry, res[q].owner)
    BY HeldWanes DEF Current, Wanes
  <2>2. QED
    BY <1>2, <2>1 DEF Sockets, Dangling, Wanes
<1>9. QED
  BY <1>3, <1>4, <1>5, <1>6, <1>7, <1>8 DEF Sockets

\* A request that is left alone is one of them.
LEMMA SameWanes ==
    ASSUME NEW q \in Request, SameTasks(q), Still, AttemptOf(q)
    PROVE  Wanes(q)
<1>1. Current(q)' => TRUE
  OBVIOUS
<1>2. AttemptOf(q)'
  BY DEF AttemptOf, SameTasks, Still, Opened
<1>3. QED
  BY <1>2 DEF Wanes, SameTasks, ClaimedBy, IsOver

\* An abort only takes away, and the turn is not current any more.
LEMMA AbortEnds ==
    ASSUME Consistent, NEW r \in Request, Abort(r)
    PROVE  RegistryWanes /\ ~IsCurrent(registry', res[r].owner, res[r].turn) /\ res' = res
<1>1. RegistryWanes
  BY AbortEffect DEF RegistryWanes, Consistent
<1>2. QED
  BY <1>1, WithoutIsPart DEF Abort, Aborted, IsCurrent

\* A registry that is left alone is a part of itself.
LEMMA SameRegistryWanes == registry' = registry => RegistryWanes
BY DEF RegistryWanes, Unchanged

\* What these steps do to the request that takes them.
LEMMA WaningActions ==
    ASSUME TaskTypes, NetTypes, Consistent, NEW r \in Request, ControlOf(r),
           AttemptOf(r), Still,
           StepOf(r),
           ~\E owner \in Owner : Begin(r, owner), ~\E fit \in Fits : Enter(r, fit),
           ~Complete(r), ~TakeSocket(r), ~Connected(r), ~Settle(r),
           ~\E success \in Successes : ReadCompleted(r, success)
    PROVE  RegistryWanes /\ Wanes(r)
<1> USE AbortEnds, SameRegistryWanes
    DEF ControlOf, HandlerControl, CoordinatorControl, SocketControl, SameHandler,
        SameCoordinator,
        SameSocket, Current
<1>1. ASSUME StartAttempt(r) PROVE RegistryWanes /\ Wanes(r)
  <2>1. /\ coord'[r].previous = res[r].previous /\ coord'[r].origin = res[r].origin
        /\ cpc[r] = "off" /\ ipc[r] = "off"
    BY <1>1 DEF StartAttempt, TaskTypes, CoordinatorTypes, NoCoordinator
  <2>2. registry' = registry
    BY <1>1 DEF StartAttempt
  <2>3. QED
    BY <1>1, <2>1, <2>2, StartAttemptDoes
       DEF Wanes, AttemptOf, Opened, ClaimedBy, IsOver, Still
<1>2. ASSUME NoCredentials(r) PROVE RegistryWanes /\ Wanes(r)
  BY <1>2, NoCredentialsDoes
     DEF NoCredentials, EndAborted, Wanes, AttemptOf, Opened, ClaimedBy, IsOver,
         Still, Preparing, Holding
<1>3. ASSUME Leave(r) PROVE RegistryWanes /\ Wanes(r)
  BY ZenonT(40), <1>3, LeaveDoes
     DEF Leave, EndAborted, Wanes, AttemptOf, Opened, ClaimedBy, IsOver, Still,
         Preparing, Holding
<1>4. ASSUME NoticeLeave(r) PROVE RegistryWanes /\ Wanes(r)
  BY <1>4, NoticeLeaveDoes
     DEF NoticeLeave, EndAborted, Wanes, AttemptOf, Opened, ClaimedBy, IsOver,
         Still, Preparing, Holding
<1>5. ASSUME FirstOutput(r) PROVE RegistryWanes /\ Wanes(r)
  BY <1>5, FirstOutputDoes
     DEF FirstOutput, Wanes, AttemptOf, Opened, ClaimedBy, IsOver, Still, Preparing,
         Holding
<1>6. ASSUME Retry(r) PROVE RegistryWanes /\ Wanes(r)
  <2>1. /\ registry' = registry /\ coord' = coord /\ stored' = stored /\ cpc' = cpc
        /\ held' = held /\ ipc' = ipc /\ hpc[r] = "waiting" /\ hpc'[r] = "ready"
    BY <1>6, RetryDoes DEF Retry, FullContext
  <2>2. /\ res[r] # None /\ res'[r] # None /\ res'[r].previous = None
        /\ res'[r].owner = res[r].owner /\ res'[r].turn = res[r].turn
    <3>1. res[r] # None /\ res[r] \in Reservation
      BY <2>1, HeldReservation DEF Consistent
    <3>2. CASE res[r].previous = None
      BY <1>6, <3>1, <3>2 DEF Retry
    <3>3. CASE res[r].previous # None
      <4>1. res' = [res EXCEPT ![r].previous = None, ![r].origin = None]
        BY <1>6, <3>3 DEF Retry, FullContext
      <4>2. QED
        BY <1>6, <3>1, <4>1, RetryDoes DEF Consistent, Structured, Reservation
    <3>4. QED
      BY <3>2, <3>3
  <2>3. QED
    BY <2>1, <2>2 DEF Wanes, AttemptOf, Opened, ClaimedBy, IsOver, Still
<1>7. ASSUME GiveUp(r) PROVE RegistryWanes /\ Wanes(r)
  BY <1>7, GiveUpDoes
     DEF GiveUp, EndAborted, Wanes, AttemptOf, Opened, ClaimedBy, IsOver, Still,
         Preparing, Holding
<1>8. ASSUME Validated(r) PROVE RegistryWanes /\ Wanes(r)
  BY <1>8, ValidatedDoes
     DEF Validated, Wanes, AttemptOf, Opened, ClaimedBy, IsOver, Still, Preparing,
         Holding
<1>9. ASSUME NotValidated(r) PROVE RegistryWanes /\ Wanes(r)
  <2>1. /\ registry' = registry /\ coord'[r].previous \in {coord[r].previous, None}
        /\ coord'[r].previous # None => coord'[r] = coord[r]
        /\ cpc'[r] = "take" => coord'[r].previous = None
    <3>1. CASE FullContextAttempt(r)
      BY <1>9, <3>1, FullContextKeeps DEF NotValidated
    <3>2. CASE Goto(r, "off") /\ UNCHANGED coord
      BY <1>9, <3>2 DEF NotValidated, Goto, TaskTypes, CoordinatorTypes
    <3>3. QED
      BY <1>9, <3>1, <3>2 DEF NotValidated
  <2>2. QED
    BY <2>1, <1>9, NotValidatedDoes
       DEF Wanes, AttemptOf, Opened, ClaimedBy, IsOver, Still, Preparing, Holding
<1>10. ASSUME PassGate(r) PROVE RegistryWanes /\ Wanes(r)
  BY <1>10, PassGateDoes
     DEF PassGate, Wanes, AttemptOf, Opened, ClaimedBy, IsOver, Still, Preparing,
         Holding
<1>11. ASSUME NEW kind \in Failures, ConnectFails(r, kind) PROVE RegistryWanes /\ Wanes(r)
  <2>1. /\ registry' = registry
        /\ coord'[r].previous = coord[r].previous /\ coord'[r].origin = coord[r].origin
    <3>1. CASE StartRefresh(r)
      BY <1>11, <3>1, RefreshKeeps DEF ConnectFails
    <3>2. CASE UNCHANGED coord
      BY <1>11, <3>2 DEF ConnectFails
    <3>3. QED
      BY <1>11, <3>1, <3>2 DEF ConnectFails
  <2>2. QED
    BY <2>1, <1>11, ConnectFailsDoes
       DEF Wanes, AttemptOf, Opened, ClaimedBy, IsOver, Still, Preparing, Holding
<1>12. ASSUME Refreshed(r) PROVE RegistryWanes /\ Wanes(r)
  <2>1. registry' = registry /\ coord'[r].previous = None
    BY <1>12, FullContextKeeps DEF Refreshed
  <2>2. QED
    BY <2>1, <1>12, RefreshedDoes
       DEF Wanes, AttemptOf, Opened, ClaimedBy, IsOver, Still, Preparing, Holding
<1>13. ASSUME NotRefreshed(r) PROVE RegistryWanes /\ Wanes(r)
  BY <1>13, NotRefreshedDoes
     DEF NotRefreshed, Wanes, AttemptOf, Opened, ClaimedBy, IsOver, Still,
         Preparing, Holding
<1>14. ASSUME HandleItem(r) PROVE RegistryWanes /\ Wanes(r)
  <2>1. /\ registry' = registry
        /\ coord'[r].previous \in {coord[r].previous, None}
        /\ coord'[r].previous # None => coord'[r].origin = coord[r].origin
        /\ cpc'[r] = "take" => coord'[r].previous = None
        /\ cpc'[r] \notin {"validate", "gate", "connect"}
    <3>1. CASE StartRefresh(r)
      BY <1>14, <3>1, RefreshKeeps DEF HandleItem
    <3>2. CASE FullContextAttempt(r)
      BY <1>14, <3>2, FullContextKeeps DEF HandleItem
    <3>3. CASE /\ coord' = [coord EXCEPT ![r].forwarded = @ \/ Head(items[r]) = "output"]
               /\ Goto(r, "listen") \/ Goto(r, "off")
      BY <1>14, <3>3 DEF HandleItem, Goto, TaskTypes, CoordinatorTypes, CoordState
    <3>4. QED
      BY <1>14, <3>1, <3>2, <3>3 DEF HandleItem
  <2>2. QED
    BY <2>1, <1>14, HandleItemDoes
       DEF Wanes, AttemptOf, Opened, ClaimedBy, IsOver, Still, Preparing, Holding
<1>15. ASSUME CoordinatorClosed(r) PROVE RegistryWanes /\ Wanes(r)
  <2>1. RegistryWanes /\ res' = res /\ ipc' = ipc
    <3>1. UNCHANGED registry \/ registry' = Aborted(registry, res[r].owner, res[r].turn)
      BY <1>15 DEF CoordinatorClosed
    <3>2. QED
      BY <1>15, <3>1, AbortedIsPart
         DEF CoordinatorClosed, RegistryWanes, Unchanged, PartOf
  <2>2. QED
    BY <2>1, <1>15, CoordinatorClosedDoes
       DEF Wanes, AttemptOf, Opened, ClaimedBy, IsOver, Still, Preparing, Holding
<1>16. ASSUME SendRequest(r) PROVE RegistryWanes /\ Wanes(r)
  BY <1>16, SendRequestDoes
     DEF SendRequest, Wanes, AttemptOf, Opened, ClaimedBy, IsOver, Still, Preparing,
         Holding
<1>17. ASSUME SendFails(r) PROVE RegistryWanes /\ Wanes(r)
  BY <1>17, SendFailsDoes
     DEF SendFails, Wanes, AttemptOf, Opened, ClaimedBy, IsOver, Still, Preparing,
         Holding
<1>18. ASSUME ReadOutput(r) PROVE RegistryWanes /\ Wanes(r)
  BY <1>18, ReadOutputDoes
     DEF ReadOutput, Wanes, AttemptOf, Opened, ClaimedBy, IsOver, Still, Preparing,
         Holding
<1>19. ASSUME NEW kind \in Failures, ReadFails(r, kind) PROVE RegistryWanes /\ Wanes(r)
  BY <1>19, ReadFailsDoes
     DEF ReadFails, Wanes, AttemptOf, Opened, ClaimedBy, IsOver, Still, Preparing,
         Holding
<1>20. ASSUME ReaderClosed(r) PROVE RegistryWanes /\ Wanes(r)
  BY <1>20, ReaderClosedDoes
     DEF ReaderClosed, Wanes, AttemptOf, Opened, ClaimedBy, IsOver, Still,
         Preparing, Holding
<1>21. ASSUME Deliver(r) PROVE RegistryWanes /\ Wanes(r)
  BY <1>21, DeliverDoes
     DEF Deliver, Wanes, AttemptOf, Opened, ClaimedBy, IsOver, Still, Preparing,
         Holding
<1>22. QED
  BY <1>1, <1>2, <1>3, <1>4, <1>5, <1>6, <1>7, <1>8, <1>9, <1>10, <1>11, <1>12,
     <1>13, <1>14, <1>15, <1>16, <1>17, <1>18, <1>19, <1>20, <1>21, KindsAreFailures
     DEF StepOf, Arrival, Handler, Coordinator, SocketTask, Misfortune

-----------------------------------------------------------------------------
(* Which socket belongs to whom: the steps that give.                       *)

\* A request that has not been numbered has nothing.
LEMMA BeginStep ==
    ASSUME TaskTypes, NetTypes, Consistent, Sockets, NEW r \in Request, ControlOf(r),
           OthersStay(r),
           NEW owner \in Owner, Begin(r, owner)
    PROVE  Sockets'
<1>1. /\ pool' = pool /\ sockets' = sockets /\ registry' = registry
      /\ held' = held /\ stored' = stored /\ coord' = coord /\ cpc' = cpc /\ ipc' = ipc
      /\ hpc'[r] = "numbered" /\ res[r] = None
      /\ res'[r].previous = None /\ res'[r].turn = nextTurn /\ res'[r].owner = owner
  BY BeginDoes DEF Begin, TakeTurn, Consistent, Structured
<1>2. cpc[r] = "off" /\ ipc[r] = "off" /\ stored[r] = None /\ held[r] = None
  BY <1>1 DEF ControlOf, HandlerControl, CoordinatorControl, SocketControl, Holding
<1>3. \A q \in Request \ {r} :
          res'[q] = res[q] /\ hpc'[q] = hpc[q] /\ (Current(q)' <=> Current(q))
  BY <1>1 DEF OthersStay, SameTasks, Current
<1>4. ~Current(r)'
  <2>1. \A o \in DOMAIN registry.owners : registry.owners[o].turn < nextTurn
    BY DEF Consistent, Numbered
  <2>2. nextTurn \in Nat
    BY DEF Consistent, Structured
  <2>3. QED
    BY <1>1, <2>1, <2>2 DEF Current, IsCurrent
<1>5. \A o, s, t : Fresh(o, s, t)' <=> Fresh(o, s, t)
  BY <1>1 DEF Fresh, Opened
<1>6. Claims'
  <2>1. \A o, s, t : Offered(o, s, t)' <=> Offered(o, s, t)
    BY <1>1 DEF Offered
  <2>2. \A q \in Request \ {r} : \A s, t : ClaimedBy(q, s, t)' <=> ClaimedBy(q, s, t)
    BY <1>1, <1>3 DEF ClaimedBy
  <2>3. QED
    BY <1>3, <1>4, <1>5, <2>1, <2>2 DEF Sockets, Claims
<1>7. PoolMatches' /\ RecordedIsOver'
  BY <1>1, <1>3, <1>4 DEF Sockets, PoolMatches, RecordedIsOver, IsOver
<1>8. Attempts'
  BY <1>1, <1>2, <1>3 DEF Sockets, Attempts, AttemptOf, Opened
<1>9. SocketsAreExclusive'
  BY <1>1, <1>2, <1>3 DEF Sockets, SocketsAreExclusive
<1>10. ~Dangling'
  BY <1>1, <1>3, <1>4 DEF Sockets, Dangling
<1>11. QED
  BY <1>6, <1>7, <1>8, <1>9, <1>10 DEF Sockets

\* A turn that enters takes what its owner offers for itself alone.
LEMMA EnterStep ==
    ASSUME TaskTypes, NetTypes, Consistent, Sockets, NEW r \in Request, ControlOf(r),
           OthersStay(r),
           NEW fit \in Fits, Enter(r, fit)
    PROVE  Sockets'
<1>1. Candidate(r, fit)
  BY DEF Enter
<1>2. /\ pool' = pool /\ sockets' = sockets
      /\ held' = held /\ stored' = stored /\ coord' = coord /\ cpc' = cpc /\ ipc' = ipc
      /\ hpc'[r] = "ready" /\ hpc[r] = "numbered"
  BY EnterDoes DEF Enter
<1>3. /\ res[r] # None /\ ~res[r].entered /\ res'[r] # None
      /\ res'[r].owner = res[r].owner /\ res'[r].turn = res[r].turn
  BY <1>1, OfferedTurn, EnterDoes DEF Consistent
<1>4. res'[r].previous # None =>
          Offered(res[r].owner, res'[r].origin, res'[r].previous) /\ res'[r].origin \in Socket
  <2>1. res[r] \in Reservation /\ res[r].previous = None
    BY <1>3, HeldReservation DEF Consistent, Spent
  <2>2. Held(registry, res[r].owner) \in ContinuationState \union {None}
    BY DEF Consistent, Structured, Held, OwnerState
  <2>3. QED
    BY <1>1, <2>1, <2>2
       DEF Candidate, Continues, Offered, Consistent, Structured, Reservation,
           ContinuationState
<1>5. cpc[r] = "off" /\ ipc[r] = "off" /\ stored[r] = None /\ held[r] = None
  BY <1>2 DEF ControlOf, HandlerControl, CoordinatorControl, SocketControl, Holding
<1>6. \A q \in Request \ {r} : res'[q] = res[q] /\ hpc'[q] = hpc[q]
  BY DEF OthersStay, SameTasks
<1>7. \A o \in DOMAIN registry'.owners :
          \/ o = res[r].owner /\ registry'.owners[o] = Entered(r)
          \/ o # res[r].owner /\ Unchanged(o)
  BY <1>1, CandidateEffect DEF Consistent
<1>8. \A o : Held(registry', o) # None =>
          /\ o # res[r].owner /\ o \in DOMAIN registry.owners
          /\ Held(registry', o) = Held(registry, o)
  BY <1>7 DEF Held, Entered, Unchanged
<1>9. \A q \in Request \ {r} : res[q] # None /\ Current(q)' =>
          /\ Current(q) /\ res[q].owner # res[r].owner
          /\ Held(registry', res[q].owner) = Held(registry, res[q].owner)
  <2> SUFFICES ASSUME NEW q \in Request \ {r}, res[q] # None, Current(q)'
               PROVE  /\ Current(q) /\ res[q].owner # res[r].owner
                      /\ Held(registry', res[q].owner) = Held(registry, res[q].owner)
    OBVIOUS
  <2>1. res[q].turn # res[r].turn
    BY <1>3 DEF Consistent, Numbered
  <2>2. QED
    BY <1>6, <1>7, <2>1 DEF Current, IsCurrent, Entered, Unchanged, Held
<1>10. \A o, s, t : Fresh(o, s, t)' <=> Fresh(o, s, t)
  BY <1>2 DEF Fresh, Opened
<1>11. Claims'
  <2>1. \A o, s, t : Offered(o, s, t)' => Offered(o, s, t)
    BY <1>8 DEF Offered
  <2>2. \A q \in Request \ {r} : \A s, t : ClaimedBy(q, s, t)' <=> ClaimedBy(q, s, t)
    BY <1>2, <1>6 DEF ClaimedBy
  <2>3. \A s, t : ClaimedBy(r, s, t)' => Offered(res[r].owner, s, t)
    BY <1>2, <1>4, <1>5 DEF ClaimedBy
  <2>4. \A o \in Owner : \A s, t : Offered(o, s, t)' => Fresh(o, s, t)'
    BY <1>10, <2>1 DEF Sockets, Claims
  <2>5. \A q \in Request \ {r} : \A s, t :
            (res[q] # None /\ Current(q) /\ ClaimedBy(q, s, t) => Fresh(res[q].owner, s, t))'
    BY <1>6, <1>9, <1>10, <2>2 DEF Sockets, Claims
  <2>6. res[r].owner \in Owner
    BY <1>3, HeldReservation DEF Consistent, Reservation
  <2>7. \A s, t : (ClaimedBy(r, s, t) => Fresh(res[r].owner, s, t))'
    BY <1>3, <1>10, <2>3, <2>6 DEF Sockets, Claims
  <2>8. QED
    BY <2>4, <2>5, <2>7 DEF Claims
<1>12. PoolMatches' /\ RecordedIsOver'
  <2>1. PoolMatches'
    BY <1>2, <1>5, <1>6, <1>8, <1>9 DEF Sockets, PoolMatches
  <2>2. RecordedIsOver'
    BY <1>2, <1>3, <1>6, <1>8, <1>9 DEF Sockets, RecordedIsOver, IsOver
  <2>3. QED
    BY <2>1, <2>2
<1>13. Attempts'
  BY <1>2, <1>4, <1>5, <1>6 DEF Sockets, Attempts, AttemptOf, Opened
<1>14. SocketsAreExclusive'
  BY <1>2, <1>5, <1>6 DEF Sockets, SocketsAreExclusive
<1>15. ~Dangling'
  BY <1>2, <1>6, <1>9 DEF Sockets, Dangling
<1>16. QED
  BY <1>11, <1>12, <1>13, <1>14, <1>15 DEF Sockets

\* What a step leaves of the others' claims.
LEMMA OthersClaim ==
    ASSUME NEW r \in Request, OthersStay(r)
    PROVE  \A q \in Request \ {r} :
               /\ res'[q] = res[q] /\ hpc'[q] = hpc[q] /\ cpc'[q] = cpc[q]
               /\ ipc'[q] = ipc[q]
               /\ held'[q] = held[q] /\ stored'[q] = stored[q] /\ coord'[q] = coord[q]
               /\ IsOver(q)' <=> IsOver(q)
               /\ \A s, t : ClaimedBy(q, s, t)' <=> ClaimedBy(q, s, t)
BY DEF OthersStay, SameTasks, ClaimedBy, IsOver

\* An answer is recorded with the socket it was stored with, by a request that is
\* over and whose tasks have ended.
LEMMA CompleteStep ==
    ASSUME TaskTypes, NetTypes, Consistent, Sockets, NEW r \in Request, ControlOf(r),
           OthersStay(r),
           Complete(r), NEW size \in 1 .. MaxSize, Record(r, stored[r], size)
    PROVE  Sockets'
<1> DEFINE o1 == res[r].owner
<1>1. /\ pool' = pool /\ sockets' = sockets /\ res' = res /\ coord' = coord /\ cpc' = cpc
      /\ held' = held /\ stored' = stored /\ ipc' = ipc
      /\ hpc'[r] = "over" /\ hpc[r] \in {"waiting", "streaming"}
  BY CompleteDoes DEF Complete, Record
<1>2. cpc[r] = "off" /\ ipc[r] = "off" /\ held[r] = None
  <2>1. outs[r] # <<>> /\ Head(outs[r]) = "completed" /\ Queue(outs[r])
    BY DEF Complete, ControlOf, CoordinatorControl
  <2>2. Ended(outs[r])
    BY <2>1, QueueShrinks DEF HasOutput, Ended
  <2>3. QED
    BY <1>1, <2>2 DEF ControlOf, CoordinatorControl, SocketControl, Holding
<1>3. res[r] # None
  BY <1>1 DEF ControlOf, HandlerControl
<1>4. \A o \in DOMAIN registry'.owners :
          \/ Unchanged(o)
          \/ /\ stored[r] # None /\ o = o1 /\ Current(r)
             /\ registry'.owners[o] = Answered(r, stored[r], size)
  BY RecordEffect DEF Consistent, Current
<1>5. Current(r)' => /\ stored[r] # None /\ Current(r)
                     /\ registry'.owners[o1] = Answered(r, stored[r], size)
  <2>1. Current(r)' => /\ stored[r] # None /\ o1 \in DOMAIN registry'.owners
                       /\ registry'.owners[o1] = Answered(r, stored[r], size)
    BY <1>1, RecordEffect DEF Consistent, Current, IsCurrent
  <2>2. Current(r)' => Current(r)
    BY <1>1, <1>4 DEF Current, IsCurrent, Unchanged
  <2>3. QED
    BY <2>1, <2>2
<1>6. \A o : Held(registry', o) # None =>
          \/ o \in DOMAIN registry.owners /\ Held(registry', o) = Held(registry, o)
          \/ /\ stored[r] # None /\ o = o1 /\ Current(r)
             /\ Held(registry', o).socket = stored[r]
             /\ Held(registry', o).response = res[r].turn
  BY <1>4 DEF Held, Unchanged, Answered
<1>7. \A q \in Request \ {r} : res[q] # None /\ Current(q)' =>
          Current(q) /\ Held(registry', res[q].owner) = Held(registry, res[q].owner)
  <2> SUFFICES ASSUME NEW q \in Request \ {r}, res[q] # None, Current(q)'
               PROVE  Current(q) /\ Held(registry', res[q].owner) = Held(registry, res[q].owner)
    OBVIOUS
  <2>1. res[q].turn # res[r].turn
    BY <1>3 DEF Consistent, Numbered
  <2>2. Unchanged(res[q].owner)
    BY <1>1, <1>4, <2>1 DEF Current, IsCurrent, Answered
  <2>3. QED
    BY <1>1, <2>2 DEF Current, IsCurrent, Unchanged, Held
<1>8. \A o, s, t : Fresh(o, s, t)' <=> Fresh(o, s, t)
  BY <1>1 DEF Fresh, Opened
<1>9. stored[r] # None /\ Current(r) => Fresh(o1, stored[r], res[r].turn)
  BY <1>3 DEF Sockets, Claims, ClaimedBy
<1>10. Claims'
  <2>1. \A o \in Owner : \A s, t : Offered(o, s, t)' => Fresh(o, s, t)'
    BY <1>6, <1>8, <1>9 DEF Offered, Sockets, Claims
  <2>2. \A q \in Request \ {r} : \A s, t :
            (res[q] # None /\ Current(q) /\ ClaimedBy(q, s, t) => Fresh(res[q].owner, s, t))'
    BY <1>1, <1>7, <1>8, OthersClaim DEF Sockets, Claims
  <2>3. \A s, t : (Current(r) /\ ClaimedBy(r, s, t) => Fresh(res[r].owner, s, t))'
    BY <1>1, <1>2, <1>5, <1>8, <1>9 DEF ClaimedBy
  <2>4. QED
    BY <2>1, <2>2, <2>3 DEF Claims
<1>11. PoolMatches'
  <2>1. stored[r] # None /\ Current(r) /\ o1 \in DOMAIN pool => pool[o1] = stored[r]
    BY <1>3 DEF Sockets, PoolMatches
  <2>2. \A o \in DOMAIN registry'.owners :
            Held(registry', o) # None /\ o \in DOMAIN pool' => pool'[o] = Held(registry', o).socket
    BY <1>1, <1>6, <2>1 DEF Sockets, PoolMatches
  <2>3. QED
    BY <1>1, <1>5, <1>7, <2>2 DEF Sockets, PoolMatches
<1>12. RecordedIsOver'
  <2>1. IsOver(r)'
    BY <1>1, <1>2 DEF IsOver
  <2>2. QED
    BY <1>1, <1>7, <2>1, OthersClaim DEF Sockets, RecordedIsOver
<1>13. Attempts'
  BY <1>1 DEF Sockets, Attempts, AttemptOf, Opened
<1>14. SocketsAreExclusive'
  BY <1>1 DEF Sockets, SocketsAreExclusive
<1>15. ~Dangling'
  <2>1. Current(r)' => Held(registry', o1) # None
    <3> DEFINE answer == [response |-> res[r].turn, socket |-> stored[r], bytes |-> size,
                          updatedAt |-> now]
    <3>1. stored[r] # None => answer \in ContinuationState
      <4>1. res[r] \in Reservation
        BY <1>3, HeldReservation DEF Consistent
      <4>2. QED
        BY <4>1
           DEF Consistent, Structured, Reservation, ContinuationState, TaskTypes,
               SocketTypes
    <3>2. Current(r)' => stored[r] # None /\ Held(registry', o1) = answer
      BY <1>1, <1>5 DEF Held, Answered, Current, IsCurrent
    <3> HIDE DEF answer
    <3>3. QED
      BY <3>1, <3>2, NoneAssumption
  <2>2. QED
    BY <1>1, <1>7, <2>1, OthersClaim DEF Sockets, Dangling
<1>16. QED
  BY <1>10, <1>11, <1>12, <1>13, <1>14, <1>15 DEF Sockets

\* While a request's tasks work its turn, if it is current, has nothing on offer, and
\* nobody else's turn is its owner's.
LEMMA AloneAtWork ==
    ASSUME Consistent, Sockets, NEW r \in Request, ControlOf(r), Current(r),
           cpc[r] # "off" \/ ipc[r] # "off"
    PROVE  /\ Held(registry, res[r].owner) = None
           /\ \A q \in Request \ {r} :
                  res[q] # None /\ Current(q) => res[q].owner # res[r].owner
<1>1. res[r] # None
  BY AtWork
<1>2. QED
  BY <1>1, OneCurrent DEF Sockets, RecordedIsOver, IsOver

\* Nobody counts on a socket of the owner whose tasks are at work.
LEMMA NobodyCounts ==
    ASSUME Consistent, Sockets, NEW r \in Request, ControlOf(r), Current(r),
           cpc[r] # "off" \/ ipc[r] # "off", NEW x, sockets[x].owner = res[r].owner
    PROVE  /\ \A o \in Owner : \A t : ~Offered(o, x, t)
           /\ \A q \in Request \ {r} : \A t :
                  ~(res[q] # None /\ Current(q) /\ ClaimedBy(q, x, t))
<1>1. \A o \in Owner : \A t : Offered(o, x, t) => o = res[r].owner
  BY DEF Sockets, Claims, Fresh
<1>2. \A o \in Owner : \A t : Offered(o, x, t) => Held(registry, o) # None
  BY DEF Offered
<1>3. \A q \in Request : \A t :
          res[q] # None /\ Current(q) /\ ClaimedBy(q, x, t) => res[q].owner = res[r].owner
  BY DEF Sockets, Claims, Fresh
<1>4. QED
  BY <1>1, <1>2, <1>3, AloneAtWork

\* A current turn takes its owner's socket out of the pool.
LEMMA TakeSocketStep ==
    ASSUME TaskTypes, NetTypes, Consistent, Sockets, NEW r \in Request, ControlOf(r),
           OthersStay(r),
           TakeSocket(r)
    PROVE  Sockets'
<1> DEFINE x == Pooled(r)
<1>1. /\ sockets' = sockets /\ registry' = registry /\ res' = res /\ hpc' = hpc
      /\ ipc' = ipc
      /\ cpc[r] = "take" /\ hpc[r] # "over"
      /\ ipc[r] = "off" /\ held[r] = None /\ stored[r] = None
  BY DEF TakeSocket, Closed, ControlOf, CoordinatorControl, SocketControl, Preparing,
         Holding
<1>2. hpc[r] # "ready" /\ res[r] # None
  BY <1>1, AtWork
<1>3. CASE ~(cpc'[r] = "validate")
  <2>1. Still
    BY PoolShrinks DEF TakeSocket, Still
  <2>2. held'[r] = None /\ stored'[r] = None /\ cpc'[r] \in {"gate", "take"}
    BY <1>1, <1>3, TakeSocketDoes
  <2>3. /\ coord'[r].previous = None
        /\ cpc'[r] = "take" => coord'[r].previous = None
    <3>1. CASE FullContextAttempt(r)
      BY <3>1, FullContextKeeps
    <3>2. CASE /\ x = None /\ (coord[r].previous # None => x = coord[r].origin)
               /\ coord' = [coord EXCEPT ![r].epoch = epoch]
      <4>1. coord[r].previous = None
        BY <3>2, ContinuationAssumption DEF Sockets, Attempts, AttemptOf
      <4>2. QED
        BY <3>2, <4>1 DEF TaskTypes, CoordinatorTypes, CoordState
    <3>3. CASE Goto(r, "validate")
      BY <1>3, <3>3 DEF Goto, TaskTypes, CoordinatorTypes
    <3>4. QED
      BY <3>1, <3>2, <3>3 DEF TakeSocket
  <2>4. Wanes(r)
    BY <1>1, <1>2, <2>1, <2>2, <2>3
       DEF Wanes, ClaimedBy, IsOver, AttemptOf, Opened, Still, Sockets, Attempts
  <2>5. \A q \in Request \ {r} : Wanes(q)
    BY <2>1, SameWanes DEF OthersStay, Sockets, Attempts
  <2>6. QED
    BY <1>1, <2>1, <2>4, <2>5, WaningStep, SameRegistryWanes
<1>4. CASE cpc'[r] = "validate"
  <2>1. /\ x # None /\ (coord[r].previous # None => x = coord[r].origin)
        /\ pool' = ResetPool(r) /\ held' = [held EXCEPT ![r] = x] /\ stored' = stored
        /\ coord' = [coord EXCEPT ![r].epoch = epoch]
    <3>1. ~Goto(r, "gate") /\ ~FullContextAttempt(r)
      BY <1>4, FullContextKeeps DEF Goto, TaskTypes, CoordinatorTypes
    <3>2. QED
      BY <3>1 DEF TakeSocket, Hold
  <2>2. Current(r) /\ res[r].owner \in DOMAIN pool /\ x = pool[res[r].owner]
    BY <2>1 DEF Pooled
  <2>3. pool' = PoolLess(res[r].owner)
    BY <2>1, <2>2 DEF ResetPool
  <2>4. /\ held'[r] = x /\ coord'[r].previous = coord[r].previous
        /\ coord'[r].origin = coord[r].origin
    BY <2>1 DEF TaskTypes, CoordinatorTypes, SocketTypes, CoordState
  <2>5. Opened(x) /\ sockets[x].owner = res[r].owner /\ \A q \in Request : held[q] # x
    BY <2>1, <2>2, PooledSocket DEF Sockets, SocketsAreExclusive
  <2> HIDE DEF x
  <2>6. coord[r].previous # None => sockets[x].last = coord[r].previous
    <3>1. coord[r].previous # None => ClaimedBy(r, x, coord[r].previous)
      BY <1>1, <2>1 DEF ClaimedBy
    <3>2. QED
      BY <1>2, <2>2, <3>1 DEF Sockets, Claims, Fresh
  <2>7. \A q \in Request : Current(q)' <=> Current(q)
    BY <1>1 DEF Current
  <2>8. \A o, s, t : Fresh(o, s, t) /\ s # x => Fresh(o, s, t)'
    BY <1>1, <2>4, OthersClaim DEF Fresh, Opened
  <2>9. Claims'
    <3>1. \A o \in Owner : \A s, t : Offered(o, s, t)' => Fresh(o, s, t)'
      BY <1>1, <1>4, <2>2, <2>5, <2>8, NobodyCounts DEF Offered, Sockets, Claims
    <3>2. \A q \in Request \ {r} : \A s, t :
              (res[q] # None /\ Current(q) /\ ClaimedBy(q, s, t) => Fresh(res[q].owner, s, t))'
      BY <1>1, <2>2, <2>5, <2>7, <2>8, NobodyCounts, OthersClaim DEF Sockets, Claims
    <3>3. \A s, t : ~ClaimedBy(r, s, t)'
      BY <1>1, <1>2, <1>4, <2>1 DEF ClaimedBy
    <3>4. QED
      BY <3>1, <3>2, <3>3 DEF Claims
  <2>10. \A o \in DOMAIN pool' : o \in DOMAIN pool /\ o # res[r].owner /\ pool'[o] = pool[o]
    BY <2>3 DEF PoolLess, Restrict
  <2>11. PoolMatches' /\ RecordedIsOver' /\ ~Dangling'
    <3>1. PoolMatches'
      BY <1>1, <2>1, <2>7, <2>10 DEF Sockets, PoolMatches
    <3>2. RecordedIsOver'
      <4>1. \A q \in Request : IsOver(q) => IsOver(q)'
        BY <1>1, OthersClaim DEF IsOver
      <4>2. QED
        BY <1>1, <2>7, <4>1 DEF Sockets, RecordedIsOver
    <3>3. ~Dangling'
      BY <1>1, <2>7 DEF Sockets, Dangling
    <3>4. QED
      BY <3>1, <3>2, <3>3
  <2>12. Attempts'
    <3>1. AttemptOf(r)'
      BY <1>1, <1>4, <2>1, <2>4, <2>5, <2>6 DEF Sockets, Attempts, AttemptOf, Opened
    <3>2. \A q \in Request \ {r} : AttemptOf(q)'
      BY <1>1, OthersClaim DEF Sockets, Attempts, AttemptOf, Opened
    <3>3. QED
      BY <3>1, <3>2 DEF Attempts
  <2>13. SocketsAreExclusive'
    <3>1. \A o \in DOMAIN pool' : pool'[o] # x /\ sockets[pool'[o]].owner = o
      BY <2>5, <2>10 DEF Sockets, SocketsAreExclusive
    <3>2. QED
      BY <1>1, <2>4, <2>5, <2>10, <3>1, OthersClaim DEF Sockets, SocketsAreExclusive
  <2>14. QED
    BY <2>9, <2>11, <2>12, <2>13 DEF Sockets
<1>5. QED
  BY <1>3, <1>4

\* A socket nobody has heard of is the attempt's own.
LEMMA ConnectedStep ==
    ASSUME TaskTypes, NetTypes, Consistent, Control, Sockets, NEW r \in Request,
           OthersStay(r),
           Connected(r)
    PROVE  Sockets'
<1> USE DEF Control, ControlOf
<1> DEFINE n == Len(sockets) + 1
<1>1. /\ registry' = registry /\ res' = res /\ hpc' = hpc /\ pool' = pool
      /\ stored' = stored /\ coord' = coord
      /\ cpc[r] = "connect" /\ cpc'[r] = "listen" /\ ipc'[r] = "send"
      /\ ipc[r] = "off" /\ held[r] = None /\ held'[r] = n /\ hpc[r] # "over"
  BY ConnectedDoes
     DEF Connected, Hold, Closed, CoordinatorControl, SocketControl, Preparing, Holding,
         SameHandler, TaskTypes, SocketTypes, StartSocketTask
<1>2. /\ Len(sockets) \in Nat /\ Len(sockets') = n
      /\ \A s \in 1 .. Len(sockets) : sockets'[s] = sockets[s]
      /\ sockets'[n].owner = res[r].owner
  BY DEF Connected, NetTypes
<1>3. /\ \A q \in Request : held[q] # None => held[q] \in 1 .. Len(sockets)
      /\ \A o \in DOMAIN pool : pool[o] \in 1 .. Len(sockets)
  BY DEF Sockets, Attempts, AttemptOf, Opened, NetTypes
<1> HIDE DEF n
<1>4. n \notin 1 .. Len(sockets) /\ n \in 1 .. n
  BY <1>2 DEF n
<1>5. \A s : Opened(s) => Opened(s)' /\ s # n /\ sockets'[s] = sockets[s]
  BY <1>2, <1>4 DEF Opened, n
<1>6. \A o, s, t : Fresh(o, s, t) => Fresh(o, s, t)'
  BY <1>1, <1>5, OthersClaim DEF Fresh
<1>7. \A q \in Request : Current(q)' <=> Current(q)
  BY <1>1 DEF Current
<1>8. \A q \in Request : /\ IsOver(q) => IsOver(q)'
                         /\ \A s, t : ClaimedBy(q, s, t)' => ClaimedBy(q, s, t)
  BY <1>1, OthersClaim DEF IsOver, ClaimedBy
<1>9. Claims'
  BY <1>1, <1>6, <1>7, <1>8 DEF Sockets, Claims, Offered
<1>10. PoolMatches' /\ ~Dangling'
  BY <1>1, <1>7 DEF Sockets, PoolMatches, Dangling
<1>11. RecordedIsOver'
  BY <1>1, <1>7, <1>8 DEF Sockets, RecordedIsOver
<1>12. Attempts'
  <2>1. AttemptOf(r)'
    <3>1. coord[r].previous = None
      BY <1>1 DEF Sockets, Attempts, AttemptOf
    <3>2. Opened(held[r])'
      BY <1>1, <1>2, <1>4 DEF Opened
    <3>3. QED
      BY <1>1, <1>5, <3>1, <3>2 DEF Sockets, Attempts, AttemptOf
  <2>2. \A q \in Request \ {r} : AttemptOf(q)'
    <3> SUFFICES ASSUME NEW q \in Request \ {r} PROVE AttemptOf(q)'
      OBVIOUS
    <3>1. cpc[q] = "validate" \/ ipc[q] \in {"send", "settle"} =>
              sockets'[held[q]] = sockets[held[q]]
      <4>1. cpc[q] = "validate" \/ ipc[q] \in {"send", "settle"} => held[q] # None
        BY DEF SocketControl, Holding
      <4>2. QED
        BY <1>2, <1>3, <4>1
    <3>2. QED
      BY <1>1, <1>5, <3>1, OthersClaim DEF Sockets, Attempts, AttemptOf
  <2>3. QED
    BY <2>1, <2>2 DEF Attempts
<1>13. SocketsAreExclusive'
  BY <1>1, <1>2, <1>3, <1>4, OthersClaim DEF Sockets, SocketsAreExclusive
<1>14. QED
  BY <1>9, <1>10, <1>11, <1>12, <1>13 DEF Sockets

\* An answer is noted on the socket its attempt holds, which nobody counts on.
LEMMA ReadCompletedStep ==
    ASSUME TaskTypes, NetTypes, Consistent, Control, Sockets, NEW r \in Request,
           OthersStay(r),
           NEW success \in Successes, ReadCompleted(r, success)
    PROVE  Sockets'
<1> USE DEF ControlOf
<1>1. /\ registry' = registry /\ res' = res /\ hpc' = hpc /\ pool' = pool /\ cpc' = cpc
      /\ stored' = stored /\ coord' = coord /\ held' = held
      /\ ipc[r] \in {"read", "more"} /\ ipc'[r] = "settle"
  BY ReadCompletedDoes DEF ReadCompleted
<1>2. held[r] # None /\ held[r] \in 1 .. Len(sockets)
  <2>1. held[r] # None
    BY <1>1 DEF Control, SocketControl, Holding
  <2>2. QED
    BY <2>1 DEF Sockets, Attempts, AttemptOf, Opened
<1>3. /\ Len(sockets') = Len(sockets)
      /\ \A s \in 1 .. Len(sockets) : sockets'[s].owner = sockets[s].owner
      /\ \A s \in 1 .. Len(sockets) : s # held[r] => sockets'[s] = sockets[s]
      /\ sockets'[held[r]].last = res[r].turn
  <2> DEFINE was == sockets[held[r]]
             new == [was EXCEPT !.last = res[r].turn]
  <2>1. was \in SocketState /\ sockets \in Seq(SocketState)
    BY <1>2 DEF NetTypes
  <2>2. new.owner = was.owner /\ new.last = res[r].turn
    <3> HIDE DEF was
    <3>1. QED
      BY <2>1 DEF SocketState
  <2>3. sockets' = [sockets EXCEPT ![held[r]] = new]
    BY <1>2, <2>1 DEF ReadCompleted
  <2> HIDE DEF new
  <2>4. QED
    BY <1>2, <2>1, <2>2, <2>3
<1>4. \A o, s, t : Fresh(o, s, t) => Fresh(o, s, t)'
  <2> SUFFICES ASSUME NEW o, NEW s, NEW t, Fresh(o, s, t) PROVE Fresh(o, s, t)'
    OBVIOUS
  <2>1. s # held[r] /\ s \in 1 .. Len(sockets)
    BY DEF Fresh, Opened
  <2>2. sockets'[s] = sockets[s]
    BY <1>3, <2>1
  <2>3. QED
    BY <1>1, <1>3, <2>1, <2>2 DEF Fresh, Opened
<1>5. \A q \in Request : Current(q)' <=> Current(q)
  BY <1>1 DEF Current
<1>6. \A q \in Request : /\ IsOver(q) => IsOver(q)'
                         /\ \A s, t : ClaimedBy(q, s, t)' => ClaimedBy(q, s, t)
  BY <1>1, OthersClaim DEF IsOver, ClaimedBy
<1>7. Claims'
  BY <1>1, <1>4, <1>5, <1>6 DEF Sockets, Claims, Offered
<1>8. PoolMatches' /\ ~Dangling'
  BY <1>1, <1>5 DEF Sockets, PoolMatches, Dangling
<1>9. RecordedIsOver'
  BY <1>1, <1>5, <1>6 DEF Sockets, RecordedIsOver
<1>10. Attempts'
  <2>1. AttemptOf(r)'
    <3>1. cpc[r] # "validate"
      BY <1>1 DEF Control, CoordinatorControl, Preparing
    <3>2. QED
      BY <1>1, <1>3, <3>1 DEF Sockets, Attempts, AttemptOf, Opened
  <2>2. \A q \in Request \ {r} : AttemptOf(q)'
    <3> SUFFICES ASSUME NEW q \in Request \ {r} PROVE AttemptOf(q)'
      OBVIOUS
    <3>1. cpc[q] = "validate" \/ ipc[q] \in {"send", "settle"} =>
              sockets'[held[q]] = sockets[held[q]]
      <4>1. cpc[q] = "validate" \/ ipc[q] \in {"send", "settle"} => held[q] # None
        BY DEF Control, SocketControl, Holding
      <4>2. held[q] # None => held[q] \in 1 .. Len(sockets)
        BY DEF Sockets, Attempts, AttemptOf, Opened
      <4>3. held[q] # held[r]
        BY <1>2 DEF Sockets, SocketsAreExclusive
      <4>4. QED
        BY <1>3, <4>1, <4>2, <4>3
    <3>2. QED
      BY <1>1, <1>3, <3>1, OthersClaim DEF Sockets, Attempts, AttemptOf, Opened
  <2>3. QED
    BY <2>1, <2>2 DEF Attempts
<1>11. SocketsAreExclusive'
  <2>1. \A q \in Request : held[q] # None => held[q] \in 1 .. Len(sockets)
    BY DEF Sockets, Attempts, AttemptOf, Opened
  <2>2. \A o \in DOMAIN pool : pool[o] \in 1 .. Len(sockets)
    BY DEF NetTypes
  <2>3. /\ \A q \in Request : held[q] # None => sockets'[held[q]].owner = sockets[held[q]].owner
        /\ \A o \in DOMAIN pool : sockets'[pool[o]].owner = sockets[pool[o]].owner
    BY <1>3, <2>1, <2>2
  <2>4. QED
    BY <1>1, <2>3 DEF Sockets, SocketsAreExclusive
<1>12. QED
  BY <1>7, <1>8, <1>9, <1>10, <1>11 DEF Sockets

\* The socket of a turn that has answered goes back where nothing else is, if the
\* turn is still its owner's.
LEMMA SettleStep ==
    ASSUME TaskTypes, NetTypes, Consistent, Sockets, NEW r \in Request, ControlOf(r),
           OthersStay(r),
           Settle(r)
    PROVE  Sockets'
<1> DEFINE x == held[r]
           o1 == res[r].owner
<1>1. /\ registry' = registry /\ res' = res /\ hpc' = hpc /\ cpc' = cpc
      /\ sockets' = sockets
      /\ coord' = coord /\ epoch' = epoch
      /\ ipc[r] = "settle" /\ ipc'[r] = "deliver" /\ held'[r] = None
      /\ pool' \in PoolAfterTurn(r, x)
      /\ stored'[r] = IF o1 \in DOMAIN pool' /\ pool'[o1] = x THEN x ELSE None
  BY DEF Settle, Hold, TaskTypes, SocketTypes
<1>2. x # None /\ stored[r] = None /\ cpc[r] \notin Preparing
  BY <1>1 DEF ControlOf, SocketControl, CoordinatorControl, Holding
<1>3. res[r] # None /\ hpc[r] # "ready"
  BY <1>1, AtWork
<1>4. /\ sockets[x].owner = o1 /\ sockets[x].last = res[r].turn /\ Opened(x)
      /\ \A q \in Request \ {r} : held[q] # x
      /\ \A o \in DOMAIN pool : pool[o] # x
  BY <1>1, <1>2 DEF Sockets, SocketsAreExclusive, Attempts, AttemptOf
<1> HIDE DEF x
<1>5. CASE PartOfPool(pool')
  <2>1. Still
    BY <1>1, <1>5 DEF Still
  <2>2. stored'[r] = None
    BY <1>1, <1>4, <1>5 DEF PartOfPool
  <2>3. Wanes(r)
    BY <1>1, <1>2, <1>3, <2>1, <2>2
       DEF Wanes, ClaimedBy, IsOver, AttemptOf, Opened, Still, Sockets, Attempts,
           Preparing
  <2>4. \A q \in Request \ {r} : Wanes(q)
    BY <2>1, SameWanes DEF OthersStay, Sockets, Attempts
  <2>5. QED
    BY <1>1, <2>1, <2>3, <2>4, WaningStep, SameRegistryWanes
<1>6. CASE /\ Current(r) /\ o1 \in DOMAIN pool' /\ pool'[o1] = x
           /\ \A o \in DOMAIN pool' \ {o1} : o \in DOMAIN pool /\ pool'[o] = pool[o]
  <2>1. stored'[r] = x
    BY <1>1, <1>6
  <2>2. \A q \in Request : Current(q)' <=> Current(q)
    BY <1>1 DEF Current
  <2>3. /\ Held(registry, o1) = None
        /\ \A q \in Request \ {r} : res[q] # None /\ Current(q) => res[q].owner # o1
    BY <1>1, <1>6, AloneAtWork
  <2>4. \A q \in Request : held'[q] \in {held[q], None} /\ held'[q] # x
    BY <1>1, <1>2, <1>4, OthersClaim
  <2>5. \A o, s, t : Fresh(o, s, t) => Fresh(o, s, t)'
    <3>1. \A s : Opened(s) => s # None
      BY SMTT(40), CodexTurnsAssumption, ContinuationAssumption, FS_CardinalityType
         DEF NetTypes, Opened
    <3>2. QED
      BY <1>1, <2>4, <3>1 DEF Fresh, Opened
  <2>6. \A s : s = x => Fresh(res[r].owner, s, res[r].turn)'
    BY <1>1, <1>4, <2>4 DEF Fresh, Opened
  <2>7. Claims'
    <3>1. \A s, t : (ClaimedBy(r, s, t) => Fresh(res[r].owner, s, t))'
      BY <1>1, <1>2, <1>3, <2>1, <2>6 DEF ClaimedBy, Preparing
    <3>2. \A q \in Request \ {r} : \A s, t :
              (res[q] # None /\ Current(q) /\ ClaimedBy(q, s, t) => Fresh(res[q].owner, s, t))'
      BY <1>1, <2>2, <2>5, OthersClaim DEF Sockets, Claims
    <3>3. \A o \in Owner : \A s, t : Offered(o, s, t)' => Fresh(o, s, t)'
      BY <1>1, <2>5 DEF Sockets, Claims, Offered
    <3>4. QED
      BY <3>1, <3>2, <3>3 DEF Claims
  <2>8. PoolMatches'
    <3>1. \A o \in DOMAIN registry.owners :
              Held(registry, o) # None /\ o \in DOMAIN pool' => pool'[o] = Held(registry, o).socket
      BY <1>6, <2>3 DEF Sockets, PoolMatches
    <3>2. \A q \in Request \ {r} :
              res[q] # None /\ Current(q) /\ stored[q] # None /\ res[q].owner \in DOMAIN pool' =>
                  pool'[res[q].owner] = stored[q]
      BY <1>6, <2>3 DEF Sockets, PoolMatches
    <3>3. QED
      BY <1>1, <1>6, <2>1, <2>2, <3>1, <3>2, OthersClaim DEF PoolMatches
  <2>9. RecordedIsOver' /\ ~Dangling'
    <3>1. \A q \in Request : IsOver(q) => IsOver(q)'
      BY <1>1, OthersClaim DEF IsOver
    <3>2. QED
      BY <1>1, <2>2, <3>1 DEF Sockets, RecordedIsOver, Dangling
  <2>10. Attempts'
    <3>1. AttemptOf(r)'
      BY <1>1, <1>2, <1>4, <2>1 DEF Sockets, Attempts, AttemptOf, Opened, Preparing
    <3>2. \A q \in Request \ {r} : AttemptOf(q)'
      BY <1>1, OthersClaim DEF Sockets, Attempts, AttemptOf, Opened
    <3>3. QED
      BY <3>1, <3>2 DEF Attempts
  <2>11. SocketsAreExclusive'
    <3>1. \A o \in DOMAIN pool' : /\ sockets[pool'[o]].owner = o
                                  /\ \A q \in Request \ {r} : held[q] # None => pool'[o] # held[q]
      BY <1>4, <1>6 DEF Sockets, SocketsAreExclusive
    <3>2. QED
      BY <1>1, <3>1, OthersClaim DEF Sockets, SocketsAreExclusive
  <2>12. QED
    BY <2>7, <2>8, <2>9, <2>10, <2>11 DEF Sockets
<1>7. QED
  BY <1>1, <1>5, <1>6, PoolGrows

\* Control is the request's own affair.
LEMMA ControlKept ==
    ASSUME NEW q \in Request, SameTasks(q), ControlOf(q)
    PROVE  ControlOf(q)'
BY DEF SameTasks, ControlOf, HandlerControl, CoordinatorControl, SocketControl

\* Whatever step a request takes, every socket stays with its conversation.
LEMMA SocketsStep ==
    ASSUME TaskTypes, NetTypes, Consistent, Control, Sockets, NEW r \in Request,
           OthersStay(r),
           StepOf(r)
    PROVE  Sockets'
<1>1. ControlOf(r)
  BY DEF Control
<1>2. CASE \E owner \in Owner : Begin(r, owner)
  BY <1>1, <1>2, BeginStep
<1>3. CASE \E fit \in Fits : Enter(r, fit)
  BY <1>1, <1>3, EnterStep
<1>4. CASE TakeSocket(r)
  BY <1>1, <1>4, TakeSocketStep
<1>5. CASE Connected(r)
  BY <1>5, ConnectedStep
<1>6. CASE Settle(r)
  BY <1>1, <1>6, SettleStep
<1>7. CASE \E success \in Successes : ReadCompleted(r, success)
  BY <1>7, ReadCompletedStep
<1>8. CASE Still /\ RegistryWanes /\ Wanes(r)
  <2>1. \A q \in Request \ {r} : Wanes(q)
    BY <1>8, SameWanes DEF OthersStay, Sockets, Attempts
  <2>2. QED
    BY <1>8, <2>1, WaningStep
<1>9. CASE Complete(r)
  <2>1. CASE \E size \in 1 .. MaxSize : Record(r, stored[r], size)
    BY <1>1, <1>9, <2>1, CompleteStep
  <2>2. CASE Abort(r)
    <3>1. Still
      BY <1>9, PoolShrinks DEF Complete, Still
    <3>2. /\ RegistryWanes /\ ~Current(r)' /\ res' = res
      BY <2>2, AbortEnds DEF Current
    <3>3. Wanes(r)
      BY <1>9, <3>1, <3>2, CompleteDoes
         DEF Complete, SameSocket, SameCoordinator, Wanes, AttemptOf, Opened, ClaimedBy,
             IsOver,
             Still, Sockets, Attempts
    <3>4. QED
      BY <1>8, <3>1, <3>2, <3>3
  <2>3. QED
    BY <1>9, <2>1, <2>2 DEF Complete
<1>10. QED
  BY <1>1, <1>2, <1>3, <1>4, <1>5, <1>6, <1>7, <1>8, <1>9, StillSteps, WaningActions
     DEF Sockets, Attempts

-----------------------------------------------------------------------------
(* The inductive invariant and the theorems.                                *)

TurnsInv == TaskTypes /\ NetTypes /\ Control /\ Consistent /\ InOrder /\ Sockets

\* The invariant holds at the start.
LEMMA TurnsInvInit ==
    TurnsInit => TurnsInv
<1> SUFFICES ASSUME TurnsInit PROVE TurnsInv
  OBVIOUS
<1>1. Consistent /\ InOrder
  BY ConsistentInit, InOrderInit DEF TurnsInit
<1>2. TaskTypes
  <2>1. NoCoordinator \in CoordState
    BY DEF NoCoordinator, CoordState
  <2>2. QED
    BY <2>1, CodexTurnsAssumption
       DEF TurnsInit, TaskTypes, HandlerTypes, CoordinatorTypes, SocketTypes,
           ChannelTypes
<1>3. NetTypes
  BY CodexTurnsAssumption, FS_CardinalityType DEF TurnsInit, NetTypes, NoCoordinator
<1>4. Control
  BY QueueEmpty
     DEF TurnsInit, Init, Control, ControlOf, HandlerControl, CoordinatorControl,
         SocketControl,
         Preparing, Holding
<1>5. Sockets
  <2>1. registry.owners = <<>> /\ pool = <<>> /\ \A r \in Request : res[r] = None
    BY DEF TurnsInit, Init
  <2>2. DOMAIN registry.owners = {} /\ DOMAIN pool = {}
    BY <2>1
  <2>3. Claims /\ PoolMatches /\ RecordedIsOver /\ ~Dangling
    BY <2>1, <2>2 DEF Claims, Offered, Held, PoolMatches, RecordedIsOver, Dangling
  <2>4. \A r \in Request : /\ cpc[r] = "off" /\ ipc[r] = "off" /\ held[r] = None
                           /\ stored[r] = None /\ coord[r].previous = None
    BY DEF TurnsInit, NoCoordinator
  <2>5. Attempts /\ SocketsAreExclusive
    BY <2>1, <2>2, <2>4 DEF Attempts, AttemptOf, SocketsAreExclusive
  <2>6. QED
    BY <2>3, <2>5 DEF Sockets
<1>6. QED
  BY <1>1, <1>2, <1>3, <1>4, <1>5 DEF TurnsInv

\* With nothing changed but the path and the count of faults.
LEMMA PathStep ==
    ASSUME TurnsInv, UNCHANGED <<regVars, pool, sockets, handlerVars, coordVars,
           socketVars, items, outs>>,
           epoch' \in Nat, epoch <= epoch', faults' \in 0 .. MaxFaults, epoch' <= faults'
    PROVE  TurnsInv'
<1>1. Consistent' /\ InOrder'
  BY ConsistentStep, InOrderStep DEF TurnsInv, Consistent
<1>2. TaskTypes'
  BY DEF TurnsInv, TaskTypes, HandlerTypes, CoordinatorTypes, SocketTypes, ChannelTypes
<1>3. NetTypes'
  <2>1. \A s \in 1 .. Len(sockets) : sockets[s].epoch \in Nat
    <3>1. \A s \in 1 .. Len(sockets) : sockets[s] \in SocketState
      BY DEF TurnsInv, NetTypes
    <3>2. QED
      BY <3>1 DEF SocketState
  <2>2. \A r \in Request : coord[r].epoch \in Nat
    BY DEF TurnsInv, TaskTypes, CoordinatorTypes, CoordState
  <2>3. QED
    BY <2>1, <2>2 DEF TurnsInv, NetTypes
<1>4. \A q \in Request : SameTasks(q)
  BY DEF SameTasks
<1>5. Control'
  BY <1>4, ControlKept DEF TurnsInv, Control
<1>6. Sockets'
  <2>1. /\ \A r \in Request : (Current(r)' <=> Current(r)) /\ (IsOver(r)' <=> IsOver(r))
        /\ \A o, s, t : Fresh(o, s, t)' <=> Fresh(o, s, t)
        /\ \A o, s, t : Offered(o, s, t)' <=> Offered(o, s, t)
        /\ \A r \in Request : \A s, t : ClaimedBy(r, s, t)' <=> ClaimedBy(r, s, t)
    BY DEF Current, IsOver, Fresh, Opened, Offered, ClaimedBy
  <2>2. Claims' /\ PoolMatches' /\ RecordedIsOver' /\ ~Dangling'
    BY <2>1 DEF TurnsInv, Sockets, Claims, PoolMatches, RecordedIsOver, Dangling
  <2>3. Attempts' /\ SocketsAreExclusive'
    BY DEF TurnsInv, Sockets, Attempts, AttemptOf, Opened, SocketsAreExclusive
  <2>4. QED
    BY <2>2, <2>3 DEF Sockets
<1>7. QED
  BY <1>1, <1>2, <1>3, <1>5, <1>6 DEF TurnsInv

\* Every step keeps the invariant.
LEMMA TurnsInvStep ==
    TurnsInv /\ [TurnsNext]_vars => TurnsInv'
<1> SUFFICES ASSUME TurnsInv, [TurnsNext]_vars PROVE TurnsInv'
  OBVIOUS
<1>1. ASSUME NEW r \in Request, StepOf(r) PROVE TurnsInv'
  <2>1. /\ TaskTypes /\ NetTypes /\ Control /\ Consistent /\ InOrder /\ Sockets
        /\ ControlOf(r) /\ Structured
    BY DEF TurnsInv, Control, Consistent
  <2>2. OthersStay(r)
    BY <1>1, <2>1, OthersKeep
  <2>3. Consistent' /\ InOrder'
    BY <1>1, <2>1, RegistryStep, ConsistentStep, InOrderStep
  <2>4. TaskTypes'
    BY <1>1, <2>1, TasksTyped
  <2>5. NetTypes'
    BY <1>1, <2>1, <2>2, NetTypesStep
       DEF OthersStay, SameTasks, Sockets, Attempts, AttemptOf
  <2>6. Control'
    <3>1. ControlOf(r)'
      BY <1>1, <2>1, ControlStep
    <3>2. \A q \in Request \ {r} : ControlOf(q)'
      BY <2>1, <2>2, ControlKept DEF OthersStay, Control
    <3>3. QED
      BY <3>1, <3>2 DEF Control
  <2>7. Sockets'
    BY <1>1, <2>1, <2>2, SocketsStep
  <2>8. QED
    BY <2>3, <2>4, <2>5, <2>6, <2>7 DEF TurnsInv
<1>2. CASE NetworkChanges
  <2>1. /\ epoch' \in Nat /\ epoch <= epoch' /\ faults' \in 0 .. MaxFaults
        /\ epoch' <= faults'
    BY <1>2, CodexTurnsAssumption DEF NetworkChanges, Fault, TurnsInv, NetTypes
  <2>2. QED
    BY <1>2, <2>1, PathStep DEF NetworkChanges
<1>3. CASE UNCHANGED vars
  BY <1>3, PathStep DEF vars, TurnsInv, NetTypes
<1>4. QED
  BY <1>1, <1>2, <1>3 DEF TurnsNext, StepOf

\* The invariant holds throughout.
LEMMA TurnsInvariant ==
    Spec => []TurnsInv
BY TurnsInvInit, TurnsInvStep, PTL DEF Spec

\* Nothing more is sent for a request that has been committed to its answer.
NoMoreSent(r) ==
    /\ hpc'[r] \in {"streaming", "over"}
    /\ ~(ipc[r] = "off" /\ ipc'[r] = "send")

\* No step of a committed request sends anything for it.
LEMMA CommittedStep ==
    ASSUME TaskTypes, NEW r \in Request, ControlOf(r), StepOf(r), hpc[r] \in
           {"streaming", "over"}
    PROVE  NoMoreSent(r)
<1> USE DEF TaskTypes, HandlerTypes, SocketTypes, NoMoreSent
<1>1. ASSUME NEW owner \in Owner, Begin(r, owner) PROVE NoMoreSent(r)
  BY <1>1 DEF Begin
<1>2. ASSUME NEW fit \in Fits, Enter(r, fit) PROVE NoMoreSent(r)
  BY <1>2 DEF Enter
<1>3. ASSUME StartAttempt(r) PROVE NoMoreSent(r)
  BY <1>3 DEF StartAttempt
<1>4. ASSUME NoCredentials(r) PROVE NoMoreSent(r)
  BY <1>4 DEF NoCredentials, EndAborted
<1>5. ASSUME Leave(r) PROVE NoMoreSent(r)
  BY <1>5 DEF Leave, EndAborted
<1>6. ASSUME NoticeLeave(r) PROVE NoMoreSent(r)
  BY <1>6 DEF NoticeLeave, EndAborted
<1>7. ASSUME FirstOutput(r) PROVE NoMoreSent(r)
  BY <1>7 DEF FirstOutput
<1>8. ASSUME Complete(r) PROVE NoMoreSent(r)
  BY <1>8 DEF Complete
<1>9. ASSUME Retry(r) PROVE NoMoreSent(r)
  BY <1>9 DEF Retry, MayRetry
<1>10. ASSUME GiveUp(r) PROVE NoMoreSent(r)
  BY <1>10 DEF GiveUp, EndAborted
<1>11. ASSUME TakeSocket(r) PROVE NoMoreSent(r)
  BY <1>11 DEF TakeSocket
<1>12. ASSUME Validated(r) PROVE NoMoreSent(r)
  BY <1>12
     DEF Validated, Closed, ControlOf, HandlerControl, CoordinatorControl, Preparing
<1>13. ASSUME NotValidated(r) PROVE NoMoreSent(r)
  BY <1>13 DEF NotValidated
<1>14. ASSUME PassGate(r) PROVE NoMoreSent(r)
  BY <1>14 DEF PassGate
<1>15. ASSUME Connected(r) PROVE NoMoreSent(r)
  BY <1>15
     DEF Connected, Closed, ControlOf, HandlerControl, CoordinatorControl, Preparing
<1>16. ASSUME NEW kind \in Failures, ConnectFails(r, kind) PROVE NoMoreSent(r)
  BY <1>16 DEF ConnectFails
<1>17. ASSUME Refreshed(r) PROVE NoMoreSent(r)
  BY <1>17 DEF Refreshed
<1>18. ASSUME NotRefreshed(r) PROVE NoMoreSent(r)
  BY <1>18 DEF NotRefreshed
<1>19. ASSUME HandleItem(r) PROVE NoMoreSent(r)
  BY <1>19 DEF HandleItem
<1>20. ASSUME CoordinatorClosed(r) PROVE NoMoreSent(r)
  BY <1>20 DEF CoordinatorClosed
<1>21. ASSUME SendRequest(r) PROVE NoMoreSent(r)
  BY <1>21 DEF SendRequest
<1>22. ASSUME SendFails(r) PROVE NoMoreSent(r)
  BY <1>22 DEF SendFails, SocketFails
<1>23. ASSUME ReadOutput(r) PROVE NoMoreSent(r)
  BY <1>23 DEF ReadOutput
<1>24. ASSUME NEW success \in Successes, ReadCompleted(r, success) PROVE NoMoreSent(r)
  BY <1>24 DEF ReadCompleted
<1>25. ASSUME NEW kind \in Failures, ReadFails(r, kind) PROVE NoMoreSent(r)
  BY <1>25 DEF ReadFails, SocketFails
<1>26. ASSUME ReaderClosed(r) PROVE NoMoreSent(r)
  BY <1>26 DEF ReaderClosed, SocketFails
<1>27. ASSUME Settle(r) PROVE NoMoreSent(r)
  BY <1>27 DEF Settle
<1>28. ASSUME Deliver(r) PROVE NoMoreSent(r)
  BY <1>28 DEF Deliver
<1>29. QED
  BY <1>1, <1>2, <1>3, <1>4, <1>5, <1>6, <1>7, <1>8, <1>9, <1>10, <1>11, <1>12,
     <1>13, <1>14, <1>15, <1>16, <1>17, <1>18, <1>19, <1>20, <1>21, <1>22, <1>23,
     <1>24, <1>25, <1>26, <1>27, <1>28, KindsAreFailures
     DEF StepOf, Arrival, Handler, Coordinator, SocketTask, Misfortune

\* A channel holds two items at most.
LEMMA OneOrTwo ==
    ASSUME NEW s, Queue(s)
    PROVE  Len(s) <= 2
<1>1. CASE s = <<>> \/ s = <<"output">>
  BY <1>1
<1>2. ASSUME NEW t \in Terminal, s = <<t>> PROVE Len(s) <= 2
  BY <1>2
<1>3. ASSUME NEW t \in Terminal, s = <<"output", t>> PROVE Len(s) <= 2
  BY <1>3
<1>4. QED
  BY <1>1, <1>2, <1>3 DEF Queue

\* The invariant implies the types the runs check.
LEMMA TurnsTyped ==
    TurnsInv => TurnsTypeOK
<1> SUFFICES ASSUME TurnsInv PROVE TurnsTypeOK
  OBVIOUS
<1>1. TypeOK
  BY CounterIsNatural
     DEF TurnsInv, Consistent, Structured, InOrder, Accounted, Counted, TypeOK
<1>2. /\ DOMAIN pool \subseteq Owner /\ \A o \in DOMAIN pool : pool[o] \in 1 .. Len(sockets)
      /\ Len(sockets) <= Cardinality(Socket)
      /\ epoch \in 0 .. MaxFaults /\ faults \in 0 .. MaxFaults
  BY CodexTurnsAssumption DEF TurnsInv, NetTypes
<1>3. \A s \in 1 .. Len(sockets) :
          sockets[s] \in [owner: Owner, epoch: 0 .. epoch, last: Turn \union {None}]
  <2>1. \A s \in 1 .. Len(sockets) : sockets[s] \in SocketState /\ sockets[s].epoch <= epoch
    BY DEF TurnsInv, NetTypes
  <2>2. QED
    BY <1>2, <2>1 DEF SocketState
<1>4. coord \in [Request -> [previous: Turn \union {None}, origin: Socket \union {None},
                            epoch: 0 .. epoch, authTried: BOOLEAN, forwarded: BOOLEAN,
                            full: BOOLEAN]]
  <2>1. \A r \in Request : coord[r] \in CoordState /\ coord[r].epoch <= epoch
    BY DEF TurnsInv, TaskTypes, CoordinatorTypes, NetTypes
  <2>2. \A r \in Request :
            coord[r] \in [previous: Turn \union {None}, origin: Socket \union {None},
                         epoch: 0 .. epoch, authTried: BOOLEAN, forwarded: BOOLEAN,
                         full: BOOLEAN]
    BY <1>2, <2>1 DEF CoordState
  <2>3. QED
    BY <2>2 DEF TurnsInv, TaskTypes, CoordinatorTypes
<1>5. \A r \in Request : /\ items[r] \in Seq(Items) /\ Len(items[r]) <= 2
                         /\ outs[r] \in Seq(Items) /\ Len(outs[r]) <= 2
  BY OneOrTwo
     DEF TurnsInv, TaskTypes, ChannelTypes, Control, ControlOf, CoordinatorControl,
         SocketControl
<1>6. /\ hpc \in [Request -> {"idle", "numbered", "ready", "waiting", "streaming", "over"}]
      /\ attempt \in [Request -> 0 .. MaxRetries] /\ here \in [Request -> BOOLEAN]
      /\ held \in [Request -> Socket \union {None}]
      /\ stored \in [Request -> Socket \union {None}]
      /\ final \in [Request -> Successes \union {None}]
  BY DEF TurnsInv, TaskTypes, HandlerTypes, SocketTypes
<1>7. /\ cpc \in [Request -> {"off", "take", "validate", "gate", "connect",
                              "refresh", "listen", "aborting"}]
      /\ ipc \in [Request -> {"off", "send", "read", "more", "settle", "deliver"}]
  BY DEF TurnsInv, TaskTypes, CoordinatorTypes, SocketTypes, Preparing, Holding
<1>8. QED
  BY <1>1, <1>2, <1>3, <1>4, <1>5, <1>6, <1>7 DEF TurnsTypeOK

\* However requests, tasks, clients, the network and the registry's own evictions
\* interleave: what the registry offers can be honoured, a continuation goes over
\* the socket it came from, and no two attempts share a socket (the pool and the
\* continuation registry as client.rs and websocket.rs use them together).
THEOREM SocketsStayApart ==
    Spec => []TurnsSafety
<1>1. TurnsInv => TurnsSafety
  <2> SUFFICES ASSUME TurnsInv PROVE TurnsSafety
    OBVIOUS
  <2>1. TurnsTypeOK
    BY TurnsTyped
  <2>2. RecordedIsHonourable
    <3> SUFFICES ASSUME NEW o \in DOMAIN registry.owners, Held(registry, o) # None
                 PROVE  LET c == Held(registry, o)
                        IN  /\ sockets[c.socket].last = c.response
                            /\ \A r \in Request : held[r] # c.socket
                            /\ o \in DOMAIN pool => pool[o] = c.socket
      BY DEF RecordedIsHonourable, Held
    <3>1. o \in Owner
      BY DEF TurnsInv, Consistent, Structured
    <3>2. Offered(o, Held(registry, o).socket, Held(registry, o).response)
      BY DEF Offered
    <3>3. QED
      BY <3>1, <3>2 DEF TurnsInv, Sockets, Claims, Fresh, PoolMatches
  <2>3. ContinuesOnOrigin
    BY DEF TurnsInv, Sockets, Attempts, AttemptOf, ContinuesOnOrigin
  <2>4. QED
    BY <2>1, <2>2, <2>3 DEF TurnsInv, Sockets, TurnsSafety
<1>2. QED
  BY <1>1, TurnsInvariant, PTL

\* However a request ends, it leaves its turn current only with an answer to
\* continue (abort_request_state, LiveRequestStateCleanup and the eviction of
\* what was just recorded, together).
THEOREM NoDeadTurns ==
    Spec => []NoDanglingTurn
<1>1. TurnsInv => NoDanglingTurn
  <2> SUFFICES ASSUME TurnsInv, NEW r \in Request, hpc[r] = "over", Current(r)
               PROVE  registry.owners[res[r].owner].continuation # None
    BY DEF NoDanglingTurn
  <2>1. res[r] # None
    BY DEF TurnsInv, Control, ControlOf, HandlerControl
  <2>2. Held(registry, res[r].owner) # None
    BY <2>1 DEF TurnsInv, Sockets, Dangling
  <2>3. QED
    BY <2>2 DEF Held
<1>2. QED
  BY <1>1, TurnsInvariant, PTL

\* Once output has reached the client nothing goes upstream for the request again
\* (coordinate_live_websocket_events' forwarded flag and the handler's committed
\* phase, with every retry there is).
THEOREM NeverRepeatsOutput ==
    Spec => NoReplayAfterOutput
<1>1. TurnsInv /\ [TurnsNext]_vars =>
          \A r \in Request : hpc[r] \in {"streaming", "over"} => NoMoreSent(r)
  <2> SUFFICES ASSUME TurnsInv, [TurnsNext]_vars, NEW r \in Request,
                      hpc[r] \in {"streaming", "over"}
               PROVE  NoMoreSent(r)
    OBVIOUS
  <2>1. CASE StepOf(r)
    BY <2>1, CommittedStep DEF TurnsInv, Control
  <2>2. ASSUME NEW q \in Request \ {r}, StepOf(q) PROVE NoMoreSent(r)
    BY <2>2, OthersKeep DEF TurnsInv, Consistent, OthersStay, SameTasks, NoMoreSent
  <2>3. CASE NetworkChanges \/ UNCHANGED vars
    BY <2>3 DEF NetworkChanges, vars, NoMoreSent
  <2>4. QED
    BY <2>1, <2>2, <2>3 DEF TurnsNext, StepOf
<1>2. QED
  BY <1>1, TurnsInvariant, PTL DEF Spec, NoReplayAfterOutput, NoMoreSent

-----------------------------------------------------------------------------
(* Requests that are passed on. *)

Awaiting == {"posting", "refreshing", "backoff"}
Starting == {"checking", "admitted", "credential"}

\* What its end comes to when the client has read the answer.
IsWhole(q) == q.success /\ (q.end = "complete" \/ (q.end = "failed" /\ q.unseen))

\* Posts are paid for by the first one, the refresh and the retries; a post
\* that has failed has not paid for the next one yet.
PostsPaid(q) ==
    /\ q.endpoint # "search" => q.retries = 0
    /\ q.at \in Starting => q.posts = 0 /\ q.retries = 0 /\ ~q.refreshed
    /\ ~q.refreshed => q.posts <= q.retries + 1
    /\ q.refreshed => q.posts <= q.retries + 2
    /\ q.at \in {"refreshing", "backoff"} =>
          /\ ~q.refreshed => q.posts <= q.retries
          /\ q.refreshed => q.posts <= q.retries + 1

\* Until the body is read nothing is known of its end, and what a body has said
\* is in the outcome, but for what was not seen.
EndAsKnown(q) ==
    /\ q.at \in Starting \union Awaiting =>
          q.chunks = 0 /\ q.end = "none" /\ q.outcome = "well" /\ ~q.unseen /\ q.recorded = "nothing"
    /\ q.at = "body" =>
          /\ q.recorded = "nothing"
          /\ \/ q.end = "none" /\ q.outcome = "well" /\ ~q.unseen
             \/ q.end = "failed" /\ q.endpoint = "native" /\ (q.outcome = "failed" <=> ~q.unseen)
    /\ q.at = "answering" =>
          \/ q.recorded = "failed" /\ q.end \in {"error", "timeout", "interrupted"}
          \/ q.recorded = "nothing" /\ ((q.outcome = "failed" \/ ~q.success) <=> ~IsWhole(q))
    /\ q.at = "over" =>
          \/ q.recorded = "abandoned"
          \/ q.recorded = "failed" /\ ~IsWhole(q)
          \/ q.recorded = "completed" /\ IsWhole(q)

\* Leases are taken in order, and a request under which the path has changed
\* holds old ones.
LeasesAreOld(q, p) ==
    /\ q.handler <= p /\ q.post <= p
    /\ q.at \in {"credential", "body"} \union Awaiting => q.handler <= q.post
    /\ q.at \in Starting => ~q.moved
    /\ q.moved /\ q.at \in {"body"} \union Awaiting => q.post < p
    /\ q.moved /\ q.end = "timeout" => q.endpoint \notin {"native", "image", "transcription"}

Fine(q, p) == q \in Relayed /\ PostsPaid(q) /\ EndAsKnown(q) /\ LeasesAreOld(q, p)

RelayInv ==
    /\ path \in 0 .. MaxPaths
    /\ DOMAIN relay = Relay
    /\ relay = [r \in Relay |-> relay[r]]
    /\ \A r \in Relay : relay[r] = Unasked \/ Fine(relay[r], path)

LEMMA RelayLimits ==
    /\ Permits \in Nat /\ MaxSearchRetries \in Nat /\ MaxChunks \in Nat /\ MaxPaths \in Nat
    /\ \A e \in Endpoint : e \in Endpoints
BY RelayedRequestsAssumption

LEMMA DoesTyped ==
    \A e \in Endpoints :
       /\ Does[e].permit \in BOOLEAN /\ Does[e].leased \in BOOLEAN /\ Does[e].body \in BOOLEAN
       /\ Does[e].relays \in BOOLEAN
       /\ Does[e].relays => e = "native"
       /\ e \in {"native", "image", "transcription"} => Does[e].leased /\ Does[e].body
<1> SUFFICES ASSUME NEW e \in Endpoints
    PROVE  /\ Does[e].permit \in BOOLEAN /\ Does[e].leased \in BOOLEAN /\ Does[e].body \in BOOLEAN
           /\ Does[e].relays \in BOOLEAN
           /\ Does[e].relays => e = "native"
           /\ e \in {"native", "image", "transcription"} => Does[e].leased /\ Does[e].body
  OBVIOUS
<1>1. CASE e = "native"
  BY <1>1 DEF Does, NativeResponse
<1>2. CASE e = "chat"
  BY <1>2 DEF Does, ChatCompletion
<1>3. CASE e = "chat_stream"
  BY <1>3 DEF Does, ChatCompletion, StreamedChat
<1>4. CASE e = "image"
  BY <1>4 DEF Does, ImageRequest
<1>5. CASE e = "transcription"
  BY <1>5 DEF Does, Transcription
<1>6. CASE e = "search"
  BY <1>6 DEF Does, SearchRequest
<1> QED BY <1>1, <1>2, <1>3, <1>4, <1>5, <1>6 DEF Endpoints

LEMMA NotNew == \A q \in Relayed : q # Unasked
BY DEF Relayed, Unasked

LEMMA RelayStart == RelayInit => RelayInv
BY RelayLimits DEF RelayInit, RelayInv

\* A step of one request that leaves it fine.
LEMMA OneRequest ==
    ASSUME RelayInv, NEW r \in Relay, NEW q, Fine(q, path), UNCHANGED path,
           relay' = [relay EXCEPT ![r] = q]
    PROVE  RelayInv'
<1>1. DOMAIN relay' = Relay /\ relay' = [s \in Relay |-> relay'[s]]
  BY DEF RelayInv
<1>2. ASSUME NEW s \in Relay PROVE relay'[s] = Unasked \/ Fine(relay'[s], path')
  BY DEF RelayInv
<1> QED BY <1>1, <1>2 DEF RelayInv

LEMMA MadeIsFine ==
    ASSUME RelayInv, NEW r \in Relay, Made(r)
    PROVE  Fine(relay[r], path) /\ relay[r] \in Relayed
BY DEF RelayInv, Made, Fine

\* The first part of a request, up to the post.
LEMMA StartsFine ==
    ASSUME RelayInv, NEW r \in Relay,
           MakeRequest(r) \/ CheckFails(r) \/ Admit(r) \/ TakeLease(r) \/ HaveCredential(r)
    PROVE  RelayInv'
<1> DEFINE q == relay[r]
<1>1. CASE MakeRequest(r)
  <2>1. PICK e \in Endpoint :
            relay' = [relay EXCEPT ![r] =
              [endpoint |-> e, permit |-> FALSE, at |-> "checking", handler |-> 0, post |-> 0,
               posts |-> 0, refreshed |-> FALSE, retries |-> 0, success |-> FALSE, chunks |-> 0,
               outcome |-> "well", unseen |-> FALSE, moved |-> FALSE, end |-> "none",
               recorded |-> "nothing"]]
    BY <1>1 DEF MakeRequest
  <2> DEFINE n == [endpoint |-> e, permit |-> FALSE, at |-> "checking", handler |-> 0, post |-> 0,
               posts |-> 0, refreshed |-> FALSE, retries |-> 0, success |-> FALSE, chunks |-> 0,
               outcome |-> "well", unseen |-> FALSE, moved |-> FALSE, end |-> "none",
               recorded |-> "nothing"]
  <2>2. e \in Endpoints /\ path \in Nat
    BY RelayLimits DEF RelayInv
  <2>3. n \in Relayed
    BY <2>2, RelayLimits DEF Relayed, Ends
  <2>4. PostsPaid(n)
    BY DEF PostsPaid, Starting
  <2>5. EndAsKnown(n)
    BY DEF EndAsKnown, Starting, Awaiting
  <2>6. LeasesAreOld(n, path)
    BY <2>2 DEF LeasesAreOld, Starting, Awaiting
  <2>7. Fine(n, path)
    BY <2>3, <2>4, <2>5, <2>6 DEF Fine
  <2> HIDE DEF n
  <2>8. relay' = [relay EXCEPT ![r] = n] /\ UNCHANGED path
    BY <1>1, <2>1 DEF MakeRequest, n
  <2> QED BY <2>7, <2>8, OneRequest
<1>2. CASE ~MakeRequest(r)
  <2>1. Made(r)
    BY <1>2 DEF CheckFails, Admit, TakeLease, HaveCredential, Is
  <2>2. Fine(q, path) /\ q \in Relayed
    BY <2>1, MadeIsFine
  <2>3. PostsPaid(q) /\ EndAsKnown(q) /\ LeasesAreOld(q, path) /\ path \in 0 .. MaxPaths
    BY <2>2 DEF Fine, RelayInv
  <2>4. \A success \in BOOLEAN, end \in Ends :
           q.at \in Starting /\ ~success /\ end # "timeout" => Fine(Answers(q, success, end), path)
    <3> SUFFICES ASSUME NEW success \in BOOLEAN, NEW end \in Ends, q.at \in Starting, ~success,
                        end # "timeout"
                 PROVE  Fine(Answers(q, success, end), path)
      OBVIOUS
    <3> DEFINE n == Answers(q, success, end)
    <3>1. n \in Relayed
      BY <2>2 DEF Answers, Relayed
    <3>2. /\ n.endpoint = q.endpoint /\ n.retries = q.retries /\ n.posts = q.posts
          /\ n.refreshed = q.refreshed /\ n.at = "answering" /\ n.recorded = q.recorded
          /\ n.outcome = q.outcome /\ ~n.success /\ n.handler = q.handler /\ n.post = q.post
          /\ n.moved = q.moved /\ n.end # "timeout"
      BY <2>2 DEF Answers, Relayed
    <3> HIDE DEF n
    <3>3. PostsPaid(n) /\ EndAsKnown(n) /\ LeasesAreOld(n, path)
      BY <2>3, <3>2 DEF PostsPaid, EndAsKnown, LeasesAreOld, Starting, Awaiting, IsWhole
    <3> QED BY <3>1, <3>3 DEF Fine, n
  <2> HIDE DEF q
  <2>5. CASE CheckFails(r)
    BY <2>4, <2>5, OneRequest DEF CheckFails, Is, Answer, Starting, Ends, q
  <2>6. CASE Admit(r)
    <3>1. q.at = "checking" /\ UNCHANGED path /\ q.endpoint \in Endpoints
      BY <2>2, <2>6 DEF Admit, Is, q, Relayed
    <3>2. CASE Answer(r, FALSE, "refused")
      BY <2>4, <3>1, <3>2, OneRequest DEF Answer, Starting, Ends, q
    <3>3. CASE ~Answer(r, FALSE, "refused")
      <4> DEFINE n == [q EXCEPT !.at = "admitted", !.permit = Limited(q.endpoint), !.handler = path]
      <4>1. relay' = [relay EXCEPT ![r] = n]
        BY <2>6, <3>3 DEF Admit, q, RelayInv
      <4>2. n \in Relayed
        BY <2>2, <2>3, <3>1, DoesTyped DEF Relayed, Limited
      <4>3. PostsPaid(n) /\ EndAsKnown(n)
        BY <2>2, <2>3, <3>1 DEF PostsPaid, EndAsKnown, Relayed, Starting, Awaiting
      <4>4. LeasesAreOld(n, path)
        BY <2>2, <2>3, <3>1 DEF LeasesAreOld, Relayed, Starting, Awaiting
      <4> HIDE DEF n
      <4> QED BY <3>1, <4>1, <4>2, <4>3, <4>4, OneRequest DEF Fine
    <3> QED BY <3>2, <3>3
  <2>7. CASE TakeLease(r)
    <3> DEFINE n == [q EXCEPT !.at = "credential", !.post = path]
    <3>1. q.at = "admitted" /\ UNCHANGED path /\ relay' = [relay EXCEPT ![r] = n]
      BY <2>7 DEF TakeLease, Is, q, RelayInv
    <3>2. n \in Relayed
      BY <2>2, <2>3 DEF Relayed
    <3>3. PostsPaid(n) /\ EndAsKnown(n)
      BY <2>2, <2>3, <3>1 DEF PostsPaid, EndAsKnown, Relayed, Starting, Awaiting
    <3>4. LeasesAreOld(n, path)
      BY <2>2, <2>3, <3>1 DEF LeasesAreOld, Relayed, Starting, Awaiting
    <3> HIDE DEF n
    <3> QED BY <3>1, <3>2, <3>3, <3>4, OneRequest DEF Fine
  <2>8. CASE HaveCredential(r)
    <3>1. q.at = "credential" /\ UNCHANGED path
      BY <2>8 DEF HaveCredential, Is, q
    <3>2. CASE Answer(r, FALSE, "error")
      BY <2>4, <3>1, <3>2, OneRequest DEF Answer, Starting, Ends, q
    <3>3. CASE ~Answer(r, FALSE, "error")
      <4> DEFINE n == [q EXCEPT !.at = "posting", !.posts = @ + 1]
      <4>1. relay' = [relay EXCEPT ![r] = n]
        BY <2>8, <3>3 DEF HaveCredential, q, RelayInv
      <4>2. n \in Relayed
        <5>1. q.posts + 1 \in Nat
          BY <2>2 DEF Relayed
        <5> QED BY <2>2, <5>1 DEF Relayed
      <4>3. PostsPaid(n) /\ EndAsKnown(n)
        BY <2>2, <2>3, <3>1 DEF PostsPaid, EndAsKnown, Relayed, Starting, Awaiting
      <4>4. LeasesAreOld(n, path)
        BY <2>2, <2>3, <3>1 DEF LeasesAreOld, Relayed, Starting, Awaiting
      <4> HIDE DEF n
      <4> QED BY <3>1, <4>1, <4>2, <4>3, <4>4, OneRequest DEF Fine
    <3> QED BY <3>2, <3>3
  <2> QED BY <1>2, <2>5, <2>6, <2>7, <2>8
<1> QED BY <1>1, <1>2

\* A request is given up, before or in its body.
LEMMA GivenUp ==
    ASSUME RelayInv, NEW r \in Relay, Made(r), relay[r].at \in Awaiting \union {"body"},
           NEW end \in {"error", "failed", "timeout", "interrupted"},
           end = "timeout" => ~Interruptible(r) \/ relay[r].endpoint \notin {"native", "image", "transcription"},
           Answer(r, FALSE, end), UNCHANGED path,
           relay[r].at \in {"posting", "body"} \/ end # "timeout"
    PROVE  RelayInv'
<1> DEFINE q == relay[r]
           n == Answers(q, FALSE, end)
<1>1. Fine(q, path) /\ q \in Relayed /\ path \in 0 .. MaxPaths
  BY MadeIsFine DEF RelayInv
<1>2. PostsPaid(q) /\ EndAsKnown(q) /\ LeasesAreOld(q, path)
  BY <1>1 DEF Fine
<1>3. n \in Relayed
  BY <1>1 DEF Answers, Relayed, Ends
<1>4. /\ n.endpoint = q.endpoint /\ n.retries = q.retries /\ n.posts = q.posts
      /\ n.refreshed = q.refreshed /\ n.at = "answering" /\ n.recorded = q.recorded
      /\ n.outcome = q.outcome /\ ~n.success /\ n.handler = q.handler /\ n.post = q.post
      /\ n.moved = q.moved /\ n.end = end
  BY <1>1 DEF Answers, Relayed
<1>5. /\ q.at \in Awaiting \union {"body"} /\ (q.at \in {"posting", "body"} \/ end # "timeout")
      /\ relay' = [relay EXCEPT ![r] = n]
  BY DEF Answer
<1>6. q.at \in Awaiting \union {"body"} => q.recorded = "nothing"
  BY <1>2 DEF EndAsKnown
<1>7. end = "timeout" /\ q.moved => q.endpoint \notin {"native", "image", "transcription"}
  <2> SUFFICES ASSUME end = "timeout", q.moved, q.endpoint \in {"native", "image", "transcription"}
               PROVE  FALSE
    OBVIOUS
  <2>1. ~Interruptible(r)
    OBVIOUS
  <2>2. q.post < path /\ q.handler < path /\ q.post \in Nat /\ q.handler \in Nat /\ path \in Nat
    BY <1>1, <1>2, <1>5 DEF LeasesAreOld, Relayed, Awaiting
  <2>3. Does[q.endpoint].leased /\ Does[q.endpoint].body
    BY DoesTyped DEF Endpoints
  <2>4. q.post # path /\ q.handler # path
    BY <2>2
  <2>5. q.at \in {"posting", "body"}
    BY <1>5
  <2> QED BY <2>1, <2>3, <2>4, <2>5 DEF Interruptible, BodyUnderLease
<1> HIDE DEF n, q
<1>8. PostsPaid(n) /\ EndAsKnown(n)
  BY <1>2, <1>4, <1>5, <1>6 DEF PostsPaid, EndAsKnown, Starting, Awaiting, IsWhole
<1>9. LeasesAreOld(n, path)
  BY <1>2, <1>4, <1>7 DEF LeasesAreOld, Starting, Awaiting
<1> QED BY <1>3, <1>5, <1>8, <1>9, OneRequest DEF Fine

\* From the post to its answer.
LEMMA PostsFine ==
    ASSUME RelayInv, NEW r \in Relay,
           PostFails(r) \/ Unauthorized(r) \/ CredentialRefreshed(r) \/ Repeat(r) \/ Responds(r)
    PROVE  RelayInv'
<1> DEFINE q == relay[r]
<1>1. Made(r) /\ UNCHANGED path
  BY DEF PostFails, Unauthorized, CredentialRefreshed, Repeat, Responds, Is, Made
<1>2. Fine(q, path) /\ q \in Relayed /\ path \in 0 .. MaxPaths
  BY <1>1, MadeIsFine DEF RelayInv
<1>3. PostsPaid(q) /\ EndAsKnown(q) /\ LeasesAreOld(q, path)
  BY <1>2 DEF Fine
<1>4. CASE PostFails(r)
  BY <1>1, <1>4, GivenUp DEF PostFails, Is, Awaiting
<1>5. CASE Unauthorized(r)
  <2> DEFINE n == [q EXCEPT !.at = "refreshing", !.refreshed = TRUE]
  <2>1. q.at = "posting" /\ ~q.refreshed /\ relay' = [relay EXCEPT ![r] = n]
    BY <1>5 DEF Unauthorized, Is, RelayInv
  <2>2. n \in Relayed
    BY <1>2 DEF Relayed
  <2>3. PostsPaid(n) /\ EndAsKnown(n)
    BY <1>2, <1>3, <2>1 DEF PostsPaid, EndAsKnown, Relayed, Starting, Awaiting
  <2>4. LeasesAreOld(n, path)
    BY <1>2, <1>3, <2>1 DEF LeasesAreOld, Relayed, Starting, Awaiting
  <2> HIDE DEF n
  <2> QED BY <1>1, <2>1, <2>2, <2>3, <2>4, OneRequest DEF Fine
<1>6. ASSUME q.at \in {"refreshing", "backoff"}, relay' = [relay EXCEPT ![r].at = "posting", ![r].posts = @ + 1]
      PROVE  RelayInv'
  <2> DEFINE n == [q EXCEPT !.at = "posting", !.posts = @ + 1]
  <2>1. relay' = [relay EXCEPT ![r] = n]
    BY <1>6 DEF RelayInv
  <2>2. n \in Relayed
    <3>1. q.posts + 1 \in Nat
      BY <1>2 DEF Relayed
    <3> QED BY <1>2, <3>1 DEF Relayed
  <2>3. PostsPaid(n) /\ EndAsKnown(n)
    BY <1>2, <1>3, <1>6 DEF PostsPaid, EndAsKnown, Relayed, Starting, Awaiting
  <2>4. LeasesAreOld(n, path)
    BY <1>2, <1>3, <1>6 DEF LeasesAreOld, Relayed, Starting, Awaiting
  <2> HIDE DEF n
  <2> QED BY <1>1, <2>1, <2>2, <2>3, <2>4, OneRequest DEF Fine
<1>7. CASE CredentialRefreshed(r)
  <2>1. q.at = "refreshing"
    BY <1>7 DEF CredentialRefreshed, Is
  <2> QED BY <1>1, <1>6, <1>7, <2>1, GivenUp DEF CredentialRefreshed, Awaiting
<1>8. CASE Repeat(r)
  <2>1. CASE Is(r, "backoff")
    BY <1>6, <1>8, <2>1 DEF Repeat, Is
  <2>2. CASE ~Is(r, "backoff")
    <3> DEFINE n == [q EXCEPT !.at = "backoff", !.retries = @ + 1]
    <3>1. /\ q.at = "posting" /\ q.retries < MaxSearchRetries /\ q.endpoint = "search"
          /\ relay' = [relay EXCEPT ![r] = n]
      BY <1>8, <2>2 DEF Repeat, Is, RelayInv
    <3>2. n \in Relayed
      <4>1. q.retries + 1 \in 0 .. MaxSearchRetries
        BY <1>2, <3>1, RelayLimits DEF Relayed
      <4> QED BY <1>2, <4>1 DEF Relayed
    <3>3. PostsPaid(n) /\ EndAsKnown(n)
      BY <1>2, <1>3, <3>1 DEF PostsPaid, EndAsKnown, Relayed, Starting, Awaiting
    <3>4. LeasesAreOld(n, path)
      BY <1>2, <1>3, <3>1 DEF LeasesAreOld, Relayed, Starting, Awaiting
    <3> HIDE DEF n
    <3> QED BY <1>1, <3>1, <3>2, <3>3, <3>4, OneRequest DEF Fine
  <2> QED BY <2>1, <2>2
<1>9. CASE Responds(r)
  <2>1. q.at = "posting"
    BY <1>9 DEF Responds, Is
  <2>2. CASE Answer(r, FALSE, "error")
    BY <1>1, <2>1, <2>2, GivenUp DEF Awaiting
  <2>3. ASSUME NEW success \in BOOLEAN, relay' = [relay EXCEPT ![r].at = "body", ![r].success = success]
        PROVE  RelayInv'
    <3> DEFINE n == [q EXCEPT !.at = "body", !.success = success]
    <3>1. relay' = [relay EXCEPT ![r] = n]
      BY <2>3 DEF RelayInv
    <3>2. n \in Relayed
      BY <1>2 DEF Relayed
    <3>3. PostsPaid(n) /\ EndAsKnown(n)
      BY <1>2, <1>3, <2>1 DEF PostsPaid, EndAsKnown, Relayed, Starting, Awaiting
    <3>4. LeasesAreOld(n, path)
      BY <1>2, <1>3, <2>1 DEF LeasesAreOld, Relayed, Starting, Awaiting
    <3> HIDE DEF n
    <3> QED BY <1>1, <3>1, <3>2, <3>3, <3>4, OneRequest DEF Fine
  <2>4. CASE At(r, "body")
    <3>1. relay' = [relay EXCEPT ![r].at = "body", ![r].success = q.success] /\ q.success \in BOOLEAN
      <4>1. [q EXCEPT !.at = "body"] = [q EXCEPT !.at = "body", !.success = q.success]
        BY <1>2 DEF Relayed
      <4>2. relay' = [relay EXCEPT ![r] = [q EXCEPT !.at = "body"]]
        BY <2>4 DEF At, RelayInv
      <4>3. relay' = [relay EXCEPT ![r] = [q EXCEPT !.at = "body", !.success = q.success]]
        BY <4>1, <4>2
      <4>4. q.success \in BOOLEAN
        BY <1>2 DEF Relayed
      <4> QED BY <4>3, <4>4 DEF RelayInv
    <3> QED BY <2>3, <3>1
  <2> QED BY <1>9, <2>2, <2>3, <2>4 DEF Responds
<1> QED BY <1>4, <1>5, <1>7, <1>8, <1>9

\* A body is over: what is told of it, and what is recorded at once.
BodyOver(q, success, end, outcome, recorded) ==
    [Answers(q, success, end) EXCEPT !.outcome = outcome, !.recorded = recorded]

LEMMA BodyEnds ==
    ASSUME RelayInv, NEW r \in Relay, Made(r), UNCHANGED path, relay[r].at = "body",
           NEW success \in BOOLEAN, NEW end \in Ends, NEW outcome \in {"well", "failed"},
           NEW recorded \in {"nothing", "failed"},
           end = "timeout" =>
               ~Interruptible(r) \/ relay[r].endpoint \notin {"native", "image", "transcription"},
           \/ recorded = "failed" /\ end \in {"error", "timeout", "interrupted"}
           \/ /\ recorded = "nothing"
              /\ (outcome = "failed" \/ ~success)
                 <=> ~(success /\ (end = "complete" \/ (end = "failed" /\ relay[r].unseen))),
           relay' = [relay EXCEPT ![r] = BodyOver(relay[r], success, end, outcome, recorded)]
    PROVE  RelayInv'
<1> DEFINE q == relay[r]
           n == BodyOver(q, success, end, outcome, recorded)
<1>1. Fine(q, path) /\ q \in Relayed /\ path \in 0 .. MaxPaths
  BY MadeIsFine DEF RelayInv
<1>2. PostsPaid(q) /\ EndAsKnown(q) /\ LeasesAreOld(q, path)
  BY <1>1 DEF Fine
<1>3. n \in Relayed
  BY <1>1 DEF BodyOver, Answers, Relayed
<1>4. /\ n.endpoint = q.endpoint /\ n.retries = q.retries /\ n.posts = q.posts
      /\ n.refreshed = q.refreshed /\ n.at = "answering" /\ n.recorded = recorded
      /\ n.outcome = outcome /\ n.success = success /\ n.handler = q.handler /\ n.post = q.post
      /\ n.moved = q.moved /\ n.end = end /\ n.unseen = q.unseen
  BY <1>1 DEF BodyOver, Answers, Relayed
<1>5. end = "timeout" /\ q.moved => q.endpoint \notin {"native", "image", "transcription"}
  <2> SUFFICES ASSUME end = "timeout", q.moved, q.endpoint \in {"native", "image", "transcription"}
               PROVE  FALSE
    OBVIOUS
  <2>1. ~Interruptible(r)
    OBVIOUS
  <2>2. q.handler # path
    BY <1>1, <1>2 DEF LeasesAreOld, Relayed, Awaiting
  <2>3. Does[q.endpoint].body
    BY DoesTyped DEF Endpoints
  <2> QED BY <2>1, <2>2, <2>3 DEF Interruptible, BodyUnderLease
<1>6. q.at = "body" /\ relay' = [relay EXCEPT ![r] = n]
  OBVIOUS
<1>7. \/ recorded = "failed" /\ end \in {"error", "timeout", "interrupted"}
      \/ /\ recorded = "nothing"
         /\ (outcome = "failed" \/ ~success)
            <=> ~(success /\ (end = "complete" \/ (end = "failed" /\ q.unseen)))
  OBVIOUS
<1> HIDE DEF n, q
<1>8. PostsPaid(n) /\ EndAsKnown(n)
  BY <1>2, <1>4, <1>6, <1>7 DEF PostsPaid, EndAsKnown, Starting, Awaiting, IsWhole
<1>9. LeasesAreOld(n, path)
  BY <1>2, <1>4, <1>5, <1>6 DEF LeasesAreOld, Starting, Awaiting
<1> QED BY <1>3, <1>6, <1>8, <1>9, OneRequest DEF Fine

\* The body, as far as it is good, and what it says of itself.
LEMMA BodyFine ==
    ASSUME RelayInv, NEW r \in Relay,
           \/ Chunk(r) \/ NativeFailureEvent(r) \/ NativeBodyEnds(r) \/ NativeBodyFails(r)
           \/ ChatCompletes(r) \/ ChatFails(r)
    PROVE  RelayInv'
<1> DEFINE q == relay[r]
<1>1. Made(r) /\ UNCHANGED path /\ q.at = "body"
  BY DEF Chunk, NativeFailureEvent, NativeBodyEnds, NativeBodyFails, ChatCompletes, ChatFails, Reads,
         Is, Made
<1>2. Fine(q, path) /\ q \in Relayed /\ path \in 0 .. MaxPaths
  BY <1>1, MadeIsFine DEF RelayInv
<1>3. PostsPaid(q) /\ EndAsKnown(q) /\ LeasesAreOld(q, path)
  BY <1>2 DEF Fine
<1>4. CASE Chunk(r)
  <2> DEFINE n == [q EXCEPT !.chunks = @ + 1]
  <2>1. q.chunks < MaxChunks /\ relay' = [relay EXCEPT ![r] = n]
    BY <1>4 DEF Chunk, RelayInv
  <2>2. n \in Relayed
    <3>1. q.chunks + 1 \in 0 .. MaxChunks
      BY <1>2, <2>1, RelayLimits DEF Relayed
    <3> QED BY <1>2, <3>1 DEF Relayed
  <2>3. PostsPaid(n) /\ EndAsKnown(n)
    BY <1>1, <1>2, <1>3 DEF PostsPaid, EndAsKnown, Relayed, Starting, Awaiting
  <2>4. LeasesAreOld(n, path)
    BY <1>1, <1>2, <1>3 DEF LeasesAreOld, Relayed, Starting, Awaiting
  <2> HIDE DEF n
  <2> QED BY <1>1, <2>1, <2>2, <2>3, <2>4, OneRequest DEF Fine
<1>5. CASE NativeFailureEvent(r)
  <2>1. q.endpoint = "native" /\ q.end = "none"
    BY <1>5 DEF NativeFailureEvent, Reads
  <2>2. ASSUME NEW outcome \in {"well", "failed"}, NEW unseen \in BOOLEAN, outcome = "failed" <=> ~unseen,
               relay' = [relay EXCEPT ![r] =
                           [q EXCEPT !.outcome = outcome, !.unseen = unseen, !.end = "failed"]]
        PROVE  RelayInv'
    <3> DEFINE n == [q EXCEPT !.outcome = outcome, !.unseen = unseen, !.end = "failed"]
    <3>1. n \in Relayed
      BY <1>2 DEF Relayed, Ends
    <3>2. PostsPaid(n) /\ EndAsKnown(n)
      BY <1>1, <1>2, <1>3, <2>1, <2>2 DEF PostsPaid, EndAsKnown, Relayed, Starting, Awaiting
    <3>3. LeasesAreOld(n, path)
      BY <1>1, <1>2, <1>3 DEF LeasesAreOld, Relayed, Starting, Awaiting
    <3>4. relay' = [relay EXCEPT ![r] = n]
      BY <2>2
    <3> HIDE DEF n
    <3> QED BY <1>1, <3>1, <3>2, <3>3, <3>4, OneRequest DEF Fine
  <2>3. q.outcome = "well" /\ q.unseen = FALSE
    BY <1>1, <1>2, <1>3, <2>1 DEF EndAsKnown, Relayed
  <2>4. CASE relay' = [relay EXCEPT ![r] = [ReportsFailure(@) EXCEPT !.end = "failed"]]
    <3>1. [ReportsFailure(q) EXCEPT !.end = "failed"]
          = [q EXCEPT !.outcome = "failed", !.unseen = FALSE, !.end = "failed"]
      BY <1>2, <2>3 DEF ReportsFailure, Relayed
    <3> QED BY <2>2, <2>4, <3>1 DEF RelayInv
  <2>5. CASE relay' = [relay EXCEPT ![r].unseen = TRUE, ![r].end = "failed"]
    <3>1. [q EXCEPT !.unseen = TRUE, !.end = "failed"]
          = [q EXCEPT !.outcome = "well", !.unseen = TRUE, !.end = "failed"]
      BY <1>2, <2>3 DEF Relayed
    <3>2. relay' = [relay EXCEPT ![r] = [q EXCEPT !.unseen = TRUE, !.end = "failed"]]
      BY <2>5 DEF RelayInv
    <3>3. relay' = [relay EXCEPT ![r] = [q EXCEPT !.outcome = "well", !.unseen = TRUE, !.end = "failed"]]
      BY <3>1, <3>2
    <3> HIDE DEF q
    <3> QED BY <2>2, <3>3
  <2> QED BY <1>5, <2>4, <2>5 DEF NativeFailureEvent
<1>6. q.recorded = "nothing" /\ q \in Relayed
  BY <1>1, <1>2, <1>3 DEF EndAsKnown
<1>7. \A success \in BOOLEAN, end \in Ends :
        Answers(q, success, end) = BodyOver(q, success, end, q.outcome, "nothing")
  BY <1>6 DEF BodyOver, Answers, Relayed
<1>8. CASE NativeBodyEnds(r)
  <2> DEFINE end == IF q.end = "none" THEN "complete" ELSE q.end
  <2>1. relay' = [relay EXCEPT ![r] =
                    BodyOver(q, q.success, end, q.outcome, "nothing")]
    BY <1>2, <1>7, <1>8 DEF NativeBodyEnds, Answer, Relayed, Ends
  <2>2. end \in {"complete", "failed"} /\ q.success \in BOOLEAN /\ q.outcome \in {"well", "failed"}
    BY <1>1, <1>2, <1>3 DEF EndAsKnown, Relayed
  <2>3. (q.outcome = "failed" \/ ~q.success)
        <=> ~(q.success /\ (end = "complete" \/ (end = "failed" /\ q.unseen)))
    BY <1>1, <1>2, <1>3 DEF EndAsKnown, Relayed
  <2> HIDE DEF end
  <2> QED BY BodyEnds, <1>1, <2>1, <2>2, <2>3 DEF Ends
<1>9. CASE NativeBodyFails(r)
  <2>1. PICK end \in {"error", "timeout"} :
           (end = "timeout" => ~Interruptible(r)) /\ relay' = [relay EXCEPT ![r] = FrameError(q, end)]
    BY <1>9 DEF NativeBodyFails
  <2>2. FrameError(q, end)
        = BodyOver(q, q.success, end, q.outcome, "failed")
    BY <1>2 DEF FrameError, BodyOver, Answers, Relayed
  <2>3. q.success \in BOOLEAN /\ q.outcome \in {"well", "failed"}
    BY <1>2 DEF Relayed
  <2> QED BY BodyEnds, <1>1, <2>1, <2>2, <2>3 DEF Ends
<1>10. CASE ChatCompletes(r)
  <2>1. q.endpoint = "chat_stream"
    BY <1>10 DEF ChatCompletes, Reads
  <2>2. q.outcome = "well"
    BY <1>1, <1>2, <1>3, <2>1 DEF EndAsKnown, Relayed
  <2>3. relay' = [relay EXCEPT ![r] =
                    BodyOver(q, TRUE, "complete", q.outcome, "nothing")]
    BY <1>7, <1>10 DEF ChatCompletes, Answer, Ends
  <2> QED BY BodyEnds, <1>1, <2>2, <2>3 DEF Ends
<1>11. CASE ChatFails(r)
  <2>1. PICK end \in {"failed", "error", "timeout"} :
           relay' = [relay EXCEPT ![r] = ReportsFailure(Answers(q, TRUE, end))]
    BY <1>11 DEF ChatFails
  <2>2. ReportsFailure(Answers(q, TRUE, end))
        = BodyOver(q, TRUE, end, "failed", "nothing")
    BY <1>6 DEF ReportsFailure, BodyOver, Answers, Relayed
  <2>3. q.endpoint = "chat_stream"
    BY <1>11 DEF ChatFails, Reads
  <2>4. ~q.unseen
    BY <1>1, <1>2, <1>3, <2>3 DEF EndAsKnown, Relayed
  <2> QED BY BodyEnds, <1>1, <2>1, <2>2, <2>3, <2>4 DEF Ends
<1> QED BY <1>4, <1>5, <1>8, <1>9, <1>10, <1>11

LEMMA BodyIsCollected ==
    ASSUME RelayInv, NEW r \in Relay,
           ChatCollected(r) \/ ImagesCollected(r) \/ TextCollected(r) \/ ResultsCollected(r)
    PROVE  RelayInv'
<1> DEFINE q == relay[r]
<1>1. Made(r) /\ UNCHANGED path /\ q.at = "body" /\ q.endpoint \in {"chat", "image", "transcription", "search"}
  BY DEF ChatCollected, ImagesCollected, TextCollected, ResultsCollected, Reads, Is, Made
<1>2. Fine(q, path) /\ q \in Relayed
  BY <1>1, MadeIsFine
<1>3. q.outcome = "well" /\ q.recorded = "nothing"
  BY <1>1, <1>2 DEF Fine, EndAsKnown
<1>4. CASE Answer(r, TRUE, "complete")
  <2>1. Answers(q, TRUE, "complete") = BodyOver(q, TRUE, "complete", "well", "nothing")
    BY <1>2, <1>3 DEF BodyOver, Answers, Relayed
  <2>2. relay' = [relay EXCEPT ![r] = BodyOver(q, TRUE, "complete", "well", "nothing")]
    BY <1>4, <2>1 DEF Answer
  <2> QED BY <1>1, <2>2, BodyEnds DEF Ends
<1>5. CASE ~Answer(r, TRUE, "complete")
  <2>1. PICK end \in {"error", "failed", "timeout", "interrupted"} :
           /\ Answer(r, FALSE, end)
           /\ end = "timeout" =>
                 ~Interruptible(r) \/ q.endpoint \notin {"native", "image", "transcription"}
    BY <1>1, <1>5 DEF ChatCollected, ImagesCollected, TextCollected, ResultsCollected, Reads
  <2> QED BY <1>1, <2>1, GivenUp
<1> QED BY <1>4, <1>5

\* The path has changed under a lease.
LEMMA InterruptedFine == ASSUME RelayInv, NEW r \in Relay, Interrupted(r) PROVE RelayInv'
<1> DEFINE q == relay[r]
<1>1. Made(r) /\ UNCHANGED path /\ Interruptible(r) /\ q.at \in Awaiting \union {"body", "credential"}
  BY DEF Interrupted, Interruptible, Awaiting
<1>2. Fine(q, path) /\ q \in Relayed /\ path \in 0 .. MaxPaths
  BY <1>1, MadeIsFine DEF RelayInv
<1>3. CASE q.at = "body" /\ q.endpoint = "native"
  <2>1. relay' = [relay EXCEPT ![r] = ReportsFailure(FrameError(q, "interrupted"))]
    BY <1>3 DEF Interrupted
  <2>2. ReportsFailure(FrameError(q, "interrupted"))
        = BodyOver(q, q.success, "interrupted", "failed", "failed")
    BY <1>2 DEF ReportsFailure, FrameError, BodyOver, Answers, Relayed
  <2>3. q.success \in BOOLEAN
    BY <1>2 DEF Relayed
  <2> QED BY <1>1, <1>3, <2>1, <2>2, <2>3, BodyEnds DEF Ends
<1>4. CASE ~(q.at = "body" /\ q.endpoint = "native")
  <2>1. Answer(r, FALSE, "interrupted")
    BY <1>4 DEF Interrupted, Answer
  <2>2. CASE q.at # "credential"
    BY <1>1, <2>1, <2>2, GivenUp
  <2>3. CASE q.at = "credential"
    <3> DEFINE n == Answers(q, FALSE, "interrupted")
    <3>1. n \in Relayed
      BY <1>2 DEF Answers, Relayed, Ends
    <3>2. /\ n.endpoint = q.endpoint /\ n.retries = q.retries /\ n.posts = q.posts
          /\ n.refreshed = q.refreshed /\ n.at = "answering" /\ n.recorded = q.recorded
          /\ n.outcome = q.outcome /\ ~n.success /\ n.handler = q.handler /\ n.post = q.post
          /\ n.moved = q.moved /\ n.end = "interrupted"
      BY <1>2 DEF Answers, Relayed
    <3>3. relay' = [relay EXCEPT ![r] = n]
      BY <2>1 DEF Answer
    <3> HIDE DEF n, q
    <3>4. PostsPaid(n) /\ EndAsKnown(n)
      BY <1>2, <2>3, <3>2 DEF Fine, PostsPaid, EndAsKnown, Starting, Awaiting, IsWhole
    <3>5. LeasesAreOld(n, path)
      BY <1>2, <2>3, <3>2 DEF Fine, LeasesAreOld, Starting, Awaiting
    <3> QED BY <1>1, <3>1, <3>3, <3>4, <3>5, OneRequest DEF Fine
  <2> QED BY <2>2, <2>3
<1> QED BY <1>3, <1>4

LEMMA FinishFine == ASSUME RelayInv, NEW r \in Relay, Finish(r) \/ ClientLeaves(r) PROVE RelayInv'
<1> DEFINE q == relay[r]
<1>1. Made(r) /\ UNCHANGED path
  BY DEF Finish, ClientLeaves, Is, Made
<1>2. Fine(q, path) /\ q \in Relayed /\ path \in 0 .. MaxPaths
  BY <1>1, MadeIsFine DEF RelayInv
<1>3. PostsPaid(q) /\ EndAsKnown(q) /\ LeasesAreOld(q, path)
  BY <1>2 DEF Fine
<1>4. CASE Finish(r)
  <2> DEFINE recorded == IF q.recorded # "nothing" THEN q.recorded
                         ELSE IF q.outcome = "failed" \/ ~q.success THEN "failed" ELSE "completed"
             n == [q EXCEPT !.at = "over", !.recorded = recorded]
  <2>1. q.at = "answering" /\ relay' = [relay EXCEPT ![r] = n]
    BY <1>4 DEF Finish, Is, RelayInv
  <2>2. n \in Relayed
    BY <1>2 DEF Relayed
  <2>3. PostsPaid(n)
    BY <1>2, <1>3, <2>1 DEF PostsPaid, Relayed, Starting
  <2>4. EndAsKnown(n)
    <3>1. /\ n.at = "over" /\ n.recorded = recorded /\ n.success = q.success /\ n.end = q.end
          /\ n.unseen = q.unseen
      BY <1>2 DEF Relayed
    <3>2. \/ recorded = "failed" /\ ~IsWhole(q)
          \/ recorded = "completed" /\ IsWhole(q)
      BY <1>3, <2>1 DEF EndAsKnown, IsWhole
    <3> QED BY <3>1, <3>2 DEF EndAsKnown, IsWhole, Starting, Awaiting
  <2>5. LeasesAreOld(n, path)
    BY <1>2, <1>3, <2>1 DEF LeasesAreOld, Relayed, Starting, Awaiting
  <2> HIDE DEF n
  <2> QED BY <1>1, <2>1, <2>2, <2>3, <2>4, <2>5, OneRequest DEF Fine
<1>5. CASE ClientLeaves(r)
  <2> DEFINE recorded == IF q.recorded = "nothing" THEN "abandoned" ELSE q.recorded
             n == [q EXCEPT !.at = "over", !.permit = FALSE, !.recorded = recorded]
  <2>1. q.at # "over" /\ relay' = [relay EXCEPT ![r] = n]
    BY <1>1, <1>5 DEF ClientLeaves, Is, RelayInv
  <2>2. n \in Relayed
    BY <1>2 DEF Relayed
  <2>3. PostsPaid(n)
    BY <1>2, <1>3, <2>1 DEF PostsPaid, Relayed, Starting
  <2>4. EndAsKnown(n)
    <3>1. /\ n.at = "over" /\ n.recorded = recorded /\ n.success = q.success /\ n.end = q.end
          /\ n.unseen = q.unseen
      BY <1>2 DEF Relayed
    <3>2. q.at \in Starting \union Awaiting \union {"body", "answering"}
      BY <1>2, <2>1 DEF Relayed, Starting, Awaiting
    <3>3. \/ recorded = "abandoned"
          \/ recorded = "failed" /\ ~IsWhole(q)
      BY <1>3, <3>2 DEF EndAsKnown, IsWhole
    <3> QED BY <3>1, <3>3 DEF EndAsKnown, IsWhole, Starting, Awaiting
  <2>5. LeasesAreOld(n, path)
    BY <1>2, <1>3, <2>1 DEF LeasesAreOld, Relayed, Starting, Awaiting
  <2> HIDE DEF n
  <2> QED BY <1>1, <2>1, <2>2, <2>3, <2>4, <2>5, OneRequest DEF Fine
<1> QED BY <1>4, <1>5

LEMMA PathChangeFine == ASSUME RelayInv, PathChange PROVE RelayInv'
<1>1. path' \in 0 .. MaxPaths /\ path' = path + 1 /\ path \in Nat
  BY RelayLimits DEF RelayInv, PathChange
<1>2. DOMAIN relay' = Relay /\ relay' = [r \in Relay |-> relay'[r]]
  BY DEF PathChange
<1>3. ASSUME NEW r \in Relay PROVE relay'[r] = Unasked \/ Fine(relay'[r], path')
  <2> DEFINE q == relay[r]
  <2>1. CASE ~Made(r)
    BY <2>1 DEF PathChange, Made
  <2>2. CASE Made(r)
    <3>1. Fine(q, path) /\ q \in Relayed
      BY <2>2, MadeIsFine
    <3>2. PostsPaid(q) /\ EndAsKnown(q) /\ LeasesAreOld(q, path)
      BY <3>1 DEF Fine
    <3>3. q.handler \in Nat /\ q.post \in Nat
      BY <3>1 DEF Relayed
    <3>4. CASE Underway(q)
      <4> DEFINE n == [q EXCEPT !.moved = TRUE]
      <4>1. relay'[r] = n
        BY <2>2, <3>4 DEF PathChange
      <4>2. n \in Relayed
        BY <3>1 DEF Relayed
      <4>3. PostsPaid(n) /\ EndAsKnown(n)
        BY <3>1, <3>2 DEF PostsPaid, EndAsKnown, Relayed, IsWhole
      <4>4. LeasesAreOld(n, path')
        <5>1. /\ n.endpoint = q.endpoint /\ n.at = q.at /\ n.handler = q.handler /\ n.post = q.post
              /\ n.moved /\ n.end = q.end
          BY <3>1 DEF Relayed
        <5>2. q.at \in {"body"} \union Awaiting /\ q.at \notin Starting /\ q.end # "timeout"
          BY <3>2, <3>4 DEF Underway, EndAsKnown, Awaiting, Starting
        <5> HIDE DEF n, q
        <5> QED BY <1>1, <3>2, <3>3, <5>1, <5>2 DEF LeasesAreOld
      <4> HIDE DEF n
      <4> QED BY <4>1, <4>2, <4>3, <4>4 DEF Fine
    <3>5. CASE ~Underway(q)
      <4>1. relay'[r] = q
        BY <2>2, <3>5 DEF PathChange
      <4>2. LeasesAreOld(q, path')
        <5> HIDE DEF q
        <5> QED BY <1>1, <3>2, <3>3 DEF LeasesAreOld
      <4> QED BY <3>1, <3>2, <4>1, <4>2 DEF Fine
    <3> QED BY <3>4, <3>5
  <2> QED BY <2>1, <2>2
<1> QED BY <1>1, <1>2, <1>3 DEF RelayInv

LEMMA RelayStep == RelayInv /\ [RelayNext]_relayVars => RelayInv'
<1> SUFFICES ASSUME RelayInv, [RelayNext]_relayVars PROVE RelayInv'
  OBVIOUS
<1>1. CASE UNCHANGED relayVars
  BY <1>1 DEF RelayInv, relayVars
<1>2. CASE PathChange
  BY <1>2, PathChangeFine
<1>3. CASE \E r \in Relay :
            \/ MakeRequest(r) \/ CheckFails(r) \/ Admit(r) \/ TakeLease(r) \/ HaveCredential(r)
            \/ PostFails(r) \/ Unauthorized(r) \/ CredentialRefreshed(r) \/ Repeat(r) \/ Responds(r)
            \/ Chunk(r) \/ NativeFailureEvent(r) \/ NativeBodyEnds(r) \/ NativeBodyFails(r)
            \/ ChatCompletes(r) \/ ChatFails(r) \/ ChatCollected(r)
            \/ ImagesCollected(r) \/ TextCollected(r) \/ ResultsCollected(r)
            \/ Interrupted(r) \/ Finish(r) \/ ClientLeaves(r)
  BY <1>3, StartsFine, PostsFine, BodyFine, BodyIsCollected, InterruptedFine, FinishFine
<1> QED BY <1>1, <1>2, <1>3 DEF RelayNext

(* For any requests, limits and changes of the path: what the monitor lists as
   completed was read whole and did not fail, nobody waits for a timeout under
   a lease of a path that is gone, and no request is posted beyond its refresh
   and its retries. *)
THEOREM RelaysAreSafe == RelaySpec => []RelaySafety
<1>1. RelayInv => RelaySafety
  <2> SUFFICES ASSUME RelayInv PROVE RelaySafety
    OBVIOUS
  <2>1. RelayTypeOK
    BY DEF RelayInv, RelayTypeOK, Fine
  <2>2. ASSUME NEW r \in Relay, Made(r)
        PROVE  Fine(relay[r], path) /\ PostsPaid(relay[r]) /\ EndAsKnown(relay[r])
               /\ LeasesAreOld(relay[r], path) /\ relay[r] \in Relayed
    BY <2>2, MadeIsFine DEF Fine
  <2>3. RecordedAsItEnded
    BY <2>2 DEF RecordedAsItEnded, Is, EndAsKnown, IsWhole
  <2>4. LeasedIsInterrupted
    BY <2>2 DEF LeasedIsInterrupted, LeasesAreOld
  <2>5. PostedWithinBudget
    <3> SUFFICES ASSUME NEW r \in Relay, Made(r)
                 PROVE  /\ relay[r].posts <= 2 + MaxSearchRetries
                        /\ relay[r].endpoint # "search" => relay[r].posts <= 2
                        /\ relay[r].chunks > 0 => relay[r].at \in {"body", "answering", "over"}
      BY DEF PostedWithinBudget
    <3> DEFINE q == relay[r]
    <3>1. q.posts \in Nat /\ q.retries \in 0 .. MaxSearchRetries
      BY <2>2 DEF Relayed
    <3>2. q.posts <= q.retries + 2 /\ (q.endpoint # "search" => q.retries = 0)
      BY <2>2, <3>1 DEF PostsPaid
    <3>3. q.at \in Starting \union Awaiting => q.chunks = 0
      BY <2>2 DEF EndAsKnown
    <3>4. q.at \in Starting \union Awaiting \union {"body", "answering", "over"}
      BY <2>2 DEF Relayed, Starting, Awaiting
    <3> HIDE DEF q
    <3> QED BY <3>1, <3>2, <3>3, <3>4, RelayLimits DEF q
  <2> QED BY <2>1, <2>3, <2>4, <2>5 DEF RelaySafety
<1> QED BY <1>1, RelayStart, RelayStep, PTL DEF RelaySpec
================================================================================
