# Clodex: verification project

TLA+ models of Clodex (https://github.com/DeanDiasti/clodex), TLC configurations
that check them on small instances, and TLAPS proofs for every instance. Paths
below are relative to the repository; `backend/` abbreviates
`crates/codex-backend/src/`.

## 1. The system

Clodex lets Claude Code sessions use Codex models. Each terminal session is a
*launcher*. All launchers of one build share a *supervisor* process, which owns a
translating proxy (the *Codex backend*, a child process) and the *fast bridge* in
front of it. The backend turns Anthropic requests into Codex requests, over HTTP
streaming (the default) or a pooled WebSocket, and the answers back.

| component | state it keeps | operations | hard behaviour | what makes it correct |
|---|---|---|---|---|
| Supervisor and `acquire()` (`src/supervisor.rs`) | lock file, control socket, adapter file `auth.json`, lease streams, exit timers, translator child | acquire/close a lease, spawn, start, accept, prune, idle exit, cleanup | processes race on files; the exit is decided between two accepts; kills leave files behind | one owner; no idle exit under a lease; nothing left behind; a session gets its lease |
| Executable snapshot (`src/deployment.rs`) | private copy in the runtime directory | prepare, spawn from it, remove | prepared outside the lock, removed inside | it exists while a session may need it |
| Continuation registry (`backend/providers/codex/continuation.rs`) | per owner: current turn, recorded response; byte counter; turn counter | candidate, record, abort, full-context retry, evict | turns overlap and enter out of order; eviction | only the current turn records; an answer is offered once; limits and accounting hold |
| WebSocket pool and transport (`backend/providers/codex/websocket.rs`) | one idle socket per owner, path generation, connect gate | take, validate, connect, insert, invalidate, clean up | socket returned before the answer is delivered; superseded turns; path changes; capacity | a socket has one user; a continuation goes over the socket that produced it |
| Turn flow (`backend/providers/codex/mod.rs`) | reservation, attempt counter, client connection | start attempt, retry, stream, record, abort | clients leave, retries nest | no dangling turn, no repeated output, every request ends |
| Client (`backend/providers/codex/client.rs`) | coordinator flags per attempt | attempt, refresh on 401, full-context attempt, HTTP fallback | three nested retry layers | the same |
| Network monitor and client pools (`backend/network.rs`) | path generation, client revision | notify, lease, retire | late failures of an old client | a new client is never retired for an old one's failure |
| Sign-in store (`src/auth.rs`) | `codex.json` under a file lock | login, logout, load, refresh | several processes refresh one rotating token; two writers of the adapter file | no refresh token spent twice; the adapter file ends up current |
| Auth manager and token store (`backend/providers/codex/auth/manager.rs`, `backend/auth.rs`) | stored tokens, single-flight lock | get, force refresh, clear | rejected refresh after a foreign rotation | a valid session is never signed out |
| Fast bridge (`src/fast_bridge.rs`) | armed sessions, selected model of each conversation | arm, route, fold, forward with replays | peek and consume of an arming, failures after the stream opened, a name that no longer says what was selected | one PreCompact arms one fold; a fold ends with a whole summary or an error; `/fast` keeps the route |
| Compaction planner (`src/compaction.rs`) | none | plan | integer budgets | rounds fit, cover every message once, open safely |
| Server compaction registry (`backend/providers/codex/compaction.rs`) | per session: attempt, phase, history, size | begin, store, activate, replay, abort, evict | superseded attempts | only the latest attempt's history is replayed |
| Stream translation (`backend/providers/codex/translate/`) | open content blocks | reduce, live stream, accumulate | repeated, missing, interleaved upstream events | blocks are opened, filled and closed once, in order |
| Sessions, backoff (`backend/session.rs`, `backend/retry.rs`) | session table and its order of insertion | look up, expire, record, evict; delays | a request records what it looked up before its awaits; boundaries | table and order agree; delays stay within the budget |
| HTTP server and monitor (`backend/server.rs`, `backend/monitor.rs`) | active and recent requests, per-session usage | receive, route, forward, report, finish, prune | a request ends by a frame, an error, an early return or a drop; reports come after the end | accounted once; a session's tokens add up |
| OpenAI-compatible endpoints (`backend/openai_compat/`, `backend/providers/codex/chat_completions/`) | the blocks of an answer and what has been told of them; permits of images and transcriptions | read a request, relay, render, collect | two surfaces for one conversation; streamed and whole answers; ends told twice or not at all | both surfaces mean the same; a stream tells what a whole answer tells; a request is recorded as it ended |
| Request translation (`backend/providers/codex/translate/request.rs`, `translate_shared.rs`) | a bounded table of rewritten `Read` calls | build the input, compare it with the last one, plan model, lane, tools, effort | the client edits its history; the table forgets | a delta means what the full input means |
| Failure classification (`backend/providers/codex/events.rs`, `client.rs`, `mod.rs`) | none | judge an event, a status, an error | the same failure arrives on many paths | all paths come to one end; a spent quota is final |
| Updater (`src/update.rs`) | `updates.json`, `updates.lock`, the installed executable | background check, update command, pin a build | sessions and commands overlap; the clock is set back | one session asks; only newer builds; a session keeps its own |
| Traffic capture, logging | files | capture | none the system depends on | - |
| Launcher shell (`src/launcher.rs`, `main.rs`, ...), catalog, configuration, remote proxy, sign-in dialogues | little or none | single requests, single commands | - | - |

How they interact. Launchers and supervisors share only the runtime directory and
the control socket: connecting is a kernel queue, READY is one line, and closing a
stream (also by dying) is how a lease ends. Inside the backend, one request is up
to three tokio tasks joined by channels: the handler, the coordinator of its
current attempt, and the socket task below it. They share the continuation
registry and the socket pool, each behind its own mutex; no code path holds both
locks while it waits, so every locked section is one step of the models.

## 2. Modules

| module | models |
|---|---|
| `LeaseService` | abstract: a proxy that is up or down and the sessions that hold it |
| `Supervisor` | launchers, supervisor processes, the files they share; implements `LeaseService` |
| `ContinuationService` | abstract: turns, the current turn and the offer of each owner |
| `Continuation` | the continuation registry; implements `ContinuationService` |
| `CodexTurns` | handlers, coordinators, socket tasks, the pool and path changes, on top of `Continuation` (which it extends) |
| `SocketDial`, `ConnectTunnel`, `SocketExchange` | below a turn: the gate before a new socket, the answer of an HTTP proxy to CONNECT, the frames of the requests on one socket |
| `RequestPlan` | model, lane, tier, tools, choice and effort of a request |
| `Conversations` | the input of each request, and how it extends the last answer; plans with `RequestPlan` |
| `RelayedRequests` | native, chat, image, transcription and search requests, with leases, permits and refreshes |
| `SseFraming` | the four readers that cut a byte stream into events |
| `HttpTurns` | one request streamed over HTTP: opening, reading, forwarding, retries and the recovery of a path |
| `BufferedPost` | one buffered request over any transport (extends `HttpTurns` for its delays and its path) |
| `Failures` | what each path makes of a failure |
| `StreamTranslation` | the live translator and the reducer, fed with the same events |
| `AnswerRendering` | the reducer's events as a stream and as one message (extends `StreamTranslation`) |
| `OpenAiRequests` | Chat Completions messages and Responses items, read into one transcript |
| `OpenAiStream` | an answer as Chat Completions chunks, as Responses events, and whole |
| `ChatAnswers` | native Chat Completions: the request, the streamed and the whole answer |
| `FoldPlan` | the planner of a hierarchical compaction, and a reference definition of what a plan is |
| `FastBridge` | the armings, the route table, folds and forwarded requests of the fast bridge; plans with `FoldPlan` |
| `ServerCompaction` | the registry of native compaction histories, and the requests that fill, confirm, replay and drop them |
| `RequestMonitor` | the monitor's store as operators: active and recent requests, usage of sessions |
| `HttpServer` | `dispatch_request` with its guard, the session table, and what it reports to `RequestMonitor` (which it extends) |
| `NetworkPool` | the network watcher, generations, leases and the pooled HTTP client |
| `AuthManager` | the backend's credentials: refresh under the process's lock, other processes, the issuer, the store's two places |
| `SignIn` | the sign-in file, the Codex CLI's login, the supervisor's copy, the adapter file, and everybody who reads or writes them |
| `Updates` | background checks, the update command, and the builds that sessions pin |
| `Launcher_proofs` | theorems about `Supervisor`, `FastBridge` and `FoldPlan` |
| `Answers_proofs` | theorems about `StreamTranslation` and `Failures` |
| `Continuation_proofs` | theorems about `Continuation`, and about `ConnectTunnel`, `SocketDial` and `SocketExchange` |
| `Requests_proofs` | theorems about `CodexTurns` and `RelayedRequests` |
| `Network_proofs` | theorems about `NetworkPool`, `HttpTurns` and `BufferedPost` |
| `Backend_proofs` | theorems about `ServerCompaction`, `AuthManager` and `HttpServer` with `RequestMonitor` |
| `SignIn_proofs` | theorems about `SignIn` and `Updates` |
| `FiniteSums_proofs` | what sums over finite sets obey |
| `MCSupervisor`, `MCContinuation`, `MCFastBridge` | symmetry and finite sets for TLC |
| `MCTurns`, `MCRequests`, `MCBackend`, `MCLocal`, `MCSurfaces` | parts of the system side by side in one run |

### Supervisor

A supervisor is a slot whose `spc` follows `run()` line by line: `open` (the process
opens its own executable), `prepare`, `trylock`, `bind`, `auth`, `start`, `wait`, then
the loop `top`, `accept`, `tend`, then the guard's cleanup `stop`, `rmsocket`,
`rmauth`, `rmexec`, and `unlock`, `exit`. One step is what happens between two system
calls on something shared. `conn[l]` is the live peer of a launcher's stream, which
the kernel clears when either end goes; `granted[l]` says READY was written. The
launcher's `lpc` follows `acquire()`: `connect`, `await`, `snapshot`, `exec`, `sync`,
`leased`; `late` is its ten-second deadline and `cooling` the half second after a
spawn. `elapsed` says that the timer of the next idle exit (15 s before the first
lease, 1 s after the last) has run out. Faults are signals, a translator that dies, a
step that fails (the listener's own accept included), and a client that sends no request
line; a crash is a kill without cleanup, after which only what the kernel does happens.

### Continuation

`registry` is the mutex-protected value; each locked function is an operator from a
registry to a registry or, for eviction with ties, to a set of them. A request first
takes its turn number and the time (`TakeTurn`) and then the lock (`Candidate`).
`Record` is the whole of `record_continuation_for_owner`, with its aborts. A response
is named by the turn that completed it; whether a request body extends the recorded
transcript is an input (`Fits`). `clear_continuation_for_owner` (continuation.rs:496-511)
is not an action: a deprecated function and tests are all that call it.

### CodexTurns

`hpc`, `cpc` and `ipc` are where the handler, the coordinator and the socket task of a
request stand; `items` and `outs` are their channels; `sockets` lists the sockets ever
opened with owner, path generation and newest response; `pool` maps owners to idle
sockets. Every await, every locked section and every hand-over ends a step. In
particular the pool insert (`Settle`) and the delivery of the terminal item
(`Deliver`) are separate, and so are a client's leaving and each task's noticing.

Simplifications, each of which removes no reachable behaviour of the kind checked:
the put-back of a mismatching pooled socket is merged into the attempt's restart
(both happen under one call); the hand-off mark between attempts is left out because
a terminal item is the last thing an attempt sends; success terminals other than
`response.completed` take the abort alternative of `Complete`. Buffered answers, the
HTTP transport and the Auto fallback are in modules of their own; requests without an
identity, which share nothing, are left out.

### SocketDial, ConnectTunnel and SocketExchange

What `CodexTurns` takes for one step each. `SocketDial` is `WebSocketConnectGate` and
the calls that wait at it: `starts` lists who started when, so that the spacing, the
cooldown after the upstream's 403 and the one retry can be stated over any two starts.
A call that a path change overtakes while it dials goes on; its socket bears the lease
that the request saw when it came, so it is used once and never pooled (`DialSafety`
speaks of sockets of the present path). `ConnectTunnel` reads the proxy's answer piece
by piece; `stream` keeps what was sent, so `TunnelSafety` can say that TLS is given
exactly what follows the deciding head. `SocketExchange` has the two queues of frames
of one socket, `up` and `down`, and the clocks of silence: `quiet` is what the reader
measures, `upstream.silent` what really was silent. The collector's `select!` is biased
(websocket.rs:2036-2040); `CollectFrame` lets either branch go first, which allows more. A pong that arrives after the
terminal event makes the next validation refuse a good pooled socket; that costs a
connection and no answer, and the properties allow it.

### RequestPlan and Conversations

`RequestPlan` is `resolve` and its relatives as operators on one request, one
configuration and one row of the live catalog. The row may be of any model: what it says
of a vendored model's lane goes before the vendored table, so luna may be on the full
lane and sol may not (`LaneFits` says what is left to rely on). The model that the
operator sets may be a `-fast` name, which asks for the priority tier, and is not looked
up among the aliases. `Conversations` follows a client that appends, rewinds, repeats and
summarises: `dialogue` is what the client holds, `understood` what the upstream has for
the response it last completed, `recorded` the transcript and signature that the
backend compares with. `notes` is the bounded table behind rewritten `Read` calls. Two
observations that the properties allow: the translation merges two texts with only a
search or unsealed reasoning between them, so such an answer is never continued
(`GrowingContinues` speaks of plain ones), and a note that the table has forgotten
changes the input and forces a full context.

### RelayedRequests, SseFraming and Failures

`relay[r].at` follows the handlers of the native, chat, image, transcription and search
endpoints; `Does` says for each of them whether it takes a permit, and which waits are
under a lease. That is where the code differs from what README.md:669-671 suggests:
the body of a collected chat completion (`chat_completions/mod.rs:112-145`), the frames
of a streamed one (`chat_completions/stream.rs:55-102`) and the search post
(`client.rs:1154`) wait under no lease, and a path change leaves them to their
timeouts; `LeasedIsInterrupted` claims the rest.

`SseFraming` feeds one byte stream, chunk by chunk, to four readers. The decoder of
OpenAI-compatible answers prefers a `\n\n` anywhere to an earlier `\r\n\r\n`, so its
events are those of the others only for line ends of one kind (`Uniform`).

`Failures` puts every combination of number, code, kind, wording and Retry-After, every
error of a connection and every pair of quota clocks to each path that judges them.
`retryable_http_stream_error`, which judges errors of a body that is being read
(client.rs:2896-2911), is not among them. The properties name where paths really differ: a buffered socket's last frame is judged
by its number alone (`websocket.rs:922-926`); "context length exceeded" as a status
error is not mapped to 413, in an event it is; a nested spent quota in
`response.completed` is a quota in a buffered body and transient in a stream; a window
of which only one clock is given is named although the other window matches.

### HttpTurns and BufferedPost

`task.at` follows `spawn_http_event_stream` and the opening of its responses: `opening`
(send, status, refresh after a 401), `dns` and `waiting` (the delays while it opens),
`pausing` (the delay of the outer loop), `reading`, and `sending` (one event at a time
to the channel, where the client or a path change may interrupt). `pending` are the
structural events held back until output comes; `recovery` is the one deadline of
`NetworkRecovery`, which a second path change does not extend. `sent` is what the client
has received, with the attempt each event came from. `OneAttemptAnswers` speaks of
output, and of the one end. It does not speak of structural events: a `response.completed`
without any output drains the held events without setting `semantic_output_forwarded`
(client.rs:1716-1725), so a path change inside that drain, on a full channel, opens a
second attempt and the client may see structural events of both. The model has this
behaviour.

`BufferedPost` follows `post_codex_with_transport_on_network`: a post, its fallback to HTTP, one
refresh, delays with a budget, and the retry without a continuation; and around it the
one restart after a path change. `posts` is history. `PostsBounded` holds for each run
of a request between path changes.

### ServerCompaction

One locked section or one await ends a step; a history and a summary are named by the
attempt that made them, so `OneAttemptsWork` and `ReplaysItsOwnSummary` can tell whose
they are. `Evictions` yields a set, since states with equal times may leave in any order.
`LeavesUnnoticed` is the client that leaves while a compaction or a buffered answer is
awaited: no guard covers those awaits, so the attempt stays in the registry, `preparing`
or `unconfirmed`, until another compaction or the time limit takes it. The checked
properties hold in spite of it; the entry is dead weight, as is the continuation's
current turn that such a request leaves.

### RequestMonitor and HttpServer

`http[r].at` follows `dispatch_request`: the body is read, the session looked up, the
provider chosen, the session recorded, and the provider called; the answer is streamed,
or its failure is read and recorded. `prior` and `prior_seen` are the look-up that the
later record builds on, with the `now` of the request's first line, although another
request may have changed the session in between. `armed` is the guard that reports a
request dropped on any path. `Report` may come at any time, also after the end, since
provider tasks outlive the handler. Monitor values are counts of tokens; rates, times
and the rendering of snapshots are left out.

### NetworkPool

The network's identity is `path` (what routes: interfaces and their IPv4 addresses) and
`extra` (DNS, proxies, IPv6 addresses); a change of any kind makes a new client generation, a change of
`path` also ends leases. The watcher takes its first snapshot, registers, and only then
treats the time in between as a pending notification. `Fails` retires by revision.
`Settled` advances both generations in one step, `notify_change` (network.rs:53-57) one
after the other: no lease of the model looks at both.

### AuthManager

A credential is a number, like a token in `SignIn`; the issuer honours each once and is
external. `Acquire` is the process-wide lock with the second look at the store under it.
Other processes share the store and not the lock, so `Refused` looks at the store once
more before it clears it. `ClearAuth` removes one place after another and is not atomic
against other processes: a write in the moment between the last look and the removal is
lost, as is a sign-in whose refresh is in flight, which overwrites it, and a sign-out,
which it undoes. `blame` is set by each event that may cost the sign-in without fault of the
refresh protocol, these included, and `StaysSignedIn` claims the rest.

### StreamTranslation

Both translators are functions of a record each: blocks by index, open items, the
thinking block, the searches that wait. An event is applied to both in one step.
`LiveMatchesBuffered` compares the finished messages block by block. It excludes text
whose item was never announced, which the live translator shows and the reducer drops.
Searches are counted by the live translator when they are added and by the reducer when
they are done, and a repaired `Read` call ends a live answer with other blocks open:
those answers do not reach `completed` in both. Numbers of tokens, stop reasons and the
repair of arguments itself are left out.

### AnswerRendering, OpenAiRequests, OpenAiStream and ChatAnswers

An answer is rendered up to three times, and each time as a stream or whole.
`AnswerRendering` gives what the reducer makes of an answer to `translate_stream_bytes`
and to `accumulate_response`. Of the two, clients meet the second: `/v1/messages` calls
the first one (mod.rs:466-469) only behind the return of the live stream
(mod.rs:357-389), so that it is the tests' stand-in for the live translator, and
`StreamTranslation` is about the stream that a client sees. Each `Makes...` action is one
upstream event and all the reducer's events it becomes: a thought that another item puts
an end to, the arguments that come with a call's end. `MakesRepair` is the Read whose
arguments are repaired (reducer.rs:605-665): it ends the answer at once, and blocks and a
thought beside it stay open, in a stream for good. `RenderedWhole` names exactly these as
what may be open in the end; `RenderedAlike` holds for such answers too. A search defers
what follows it. Links in texts before the first search count for the whole message only,
and `RenderedAlike` leaves that case out.
`OpenAiStream` has the accumulator's blocks, the events that a reader is sent, and what
the reader makes of them (`reader`): places of items are counted from blocks of which
some have none. A provider that fails after `message_stop` makes the stream end twice,
and what a block brings with its start is in no Chat Completions chunk; the properties
state both as the exceptions they are. `ChatAnswers` is the native counterpart, where
`CompletionState` is observed event by event; a stream stops at the end of the
response, a whole answer reads on and also reads an unterminated last event.

`OpenAiRequests` reads each conversation twice, as messages and as items, turn by turn.
`SurfacesAgree` is one-sided: Responses takes contents that are blank or have no parts,
and pictures in assistant and system messages, which Chat Completions refuses. A Responses
user message without parts absorbs a tool result that follows it, which `ResultsFollowCalls` leaves out. The
Responses surface sends `reasoning` and `web_search_call` items that its own parser
(`request.rs:573`) refuses when a client sends them back; the model's client does not.
Citations are not modelled, and neither is the limit of 1024 messages (request.rs:107):
it counts messages as they are read, of which Responses has one for each item, so that a
conversation near the limit with several calls in a turn is taken by Chat Completions
alone.

### SignIn

A token is a number and stands for an access token with the refresh token issued
beside it. `login` is `codex.json`, `codex` the Codex CLI's own file, `adapter` the
file the backend reads, `memory` the supervisor's `credentials`; the issuer keeps
`parent`, `spent`, and, to tell an accident from an error, `orphaned`: spent tokens
whose successor a fault took away. One step is one file access, one request to the
issuer or one lock. `Load`, `Reload`, `Lock`, `Recheck`, `Present`, `Save` are
`load_codex_credentials` and `refresh_clodex_login` in their order, and `Write` is
`write_proxy_auth`; `job[a]` says which caller it is: the supervisor's start and its
two-second `Check` (`watch`), a launcher after READY (`sync`), `clodex auth sync`
(`force`), the catalog (`catalog`), `login`, `logout`. `AfterLoad` holds what the
callers decide differently. Simplifications: finding no `codex.json` and reading the
CLI's file is one step, and so is a renewal by the Codex App Server, which keeps that
file to itself; only the tokens on disk and in the supervisor's memory grow old,
since no other age is looked at. File permissions, account labels and the format of
tokens are left out. `Supervisor` and `SignIn` meet at the adapter file: the first
models when it exists, the second what is in it.

### Updates

`session[s].check` follows the background check (`Look`, `TakeLock`, `Fetched`,
`Recorded`) under `updates.lock`, `updater[u]` the update command, which takes no lock.
`overtaken` marks a command during which another one replaced the executable: only such
a command may put an older release in the place of a newer one. `OpensByName` is the one
difference between platforms: on Linux `current_exe` of a replaced file names no file, so
`Pin` fails and no session begins; on macOS a session that begins while the executable
is replaced pins the new build while it runs the old one. That the cache is renewed at
some time is not stated: a session whose checks fail for ever never does.

### FoldPlan and FastBridge

A fold has the token counts of the messages, where a round may open, and the limits;
`Plan` is the greedy algorithm of `plan()`, a recursive function of the message at
which a round opens. The reference knows no algorithm: a set of first messages is a
*cutting*, and it fits if what each of its rounds asks of the model stays below the
ceiling. `IsBest` says that a plan is a fitting cutting, that none has fewer
rounds, and that there is none where the planner finds none. The last part has the
one exception that the code's own comment claims is none: "A message larger than a
whole round can never be placed" compares with a later round's capacity, although a
message that is too long for those may fit into the first.

In `FastBridge` a request's `pc` follows `proxy_inner`: `new`, then `count` (the
handler awaits token counts), `fold` (a task of its own, which goes on as `lost` when
the client leaves), or `send` and `stream`. The check of the arming and the counts'
end are two steps, as they are in the code, with everything else in between. `route`
is the table that `rewrite_request` keeps under its lock. What Claude Code does is
external: a conversation has a selected model (`pick`), names it while `/fast` was
never on, and names its own Claude model (`Shadow`) from then on until a model is
selected again. `learned` and `Sent.knows` are history: what requests have told the
bridge so far. `FastKeepsRoute` is stated for requests whose route the bridge can
know. Where it cannot, the code really takes another route: a model selected just
before `/fast on`, before any prompt used it, is not seen; after `/fast on` and off
with no request in between, the bare Claude model goes to the translator; and a full
table is emptied, which forgets every selection. Likewise `ArmsOneFold` leaves out two
compactions that were counted at the same time: `take_armed` tells the second one that
the arming is gone, but its result is not looked at, and both fold. Prompts and
compactions are taken to carry tools. Not modelled: sessions launched with `--fast`,
the native API header, the Sonnet alias, headers, and the backpressure of a fold's
channel.

## 3. Runs

| run | instance | shows |
|---|---|---|
| `supervisor_safety` | 2 launchers, 2 supervisors, 1 fault, 1 kill | `RuntimeInOrder`, `ServingIsWhole`, `LeaseIsBacked`, `FreeLockMeansClean`, `NoDrainUnderLease`, `ImplementsLeaseService` |
| `supervisor_liveness` | 2 launchers, 2 supervisors, deadlines, fair loops | `AcquireSucceeds`, `QuiescentCleanup` |
| `continuation_registry` | 3 owners, 3 requests, 4 turns, 2 clock ticks, limits of 2 states, 2 and 3 bytes | `RegistryInOrder`, `RecordedByCurrentTurn`, `OfferedOnce`, `ImplementsContinuationService` |
| `requests_faults` | turns: 2 owners, 2 requests, 3 sockets, pool of 1, failed starts and refused credentials, 1 fault; a conversation of 3 requests; two slices of all there is to ask of a plan; 2 relayed requests, 1 permit, 1 path change; 9 bytes in chunks of 2; a CONNECT answer of 2 heads; 2 dials; 2 exchanges | `TurnsSafety`, `NoDanglingTurn`, `NoReplayAfterOutput`, `ConversationSafety`, `RelaySafety`, `FramingSafety`, `SocketSafety` |
| `requests_end` | WebSocket: 1 owner, 2 requests, every failure kind, 1 fault; HTTP: bodies of 3 events, 1 retry, 2 path changes; buffered: the same limits, every transport; fair tasks | `HttpSafety`, `BufferedSafety`, `RequestsEnd`, `HttpRequestsEnd` |
| `backend_state` | turns: 1 owner, 3 overlapping turns, 3 sockets; compaction: 2 sessions, 3 requests, 2 attempts; server: 2 requests of 5 kinds, tables of 1; network: 2 requests, 2 changes; auth: 2 processes, 3 requests, 2 credentials | `TurnsSafety`, `CompactionSafety`, `ServerSafety`, `NetworkSafety`, `AuthSafety` |
| `sign_in` | supervisor and 1 process (any job, again and again), 3 tokens, 1 fault, fair steps; 2 sessions, 2 update commands, 2 releases | `SignInInOrder`, `NeverSpentTwice`, `RenewsWhatIsStored`, `SupervisorCatchesUp`, `UpdatesInStep` |
| `surfaces` | bridge: 1 session with main thread and agent, 2 requests, 1 PreCompact, 2 switches, with 1 fault where no fold is armed, or 1 switch with 1 fault, or 2 faults without switches, table of 1; some 6,000 short conversations for the planner; 3 items and 6 events; 5 events for the reducer and 5 blocks; 3 blocks and 1 piece; every failure; conversations of 3 or 4 turns with 2 call ids; chat bodies of 4 events | `BridgeInOrder`, `ArmsOneFold`, `FastKeepsRoute`, `PlannerIsBest`, `AnswersSafety`, `EndpointsSafety`, `FailureSafety` |
| `supervisor_snapshot_handoff` | 2 launchers, 2 supervisors | violates `SnapshotWhileServing` (finding 1) |
| `supervisor_auth_left_behind` | the same, 1 fault | violates `AuthRemovedOnStop` (finding 2) |
| `sign_in_adapter` | supervisor and 1 process, 2 tokens | violates `AdapterReplaced` (finding 3) |
| `fast_bridge_claude_fold` | the bridge of `surfaces`, 1 fault | violates `FoldsCodexOnly` (finding 4) |

`requests_faults`, `requests_end`, `backend_state`, `sign_in` and `surfaces` run several
modules in one instance: the variable `part` says which one a behaviour is about, the
others keep their initial state, so the state space is the sum of the parts and not their
product. Each named safety property of these runs is a conjunction of the part's type
invariant and the properties beside its definition:
`RuntimeInOrder` (`LockOwnsRuntime`), `RegistryInOrder` (`BytesAccounted`,
`WithinLimits`), `TurnsSafety` (`RecordedIsHonourable`, `ContinuesOnOrigin`,
`SocketsAreExclusive`), `ConversationSafety` (`TranslatesInOrder`, `SameContext`,
`NotesKept`, `GrowingContinues`, `PlanFits`), `RelaySafety` (`RecordedAsItEnded`,
`LeasedIsInterrupted`, `PostedWithinBudget`), `FramingSafety` (`ChunksDoNotMatter`,
`ReadersAgree`, `OnlyLargeFramesAreLost`), `SocketSafety` (`TunnelSafety`, `DialSafety`,
`ExchangeSafety`), `HttpSafety` (`OneAttemptAnswers`, `WaitsWithinBudget`),
`BufferedSafety` (`PostsBounded`), `CompactionSafety` (`OneAttemptsWork`,
`ReplaysItsOwnSummary`, `CompactionsBounded`), `ServerSafety` (`AccountedOnce`,
`UsageAddsUp`, `SessionsAccounted`), `NetworkSafety` (`CachedIffHealthy`,
`SharedWithinGeneration`, `NothingMissed`), `AuthSafety` (`StaysSignedIn`,
`NeverReusesRejected`, `RefreshedOnce`), `SignInInOrder` (`StaysRenewable`),
`UpdatesInStep` (`PinsItsOwnBuild`, `OneCheckAnHour`, `OnlyForward`), `BridgeInOrder`
(`FoldIsWhole`), `AnswersSafety` (`BlocksWellFormed`, `ToolsStopWhenDone`,
`LiveMatchesBuffered`, `RenderedWhole`, `RenderedAlike`), `EndpointsSafety`
(`SurfacesAgree`, `ResultsFollowCalls`, `StreamedAsWhole`, `EndsOnce`,
`CapturedAsEnded`, `StreamedAlike`, `ToldInOrder`, `AskedAsWanted`), `FailureSafety`
(`QuotaIsFinal`, `PathsAgree`, `ToldAlike`, `NothingIsSentTwice`, `RightWindow`).
In `backend_state`, `Begun` lets interchangeable requests begin in one fixed
order, which is what a symmetry would do (the parts share names of requests but no
behaviour), and the part of the server leaves out behaviours in which the monitor prunes
and the sessions' clock moves: the two share no state.

Bounds. Two launchers and two supervisor slots are what every race of the supervisor
needs: one that drains or dies and one that starts, one that holds a lease and one that
acquires. Slots are reused, so a run sees any number of generations. Three turns of one
owner are the least where a turn is superseded by one that itself finishes or is
superseded; three owners against two states force eviction by count, sizes up to 3
against a total of 3 force eviction by bytes, and a size above the owner limit of 2
forces the abort. In `backend_state`, two compaction attempts of
one session and a third request that replays overlap in every order, with a table of one
state, sizes on both sides of each limit and two ticks against a time limit of one; two
requests against a session table of one and a list of one recent request evict each
other in both; two changes of the network meet two requests with two clients; and of three
callers of the auth manager two share a process and its lock.
In `requests_faults` one fault is one failed start, one refusal, one loss of a socket or
one change of the path, at any point of two turns; more of them meet in `requests_end`.
Three requests of a conversation are one that records, one that continues, and one after
an edit; a table of one note forgets at the second rewritten call. Nine bytes hold two
whole separators of either kind with data before, between and after them, and a frame
larger than the four that the observer keeps. Two heads are an interim one and the one
that decides; two dials meet at the gate, and the second one's retry meets the cooldown
of the first; two exchanges are the least where frames of one could reach the other.
In `requests_end` a body of three events has a held one, an output and an end; two path
changes are one that restarts a request and one that finds the restart used. `Asked`
holds no Retry-After, one within the budget and one above it. A pool of 1 with two owners forces eviction there. In `sign_in` the
supervisor and one process already contend for the lock with every pair of jobs, of
which the process may run any number; three tokens let a renewal be followed by a new
sign-in or a second renewal while a first reader still holds what it read. The inductive
invariant of `SignIn_proofs` was also checked once with two processes (12.9 million
states). In `surfaces` two requests of one session meet at one arming in both orders
and at both tables; `/fast` on and off again takes two switches; two faults are the two
tries of a round, one of which also suffices for each other loss; a table of one makes
every second conversation empty it. The folds there take one, two and three rounds.
The planner is called once, with one of the conversations of up to five messages and
every choice of boundaries: the least where a plan has to go
back over more than one message, in a later round too. Six events of three items of five
types suffice for a block of each kind that is begun, delayed by a search, interrupted
and finished (the longest interplay, two items around a search, takes six); five blocks
hold a search, which takes two, between texts, and five events a text, a Read, a search,
a thought and the repair of the Read that leaves the others open. A fourth turn of a conversation is looked
at where the first one has calls and no turn is blank. In the part of the updates two sessions contend for the
lock, and two commands with two releases are the least where a command is overtaken.
Bounds of the
models, named as such where they are declared, are `MaxTurns`, `MaxTime`, `MaxSize`,
`MaxFaults`, `MaxBridgeFaults`, `MaxCrashes`, `MaxHooks`, `MaxSwitches`, `MaxAttempts`,
`MaxMoments`, `MaxTokens`, `MaxClock`, `MaxPrunes`, `MaxMoves`, `MaxCredentials`,
`MaxRevoked`, `MaxEvents`, `MaxReduced`, `MaxShown`, `MaxBlocks`, `MaxPieces`,
`MaxHeard`, `MaxCallTurns`, `MaxAsked`, `MaxForeign`, `MaxChunks`, `MaxPaths`,
`MaxBytes`, `MaxChunk`, `LongestHead`, `MaxHeads`, `MaxPayload`, `MaxMoment`,
`MaxChanges`, `MaxExchanges`, `MaxSaid`, `MaxTrouble`, `MaxPathChanges`, `MaxBody`,
`MaxVersion` and the number of sockets; the other constants are the code's limits, made
small. Deadlock checking is off for the models of the backend and of the fast
bridge, because requests are finite in number and a finished instance stops; the
supervisor models are checked for deadlock.

Fairness. Both supervisor loops sleep 50 ms and go round again, so each launcher
action and each server step is weakly fair; the listen queue is first in, first out,
which is weak fairness of each `Accept`. Timers run out. Nobody has to start, end or
kill a session, and no fault has to happen. `PollsBeatTimers` says that a launcher's
50 ms poll fits into the 1 s and 15 s timers; without it a supervisor could time out
between any two polls for ever. Safety is checked without it. In `CodexTurns` the
runtime polls each task that can run, and every wait of a socket task has a timeout;
hence weak fairness of the handler, the coordinator and the socket task of each
request, and none of misfortunes. `RequestsEnd` and `HttpRequestsEnd` say that requests are
over again and again (`[]<>`), which for requests that do not come back is that each
ends. In `HttpTurns` and `BufferedPost` what is ready is polled, delays and deadlines run
out, an interruption is noticed and a client that stays reads on; the reading of a body
is strongly fair, because a body of nothing but keepalives, which no timeout ends, is the
upstream's to send and not the code's to prevent. In `SignIn` every process goes on with what it
began (requests to the issuer have timeouts), the supervisor checks every two seconds,
and the file lock is strongly fair, since the kernel wakes those who wait for it in
turn; nobody has to sign in, and no token has to age.

## 4. Proofs

Every theorem holds for all values of the constants. What is assumed of them is named in
the module that declares them (`SupervisorAssumption`, `ContinuationAssumption`,
`NoneAssumption`, `CodexTurnsAssumption`, `SignInAssumption`, `UpdatesAssumption`,
`NetworkPoolAssumption`, `ServerCompactionAssumption`, `AuthManagerAssumption`,
`HttpTurnsAssumption`, `BufferedPostAssumption`, `RelayedRequestsAssumption`,
`RequestMonitorAssumption`, `HttpServerAssumption`,
`ConnectTunnelAssumption`, `SocketDialAssumption`, `SocketExchangeAssumption`,
`StreamTranslationAssumption`, `BridgeAssumption`, `NilAssumption`, `FoldPlanAssumption`, `FailuresAssumption`): the sorts of the constants, that limits and bounds
are natural numbers and some are not zero, that sets to be summed over are finite, and
that a value for "none" is none of the values it is told from. No theorem has another
hypothesis, with one exception that is discussed below (`UpdatesAreInStep`).

| theorem | states |
|---|---|
| `Launcher_proofs`: `RuntimeIsInOrder`, `Whole`, `LeasesAreBacked`, `CleanHandOver`, `NoIdleExitUnderLease`, `LeasesAreHonoured` | all safety of `supervisor_safety`, and the refinement of `LeaseService` |
| `Continuation_proofs`: `RegistryIsInOrder`, `RecordedCurrent`, `Once`, `Refinement` | all of `continuation_registry` |
| `Continuation_proofs`: `SocketsAreSafe`, from `TunnelGivesAll`, `CallsKeepApart` and `AnswersKeepToTheirRequests` | `SocketSafety` |
| `Requests_proofs`: `SocketsStayApart`, `NoDeadTurns`, `NeverRepeatsOutput`, `RelaysAreSafe` | `TurnsSafety`, `NoDanglingTurn`, `NoReplayAfterOutput`, `RelaySafety` |
| `Backend_proofs`: `CompactionsAreSound`, `CredentialsAreKept`, `RequestsAreAccounted` | `CompactionSafety`, `AuthSafety`, `ServerSafety` |
| `Network_proofs`: `PoolIsSound`, `HttpRequestsAreSafe`, `PostsAreBounded` | `NetworkSafety`, `HttpSafety`, `BufferedSafety` |
| `SignIn_proofs`: `SignInIsInOrder`, `NoTokenSpentTwice`, `NoLostSignIn`, `OneAsksGitHub`, `ReplacedByNewer`, `UpdatesAreInStep` | `SignInInOrder`, `NeverSpentTwice`, `RenewsWhatIsStored`, `UpdatesInStep` and its parts |
| `Launcher_proofs`: `FoldsAreWhole`, `OneFoldPerHook`, `FastModeKeepsRoute`, `PlansAreBest` | `BridgeInOrder`, `ArmsOneFold`, `FastKeepsRoute`, `PlannerIsBest` |
| `Answers_proofs`: `FailuresAreJudgedAlike`, `TranslationsAreSafe` | `FailureSafety`; `TranslationSafety`, the half of `AnswersSafety` about the two translators |
| `FiniteSums_proofs`: `SumSplits` and others | `SumFunctionOnSet` |

*The lifecycle* (`Launcher_proofs`). The argument goes in layers, each inductive
relative to those before: types; the lock and the program counters agree; the files of
an owner are its own, because only an owner binds and removes them; a granted stream
is in the lease list of a serving peer. `ServingIsWhole` does not survive by itself:
it needs that between `bind` and `top` nothing else can touch the path, which is the
mutual exclusion. `LeasesAreHonoured` maps the proxy to "up" while some supervisor
serves: every step is one of `LeaseService` or a stutter. The step that needs work is a
supervisor's going down, which the abstract service allows only when nobody holds a
lease or after a fault; that is where `NoDrainUnderLease`'s invariant comes in.

*The registry* (`Continuation_proofs`). The invariant `Consistent` adds to the two
properties the structure of the registry and of reservations, and that turn numbers in
use are below `nextTurn` and held by one request: `OfferedOnce` alone is not inductive,
since a fresh record could repeat an old response name. Eviction is
covered by one lemma: whatever leaves, what stays is unchanged. `RegistryIsInOrder` adds
the byte counter: it is the sum over the owners after every operation.

*Under a turn* (`Continuation_proofs`). Three invariants, with no state in common. In the
tunnel, what was read and what is still on the wire are slices of one stream
(`SliceOfSlice`), no head that decides has been passed over (`Undecided`), and so the
first byte that TLS is given is the first one after the head that opens. For calls, the
starts of each are counted by where it stands (`StartsCounted`), which bounds them, and
whoever sleeps at the gate holds it. On a socket, the property that needs work is that
an answer is a request's own: `ExchangeInv` says where each frame is. Of all that was
said of the request (`FullyTold`), the first frames are collected and the rest is on its
way in order, with nothing of another answer between (`Carries`: an increasing map
from the frames that are missing to places on the socket). That no older answer is
there when a request is sent rests on the ping before it: its answer is the last thing
the upstream says before it takes the request (`Pinged`), so that a socket whose pong
has come carries nothing but noise. `EndOfAnswer` then shows that the terminal frame is
the end of what was said, and that what stays on a socket that is kept is at most a
trailing event.

*Sums* (`FiniteSums_proofs`). `SumFunctionOnSet` is defined by a fold that picks the
elements of a set in some order. That the recursion is well defined, and that the order
does not matter, is an induction over finite sets. The library states induction with an
operator as a parameter, which the provers cannot instantiate; here, and for the
planner, a minimal counterexample takes its place: if some set fails, one of the least
cardinality does, and what is one element smaller does not.

*Turns* (`Requests_proofs`). The invariant has three layers. `Control`: where the
handler, the coordinator and the socket task of a request can stand together, and what
their channels can hold (an output, then a terminal item). Then, every step of a turn is
a step of the registry or leaves it alone, so all that is proved of the registry holds
here. Last `Sockets`: who may claim a socket (`Claims`), that the pool's entry of an
owner is the socket its last answer came over (`PoolMatches`), that a turn with a
recorded answer is over (`RecordedIsOver`), what an attempt holds and is to continue
(`Attempts`), that two holders never share a socket, and that nothing dangles. Most
actions only take away: they drop a socket, a claim or a registry entry. One lemma deals
with all of these (`RegistryWanes`), and only the few steps that give something, which
are a hand-over, a record and an insertion into the pool, have proofs of their own.

*Relayed requests* (`Requests_proofs`). Nothing is shared between them but the path and
the permits, so the invariant `RelayInv` says of each request alone that it is `Fine`:
each post beyond the first is paid for by the refresh or by a retry, and one that has
failed has not paid for the next yet (`PostsPaid`); what the monitor will be told is
what the body has said so far, but for what was too large to be seen (`EndAsKnown`);
and one under which the path has changed holds leases that are old (`LeasesAreOld`),
which is why whoever waits under a lease is interrupted.

*Compactions and credentials* (`Backend_proofs`). `CompactionInv` says of each registry
state that it is one attempt's work and of the registry that it is within its limits;
lemmas show that every operator of the registry (`Evictions`, `Dropped`, `Kept`,
`Placed`) keeps both, by the sums above. For credentials, `StaysSignedIn` needs to know
where a credential may be: in the store, offered to somebody, or in the hand of the one
request of a process that holds its lock; a fresh credential is known to nobody else,
and a credential in hand that was spent has a successor, which is stored or in the same
hand. Only an event that sets `blame` breaks that, and then nothing is claimed.

*The server's accounts* (`Backend_proofs`). Every event of the monitor is one entry in
the books (`Books`): so much more is used by one session, and so much of what was under
way is now in the list and in the history. `StartedBooks`, `ReportedActive`,
`ReportedListed` and `FinishedBooks` show it of each operation, `BookedSums` that the
sums of a session then hold with what left the list (`Widened`), and `PrunedSums` that
pruning keeps them. What is listed and what is under way are told apart by `Listed`: an
open request is under way, an entry is of a request that is not, and an identifier is
listed once, which is why a late report finds one entry. `Stage` says where a guard can
have reported already. `InTable` is for the session table, where `OrderWithout`,
`OrderCut` and `OrderAppended` show that a removal, an eviction and an insertion keep
the list of insertion and the map alike. The proof corrected the model twice. Pruning
forgets the totals of a session after a day and its history after an hour, and the
model had let the first happen without the second: then an old history outlives the
total, which shows with three requests but not with the two of the run. `MayPrune` now
says what the two ages imply. And the assumption on `Workload` had been written such
that it required nothing of a request that is not reviewed.

*Clients and leases* (`Network_proofs`). `NetworkInv` adds to `NetworkSafety` that
revisions only grow, that each is made for one generation, and what the watcher has yet
to see.

*Requests over HTTP* (`Network_proofs`). That one attempt answers, in order, is not
inductive: it has to say where every event is that the task has read. `HttpInv` says
that it was sent, is held back with what came before the first output, or stands in the
row that is about to be sent (`AllRead`, `Draining`), unless that row is the end of the
request (`LastWord`); that nothing of an attempt that may still be given up was sent
(`HeldBack`); and that attempts are numbered afresh, at most one more than the retries
on each path (`AttemptsCounted`). The row that is about to be sent needs more than a
first version of the invariant said: whoever sends it has forwarded output before, or
the last of the row is final. Delays are within the budget because `Ceiling`, a
recursive function, doubles up to `LongestDelay`; that its recursion is well defined is shown by a
least counterexample (`CeilingIs`). For a buffered request, `PostsCounted`
charges each post to the failure, the refresh or the lost continuation that made it
necessary.

*Sign-in and updates* (`SignIn_proofs`). What is presented is what
is stored, so `NeverSpentTwice` follows from `StaysRenewable` at that moment. The latter
is not inductive: it depends on what the next write stores, which is either the
successor of the stored token (`SavesSuccessor`) or a sign-in that nobody has stored
or spent and that no other new sign-in equals (`FreshIsUnused`); both rest on
`LockHeld`. Their conjunction is `Sound`. For updates, whoever fetches or has fetched
holds the lock (`CheckHoldsLock`), and a command that has not been overtaken still
compares with what is installed (`ComparesInstalled`). `UpdatesAreInStep` has the
hypothesis `~OpensByName`, which is Linux. On macOS `PinsItsOwnBuild` is false: a
session that begins while the executable is replaced pins the newer build. The other
two parts, `OneAsksGitHub` and `ReplacedByNewer`, are proved for both.

*The fast bridge* (`Launcher_proofs`). That a finished fold stands for every message
once and in order rests on the planner: `Rounds` is a recursive function towards
the end of the conversation; `RoundsSolve` shows that it satisfies its equation,
`PlanCovers` that its rounds follow each other from the first message to the last, and
`SummaryGrows` that a round's end extends the summary by the next messages. `ArmsOneFold` needs a reserve: each hook whose fold has
not happened is held by an arming or by a request that counts. `FastKeepsRoute` needs
that what requests have told the bridge is in its table. The attempt to prove it showed
that the first statement of `Sent.knows` was too strong for three conversations: a
selection that changes while a request under the shadow name is on its way, with the
table emptied in between. No bound of the run had reached it; `knows` now says that the
selection is still the one asked for.

*The planner* (`Launcher_proofs`). `PlansAreBest` is about conversations of any length.
`BestFrom` says of the rounds from an opening on that they cut what is left into rounds
that fit, that no such cutting has fewer, and that there is none if there are no rounds;
it is shown for the last opening first. What has to be shown is that the planner loses
nothing by reaching as far as it can. `SecondOpening`: the second opening of any cutting
is a boundary the planner could have taken. `LaterCut`: replace it, and whatever comes
before the planner's own opening, by that one; the round that begins there ends where a
round of the cutting did and holds a part of it (`TokensGrow`), so it still fits, and the
cutting of the rest has at least one opening less. `OneMoreCut` puts the planner's round
before a cutting of the rest. `TokensAreSum` and the general `FoldIsSum` make the fold by
which the tokens of a round are added up a sum over its messages.

*Failures* (`Answers_proofs`). `Heard` says that what is kept of a failure is how each
path judges it. What remains is about the judgements: which statuses are tried again
(`KindsOfRetried`), that no other report is that of a spent quota (`QuotaOfEvent`), and
that the nearest window is the one that agrees with the error (`ClosestIs`).

*The translators* (`Answers_proofs`). `StreamsAreSound` says of each translator alone that
it is well made: an index is handed out once, and is from then on a block that was started
or one that waits its turn behind a search; what is open is what the upstream has begun and
not ended; and whoever thinks is the one block that does. An event is a few edits of one
block each, so lemmas about one edit (`ToolIs`, `ClosedIs` and others) carry it through all
of them. The folds that send what has waited are put in closed form. `StreamsMatch` then
couples the two while every text has an item: both are at the same index with the same
blocks open, and what the live translator has sent or still owes, the reducer has. A step that both take in the
same way keeps that (`Alike`, `EndsAlike`); what is left are searches, which the live
translator holds back, and repaired arguments, which end the live answer. When
both have completed nothing is owed, and the two messages are one.

Only model-checked. Everything temporal with fairness (`AcquireSucceeds`,
`QuiescentCleanup`, `RequestsEnd`, `HttpRequestsEnd`, `SupervisorCatchesUp`): outside the prover's reach.
`ConversationSafety`, `FramingSafety` and `EndpointsSafety`, and of `AnswersSafety` the
half about renderings (`RenderedWhole`, `RenderedAlike`), compare results of recursive
readings of sequences, for which the modules use RECURSIVE operators and folds: inductions
over data.

## 5. Findings

1. *Snapshot removed under a serving supervisor.* `run()` prepares the snapshot before
   it takes the lock. A supervisor that starts while its predecessor cleans up finds
   the copy, loses it to the cleanup, and serves without it, so the promise that
   helpers run the session's original build has a gap until the next `prepare()`.
2. *Adapter file after the cleanup.* A launcher that has read READY writes the adapter
   file on its own. If the supervisor stops first, the access token stays on disk with
   no supervisor left, although it is documented as removed on stop.
3. *A stale adapter file that stays.* A launcher loads the sign-in and writes the adapter
   file in two steps. If the sign-in changes in between and the supervisor copies the
   new one first, the launcher puts the old token back. The supervisor compares the
   disk with its memory and not with the adapter file, so it never looks again until
   the sign-in changes once more, although it is documented to replace the file
   automatically.
4. *Claude-routed compactions that are folded.* While `/fast` is on, Claude Code names a
   bare Claude model, whatever is selected. Whether a compaction is routed to Claude is
   read from that name before the route table resolves it, so an armed and oversized
   compaction of a Claude-routed conversation is summarised by a Codex model, although
   it is documented to be forwarded to Anthropic unchanged.

## 6. Not modelled

- The catalog, configuration, the status line, the picker, the doctor, the rendering of
  the monitor, traffic capture and logging: read at startup or written for display. (The
  capture of a chat stream says "complete" also when the stream failed.)
- Remote proxies and the framing of WebSockets: pure I/O. What matters of a connection, that
  it opens, fails, closes or stalls, is a choice in the models.
- Browser and device sign-in: one interactive sequence against an external service; its
  result is an input of `SignIn` and `AuthManager`.
- Schemas of tools, formats of answers, images and citations within requests and answers:
  mappings from one document to another. The providers behind the OpenAI-compatible
  endpoints other than Codex are external.
- Within modelled parts: sessions launched with `--fast`, the native API header and the
  Sonnet alias in the fast bridge; the native pass-through of the WebSocket; token usage,
  stop reasons and what arguments are repaired to in translations; hashing of deployments.
  A catalog model other than the lunas that is behind the lite lane only has no sibling in
  the full lane for hosted search; the chat endpoint leaves out the effort `none`, the messages
  endpoint names it.
