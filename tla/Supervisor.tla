------------------------------ MODULE Supervisor ------------------------------
(***************************************************************************)
(* The shared proxy lifecycle of one Clodex deployment (one binary build): *)
(* launchers that acquire a lease over the control socket, the supervisor   *)
(* processes they spawn, and the files both sides touch: the lock, the      *)
(* socket path, the executable snapshot and the access-token adapter file.  *)
(*                                                                          *)
(* Every step between two system calls on something shared is an action of  *)
(* its own.  A supervisor is a slot of Supervisors that is "absent" until   *)
(* it is spawned and again once its process is gone.                        *)
(***************************************************************************)
EXTENDS Naturals, FiniteSets

CONSTANTS
    Launchers,      \* terminal sessions, each running acquire() and holding one lease
    Supervisors,    \* process slots: how many supervisors may exist at a time
    None,           \* no supervisor
    MaxFaults,      \* bound: SIGTERMs, translator exits, failed steps, stalled clients
    MaxCrashes,     \* bound: supervisors killed without cleanup
    Deadlines,      \* TRUE: acquire()'s 10 s deadline may pass
    PollsBeatTimers \* TRUE: a 50 ms poll always fits inside the 1 s and 15 s timers

ASSUME SupervisorAssumption ==
    /\ None \notin Supervisors
    /\ MaxFaults \in Nat
    /\ MaxCrashes \in Nat
    /\ Deadlines \in BOOLEAN
    /\ PollsBeatTimers \in BOOLEAN

VARIABLES
    lock,       \* the supervisor that holds supervisor.lock, or None
    socket,     \* the supervisor that bound control.sock, None if the path is absent
    snapshot,   \* the private executable copy is in the runtime directory
    auth,       \* the access-token adapter file auth.json exists
    spc,        \* [Supervisors -> where run() stands]
    listening,  \* [Supervisors -> the listener descriptor is open]
    shutdown,   \* [Supervisors -> the SIGTERM/SIGINT flag]
    translator, \* [Supervisors -> "none", "running", "exited"]
    leases,     \* [Supervisors -> launchers whose stream is in `leases`]
    hadLease,   \* [Supervisors -> had_lease]
    elapsed,    \* [Supervisors -> the timer of the next idle exit has run out]
    lpc,        \* [Launchers -> where acquire() and its caller stand]
    conn,       \* [Launchers -> the live peer of the launcher's stream, or None]
    granted,    \* [Launchers -> READY has been written on that stream]
    late,       \* [Launchers -> acquire()'s deadline has passed]
    cooling,    \* [Launchers -> less than 500 ms since last_spawn]
    faults,     \* faults so far
    crashes     \* crashes so far

files     == <<snapshot, auth>>
serverVars == <<spc, listening, shutdown, translator, leases, hadLease, elapsed>>
clientVars == <<lpc, conn, granted, late, cooling>>
budget    == <<faults, crashes>>
vars      == <<lock, socket, files, serverVars, clientVars, budget>>

Booting   == {"open", "prepare", "trylock"}
Starting  == {"bind", "auth", "start", "wait"}
Serving   == {"top", "accept", "tend"}
Draining  == {"stop", "rmsocket", "rmauth", "rmexec", "unlock"}
Owning    == Starting \union Serving \union Draining
ServerPC  == {"absent", "exit"} \union Booting \union Owning

Acquiring == {"connect", "await", "snapshot", "exec"}
LauncherPC == {"idle", "sync", "leased"} \union Acquiring

TypeOK ==
    /\ lock \in Supervisors \union {None}
    /\ socket \in Supervisors \union {None}
    /\ snapshot \in BOOLEAN
    /\ auth \in BOOLEAN
    /\ spc \in [Supervisors -> ServerPC]
    /\ listening \in [Supervisors -> BOOLEAN]
    /\ shutdown \in [Supervisors -> BOOLEAN]
    /\ translator \in [Supervisors -> {"none", "running", "exited"}]
    /\ leases \in [Supervisors -> SUBSET Launchers]
    /\ hadLease \in [Supervisors -> BOOLEAN]
    /\ \A s \in Supervisors : leases[s] # {} => hadLease[s]
    /\ elapsed \in [Supervisors -> BOOLEAN]
    /\ lpc \in [Launchers -> LauncherPC]
    /\ conn \in [Launchers -> Supervisors \union {None}]
    /\ granted \in [Launchers -> BOOLEAN]
    /\ late \in [Launchers -> BOOLEAN]
    /\ cooling \in [Launchers -> BOOLEAN]
    /\ faults \in Nat
    /\ crashes \in Nat

Init ==
    /\ lock = None
    /\ socket = None
    /\ snapshot = FALSE
    /\ auth = FALSE
    /\ spc = [s \in Supervisors |-> "absent"]
    /\ listening = [s \in Supervisors |-> FALSE]
    /\ shutdown = [s \in Supervisors |-> FALSE]
    /\ translator = [s \in Supervisors |-> "none"]
    /\ leases = [s \in Supervisors |-> {}]
    /\ hadLease = [s \in Supervisors |-> FALSE]
    /\ elapsed = [s \in Supervisors |-> FALSE]
    /\ lpc = [l \in Launchers |-> "idle"]
    /\ conn = [l \in Launchers |-> None]
    /\ granted = [l \in Launchers |-> FALSE]
    /\ late = [l \in Launchers |-> FALSE]
    /\ cooling = [l \in Launchers |-> FALSE]
    /\ faults = 0
    /\ crashes = 0

\* One more fault; named so that its bound is in one place.
Fault == faults < MaxFaults /\ faults' = faults + 1 /\ UNCHANGED crashes

LGo(l, pc) == lpc' = [lpc EXCEPT ![l] = pc]
SGo(s, pc) == spc' = [spc EXCEPT ![s] = pc]

-----------------------------------------------------------------------------
(* Launchers: acquire() and the session that holds the lease.               *)

\* acquire() begins: paths.prepare() makes the snapshot if it is not there.
Begin(l) ==
    /\ lpc[l] = "idle"
    /\ snapshot' = TRUE
    /\ LGo(l, "connect")
    /\ late' = [late EXCEPT ![l] = FALSE]
    /\ cooling' = [cooling EXCEPT ![l] = FALSE]
    /\ UNCHANGED <<lock, socket, auth, serverVars, conn, granted, budget>>

\* Mutant: a failed attempt never leads to a spawn.
AfterFailureNoSpawn(l) == IF late[l] THEN "idle" ELSE "connect"

\* Where the retry loop goes after a failed attempt: a spawn if 500 ms have
\* passed since the last one, else the deadline check and the next poll.
AfterFailure(l) ==
    IF ~cooling[l] THEN "snapshot" ELSE IF late[l] THEN "idle" ELSE "connect"

Connectable == socket # None /\ listening[socket]

\* connect() succeeds while the path leads to an open listener, whether or
\* not its owner will ever accept again; the request line is written at once.
Connect(l) ==
    /\ lpc[l] = "connect"
    /\ Connectable /\ ~late[l]
    /\ conn' = [conn EXCEPT ![l] = socket]
    /\ LGo(l, "await")
    /\ UNCHANGED <<lock, socket, files, serverVars, granted, late, cooling, budget>>

\* No path, a path nobody listens on, or no time left.
ConnectFails(l) ==
    /\ lpc[l] = "connect"
    /\ ~Connectable \/ late[l]
    /\ LGo(l, AfterFailure(l))
    /\ UNCHANGED <<lock, socket, files, serverVars, conn, granted, late, cooling, budget>>

\* READY arrived: a Lease exists, acquire() goes on to sync_proxy_credentials.
ReadReady(l) ==
    /\ lpc[l] = "await"
    /\ granted[l]
    /\ LGo(l, "sync")
    /\ UNCHANGED <<lock, socket, files, serverVars, conn, granted, late, cooling, budget>>

\* End of file (the peer closed first) or the read timed out at the deadline.
NoReady(l) ==
    /\ lpc[l] = "await"
    /\ ~granted[l]
    /\ conn[l] = None \/ late[l]
    /\ conn' = [conn EXCEPT ![l] = None]
    /\ LGo(l, AfterFailure(l))
    /\ UNCHANGED <<lock, socket, files, serverVars, granted, late, cooling, budget>>

\* spawn_supervisor, first half: the snapshot is made again if it is gone.
Snapshot(l) ==
    /\ lpc[l] = "snapshot"
    /\ snapshot' = TRUE
    /\ LGo(l, "exec")
    /\ UNCHANGED <<lock, socket, auth, serverVars, conn, granted, late, cooling, budget>>

AfterSpawn(l) ==
    /\ LGo(l, IF late[l] THEN "idle" ELSE "connect")
    /\ cooling' = [cooling EXCEPT ![l] = TRUE]

\* Second half: the snapshot starts as a new process.
Spawn(l, s) ==
    /\ lpc[l] = "exec"
    /\ snapshot
    /\ spc[s] = "absent"
    /\ SGo(s, "open")
    /\ AfterSpawn(l)
    /\ UNCHANGED <<lock, socket, files, listening, shutdown, translator, leases,
                   hadLease, elapsed, conn, granted, late, budget>>

\* The snapshot was removed in between, or no process can be created; the
\* error is kept for the message and the loop goes on.
SpawnFails(l) ==
    /\ lpc[l] = "exec"
    /\ ~snapshot \/ \A s \in Supervisors : spc[s] # "absent"
    /\ AfterSpawn(l)
    /\ UNCHANGED <<lock, socket, files, serverVars, conn, granted, late, budget>>

\* sync_proxy_credentials(false) writes the adapter file on the launcher's side.
Sync(l) ==
    /\ lpc[l] = "sync"
    /\ auth' = TRUE
    /\ LGo(l, "leased")
    /\ UNCHANGED <<lock, socket, snapshot, serverVars, conn, granted, late, cooling, budget>>

\* The stream is dropped: acquire() failed after READY, the session ended, or
\* the launcher was killed; the kernel closes it in each case.
Leave(l) ==
    /\ conn' = [conn EXCEPT ![l] = None]
    /\ granted' = [granted EXCEPT ![l] = FALSE]
    /\ LGo(l, "idle")
    /\ UNCHANGED <<lock, socket, files, serverVars, late, cooling, budget>>

Close(l) == lpc[l] = "leased" /\ Leave(l)
Kill(l)  == lpc[l] # "idle" /\ Leave(l)

\* Time passes for a launcher.
Late(l) ==
    /\ Deadlines /\ lpc[l] \in Acquiring /\ ~late[l]
    /\ late' = [late EXCEPT ![l] = TRUE]
    /\ UNCHANGED <<lock, socket, files, serverVars, lpc, conn, granted, cooling, budget>>

Cool(l) ==
    /\ cooling[l]
    /\ cooling' = [cooling EXCEPT ![l] = FALSE]
    /\ UNCHANGED <<lock, socket, files, serverVars, lpc, conn, granted, late, budget>>

-----------------------------------------------------------------------------
(* Supervisors: run(), from exec to exit.                                   *)

\* The streams of a closed listener, and accepted streams dropped with them.
HangUp(s) ==
    /\ conn' = [l \in Launchers |-> IF conn[l] = s THEN None ELSE conn[l]]

\* The process is gone: the kernel closes its descriptors.
Gone(s) ==
    /\ SGo(s, "absent")
    /\ listening' = [listening EXCEPT ![s] = FALSE]
    /\ shutdown' = [shutdown EXCEPT ![s] = FALSE]
    /\ translator' = [translator EXCEPT ![s] = "none"]
    /\ leases' = [leases EXCEPT ![s] = {}]
    /\ hadLease' = [hadLease EXCEPT ![s] = FALSE]
    /\ elapsed' = [elapsed EXCEPT ![s] = FALSE]
    /\ HangUp(s)

\* Deployment::current() opens its own executable, the snapshot path.
OpenSelf(s) ==
    /\ spc[s] = "open"
    /\ SGo(s, IF snapshot THEN "prepare" ELSE "absent")
    /\ UNCHANGED <<lock, socket, files, listening, shutdown, translator, leases,
                   hadLease, elapsed, clientVars, budget>>

\* paths.prepare(): before the lock is tried.
Prepare(s) ==
    /\ spc[s] = "prepare"
    /\ snapshot' = TRUE
    /\ SGo(s, "trylock")
    /\ UNCHANGED <<lock, socket, auth, listening, shutdown, translator, leases,
                   hadLease, elapsed, clientVars, budget>>

\* Mutant: a lock that is taken is ignored.
TryLockIgnored(s) ==
    /\ spc[s] = "trylock"
    /\ lock' = s /\ SGo(s, "bind")
    /\ UNCHANGED <<socket, files, listening, shutdown, translator, leases,
                   hadLease, elapsed, clientVars, budget>>

\* try_lock_exclusive: the loser exits at once.
TryLock(s) ==
    /\ spc[s] = "trylock"
    /\ IF lock = None THEN lock' = s /\ SGo(s, "bind")
                      ELSE SGo(s, "absent") /\ UNCHANGED lock
    /\ UNCHANGED <<socket, files, listening, shutdown, translator, leases,
                   hadLease, elapsed, clientVars, budget>>

\* remove_stale_socket, then bind and listen.
Bind(s) ==
    /\ spc[s] = "bind"
    /\ socket' = s
    /\ listening' = [listening EXCEPT ![s] = TRUE]
    /\ SGo(s, "auth")
    /\ UNCHANGED <<lock, files, shutdown, translator, leases, hadLease, elapsed,
                   clientVars, budget>>

\* load_codex_credentials(false), then write_proxy_auth.
WriteAuth(s) ==
    /\ spc[s] = "auth"
    /\ auth' = TRUE
    /\ SGo(s, "start")
    /\ UNCHANGED <<lock, socket, snapshot, listening, shutdown, translator, leases,
                   hadLease, elapsed, clientVars, budget>>

StartTranslator(s) ==
    /\ spc[s] = "start"
    /\ translator' = [translator EXCEPT ![s] = "running"]
    /\ SGo(s, "wait")
    /\ UNCHANGED <<lock, socket, files, listening, shutdown, leases, hadLease,
                   elapsed, clientVars, budget>>

\* The health check passed with our own child alive; the bridge starts.
Healthy(s) ==
    /\ spc[s] = "wait"
    /\ ~shutdown[s] /\ translator[s] = "running"
    /\ SGo(s, "top")
    /\ elapsed' = [elapsed EXCEPT ![s] = FALSE]
    /\ UNCHANGED <<lock, socket, files, listening, shutdown, translator, leases,
                   hadLease, clientVars, budget>>

\* `?` on the way: the leases and the listener are dropped before the cleanup
\* guard, so whoever waits in the backlog sees end of file at once.
Abort(s) ==
    /\ SGo(s, "stop")
    /\ listening' = [listening EXCEPT ![s] = FALSE]
    /\ leases' = [leases EXCEPT ![s] = {}]
    /\ HangUp(s)
    /\ UNCHANGED <<lock, socket, files, shutdown, translator, hadLease, elapsed,
                   lpc, granted, late, cooling>>

\* wait_for_owned_proxy and wait_for_builtin_backend give up: a shutdown was
\* requested or the child is gone.
StartupStops(s) ==
    /\ spc[s] = "wait"
    /\ shutdown[s] \/ translator[s] = "exited"
    /\ Abort(s)
    /\ UNCHANGED budget

\* Any other failure that leaves run(): no sign-in, no health in 10 s, no bridge,
\* an adapter file that cannot be written, a listener that does not accept or a
\* stream, told READY, that cannot be set to nonblocking.
StepFails(s) ==
    /\ spc[s] \in {"bind", "auth", "start", "wait", "accept", "tend"}
    /\ Abort(s)
    /\ Fault

-----------------------------------------------------------------------------
(* One iteration of the supervisor loop is "top", "accept", "tend".         *)

Top(s) ==
    /\ spc[s] = "top"
    /\ SGo(s, IF shutdown[s] THEN "stop" ELSE "accept")
    /\ UNCHANGED <<lock, socket, files, listening, shutdown, translator, leases,
                   hadLease, elapsed, clientVars, budget>>

Pending(s) == {l \in Launchers : conn[l] = s /\ ~granted[l]}

\* Mutant: the accepted stream is not pushed, so nobody keeps it open.
AcceptNotPushed(s, l) ==
    /\ spc[s] = "accept"
    /\ l \in Pending(s)
    /\ granted' = [granted EXCEPT ![l] = TRUE]
    /\ hadLease' = [hadLease EXCEPT ![s] = TRUE]
    /\ UNCHANGED <<lock, socket, files, spc, listening, shutdown, translator, leases,
                   elapsed, lpc, conn, late, cooling, budget>>

\* accept_lease writes READY; only then is the stream pushed.
Accept(s, l) ==
    /\ spc[s] = "accept"
    /\ l \in Pending(s)
    /\ granted' = [granted EXCEPT ![l] = TRUE]
    /\ leases' = [leases EXCEPT ![s] = @ \union {l}]
    /\ hadLease' = [hadLease EXCEPT ![s] = TRUE]
    /\ UNCHANGED <<lock, socket, files, spc, listening, shutdown, translator, elapsed,
                   lpc, conn, late, cooling, budget>>

\* The request line did not come within a second: the stream is dropped.
Reject(s, l) ==
    /\ spc[s] = "accept"
    /\ l \in Pending(s)
    /\ Fault
    /\ conn' = [conn EXCEPT ![l] = None]
    /\ UNCHANGED <<lock, socket, files, serverVars, lpc, granted, late, cooling>>

WouldBlock(s) ==
    /\ spc[s] = "accept"
    /\ Pending(s) = {}
    /\ SGo(s, "tend")
    /\ UNCHANGED <<lock, socket, files, listening, shutdown, translator, leases,
                   hadLease, elapsed, clientVars, budget>>

OpenLeases(s) == {l \in leases[s] : conn[l] = s /\ granted[l]}

\* empty_since restarts the timer when the last lease goes.
JustEmptied(s) == leases[s] # {} /\ OpenLeases(s) = {}

\* Mutant: the exit looks at the clock alone.
IdleExitOnClock(s) == elapsed[s]

\* Mutant: no exit for a supervisor that never had a lease.
IdleExitAfterLease(s) == hadLease[s] /\ OpenLeases(s) = {} /\ elapsed[s] /\ ~JustEmptied(s)

\* Out of time: SHUTDOWN_GRACE since the last lease, or STARTUP_IDLE_TIMEOUT
\* without any.
IdleExit(s) ==
    /\ OpenLeases(s) = {}
    /\ elapsed[s] /\ ~JustEmptied(s)

\* The rest of the iteration: prune closed leases, look at the translator,
\* copy a changed sign-in into the adapter file, decide about exit.
Tend(s) ==
    /\ spc[s] = "tend"
    /\ leases' = [leases EXCEPT ![s] = OpenLeases(s)]
    /\ elapsed' = [elapsed EXCEPT ![s] = @ /\ ~JustEmptied(s)]
    /\ IF translator[s] = "exited"
       THEN SGo(s, "stop") /\ UNCHANGED auth
       ELSE /\ SGo(s, IF IdleExit(s) THEN "stop" ELSE "top")
            /\ auth' \in {auth, TRUE}
    /\ UNCHANGED <<lock, socket, snapshot, listening, shutdown, translator, hadLease,
                   clientVars, budget>>

\* Time passes: whichever timer the next idle exit would use has run out.
TimerRunsOut(s) ==
    /\ spc[s] \in Serving /\ ~elapsed[s]
    /\ PollsBeatTimers => \A l \in Launchers : lpc[l] \notin Acquiring
    /\ elapsed' = [elapsed EXCEPT ![s] = TRUE]
    /\ UNCHANGED <<lock, socket, files, spc, listening, shutdown, translator, leases,
                   hadLease, clientVars, budget>>

-----------------------------------------------------------------------------
(* SupervisorCleanup::drop, then unlock and return.                         *)

\* Mutant: the lock is released before the cleanup.
StopTranslatorUnlocked(s) ==
    /\ spc[s] = "stop"
    /\ lock' = None
    /\ translator' = [translator EXCEPT ![s] = "none"]
    /\ SGo(s, "rmsocket")
    /\ UNCHANGED <<socket, files, listening, shutdown, leases, hadLease, elapsed,
                   clientVars, budget>>

StopTranslator(s) ==
    /\ spc[s] = "stop"
    /\ translator' = [translator EXCEPT ![s] = "none"]
    /\ SGo(s, "rmsocket")
    /\ UNCHANGED <<lock, socket, files, listening, shutdown, leases, hadLease, elapsed,
                   clientVars, budget>>

RemoveSocket(s) ==
    /\ spc[s] = "rmsocket"
    /\ socket' = None
    /\ SGo(s, "rmauth")
    /\ UNCHANGED <<lock, files, listening, shutdown, translator, leases, hadLease,
                   elapsed, clientVars, budget>>

\* Mutant: the adapter file stays.
RemoveAuthForgotten(s) ==
    /\ spc[s] = "rmauth"
    /\ SGo(s, "rmexec")
    /\ UNCHANGED <<lock, socket, files, listening, shutdown, translator, leases,
                   hadLease, elapsed, clientVars, budget>>

\* remove_ephemeral_auth.
RemoveAuth(s) ==
    /\ spc[s] = "rmauth"
    /\ auth' = FALSE
    /\ SGo(s, "rmexec")
    /\ UNCHANGED <<lock, socket, snapshot, listening, shutdown, translator, leases,
                   hadLease, elapsed, clientVars, budget>>

RemoveSnapshot(s) ==
    /\ spc[s] = "rmexec"
    /\ snapshot' = FALSE
    /\ SGo(s, "unlock")
    /\ UNCHANGED <<lock, socket, auth, listening, shutdown, translator, leases,
                   hadLease, elapsed, clientVars, budget>>

Unlock(s) ==
    /\ spc[s] = "unlock"
    /\ lock' = None
    /\ SGo(s, "exit")
    /\ UNCHANGED <<socket, files, listening, shutdown, translator, leases, hadLease,
                   elapsed, clientVars, budget>>

Exit(s) ==
    /\ spc[s] = "exit"
    /\ Gone(s)
    /\ UNCHANGED <<lock, socket, files, lpc, granted, late, cooling, budget>>

-----------------------------------------------------------------------------
(* The environment: signals, a translator that dies, a killed supervisor.   *)

\* SIGTERM or SIGINT once the handlers are registered.
Terminate(s) ==
    /\ spc[s] \in Owning /\ ~shutdown[s]
    /\ Fault
    /\ shutdown' = [shutdown EXCEPT ![s] = TRUE]
    /\ UNCHANGED <<lock, socket, files, spc, listening, translator, leases, hadLease,
                   elapsed, clientVars>>

TranslatorDies(s) ==
    /\ translator[s] = "running"
    /\ Fault
    /\ translator' = [translator EXCEPT ![s] = "exited"]
    /\ UNCHANGED <<lock, socket, files, spc, listening, shutdown, leases, hadLease,
                   elapsed, clientVars>>

\* SIGKILL or power loss of the process: no cleanup, the kernel frees the lock.
Crash(s) ==
    /\ spc[s] # "absent"
    /\ crashes < MaxCrashes
    /\ crashes' = crashes + 1
    /\ lock' = IF lock = s THEN None ELSE lock
    /\ Gone(s)
    /\ UNCHANGED <<socket, files, lpc, granted, late, cooling, faults>>

-----------------------------------------------------------------------------
LauncherStep(l) ==
    \/ Connect(l) \/ ConnectFails(l) \/ ReadReady(l) \/ NoReady(l)
    \/ Snapshot(l) \/ (\E s \in Supervisors : Spawn(l, s)) \/ SpawnFails(l)
    \/ Sync(l) \/ Late(l) \/ Cool(l)

Session(l) == Begin(l) \/ Close(l) \/ Kill(l)

ServerStep(s) ==
    \/ OpenSelf(s) \/ Prepare(s) \/ TryLock(s) \/ Bind(s) \/ WriteAuth(s)
    \/ StartTranslator(s) \/ Healthy(s) \/ StartupStops(s)
    \/ Top(s) \/ (\E l \in Launchers : Accept(s, l)) \/ WouldBlock(s) \/ Tend(s)
    \/ StopTranslator(s) \/ RemoveSocket(s) \/ RemoveAuth(s) \/ RemoveSnapshot(s)
    \/ Unlock(s) \/ Exit(s)

FaultStep(s) ==
    \/ StepFails(s) \/ (\E l \in Launchers : Reject(s, l))
    \/ Terminate(s) \/ TranslatorDies(s) \/ Crash(s)

Next ==
    \/ \E l \in Launchers : LauncherStep(l) \/ Session(l)
    \/ \E s \in Supervisors : ServerStep(s) \/ TimerRunsOut(s) \/ FaultStep(s)

Spec == Init /\ [][Next]_vars

(* Both loops sleep for a fixed time and go round again, timers run out, and *)
(* nothing else is promised: nobody has to start, end or kill a session.     *)
(* The listen queue is first in, first out, so nobody in it is passed over    *)
(* for ever.                                                                 *)
Fairness ==
    /\ \A l \in Launchers : WF_vars(Connect(l) \/ ConnectFails(l)) /\ WF_vars(ReadReady(l))
         /\ WF_vars(NoReady(l)) /\ WF_vars(Snapshot(l)) /\ WF_vars(Sync(l))
         /\ WF_vars((\E s \in Supervisors : Spawn(l, s)) \/ SpawnFails(l))
         /\ WF_vars(Cool(l))
    /\ \A s \in Supervisors : WF_vars(ServerStep(s)) /\ WF_vars(TimerRunsOut(s))
         /\ \A l \in Launchers : WF_vars(Accept(s, l))

FairSpec == Spec /\ Fairness

-----------------------------------------------------------------------------
(* Correctness.                                                             *)

\* Whoever is between the lock and the unlock is the process that holds the
\* lock, so two supervisors never start, serve or clean up at the same time:
\* "only the lock owner starts the proxy" (README, shared proxy lifecycle).
LockOwnsRuntime == \A s \in Supervisors : spc[s] \in Owning <=> lock = s

\* Every process, file and queue is what it may be, under one owner.
RuntimeInOrder == TypeOK /\ LockOwnsRuntime

\* While a supervisor serves, the path launchers connect to is its own open
\* listener, the adapter file its translator reads is there, and the translator
\* has been started: no cleanup of a predecessor may take them away.
ServingIsWhole ==
    \A s \in Supervisors : spc[s] \in Serving =>
        /\ socket = s /\ listening[s]
        /\ auth
        /\ translator[s] # "none"

\* A launcher that has its READY is in the lease list of a supervisor that is
\* serving, as long as nothing failed and nobody was signalled: a session never
\* loses its proxy to an idle exit of the supervisor that granted the lease.
LeaseIsBacked ==
    faults = 0 /\ crashes = 0 =>
        \A l \in Launchers : granted[l] =>
            \E s \in Supervisors :
                conn[l] = s /\ l \in leases[s] /\ spc[s] \in Serving

\* The idle exit by itself: whatever has failed before, a supervisor whose
\* translator lives and that nobody signalled leaves its loop only when no
\* launcher holds a granted stream to it.
NoDrainUnderLease ==
    [][\A s \in Supervisors :
        spc[s] \in Serving /\ spc'[s] = "stop" /\ faults' = faults
        /\ ~shutdown[s] /\ translator[s] = "running"
        => \A l \in Launchers : ~(conn[l] = s /\ granted[l])]_vars

\* Without faults, whenever the lock is free nothing of the previous supervisor
\* is left: no socket path, no access token on disk (README: "removed when the
\* supervisor stops").
FreeLockMeansClean ==
    faults = 0 /\ crashes = 0 /\ lock = None => socket = None /\ ~auth

\* A session that acquires keeps trying until it has its lease (or is killed),
\* across drains, lost spawns and closed backlogs.
AcquireSucceeds ==
    \A l \in Launchers : lpc[l] \in Acquiring ~> lpc[l] \in {"leased", "idle"}

\* Once the sessions are over no supervisor is left; and one that nothing
\* interrupted took its socket and the access token with it.
QuiescentCleanup ==
    []<>(\E l \in Launchers : lpc[l] # "idle")
    \/ <>[](/\ \A s \in Supervisors : spc[s] = "absent"
            /\ faults = 0 /\ crashes = 0 => socket = None /\ ~auth)

\* The lease service seen from the sessions: a proxy is up while a supervisor is
\* in its loop, and held by the launchers whose granted stream leads to it.
ServedBy(s) == {l \in Launchers : conn[l] = s /\ granted[l]}
Up == \E s \in Supervisors : spc[s] \in Serving
Held == UNION {ServedBy(s) : s \in {t \in Supervisors : spc[t] \in Serving}}
Troubled ==
    \E s \in Supervisors :
        spc[s] \in Serving /\ (shutdown[s] \/ translator[s] = "exited")

Service == INSTANCE LeaseService WITH
    up <- Up, holders <- Held, troubled <- Troubled, trouble <- faults + crashes

\* Locks, files, loops and retries implement the lease service.
ImplementsLeaseService == Service!Spec

\* README and deployment.rs: status-line helpers run the private copy the
\* launcher saved, so the copy exists as long as a supervisor serves.
SnapshotWhileServing ==
    faults = 0 /\ crashes = 0 =>
        \A s \in Supervisors : spc[s] \in Serving => snapshot

\* README: the adapter file is "removed when the supervisor stops", on a signal
\* and on a proxy crash as well; only a killed supervisor may leave it behind.
AuthRemovedOnStop ==
    crashes = 0 /\ (\A s \in Supervisors : spc[s] = "absent") => ~auth
=============================================================================
