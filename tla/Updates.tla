-------------------------------- MODULE Updates --------------------------------
(***************************************************************************)
(* Releases and the builds that sessions run: background checks that share  *)
(* a cache and a lock, the update command, and the pinning of a session's   *)
(* build while the installed executable is replaced.                        *)
(*                                                                          *)
(* A release, a build and what is installed are version numbers; 0 is none. *)
(***************************************************************************)
EXTENDS Naturals, FiniteSets

CONSTANTS
    Checker,      \* launchers, each of which checks for updates in the background
    Updater,      \* update commands
    NoOne,
    MaxVersion,   \* bound: releases
    OpensByName   \* current_exe names the path that was started (macOS), not its file (Linux)

ASSUME UpdatesAssumption ==
    MaxVersion \in Nat \ {0} /\ OpensByName \in BOOLEAN /\ NoOne \notin Checker

VARIABLES
    latest,     \* GitHub's latest release
    installed,  \* the executable that new sessions run
    cache,      \* updates.json: the release, and how old the check is
    checkLock,  \* updates.lock
    session,    \* [Checker -> the launcher and its checks]
    updater     \* [Updater -> the command]

updateVars == <<latest, installed, cache, checkLock, session, updater>>

Version == 0 .. MaxVersion

\* A check of the last hour is fresh; one that the clock says is still to come is not.
Ages == {"fresh", "stale", "future"}

NotStarted == [at |-> "off", build |-> 0, pinned |-> 0, check |-> "sleeping", release |-> 0]
NotRun     == [at |-> "off", build |-> 0, release |-> 0, overtaken |-> FALSE]

UpdatesTypeOK ==
    /\ latest \in Version /\ installed \in Version \ {0}
    /\ cache \in [release: Version, age: Ages] /\ checkLock \in Checker \union {NoOne}
    /\ session \in [Checker -> [at: {"off", "started", "running"}, build: Version, pinned: Version,
                                check: {"sleeping", "stale", "fetching", "fetched"}, release: Version]]
    /\ updater \in [Updater -> [at: {"off", "fetching", "fetched", "installing"}, build: Version,
                                release: Version, overtaken: BOOLEAN]]

UpdatesInit ==
    /\ latest \in Version /\ installed \in Version \ {0}  \* installed from a release or from source
    /\ cache = [release |-> 0, age |-> "stale"] /\ checkLock = NoOne
    /\ session = [s \in Checker |-> NotStarted]
    /\ updater = [u \in Updater |-> NotRun]

-----------------------------------------------------------------------------
\* GitHub publishes a release that is newer than all before.
Publish ==
    /\ latest < MaxVersion /\ latest' = latest + 1
    /\ UNCHANGED <<installed, cache, checkLock, session, updater>>

\* An hour passes since the check.
HourPasses ==
    /\ cache.age = "fresh" /\ cache' = [cache EXCEPT !.age = "stale"]
    /\ UNCHANGED <<latest, installed, checkLock, session, updater>>

\* The clock is set back, and may get to the time of the check again.
ClockCatchesUp ==
    /\ cache.age = "future" /\ cache' = [cache EXCEPT !.age = "fresh"]
    /\ UNCHANGED <<latest, installed, checkLock, session, updater>>

ClockSetBack ==
    /\ cache.age # "future" /\ cache' = [cache EXCEPT !.age = "future"]
    /\ UNCHANGED <<latest, installed, checkLock, session, updater>>

-----------------------------------------------------------------------------
(* Sessions. *)

StartSession(s) ==
    /\ session[s].at = "off"
    /\ session' = [session EXCEPT ![s].at = "started", ![s].build = installed]
    /\ UNCHANGED <<latest, installed, cache, checkLock, updater>>

\* What current_exe names, if it is still there.
Opens(s) == IF OpensByName \/ installed = session[s].build THEN installed ELSE 0

\* Deployment::current, the first thing a launcher does.
Pin(s) ==
    /\ session[s].at = "started"
    /\ session' = [session EXCEPT ![s] =
                      IF Opens(s) = 0 THEN NotStarted
                      ELSE [@ EXCEPT !.at = "running", !.pinned = Opens(s)]]
    /\ UNCHANGED <<latest, installed, cache, checkLock, updater>>

\* The session ends, with its thread; the kernel frees its lock.
End(s) ==
    /\ session[s].at # "off"
    /\ session' = [session EXCEPT ![s] = NotStarted]
    /\ checkLock' = IF checkLock = s THEN NoOne ELSE checkLock
    /\ UNCHANGED <<latest, installed, cache, updater>>

IsFresh == cache.age = "fresh"

\* check_cached: a first look at the cache.
Look(s) ==
    /\ session[s].at = "running" /\ session[s].check = "sleeping" /\ ~IsFresh
    /\ session' = [session EXCEPT ![s].check = "stale"]
    /\ UNCHANGED <<latest, installed, cache, checkLock, updater>>

\* A mutant of StillStale: the cache is not read again under the lock.
StillStaleAnyway == TRUE

StillStale == ~IsFresh

\* The lock, or another checker has it; then a second look.
TakeLock(s) ==
    /\ session[s].check = "stale"
    /\ IF checkLock = NoOne /\ StillStale
       THEN /\ checkLock' = s
            /\ session' = [session EXCEPT ![s].check = "fetching", ![s].release = cache.release]
       ELSE session' = [session EXCEPT ![s].check = "sleeping"] /\ UNCHANGED checkLock
    /\ UNCHANGED <<latest, installed, cache, updater>>

\* fetch_latest: a failure keeps the release that was known.
Fetched(s) ==
    /\ session[s].check = "fetching"
    /\ \E release \in {latest, session[s].release} :
          session' = [session EXCEPT ![s].check = "fetched", ![s].release = release]
    /\ UNCHANGED <<latest, installed, cache, checkLock, updater>>

\* write_cache, unless that fails; the lock is dropped.
Recorded(s) ==
    /\ session[s].check = "fetched"
    /\ \/ cache' = [release |-> session[s].release, age |-> "fresh"]
       \/ UNCHANGED cache
    /\ checkLock' = NoOne
    /\ session' = [session EXCEPT ![s].check = "sleeping", ![s].release = 0]
    /\ UNCHANGED <<latest, installed, updater>>

-----------------------------------------------------------------------------
(* The update command. *)

StartUpdate(u) ==
    /\ updater[u].at = "off"
    /\ updater' = [updater EXCEPT ![u] = [NotRun EXCEPT !.at = "fetching", !.build = installed]]
    /\ UNCHANGED <<latest, installed, cache, checkLock, session>>

UpdateFetched(u) ==
    /\ updater[u].at = "fetching"
    /\ updater' = [updater EXCEPT ![u].at = "fetched", ![u].release = latest]
    /\ UNCHANGED <<latest, installed, cache, checkLock, session>>

\* newer_than, and an asset for this platform
NewerThan(release, build) == release > build

\* The cache is written without the lock, if it can be; then the release is
\* compared, and the executable looked up that is to be replaced.
Decide(u) ==
    LET q == updater[u]
    IN  /\ q.at = "fetched"
        /\ \/ cache' = [release |-> q.release, age |-> "fresh"]
           \/ UNCHANGED cache
        /\ updater' = [updater EXCEPT ![u] =
                          IF NewerThan(q.release, q.build) /\ (OpensByName \/ installed = q.build)
                          THEN [q EXCEPT !.at = "installing"] ELSE NotRun]
        /\ UNCHANGED <<latest, installed, checkLock, session>>

\* verify_checksum and install_archive: the archive that was asked for, and a
\* binary that says it is the release, take the place of the executable.
Install(u) ==
    /\ updater[u].at = "installing"
    /\ installed' = updater[u].release
    /\ updater' = [v \in Updater |-> IF v = u THEN NotRun ELSE [updater[v] EXCEPT !.overtaken = TRUE]]
    /\ UNCHANGED <<latest, cache, checkLock, session>>

\* Any step fails, or the command is stopped: nothing is replaced.
UpdateFails(u) ==
    /\ updater[u].at # "off"
    /\ updater' = [updater EXCEPT ![u] = NotRun]
    /\ UNCHANGED <<latest, installed, cache, checkLock, session>>

UpdatesNext ==
    \/ Publish \/ HourPasses \/ ClockCatchesUp \/ ClockSetBack
    \/ \E s \in Checker : StartSession(s) \/ Pin(s) \/ End(s) \/ Look(s) \/ TakeLock(s) \/ Fetched(s) \/ Recorded(s)
    \/ \E u \in Updater : StartUpdate(u) \/ UpdateFetched(u) \/ Decide(u) \/ Install(u) \/ UpdateFails(u)

UpdatesSpec == UpdatesInit /\ [][UpdatesNext]_updateVars

-----------------------------------------------------------------------------
(* One session performs each hourly check: nobody asks GitHub in the
   background while another does, or within an hour of a recorded answer, even
   if it found the cache stale before another session renewed it. *)
OneCheckAnHour ==
    [][\A s \in Checker :
          session[s].check # "fetching" /\ session'[s].check = "fetching" =>
              /\ ~IsFresh
              /\ \A other \in Checker \ {s} : session[other].check \notin {"fetching", "fetched"}]_updateVars

(* A release replaces an older build, whatever was published or written to the
   cache meanwhile.  Only updates that overlap may put an older release in the
   place of a newer one. *)
OnlyForward ==
    [][installed' # installed => \/ installed' > installed
                                 \/ \E u \in Updater : updater[u].overtaken /\ updater[u].release = installed']_updateVars

(* A session's supervisor, status line and socket belong to the build that the
   session runs, whenever the installed executable is replaced (README.md,
   "Supervisor": an update cannot cause its startup to use another build). *)
PinsItsOwnBuild ==
    \A s \in Checker : session[s].at = "running" => session[s].pinned = session[s].build

UpdatesSafety == UpdatesTypeOK /\ PinsItsOwnBuild

(* All of it, while checks and update commands overlap. *)
UpdatesInStep == []UpdatesSafety /\ OneCheckAnHour /\ OnlyForward
================================================================================
