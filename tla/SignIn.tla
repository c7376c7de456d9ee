-------------------------------- MODULE SignIn --------------------------------
(***************************************************************************)
(* The Codex sign-in of a Clodex home and its copies: codex.json, which      *)
(* every process may renew under the file lock; the Codex CLI's own login;   *)
(* the supervisor's copy in memory; and the adapter file the backend reads,  *)
(* which the supervisor and every launcher write.                            *)
(*                                                                          *)
(* A token is a number and stands for an access token with the refresh       *)
(* token issued beside it.  Files are replaced by rename, so a read sees one *)
(* whole value.  Looking for codex.json and reading the Codex CLI's file     *)
(* instead is one step.                                                      *)
(***************************************************************************)
EXTENDS Naturals, FiniteSets

CONSTANTS
    Process,     \* launchers and `clodex auth` commands
    Supervisor,  \* the one process that keeps the adapter file up to date
    None,        \* no token, no lock holder
    MaxTokens,   \* bound: how many tokens are issued
    MaxFaults    \* bound: kills, requests that fail, answers that are lost

ASSUME SignInAssumption ==
    /\ Supervisor \notin Process
    /\ None \notin Process \union {Supervisor}
    /\ None \notin Nat
    /\ MaxTokens \in Nat /\ MaxFaults \in Nat

Actor == Process \union {Supervisor}
Token == 1 .. MaxTokens
Copy  == Token \union {None}

VARIABLES
    login,    \* codex.json
    codex,    \* the Codex CLI's auth.json
    adapter,  \* the adapter file
    memory,   \* the supervisor's `credentials`, None while it starts or is down
    lock,     \* who holds codex.lock
    issued,   \* how many tokens have been issued
    parent,   \* [Token -> the token that was spent for it, None for a sign-in]
    spent,    \* tokens the issuer has exchanged
    orphaned, \* spent tokens whose successor a fault has lost
    refused,  \* tokens that were presented after they had been spent
    aged,     \* tokens within five minutes of their expiry
    job,      \* [Actor -> what it is doing]
    pc,       \* [Actor -> where it stands]
    held,     \* [Actor -> the token it has read or was given]
    faults    \* faults so far

files  == <<login, codex, adapter>>
issuer == <<issued, parent, spent, orphaned, refused>>
vars   == <<files, memory, lock, issuer, aged, job, pc, held, faults>>

\* "sync": a launcher after READY.  "force": `clodex auth sync`.  "catalog": the
\* model catalog's fetch, which keeps what it loads to itself.
Jobs   == {"none", "watch", "sync", "force", "catalog", "login", "logout"}
Locked == {"check", "present", "save", "store", "remove"}
Carrying == {"lock", "check", "present", "save", "store", "write"}
Steps  == {"idle", "load", "reload", "lock", "write"} \union Locked

SignInTypeOK ==
    /\ login \in Copy /\ codex \in Copy /\ adapter \in Copy /\ memory \in Copy
    /\ lock \in Actor \union {None}
    /\ issued \in 0 .. MaxTokens
    /\ parent \in [Token -> Copy]
    /\ spent \subseteq Token /\ orphaned \subseteq spent /\ refused \subseteq Token
    /\ aged \subseteq Token
    /\ job \in [Actor -> Jobs]
    /\ pc \in [Actor -> Steps]
    /\ held \in [Actor -> Copy]
    /\ \A a \in Actor : pc[a] \in Carrying /\ job[a] # "logout" => held[a] # None
    /\ faults \in Nat

Init ==
    /\ login = None /\ codex = None /\ adapter = None /\ memory = None
    /\ lock = None
    /\ issued = 0 /\ parent = [t \in Token |-> None]
    /\ spent = {} /\ orphaned = {} /\ refused = {}
    /\ aged = {}
    /\ job = [a \in Actor |-> "none"]
    /\ pc = [a \in Actor |-> "idle"]
    /\ held = [a \in Actor |-> None]
    /\ faults = 0

-----------------------------------------------------------------------------
Fault == faults < MaxFaults /\ faults' = faults + 1

Goto(a, step) == pc' = [pc EXCEPT ![a] = step]
Hold(a, t)    == held' = [held EXCEPT ![a] = t]
Unlock        == lock' = None

\* What load_codex_credentials(false) finds.
Source == IF login # None THEN login ELSE codex

\* A new token; it exists only if the issuer has one left within the bound.
Issue(from) ==
    /\ issued < MaxTokens
    /\ issued' = issued + 1
    /\ parent' = [parent EXCEPT ![issued + 1] = from]

\* The job is over.  The supervisor goes on watching, or if it has not started
\* yet it leaves run() and its cleanup removes the adapter file.
Finish(a) ==
    /\ Goto(a, "idle")
    /\ Hold(a, None)
    /\ job' = [job EXCEPT ![a] = IF a = Supervisor /\ memory # None THEN "watch" ELSE "none"]

GiveUp(a) ==
    /\ Finish(a)
    /\ adapter' = IF a = Supervisor /\ memory = None THEN None ELSE adapter

\* The credentials are loaded; the catalog's fetch has no file to write.
Loaded(a, t) ==
    IF job[a] = "catalog" THEN Finish(a) ELSE Goto(a, "write") /\ Hold(a, t) /\ UNCHANGED job

-----------------------------------------------------------------------------
(* What starts: commands, launchers, the supervisor and its two-second check. *)

\* A launcher syncs once a supervisor has granted its lease.
Begin(p, what) ==
    /\ job[p] = "none"
    /\ what \in {"sync", "force"} => memory # None
    /\ job' = [job EXCEPT ![p] = what]
    /\ \/ what \in {"sync", "force", "catalog"} /\ Goto(p, "load") /\ UNCHANGED <<held, issued, parent>>
       \/ what = "logout" /\ Goto(p, "lock") /\ UNCHANGED <<held, issued, parent>>
       \/ what = "login" /\ Issue(None) /\ Hold(p, issued + 1) /\ Goto(p, "lock")
    /\ UNCHANGED <<files, memory, lock, spent, orphaned, refused, aged, faults>>

\* run() loads the credentials and writes the adapter file.
Start ==
    /\ job[Supervisor] = "none"
    /\ job' = [job EXCEPT ![Supervisor] = "watch"]
    /\ Goto(Supervisor, "load")
    /\ UNCHANGED <<files, memory, lock, issuer, aged, held, faults>>

Check ==
    /\ memory # None /\ pc[Supervisor] = "idle"
    /\ Goto(Supervisor, "load")
    /\ UNCHANGED <<files, memory, lock, issuer, aged, job, held, faults>>

Stop ==
    /\ memory # None /\ pc[Supervisor] = "idle"
    /\ memory' = None /\ adapter' = None
    /\ job' = [job EXCEPT ![Supervisor] = "none"]
    /\ UNCHANGED <<login, codex, lock, issuer, aged, pc, held, faults>>

-----------------------------------------------------------------------------
(* load_codex_credentials and refresh_clodex_login. *)

\* A mutant of AfterLoad: the supervisor looks at its own copy's age alone.
AfterLoadByAge(a) ==
    IF a = Supervisor /\ memory # None
    THEN IF memory \in aged THEN "reload" ELSE "idle"
    ELSE IF job[a] = "force" \/ (job[a] # "watch" /\ Source \in aged) THEN "reload" ELSE "write"

\* What follows a load: the supervisor compares with its copy and looks at that
\* copy's age; at its start it takes what it finds; everybody else looks at the
\* age of what was found.
AfterLoad(a) ==
    IF a = Supervisor /\ memory # None
    THEN IF Source # memory THEN "write" ELSE IF memory \in aged THEN "reload" ELSE "idle"
    ELSE IF job[a] = "force" \/ (job[a] # "watch" /\ Source \in aged) THEN "reload" ELSE "write"

\* The credentials as they are; there may be none.
Load(a) ==
    /\ pc[a] = "load"
    /\ \/ Source = None /\ GiveUp(a)
       \/ /\ Source # None
          /\ UNCHANGED adapter
          /\ \/ AfterLoad(a) = "reload" /\ Goto(a, "reload") /\ UNCHANGED <<job, held>>
             \/ AfterLoad(a) = "write" /\ Loaded(a, Source)
             \/ AfterLoad(a) = "idle" /\ Finish(a)
    /\ UNCHANGED <<login, codex, memory, lock, issuer, aged, faults>>

\* load_codex_credentials(true) reads codex.json again: that is `held`.
Reload(a) ==
    /\ pc[a] = "reload" /\ login # None
    /\ Hold(a, login)
    /\ Goto(a, "lock")
    /\ UNCHANGED <<files, memory, lock, issuer, aged, job, faults>>

\* Without one, the Codex App Server renews the CLI's login, or fails to.
ReloadThroughCodex(a) ==
    /\ pc[a] = "reload" /\ login = None
    /\ \/ /\ codex # None /\ Issue(None)
          /\ codex' = issued + 1
          /\ Loaded(a, issued + 1)
          /\ UNCHANGED <<adapter, faults>>
       \/ /\ codex = None \/ issued = MaxTokens
          /\ GiveUp(a) /\ UNCHANGED <<codex, issued, parent, faults>>
       \/ Fault /\ GiveUp(a) /\ UNCHANGED <<codex, issued, parent>>
    /\ UNCHANGED <<login, memory, lock, spent, orphaned, refused, aged>>

\* Mutant: nobody waits for the file lock.
LockIgnored(a) ==
    /\ pc[a] = "lock"
    /\ lock' = a
    /\ Goto(a, CASE job[a] = "login" -> "store" [] job[a] = "logout" -> "remove"
                 [] OTHER -> "check")
    /\ UNCHANGED <<files, memory, issuer, aged, job, held, faults>>

\* lock_login waits for the file lock.
Lock(a) ==
    /\ pc[a] = "lock"
    /\ lock = None
    /\ lock' = a
    /\ Goto(a, CASE job[a] = "login" -> "store" [] job[a] = "logout" -> "remove"
                 [] OTHER -> "check")
    /\ UNCHANGED <<files, memory, issuer, aged, job, held, faults>>

\* Mutant: what was read before the lock is trusted.
RecheckSkipped(a) ==
    /\ pc[a] = "check"
    /\ Goto(a, "present")
    /\ UNCHANGED <<files, memory, lock, issuer, aged, job, held, faults>>

\* Under the lock codex.json is read again: gone, renewed by somebody else, or
\* still what was held.
Recheck(a) ==
    /\ pc[a] = "check"
    /\ \/ login = None /\ Unlock /\ GiveUp(a)
       \/ /\ login \notin {None, held[a]}
          /\ Unlock /\ Loaded(a, login) /\ UNCHANGED adapter
       \/ login # None /\ login = held[a] /\ Goto(a, "present") /\ UNCHANGED <<adapter, lock, job, held>>
    /\ UNCHANGED <<login, codex, memory, issuer, aged, faults>>

\* The issuer exchanges a refresh token once.
Present(a) ==
    /\ pc[a] = "present"
    /\ held[a] \notin spent
    /\ Issue(held[a])
    /\ spent' = spent \union {held[a]}
    /\ Hold(a, issued + 1)
    /\ Goto(a, "save")
    /\ UNCHANGED <<files, memory, lock, orphaned, refused, aged, job, faults>>

\* Refused because it was spent; never arrived; or arrived and the answer is lost.
PresentFails(a) ==
    /\ pc[a] = "present"
    /\ \/ held[a] \in spent /\ refused' = refused \union {held[a]}
          /\ UNCHANGED <<spent, orphaned, faults>>
       \/ issued = MaxTokens /\ UNCHANGED <<spent, orphaned, refused, faults>>
       \/ Fault /\ UNCHANGED <<spent, orphaned, refused>>
       \/ Fault /\ held[a] \notin spent /\ spent' = spent \union {held[a]}
          /\ orphaned' = orphaned \union {held[a]} /\ UNCHANGED refused
    /\ Unlock /\ GiveUp(a)
    /\ UNCHANGED <<login, codex, memory, issued, parent, aged>>

\* Mutant: the renewed tokens are used but not stored.
SaveForgotten(a) ==
    /\ pc[a] = "save"
    /\ Unlock /\ Loaded(a, held[a])
    /\ UNCHANGED <<files, memory, issuer, aged, faults>>

\* write_clodex_login and the end of the lock's scope.
Save(a) ==
    /\ pc[a] = "save"
    /\ login' = held[a]
    /\ Unlock /\ Loaded(a, held[a])
    /\ UNCHANGED <<codex, adapter, memory, issuer, aged, faults>>

\* The new tokens cannot be written.
SaveFails(a) ==
    /\ pc[a] = "save" /\ Fault
    /\ orphaned' = orphaned \union {parent[held[a]]}
    /\ Unlock /\ GiveUp(a)
    /\ UNCHANGED <<login, codex, memory, issued, parent, spent, refused, aged>>

\* write_proxy_auth; the supervisor remembers what it wrote.
Write(a) ==
    /\ pc[a] = "write"
    /\ adapter' = held[a]
    /\ memory' = IF a = Supervisor THEN held[a] ELSE memory
    /\ Goto(a, "idle") /\ Hold(a, None)
    /\ job' = [job EXCEPT ![a] = IF a = Supervisor THEN "watch" ELSE "none"]
    /\ UNCHANGED <<login, codex, lock, issuer, aged, faults>>

\* acquire() returns the error; run() ends and its cleanup follows.
WriteFails(a) ==
    /\ pc[a] = "write" /\ Fault
    /\ IF a = Supervisor THEN adapter' = None /\ memory' = None ELSE UNCHANGED <<adapter, memory>>
    /\ Goto(a, "idle") /\ Hold(a, None)
    /\ job' = [job EXCEPT ![a] = "none"]
    /\ UNCHANGED <<login, codex, lock, issuer, aged>>

-----------------------------------------------------------------------------
(* `clodex auth login` with its new token, and `clodex auth logout`. *)

Store(a) ==
    /\ pc[a] = "store"
    /\ login' = held[a]
    /\ Unlock /\ Finish(a)
    /\ UNCHANGED <<codex, adapter, memory, issuer, aged, faults>>

Remove(a) ==
    /\ pc[a] = "remove"
    /\ login' = None
    /\ Unlock /\ Finish(a)
    /\ UNCHANGED <<codex, adapter, memory, issuer, aged, faults>>

-----------------------------------------------------------------------------
(* The environment. *)

\* Codex signs in or renews its own login.
CodexChanges ==
    /\ Issue(None)
    /\ codex' = issued + 1
    /\ UNCHANGED <<login, adapter, memory, lock, spent, orphaned, refused, aged,
                   job, pc, held, faults>>

\* A token comes within its margin, while another can still be issued.  The age
\* of any other token is never looked at.
Age(t) ==
    /\ issued < MaxTokens
    /\ t \in {Source, memory} \ aged
    /\ aged' = aged \union {t}
    /\ UNCHANGED <<files, memory, lock, issuer, job, pc, held, faults>>

\* Killed anywhere; the kernel frees the lock.  A supervisor leaves its files.
Kill(a) ==
    /\ job[a] # "none" /\ Fault
    /\ lock' = IF lock = a THEN None ELSE lock
    /\ orphaned' = IF pc[a] = "save" THEN orphaned \union {parent[held[a]]} ELSE orphaned
    /\ memory' = IF a = Supervisor THEN None ELSE memory
    /\ job' = [job EXCEPT ![a] = "none"]
    /\ Goto(a, "idle") /\ Hold(a, None)
    /\ UNCHANGED <<files, issued, parent, spent, refused, aged>>

-----------------------------------------------------------------------------
Step(a) ==
    \/ Load(a) \/ Reload(a) \/ ReloadThroughCodex(a) \/ Lock(a) \/ Recheck(a)
    \/ Present(a) \/ PresentFails(a) \/ Save(a) \/ Write(a) \/ Store(a) \/ Remove(a)

Next ==
    \/ \E p \in Process : \E what \in Jobs \ {"none", "watch"} : Begin(p, what)
    \/ Start \/ Check \/ Stop
    \/ \E a \in Actor : Step(a) \/ SaveFails(a) \/ WriteFails(a) \/ Kill(a)
    \/ CodexChanges
    \/ \E t \in Token : Age(t)

Spec == Init /\ [][Next]_vars

\* Processes run, requests to the issuer time out, the supervisor checks every
\* two seconds, and the lock is granted to those who wait for it in turn.
FairSpec ==
    /\ Spec
    /\ WF_vars(Check)
    /\ \A a \in Actor : WF_vars(Step(a)) /\ SF_vars(Lock(a))

-----------------------------------------------------------------------------
(* Properties. *)

\* README: "concurrent sessions never spend the same refresh token twice".  The
\* one exception is a token whose successor a kill or a lost answer took away.
NeverSpentTwice == refused \subseteq orphaned

\* The stored sign-in can be renewed: its refresh token is unspent, unless its
\* successor was lost or is about to be saved by whoever holds the lock.
StaysRenewable ==
    login # None /\ login \in spent =>
        \/ login \in orphaned
        \/ \E a \in Actor : lock = a /\ pc[a] = "save" /\ parent[held[a]] = login

\* The sign-in, its copies and their users are what they may be, and the stored
\* sign-in can be renewed.
SignInInOrder == SignInTypeOK /\ StaysRenewable

\* A renewal replaces the very token it was made from, or the file is a fresh
\* sign-in's: no refresh overwrites a newer sign-in or undoes a logout.
RenewsWhatIsStored ==
    [][login' # login /\ login' # None => parent[login'] \in {None, login}]_vars

\* A running supervisor picks up every change of the sign-in: however often it
\* changes, the supervisor's copy is again and again the one on disk.
SupervisorCatchesUp ==
    []<>(memory = None \/ Source = None \/ memory = Source)

\* README: "Long-lived supervisors watch for credential changes and replace it
\* automatically": when no change is left to notice and nobody is at work, the
\* adapter file holds the current token.
AdapterReplaced ==
    memory # None /\ memory = Source /\ (\A a \in Actor : pc[a] = "idle") => adapter = memory
=============================================================================
