------------------------------ MODULE AuthManager ------------------------------
(***************************************************************************)
(* The backend's credentials: requests that take them from the store and    *)
(* refresh them one at a time within a process, other processes that do the *)
(* same without that lock, sign-in and sign-out by the command line, and a  *)
(* service that honours a refresh token once.                               *)
(*                                                                          *)
(* A credential is a number: its access and its refresh token.  The store   *)
(* has two places, and the second is read only while the first is empty.    *)
(* A request may be dropped at every await, and its process may be killed.  *)
(***************************************************************************)
EXTENDS Naturals, FiniteSets

CONSTANTS
    Caller,        \* requests, each made once
    Process, Home, \* processes that serve requests; [Caller -> Process]
    NoCredential,
    MaxCredentials,\* bound: credentials issued
    MaxRevoked     \* bound: sign-outs and revocations

Credential == 1 .. MaxCredentials
Stored     == Credential \union {NoCredential}

\* What ended a credential, when no process did.
Nobody  == "nobody"
Revoked == "revoked"

ASSUME AuthManagerAssumption ==
    /\ {MaxCredentials, MaxRevoked} \subseteq Nat /\ MaxCredentials >= 1
    /\ Home \in [Caller -> Process] /\ {Nobody, Revoked} \intersect Process = {}
    /\ NoCredential \notin Nat

VARIABLES
    file, legacy, \* the places of the store
    issued,       \* credentials the service has issued so far: 1 .. issued
    spent,        \* [credentials -> the process that refreshed it, or who ended it, or nobody]
    expired,      \* credentials whose access token is past its margin
    caller,       \* [Caller -> the request]
    revoked,      \* sign-outs and revocations so far
    blame         \* history: something else may have cost the credentials

authVars == <<file, legacy, issued, spent, expired, caller, revoked, blame>>

Called == [at: {"idle", "using", "waiting", "refreshing", "answered", "clearing", "legacy",
                "over"},
           credential: Stored, rejected: Stored,  \* the one the service has refused
           answer: {"none", "new", "401", "403", "error"}, offered: Stored]

AuthTypeOK ==
    /\ file \in Stored /\ legacy \in Stored
    /\ issued \in Credential
    /\ spent \in [Credential -> Process \union {Nobody, Revoked}]
    /\ expired \subseteq Credential
    /\ caller \in [Caller -> Called]
    /\ revoked \in 0 .. MaxRevoked /\ blame \in BOOLEAN

Nothing(at) == [at |-> at, credential |-> NoCredential, rejected |-> NoCredential,
                answer |-> "none", offered |-> NoCredential]

\* One credential, in either place.
AuthInit ==
    /\ \/ file = 1 /\ legacy = NoCredential
       \/ file = NoCredential /\ legacy = 1
    /\ issued = 1 /\ spent = [n \in Credential |-> Nobody] /\ expired = {}
    /\ caller = [c \in Caller |-> Nothing("idle")]
    /\ revoked = 0 /\ blame = FALSE

storeVars   == <<file, legacy>>
serviceVars == <<issued, spent>>
worldVars   == <<expired, revoked>>

-----------------------------------------------------------------------------
Loaded == IF file # NoCredential THEN file ELSE legacy
Honoured(n) == n # NoCredential /\ n <= issued /\ spent[n] = Nobody
Fresh(n) == n \notin expired

Goes(c, at) == caller' = [caller EXCEPT ![c].at = at]
Uses(c, n)  == caller' = [caller EXCEPT ![c] = [Nothing("using") EXCEPT
                              !.credential = n, !.rejected = caller[c].rejected]]
Over(c)     == caller' = [caller EXCEPT ![c] = Nothing("over")]

\* Who is between taking the process's refresh lock and leaving it.
Holding(p) == {c \in Caller : Home[c] = p
                              /\ caller[c].at \in {"refreshing", "answered", "clearing", "legacy"}}

\* What is written while another process is about to clear the store is lost.
Written == blame' = IF \E c \in Caller : caller[c].at = "clearing" THEN TRUE
                    ELSE blame

\* get_auth
GetAuth(c) ==
    /\ caller[c].at = "idle"
    /\ IF Loaded = NoCredential THEN Over(c)
       ELSE IF Fresh(Loaded) THEN Uses(c, Loaded)
       ELSE Goes(c, "waiting")
    /\ UNCHANGED <<storeVars, serviceVars, worldVars, blame>>

\* The upstream answers 401 to the request, once: force_refresh.
Reject(c) ==
    /\ caller[c].at = "using" /\ caller[c].rejected = NoCredential
    /\ caller' = [caller EXCEPT ![c].at = "waiting", ![c].rejected = caller[c].credential]
    /\ UNCHANGED <<storeVars, serviceVars, worldVars, blame>>

\* What is in the store by now will do.
Suffices(c, n) ==
    IF caller[c].rejected = NoCredential THEN Fresh(n) ELSE n # caller[c].rejected

\* refresh: the lock is free, and the store is read again under it.
Acquire(c) ==
    /\ caller[c].at = "waiting" /\ Holding(Home[c]) = {}
    /\ IF Loaded = NoCredential THEN Over(c)
       ELSE IF Suffices(c, Loaded) THEN Uses(c, Loaded)
       ELSE caller' = [caller EXCEPT ![c].at = "refreshing", ![c].credential = Loaded]
    /\ UNCHANGED <<storeVars, serviceVars, worldVars, blame>>

\* The service trades the credential for a new one, which it names.
Trade(c) ==
    /\ Honoured(caller[c].credential) /\ issued < MaxCredentials
    /\ issued' = issued + 1
    /\ spent' = [spent EXCEPT ![caller[c].credential] = Home[c]]

Answer(c, answer, offered) ==
    caller' = [caller EXCEPT ![c].at = "answered", ![c].answer = answer, ![c].offered = offered]

Offered(c) == caller[c].at = "answered" /\ caller[c].answer = "new"

\* The refresh request is answered; an answer of another status is an error.
AnswerRefresh(c) ==
    /\ caller[c].at = "refreshing"
    /\ \/ Trade(c) /\ Answer(c, "new", issued + 1)
       \/ /\ \/ /\ ~Honoured(caller[c].credential)
                /\ Answer(c, "401", NoCredential)
             \/ \E other \in {"403", "error"} : Answer(c, other, NoCredential)
          /\ UNCHANGED serviceVars
    /\ UNCHANGED <<storeVars, worldVars, blame>>

\* A new credential is stored, or that fails and it is lost.
Save(c) ==
    LET new == caller[c].offered
    IN  /\ Offered(c)
        /\ \/ file' = new /\ Uses(c, new) /\ Written
           \/ UNCHANGED file /\ Over(c) /\ blame' = TRUE
        /\ UNCHANGED <<legacy, serviceVars, worldVars>>

\* A mutant of Replaced: nobody looks whether the store has moved on.
ReplacedNever(c) == FALSE

Replaced(c) == Loaded # NoCredential /\ Loaded # caller[c].credential

\* The refresh was refused: another process may have been faster.
Refused(c) ==
    LET answer == caller[c].answer
    IN  /\ caller[c].at = "answered" /\ answer \in {"401", "403", "error"}
        /\ IF answer # "error" /\ Replaced(c) THEN Uses(c, Loaded)
           ELSE IF answer = "401" THEN Goes(c, "clearing")
           ELSE Over(c)
        /\ UNCHANGED <<storeVars, serviceVars, worldVars, blame>>

\* clear_auth: the keychain, which may fail, then the file, then the legacy file,
\* whose older credential is in sight in between.
ClearAuth(c) ==
    /\ \/ caller[c].at = "clearing" /\ Over(c) /\ UNCHANGED <<storeVars, blame>>
       \/ /\ caller[c].at = "clearing" /\ Goes(c, "legacy")
          /\ file' = NoCredential /\ UNCHANGED legacy
          /\ blame' = (blame \/ (file # NoCredential /\ legacy # NoCredential))
       \/ /\ caller[c].at = "legacy" /\ Over(c)
          /\ legacy' = NoCredential /\ UNCHANGED <<file, blame>>
    /\ UNCHANGED <<serviceVars, worldVars>>

\* The client leaves, the network changes, or the process is killed: the future
\* is dropped, and with it what the service has answered or still answers.
DropCaller(c) ==
    /\ caller[c].at \notin {"idle", "over"}
    /\ Over(c)
    /\ IF caller[c].at = "refreshing" THEN
          \/ Trade(c) /\ blame' = TRUE
          \/ UNCHANGED <<serviceVars, blame>>
       ELSE /\ blame' = IF Offered(c) THEN TRUE ELSE blame
            /\ UNCHANGED serviceVars
    /\ UNCHANGED <<storeVars, worldVars>>

\* The command line signs in: persist_initial_tokens.
PersistInitialTokens ==
    /\ issued < MaxCredentials /\ issued' = issued + 1
    /\ file' = issued + 1
    /\ Written
    /\ UNCHANGED <<legacy, spent, worldVars, caller>>

\* It signs out, or the service ends a credential by itself.
SignOut ==
    /\ revoked < MaxRevoked /\ revoked' = revoked + 1
    /\ \/ /\ file' = NoCredential /\ legacy' = NoCredential
          /\ blame' = TRUE /\ UNCHANGED spent
       \/ \E n \in 1 .. issued :
             /\ spent' = [spent EXCEPT ![n] = IF @ = Nobody THEN Revoked ELSE @]
             /\ blame' = TRUE /\ UNCHANGED storeVars
    /\ UNCHANGED <<issued, expired, caller>>

Expire ==
    /\ Loaded # NoCredential /\ Fresh(Loaded) /\ expired' = expired \union {Loaded}
    /\ UNCHANGED <<storeVars, serviceVars, caller, revoked, blame>>

AuthNext ==
    \/ \E c \in Caller : \/ GetAuth(c) \/ Reject(c) \/ Acquire(c) \/ AnswerRefresh(c)
                         \/ Save(c) \/ Refused(c) \/ ClearAuth(c) \/ DropCaller(c)
    \/ PersistInitialTokens \/ SignOut \/ Expire

AuthSpec == AuthInit /\ [][AuthNext]_authVars

-----------------------------------------------------------------------------
(* Unless something else has cost them - a sign-out, a revocation, an answer
   lost with its request, a write in the moment between the last look and the
   clearing - the store holds credentials that the service honours, or a
   request is about to write them: a refresh that is refused because another
   process was faster never ends the user's session (refresh_now). *)
StaysSignedIn ==
    ~blame => \/ Honoured(Loaded)
                  \/ \E c \in Caller : Offered(c) /\ Honoured(caller[c].offered)

(* A request whose credential was refused by the upstream goes on with another
   one, whoever has refreshed it (force_refresh). *)
NeverReusesRejected ==
    \A c \in Caller : caller[c].at = "using" /\ caller[c].rejected # NoCredential
                      => caller[c].credential # caller[c].rejected

(* Within one process a refresh token is presented once: when a refresh is
   refused, it was another process that had used the token, or a request that
   was dropped (the process-wide lock, and the second look under it). *)
RefreshedOnce ==
    \A c \in Caller : caller[c].at = "answered" /\ caller[c].answer = "401" /\ ~blame
                      => spent[caller[c].credential] # Home[c]

AuthSafety == AuthTypeOK /\ StaysSignedIn /\ NeverReusesRejected /\ RefreshedOnce
================================================================================
