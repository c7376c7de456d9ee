----------------------------- MODULE SignIn_proofs -----------------------------
(***************************************************************************)
(* What the sessions of a machine share beside their supervisor: the        *)
(* sign-in's safety, for any processes, tokens and faults, and at the end    *)
(* the updates, for any sessions, commands and releases.                     *)
(*                                                                          *)
(* NeverSpentTwice follows from StaysRenewable at the moment a token is      *)
(* presented, since it is then the stored one (PresentsStored).  To be       *)
(* inductive, StaysRenewable needs to know what comes to be stored: the      *)
(* successor of the stored token (SavesSuccessor), or a sign-in nobody has   *)
(* stored or spent (FreshIsUnused).  All of it rests on the file lock.       *)
(***************************************************************************)
EXTENDS SignIn, Updates, TLAPS

\* An actor inside a locked section, and nobody else, holds the lock.
LockHeld == \A a \in Actor : pc[a] \in Locked <=> lock = a

\* Nobody works without a job, and a running supervisor has one.
JobHeld ==
    /\ \A a \in Actor : job[a] = "none" => pc[a] = "idle"
    /\ memory # None => job[Supervisor] = "watch"

\* What was spent or stored has been issued.
IssuedOnly == spent \subseteq 1 .. issued /\ login \in (1 .. issued) \union {None}

PresentsStored == \A a \in Actor : pc[a] = "present" => login # None /\ held[a] = login

SavesSuccessor ==
    \A a \in Actor : pc[a] = "save" =>
        /\ login \in spent
        /\ held[a] \in (1 .. issued) \ spent
        /\ parent[held[a]] = login

\* a has signed in and not yet stored the result.
Fresh(a) == job[a] = "login"

FreshIsUnused ==
    \A a \in Actor :
        /\ pc[a] = "store" => Fresh(a)
        /\ Fresh(a) => /\ pc[a] \in {"lock", "store"}
                       /\ held[a] \in (1 .. issued) \ spent
                       /\ parent[held[a]] = None
                       /\ held[a] # login
                       /\ \A b \in Actor \ {a} : Fresh(b) => held[b] # held[a]

Sound ==
    /\ SignInTypeOK /\ LockHeld /\ JobHeld /\ IssuedOnly
    /\ PresentsStored /\ SavesSuccessor /\ FreshIsUnused
    /\ StaysRenewable /\ NeverSpentTwice

-----------------------------------------------------------------------------
\* A token that is issued is in its range and has a recorded origin.
LEMMA Issued ==
    ASSUME SignInTypeOK, NEW from \in Copy, Issue(from)
    PROVE  /\ issued + 1 \in Token
           /\ issued' \in 0 .. MaxTokens
           /\ parent' \in [Token -> Copy]
PROOF
<1>1. issued + 1 \in Token
  BY SignInAssumption DEF Issue, Token, SignInTypeOK
<1> QED BY <1>1, SignInAssumption DEF Issue, SignInTypeOK

\* What is presented is the stored token, and if it has been spent, then its
\* successor was lost: only the lock holder could be about to save it.
LEMMA PresentedIsStored ==
    ASSUME Sound, NEW a \in Actor, pc[a] = "present"
    PROVE  /\ held[a] = login /\ login \in Token
           /\ held[a] \in spent => held[a] \in orphaned
PROOF
<1>1. held[a] = login /\ login # None
  BY DEF Sound, PresentsStored
<1>2. \A b \in Actor : lock = b => pc[b] = "present"
  BY DEF Sound, LockHeld, Locked
<1> QED BY <1>1, <1>2 DEF Sound, StaysRenewable, SignInTypeOK, Copy

\* What is about to be saved is a token whose predecessor is stored and spent.
LEMMA SavedIsSuccessor ==
    ASSUME Sound, NEW a \in Actor, pc[a] = "save"
    PROVE  /\ held[a] \in Token /\ held[a] \notin spent
           /\ parent[held[a]] = login /\ login \in spent
           /\ lock = a
PROOF
<1>1. 1 .. issued \subseteq Token
  BY SignInAssumption DEF Sound, SignInTypeOK, Token
<1> QED BY <1>1 DEF Sound, SavesSuccessor, LockHeld, Locked

\* Every step keeps the types; an orphan is a spent token.
LEMMA TypingStep ==
    ASSUME Sound, [Next]_vars PROVE SignInTypeOK'
PROOF
<1> USE SignInAssumption
  DEF Actor, Token, Copy, Goto, Hold, Unlock, Finish, GiveUp, Loaded
<1>1. ASSUME NEW a \in Actor, Load(a) PROVE SignInTypeOK'
  BY <1>1 DEF Load, Sound, issuer, SignInTypeOK, Carrying, Locked, Steps, Jobs, Source
<1>2. ASSUME NEW a \in Actor, Reload(a) PROVE SignInTypeOK'
  BY <1>2 DEF Reload, Sound, files, issuer, SignInTypeOK, Carrying, Locked, Steps, Jobs
<1>3. ASSUME NEW a \in Actor, ReloadThroughCodex(a) PROVE SignInTypeOK'
  <2>1. login' \in Copy /\ codex' \in Copy /\ adapter' \in Copy /\ memory' \in Copy
        /\ issued' \in 0 .. MaxTokens /\ parent' \in [Token -> Copy]
        /\ spent' \subseteq Token /\ orphaned' \subseteq spent' /\ refused' \subseteq Token
    BY <1>3, Issued DEF ReloadThroughCodex, Sound, SignInTypeOK, Fault
  <2>2. job' \in [Actor -> Jobs] /\ pc' \in [Actor -> Steps] /\ held' \in [Actor -> Copy]
    <3>1. job' \in [Actor -> Jobs]
      BY <1>3, <2>1 DEF ReloadThroughCodex, Sound, SignInTypeOK, Jobs
    <3>2. pc' \in [Actor -> Steps]
      BY <1>3, <2>1 DEF ReloadThroughCodex, Sound, SignInTypeOK, Steps, Locked
    <3>3. held' \in [Actor -> Copy]
      BY <1>3, <2>1, Issued DEF ReloadThroughCodex, Sound, SignInTypeOK
    <3> QED BY <3>1, <3>2, <3>3
  <2>3. \A b \in Actor : pc'[b] \in Carrying /\ job'[b] # "logout" => held'[b] # None
    BY <1>3, <2>1, <2>2, Issued
      DEF ReloadThroughCodex, Sound, SignInTypeOK, Carrying, Locked, Steps, Jobs
  <2>4. lock' \in Actor \union {None} /\ faults' \in Nat /\ aged' \subseteq Token
    BY <1>3 DEF ReloadThroughCodex, Sound, SignInTypeOK, Fault
  <2> QED BY <2>1, <2>2, <2>3, <2>4 DEF SignInTypeOK
<1>4. ASSUME NEW a \in Actor, Lock(a) PROVE SignInTypeOK'
  BY <1>4 DEF Lock, Sound, files, issuer, SignInTypeOK, Carrying, Locked, Steps, Jobs
<1>5. ASSUME NEW a \in Actor, Recheck(a) PROVE SignInTypeOK'
  BY <1>5 DEF Recheck, Sound, issuer, SignInTypeOK, Carrying, Locked, Steps, Jobs
<1>6. ASSUME NEW a \in Actor, Present(a) PROVE SignInTypeOK'
  <2>1. login' \in Copy /\ codex' \in Copy /\ adapter' \in Copy /\ memory' \in Copy
        /\ issued' \in 0 .. MaxTokens /\ parent' \in [Token -> Copy]
        /\ spent' \subseteq Token /\ orphaned' \subseteq spent' /\ refused' \subseteq Token
    BY <1>6, Issued, PresentedIsStored DEF Present, Sound, SignInTypeOK, files
  <2>2. job' \in [Actor -> Jobs] /\ pc' \in [Actor -> Steps] /\ held' \in [Actor -> Copy]
    BY <1>6, <2>1, Issued, PresentedIsStored
      DEF Present, Sound, SignInTypeOK, Jobs, Steps, Locked
  <2>3. \A b \in Actor : pc'[b] \in Carrying /\ job'[b] # "logout" => held'[b] # None
    BY <1>6, <2>1, <2>2, Issued, PresentedIsStored
      DEF Present, Sound, files, SignInTypeOK, Carrying, Locked, Steps, Jobs
  <2>4. lock' \in Actor \union {None} /\ faults' \in Nat /\ aged' \subseteq Token
    BY <1>6 DEF Present, Sound, SignInTypeOK, files
  <2> QED BY <2>1, <2>2, <2>3, <2>4 DEF SignInTypeOK
<1>7. ASSUME NEW a \in Actor, PresentFails(a) PROVE SignInTypeOK'
  <2>1. login' \in Copy /\ codex' \in Copy /\ adapter' \in Copy /\ memory' \in Copy
        /\ issued' \in 0 .. MaxTokens /\ parent' \in [Token -> Copy]
        /\ spent' \subseteq Token /\ orphaned' \subseteq spent' /\ refused' \subseteq Token
    BY <1>7, PresentedIsStored DEF PresentFails, Sound, SignInTypeOK, Fault
  <2>2. job' \in [Actor -> Jobs] /\ pc' \in [Actor -> Steps] /\ held' \in [Actor -> Copy]
    BY <1>7, <2>1, PresentedIsStored
      DEF PresentFails, Sound, SignInTypeOK, Jobs, Steps, Locked
  <2>3. \A b \in Actor : pc'[b] \in Carrying /\ job'[b] # "logout" => held'[b] # None
    BY <1>7, <2>1, <2>2, PresentedIsStored
      DEF PresentFails, Sound, SignInTypeOK, Carrying, Locked, Steps, Jobs
  <2>4. lock' \in Actor \union {None} /\ faults' \in Nat /\ aged' \subseteq Token
    BY <1>7 DEF PresentFails, Sound, SignInTypeOK, Fault
  <2> QED BY <2>1, <2>2, <2>3, <2>4 DEF SignInTypeOK
<1>8. ASSUME NEW a \in Actor, Save(a) PROVE SignInTypeOK'
  <2>1. login' \in Copy /\ codex' \in Copy /\ adapter' \in Copy /\ memory' \in Copy
        /\ issued' \in 0 .. MaxTokens /\ parent' \in [Token -> Copy]
        /\ spent' \subseteq Token /\ orphaned' \subseteq spent' /\ refused' \subseteq Token
    BY <1>8, SavedIsSuccessor DEF Save, Sound, SignInTypeOK, issuer
  <2>2. job' \in [Actor -> Jobs] /\ pc' \in [Actor -> Steps] /\ held' \in [Actor -> Copy]
    <3>1. job' \in [Actor -> Jobs]
      BY <1>8, <2>1 DEF Save, Sound, SignInTypeOK, Jobs
    <3>2. pc' \in [Actor -> Steps]
      BY <1>8, <2>1 DEF Save, Sound, SignInTypeOK, Steps, Locked
    <3>3. held' \in [Actor -> Copy]
      BY <1>8, <2>1, SavedIsSuccessor DEF Save, Sound, SignInTypeOK
    <3> QED BY <3>1, <3>2, <3>3
  <2>3. \A b \in Actor : pc'[b] \in Carrying /\ job'[b] # "logout" => held'[b] # None
    BY SMTT(40), <1>8, <2>1, <2>2, SavedIsSuccessor
      DEF Save, Sound, issuer, SignInTypeOK, Carrying, Locked, Steps, Jobs
  <2>4. lock' \in Actor \union {None} /\ faults' \in Nat /\ aged' \subseteq Token
    BY <1>8 DEF Save, Sound, SignInTypeOK, issuer
  <2> QED BY <2>1, <2>2, <2>3, <2>4 DEF SignInTypeOK
<1>9. ASSUME NEW a \in Actor, Write(a) PROVE SignInTypeOK'
  BY <1>9 DEF Write, Sound, issuer, SignInTypeOK, Carrying, Locked, Steps, Jobs
<1>10. ASSUME NEW a \in Actor, Store(a) PROVE SignInTypeOK'
  BY <1>10 DEF Store, Sound, issuer, SignInTypeOK, Carrying, Locked, Steps, Jobs
<1>11. ASSUME NEW a \in Actor, Remove(a) PROVE SignInTypeOK'
  BY <1>11 DEF Remove, Sound, issuer, SignInTypeOK, Carrying, Locked, Steps, Jobs
<1>12. ASSUME NEW a \in Actor, SaveFails(a) PROVE SignInTypeOK'
  <2>1. login' \in Copy /\ codex' \in Copy /\ adapter' \in Copy /\ memory' \in Copy
        /\ issued' \in 0 .. MaxTokens /\ parent' \in [Token -> Copy]
        /\ spent' \subseteq Token /\ orphaned' \subseteq spent' /\ refused' \subseteq Token
    BY ZenonT(40), <1>12, SavedIsSuccessor DEF SaveFails, Sound, SignInTypeOK, Fault
  <2>2. job' \in [Actor -> Jobs] /\ pc' \in [Actor -> Steps] /\ held' \in [Actor -> Copy]
    BY <1>12, <2>1, SavedIsSuccessor
      DEF SaveFails, Sound, SignInTypeOK, Jobs, Steps, Locked
  <2>3. \A b \in Actor : pc'[b] \in Carrying /\ job'[b] # "logout" => held'[b] # None
    BY <1>12, <2>1, <2>2, SavedIsSuccessor
      DEF SaveFails, Sound, SignInTypeOK, Carrying, Locked, Steps, Jobs
  <2>4. lock' \in Actor \union {None} /\ faults' \in Nat /\ aged' \subseteq Token
    BY <1>12 DEF SaveFails, Sound, SignInTypeOK, Fault
  <2> QED BY <2>1, <2>2, <2>3, <2>4 DEF SignInTypeOK
<1>13. ASSUME NEW a \in Actor, WriteFails(a) PROVE SignInTypeOK'
  BY <1>13
    DEF WriteFails, Sound, issuer, Fault, SignInTypeOK, Carrying, Locked, Steps, Jobs
<1>14. ASSUME NEW a \in Actor, Kill(a) PROVE SignInTypeOK'
  <2>1. login' \in Copy /\ codex' \in Copy /\ adapter' \in Copy /\ memory' \in Copy
        /\ issued' \in 0 .. MaxTokens /\ parent' \in [Token -> Copy]
        /\ spent' \subseteq Token /\ orphaned' \subseteq spent' /\ refused' \subseteq Token
    BY ZenonT(40), <1>14, SavedIsSuccessor DEF Kill, Sound, SignInTypeOK, Fault, files
  <2>2. job' \in [Actor -> Jobs] /\ pc' \in [Actor -> Steps] /\ held' \in [Actor -> Copy]
    BY <1>14, <2>1, SavedIsSuccessor DEF Kill, Sound, SignInTypeOK, Jobs, Steps, Locked
  <2>3. \A b \in Actor : pc'[b] \in Carrying /\ job'[b] # "logout" => held'[b] # None
    BY <1>14, <2>1, <2>2, SavedIsSuccessor
      DEF Kill, Sound, files, SignInTypeOK, Carrying, Locked, Steps, Jobs
  <2>4. lock' \in Actor \union {None} /\ faults' \in Nat /\ aged' \subseteq Token
    BY <1>14 DEF Kill, Sound, SignInTypeOK, Fault, files
  <2> QED BY <2>1, <2>2, <2>3, <2>4 DEF SignInTypeOK
<1>15. ASSUME NEW p \in Process, NEW what \in Jobs, Begin(p, what) PROVE SignInTypeOK'
  <2>1. login' \in Copy /\ codex' \in Copy /\ adapter' \in Copy /\ memory' \in Copy
        /\ issued' \in 0 .. MaxTokens /\ parent' \in [Token -> Copy]
        /\ spent' \subseteq Token /\ orphaned' \subseteq spent' /\ refused' \subseteq Token
    BY <1>15, Issued DEF Begin, Sound, SignInTypeOK, files, Jobs
  <2>2. job' \in [Actor -> Jobs] /\ pc' \in [Actor -> Steps] /\ held' \in [Actor -> Copy]
    <3>1. job' \in [Actor -> Jobs]
      BY <1>15, <2>1 DEF Begin, Sound, SignInTypeOK, Jobs
    <3>2. pc' \in [Actor -> Steps]
      BY <1>15, <2>1 DEF Begin, Sound, SignInTypeOK, Steps, Locked
    <3>3. held' \in [Actor -> Copy]
      BY <1>15, <2>1, Issued DEF Begin, Sound, SignInTypeOK
    <3> QED BY <3>1, <3>2, <3>3
  <2>3. \A b \in Actor : pc'[b] \in Carrying /\ job'[b] # "logout" => held'[b] # None
    BY <1>15, <2>1, <2>2, Issued
      DEF Begin, Sound, files, SignInTypeOK, Carrying, Locked, Steps, Jobs
  <2>4. lock' \in Actor \union {None} /\ faults' \in Nat /\ aged' \subseteq Token
    BY <1>15 DEF Begin, Sound, SignInTypeOK, files
  <2> QED BY <2>1, <2>2, <2>3, <2>4 DEF SignInTypeOK
<1>16. CASE Start
  BY <1>16 DEF Start, Sound, files, issuer, SignInTypeOK, Carrying, Locked, Steps, Jobs
<1>17. CASE Check
  BY <1>17 DEF Check, Sound, files, issuer, SignInTypeOK, Carrying, Locked, Steps, Jobs
<1>18. CASE Stop
  BY <1>18 DEF Stop, Sound, issuer, SignInTypeOK, Carrying, Locked, Steps, Jobs
<1>19. CASE CodexChanges
  BY <1>19 DEF CodexChanges, Issue, Sound, SignInTypeOK, Carrying, Locked, Steps, Jobs
<1>20. ASSUME NEW t \in Token, Age(t) PROVE SignInTypeOK'
  BY <1>20
    DEF Age, Sound, files, issuer, SignInTypeOK, Carrying, Locked, Steps, Jobs, Source
<1>21. CASE UNCHANGED vars
  BY <1>21
    DEF vars, files, issuer, Sound, files, issuer, Fault, Issue, SignInTypeOK,
        Carrying, Locked, Steps, Jobs, SavesSuccessor, PresentsStored, IssuedOnly, Source
<1> QED BY <1>1, <1>2, <1>3, <1>4, <1>5, <1>6, <1>7, <1>8, <1>9, <1>10, <1>11, <1>12, <1>13, <1>14, <1>15, <1>16, <1>17, <1>18, <1>19, <1>20, <1>21
  DEF Next, Step, Jobs

\* Every step keeps the lock with the one actor inside a locked section.
LEMMA LockStep ==
    ASSUME Sound, [Next]_vars PROVE LockHeld'
PROOF
<1> USE SignInAssumption
  DEF Actor, Token, Copy, Goto, Hold, Unlock, Finish, GiveUp, Loaded
<1>1. ASSUME NEW a \in Actor, Load(a) PROVE LockHeld'
  BY <1>1
    DEF Load, Sound, issuer, SignInTypeOK, LockHeld, JobHeld, Locked, Steps, AfterLoad
<1>2. ASSUME NEW a \in Actor, Reload(a) PROVE LockHeld'
  BY <1>2
    DEF Reload, Sound, files, issuer, SignInTypeOK, LockHeld, JobHeld, Locked, Steps
<1>3. ASSUME NEW a \in Actor, ReloadThroughCodex(a) PROVE LockHeld'
  BY <1>3
    DEF ReloadThroughCodex, Sound, Fault, Issue, SignInTypeOK, LockHeld, JobHeld,
        Locked, Steps
<1>4. ASSUME NEW a \in Actor, Lock(a) PROVE LockHeld'
  BY <1>4 DEF Lock, Sound, files, issuer, SignInTypeOK, LockHeld, JobHeld, Locked, Steps
<1>5. ASSUME NEW a \in Actor, Recheck(a) PROVE LockHeld'
  BY <1>5 DEF Recheck, Sound, issuer, SignInTypeOK, LockHeld, JobHeld, Locked, Steps
<1>6. ASSUME NEW a \in Actor, Present(a) PROVE LockHeld'
  BY <1>6
    DEF Present, Sound, files, Issue, SignInTypeOK, LockHeld, JobHeld, Locked, Steps
<1>7. ASSUME NEW a \in Actor, PresentFails(a) PROVE LockHeld'
  BY <1>7 DEF PresentFails, Sound, Fault, SignInTypeOK, LockHeld, JobHeld, Locked, Steps
<1>8. ASSUME NEW a \in Actor, Save(a) PROVE LockHeld'
  BY <1>8 DEF Save, Sound, issuer, SignInTypeOK, LockHeld, JobHeld, Locked, Steps
<1>9. ASSUME NEW a \in Actor, Write(a) PROVE LockHeld'
  BY <1>9 DEF Write, Sound, issuer, SignInTypeOK, LockHeld, JobHeld, Locked, Steps
<1>10. ASSUME NEW a \in Actor, Store(a) PROVE LockHeld'
  BY <1>10 DEF Store, Sound, issuer, SignInTypeOK, LockHeld, JobHeld, Locked, Steps
<1>11. ASSUME NEW a \in Actor, Remove(a) PROVE LockHeld'
  BY <1>11 DEF Remove, Sound, issuer, SignInTypeOK, LockHeld, JobHeld, Locked, Steps
<1>12. ASSUME NEW a \in Actor, SaveFails(a) PROVE LockHeld'
  BY <1>12 DEF SaveFails, Sound, Fault, SignInTypeOK, LockHeld, JobHeld, Locked, Steps
<1>13. ASSUME NEW a \in Actor, WriteFails(a) PROVE LockHeld'
  BY <1>13
    DEF WriteFails, Sound, issuer, Fault, SignInTypeOK, LockHeld, JobHeld, Locked, Steps
<1>14. ASSUME NEW a \in Actor, Kill(a) PROVE LockHeld'
  BY <1>14 DEF Kill, Sound, files, Fault, SignInTypeOK, LockHeld, JobHeld, Locked, Steps
<1>15. ASSUME NEW p \in Process, NEW what \in Jobs, Begin(p, what) PROVE LockHeld'
  BY <1>15
    DEF Begin, Issue, Sound, files, SignInTypeOK, LockHeld, JobHeld, Locked, Steps
<1>16. CASE Start
  BY <1>16
    DEF Start, Sound, files, issuer, SignInTypeOK, LockHeld, JobHeld, Locked, Steps
<1>17. CASE Check
  BY <1>17
    DEF Check, Sound, files, issuer, SignInTypeOK, LockHeld, JobHeld, Locked, Steps
<1>18. CASE Stop
  BY <1>18 DEF Stop, Sound, issuer, SignInTypeOK, LockHeld, JobHeld, Locked, Steps
<1>19. CASE CodexChanges
  BY <1>19
    DEF CodexChanges, Issue, Sound, SignInTypeOK, LockHeld, JobHeld, Locked, Steps
<1>20. ASSUME NEW t \in Token, Age(t) PROVE LockHeld'
  BY <1>20 DEF Age, Sound, files, issuer, SignInTypeOK, LockHeld, JobHeld, Locked, Steps
<1>21. CASE UNCHANGED vars
  BY <1>21
    DEF vars, files, issuer, Sound, files, issuer, Fault, Issue, SignInTypeOK,
        LockHeld, JobHeld, Locked, Steps, AfterLoad
<1> QED BY <1>1, <1>2, <1>3, <1>4, <1>5, <1>6, <1>7, <1>8, <1>9, <1>10, <1>11, <1>12, <1>13, <1>14, <1>15, <1>16, <1>17, <1>18, <1>19, <1>20, <1>21
  DEF Next, Step, Jobs

\* Every step keeps workers with a job and a running supervisor at its watch.
LEMMA JobStep ==
    ASSUME Sound, [Next]_vars PROVE JobHeld'
PROOF
<1> USE SignInAssumption
  DEF Actor, Token, Copy, Goto, Hold, Unlock, Finish, GiveUp, Loaded
<1>1. ASSUME NEW a \in Actor, Load(a) PROVE JobHeld'
  BY <1>1 DEF Load, Sound, issuer, SignInTypeOK, JobHeld, Jobs
<1>2. ASSUME NEW a \in Actor, Reload(a) PROVE JobHeld'
  BY <1>2 DEF Reload, Sound, files, issuer, SignInTypeOK, JobHeld, Jobs
<1>3. ASSUME NEW a \in Actor, ReloadThroughCodex(a) PROVE JobHeld'
  BY <1>3 DEF ReloadThroughCodex, Sound, Fault, Issue, SignInTypeOK, JobHeld, Jobs
<1>4. ASSUME NEW a \in Actor, Lock(a) PROVE JobHeld'
  BY <1>4 DEF Lock, Sound, files, issuer, SignInTypeOK, JobHeld, Jobs
<1>5. ASSUME NEW a \in Actor, Recheck(a) PROVE JobHeld'
  BY <1>5 DEF Recheck, Sound, issuer, SignInTypeOK, JobHeld, Jobs
<1>6. ASSUME NEW a \in Actor, Present(a) PROVE JobHeld'
  BY <1>6 DEF Present, Sound, files, Issue, SignInTypeOK, JobHeld, Jobs
<1>7. ASSUME NEW a \in Actor, PresentFails(a) PROVE JobHeld'
  BY <1>7 DEF PresentFails, Sound, Fault, SignInTypeOK, JobHeld, Jobs
<1>8. ASSUME NEW a \in Actor, Save(a) PROVE JobHeld'
  BY <1>8 DEF Save, Sound, issuer, SignInTypeOK, JobHeld, Jobs
<1>9. ASSUME NEW a \in Actor, Write(a) PROVE JobHeld'
  BY <1>9 DEF Write, Sound, issuer, SignInTypeOK, JobHeld, Jobs
<1>10. ASSUME NEW a \in Actor, Store(a) PROVE JobHeld'
  BY <1>10 DEF Store, Sound, issuer, SignInTypeOK, JobHeld, Jobs
<1>11. ASSUME NEW a \in Actor, Remove(a) PROVE JobHeld'
  BY <1>11 DEF Remove, Sound, issuer, SignInTypeOK, JobHeld, Jobs
<1>12. ASSUME NEW a \in Actor, SaveFails(a) PROVE JobHeld'
  BY <1>12 DEF SaveFails, Sound, Fault, SignInTypeOK, JobHeld, Jobs
<1>13. ASSUME NEW a \in Actor, WriteFails(a) PROVE JobHeld'
  BY <1>13 DEF WriteFails, Sound, issuer, Fault, SignInTypeOK, JobHeld, Jobs
<1>14. ASSUME NEW a \in Actor, Kill(a) PROVE JobHeld'
  BY <1>14 DEF Kill, Sound, files, Fault, SignInTypeOK, JobHeld, Jobs
<1>15. ASSUME NEW p \in Process, NEW what \in Jobs, Begin(p, what) PROVE JobHeld'
  BY <1>15 DEF Begin, Issue, Sound, files, SignInTypeOK, JobHeld, Jobs
<1>16. CASE Start
  BY <1>16 DEF Start, Sound, files, issuer, SignInTypeOK, JobHeld, Jobs
<1>17. CASE Check
  BY <1>17 DEF Check, Sound, files, issuer, SignInTypeOK, JobHeld, Jobs
<1>18. CASE Stop
  BY <1>18 DEF Stop, Sound, issuer, SignInTypeOK, JobHeld, Jobs
<1>19. CASE CodexChanges
  BY <1>19 DEF CodexChanges, Issue, Sound, SignInTypeOK, JobHeld, Jobs
<1>20. ASSUME NEW t \in Token, Age(t) PROVE JobHeld'
  BY <1>20 DEF Age, Sound, files, issuer, SignInTypeOK, JobHeld, Jobs
<1>21. CASE UNCHANGED vars
  BY <1>21
    DEF vars, files, issuer, Sound, files, issuer, Fault, Issue, SignInTypeOK, JobHeld,
        Jobs
<1> QED BY <1>1, <1>2, <1>3, <1>4, <1>5, <1>6, <1>7, <1>8, <1>9, <1>10, <1>11, <1>12, <1>13, <1>14, <1>15, <1>16, <1>17, <1>18, <1>19, <1>20, <1>21
  DEF Next, Step, Jobs

\* Every step spends and stores issued tokens only.
LEMMA IssuedStep ==
    ASSUME Sound, [Next]_vars PROVE IssuedOnly'
PROOF
<1> USE SignInAssumption
  DEF Actor, Token, Copy, Goto, Hold, Unlock, Finish, GiveUp, Loaded
<1>1. ASSUME NEW a \in Actor, Load(a) PROVE IssuedOnly'
  BY <1>1
    DEF Load, Sound, issuer, SignInTypeOK, LockHeld, Locked, IssuedOnly,
        SavesSuccessor, FreshIsUnused, Fresh, PresentsStored
<1>2. ASSUME NEW a \in Actor, Reload(a) PROVE IssuedOnly'
  BY <1>2
    DEF Reload, Sound, files, issuer, SignInTypeOK, LockHeld, Locked, IssuedOnly,
        SavesSuccessor, FreshIsUnused, Fresh, PresentsStored
<1>3. ASSUME NEW a \in Actor, ReloadThroughCodex(a) PROVE IssuedOnly'
  BY <1>3
    DEF ReloadThroughCodex, Sound, Fault, Issue, SignInTypeOK, LockHeld, Locked,
        IssuedOnly, SavesSuccessor, FreshIsUnused, Fresh, PresentsStored
<1>4. ASSUME NEW a \in Actor, Lock(a) PROVE IssuedOnly'
  BY <1>4
    DEF Lock, Sound, files, issuer, SignInTypeOK, LockHeld, Locked, IssuedOnly,
        SavesSuccessor, FreshIsUnused, Fresh, PresentsStored
<1>5. ASSUME NEW a \in Actor, Recheck(a) PROVE IssuedOnly'
  BY <1>5
    DEF Recheck, Sound, issuer, SignInTypeOK, LockHeld, Locked, IssuedOnly,
        SavesSuccessor, FreshIsUnused, Fresh, PresentsStored
<1>6. ASSUME NEW a \in Actor, Present(a) PROVE IssuedOnly'
  <2>1. held[a] \in 1 .. issued
    BY <1>6, PresentedIsStored DEF Present, Sound, IssuedOnly
  <2>2. issued' = issued + 1 /\ spent' = spent \union {held[a]} /\ login' = login
    BY <1>6 DEF Present, Issue, files
  <2>3. 1 .. issued \subseteq 1 .. issued'
    BY <2>2 DEF Sound, SignInTypeOK
  <2> QED BY <2>1, <2>2, <2>3 DEF Sound, IssuedOnly
<1>7. ASSUME NEW a \in Actor, PresentFails(a) PROVE IssuedOnly'
  BY ZenonT(40), <1>7
    DEF PresentFails, Sound, Fault, SignInTypeOK, LockHeld, Locked, IssuedOnly,
        SavesSuccessor, FreshIsUnused, Fresh, PresentsStored
<1>8. ASSUME NEW a \in Actor, Save(a) PROVE IssuedOnly'
  BY <1>8
    DEF Save, Sound, issuer, SignInTypeOK, LockHeld, Locked, IssuedOnly,
        SavesSuccessor, FreshIsUnused, Fresh, PresentsStored
<1>9. ASSUME NEW a \in Actor, Write(a) PROVE IssuedOnly'
  BY <1>9
    DEF Write, Sound, issuer, SignInTypeOK, LockHeld, Locked, IssuedOnly,
        SavesSuccessor, FreshIsUnused, Fresh, PresentsStored
<1>10. ASSUME NEW a \in Actor, Store(a) PROVE IssuedOnly'
  BY <1>10
    DEF Store, Sound, issuer, SignInTypeOK, LockHeld, Locked, IssuedOnly,
        SavesSuccessor, FreshIsUnused, Fresh, PresentsStored
<1>11. ASSUME NEW a \in Actor, Remove(a) PROVE IssuedOnly'
  BY <1>11
    DEF Remove, Sound, issuer, SignInTypeOK, LockHeld, Locked, IssuedOnly,
        SavesSuccessor, FreshIsUnused, Fresh, PresentsStored
<1>12. ASSUME NEW a \in Actor, SaveFails(a) PROVE IssuedOnly'
  BY <1>12
    DEF SaveFails, Sound, Fault, SignInTypeOK, LockHeld, Locked, IssuedOnly,
        SavesSuccessor, FreshIsUnused, Fresh, PresentsStored
<1>13. ASSUME NEW a \in Actor, WriteFails(a) PROVE IssuedOnly'
  BY <1>13
    DEF WriteFails, Sound, issuer, Fault, SignInTypeOK, LockHeld, Locked, IssuedOnly,
        SavesSuccessor, FreshIsUnused, Fresh, PresentsStored
<1>14. ASSUME NEW a \in Actor, Kill(a) PROVE IssuedOnly'
  BY <1>14
    DEF Kill, Sound, files, Fault, SignInTypeOK, LockHeld, Locked, IssuedOnly,
        SavesSuccessor, FreshIsUnused, Fresh, PresentsStored
<1>15. ASSUME NEW p \in Process, NEW what \in Jobs, Begin(p, what) PROVE IssuedOnly'
  BY <1>15
    DEF Begin, Issue, Sound, files, SignInTypeOK, LockHeld, Locked, IssuedOnly,
        SavesSuccessor, FreshIsUnused, Fresh, PresentsStored
<1>16. CASE Start
  BY <1>16
    DEF Start, Sound, files, issuer, SignInTypeOK, LockHeld, Locked, IssuedOnly,
        SavesSuccessor, FreshIsUnused, Fresh, PresentsStored
<1>17. CASE Check
  BY <1>17
    DEF Check, Sound, files, issuer, SignInTypeOK, LockHeld, Locked, IssuedOnly,
        SavesSuccessor, FreshIsUnused, Fresh, PresentsStored
<1>18. CASE Stop
  BY <1>18
    DEF Stop, Sound, issuer, SignInTypeOK, LockHeld, Locked, IssuedOnly,
        SavesSuccessor, FreshIsUnused, Fresh, PresentsStored
<1>19. CASE CodexChanges
  BY <1>19
    DEF CodexChanges, Issue, Sound, SignInTypeOK, LockHeld, Locked, IssuedOnly,
        SavesSuccessor, FreshIsUnused, Fresh, PresentsStored
<1>20. ASSUME NEW t \in Token, Age(t) PROVE IssuedOnly'
  BY <1>20
    DEF Age, Sound, files, issuer, SignInTypeOK, LockHeld, Locked, IssuedOnly,
        SavesSuccessor, FreshIsUnused, Fresh, PresentsStored
<1>21. CASE UNCHANGED vars
  BY <1>21
    DEF vars, files, issuer, Sound, files, issuer, Fault, Issue, SignInTypeOK,
        LockHeld, Locked, IssuedOnly, SavesSuccessor, FreshIsUnused, Fresh, PresentsStored
<1> QED BY <1>1, <1>2, <1>3, <1>4, <1>5, <1>6, <1>7, <1>8, <1>9, <1>10, <1>11, <1>12, <1>13, <1>14, <1>15, <1>16, <1>17, <1>18, <1>19, <1>20, <1>21
  DEF Next, Step, Jobs

\* While a token is presented, nobody replaces it in codex.json.
LEMMA PresentsStep ==
    ASSUME Sound, [Next]_vars PROVE PresentsStored'
PROOF
<1> USE SignInAssumption
  DEF Actor, Token, Copy, Goto, Hold, Unlock, Finish, GiveUp, Loaded
<1>1. ASSUME NEW a \in Actor, Load(a) PROVE PresentsStored'
  BY <1>1 DEF Load, Sound, issuer, SignInTypeOK, LockHeld, Locked, PresentsStored
<1>2. ASSUME NEW a \in Actor, Reload(a) PROVE PresentsStored'
  BY <1>2
    DEF Reload, Sound, files, issuer, SignInTypeOK, LockHeld, Locked, PresentsStored
<1>3. ASSUME NEW a \in Actor, ReloadThroughCodex(a) PROVE PresentsStored'
  BY <1>3
    DEF ReloadThroughCodex, Sound, Fault, Issue, SignInTypeOK, LockHeld, Locked,
        PresentsStored
<1>4. ASSUME NEW a \in Actor, Lock(a) PROVE PresentsStored'
  BY <1>4 DEF Lock, Sound, files, issuer, SignInTypeOK, LockHeld, Locked, PresentsStored
<1>5. ASSUME NEW a \in Actor, Recheck(a) PROVE PresentsStored'
  BY <1>5 DEF Recheck, Sound, issuer, SignInTypeOK, LockHeld, Locked, PresentsStored
<1>6. ASSUME NEW a \in Actor, Present(a) PROVE PresentsStored'
  BY <1>6
    DEF Present, Sound, files, Issue, SignInTypeOK, LockHeld, Locked, PresentsStored
<1>7. ASSUME NEW a \in Actor, PresentFails(a) PROVE PresentsStored'
  BY <1>7 DEF PresentFails, Sound, Fault, SignInTypeOK, LockHeld, Locked, PresentsStored
<1>8. ASSUME NEW a \in Actor, Save(a) PROVE PresentsStored'
  BY <1>8 DEF Save, Sound, issuer, SignInTypeOK, LockHeld, Locked, PresentsStored
<1>9. ASSUME NEW a \in Actor, Write(a) PROVE PresentsStored'
  BY <1>9 DEF Write, Sound, issuer, SignInTypeOK, LockHeld, Locked, PresentsStored
<1>10. ASSUME NEW a \in Actor, Store(a) PROVE PresentsStored'
  BY <1>10 DEF Store, Sound, issuer, SignInTypeOK, LockHeld, Locked, PresentsStored
<1>11. ASSUME NEW a \in Actor, Remove(a) PROVE PresentsStored'
  BY <1>11 DEF Remove, Sound, issuer, SignInTypeOK, LockHeld, Locked, PresentsStored
<1>12. ASSUME NEW a \in Actor, SaveFails(a) PROVE PresentsStored'
  BY <1>12 DEF SaveFails, Sound, Fault, SignInTypeOK, LockHeld, Locked, PresentsStored
<1>13. ASSUME NEW a \in Actor, WriteFails(a) PROVE PresentsStored'
  BY <1>13
    DEF WriteFails, Sound, issuer, Fault, SignInTypeOK, LockHeld, Locked, PresentsStored
<1>14. ASSUME NEW a \in Actor, Kill(a) PROVE PresentsStored'
  BY <1>14 DEF Kill, Sound, files, Fault, SignInTypeOK, LockHeld, Locked, PresentsStored
<1>15. ASSUME NEW p \in Process, NEW what \in Jobs, Begin(p, what) PROVE PresentsStored'
  BY <1>15
    DEF Begin, Issue, Sound, files, SignInTypeOK, LockHeld, Locked, PresentsStored
<1>16. CASE Start
  BY <1>16
    DEF Start, Sound, files, issuer, SignInTypeOK, LockHeld, Locked, PresentsStored
<1>17. CASE Check
  BY <1>17
    DEF Check, Sound, files, issuer, SignInTypeOK, LockHeld, Locked, PresentsStored
<1>18. CASE Stop
  BY <1>18 DEF Stop, Sound, issuer, SignInTypeOK, LockHeld, Locked, PresentsStored
<1>19. CASE CodexChanges
  BY <1>19
    DEF CodexChanges, Issue, Sound, SignInTypeOK, LockHeld, Locked, PresentsStored
<1>20. ASSUME NEW t \in Token, Age(t) PROVE PresentsStored'
  BY <1>20 DEF Age, Sound, files, issuer, SignInTypeOK, LockHeld, Locked, PresentsStored
<1>21. CASE UNCHANGED vars
  BY <1>21
    DEF vars, files, issuer, Sound, files, issuer, Fault, Issue, SignInTypeOK,
        LockHeld, Locked, PresentsStored
<1> QED BY <1>1, <1>2, <1>3, <1>4, <1>5, <1>6, <1>7, <1>8, <1>9, <1>10, <1>11, <1>12, <1>13, <1>14, <1>15, <1>16, <1>17, <1>18, <1>19, <1>20, <1>21
  DEF Next, Step, Jobs

\* Between the exchange and the save, nobody replaces the spent token in codex.json.
LEMMA SavesStep ==
    ASSUME Sound, [Next]_vars PROVE SavesSuccessor'
PROOF
<1> USE SignInAssumption
  DEF Actor, Token, Copy, Goto, Hold, Unlock, Finish, GiveUp, Loaded
<1>1. ASSUME NEW a \in Actor, Load(a) PROVE SavesSuccessor'
  BY <1>1
    DEF Load, Sound, issuer, SignInTypeOK, LockHeld, Locked, PresentsStored,
        IssuedOnly, SavesSuccessor
<1>2. ASSUME NEW a \in Actor, Reload(a) PROVE SavesSuccessor'
  BY <1>2
    DEF Reload, Sound, files, issuer, SignInTypeOK, LockHeld, Locked, PresentsStored,
        IssuedOnly, SavesSuccessor
<1>3. ASSUME NEW a \in Actor, ReloadThroughCodex(a) PROVE SavesSuccessor'
  BY <1>3
    DEF ReloadThroughCodex, Sound, Fault, Issue, SignInTypeOK, LockHeld, Locked,
        PresentsStored, IssuedOnly, SavesSuccessor
<1>4. ASSUME NEW a \in Actor, Lock(a) PROVE SavesSuccessor'
  BY <1>4
    DEF Lock, Sound, files, issuer, SignInTypeOK, LockHeld, Locked, PresentsStored,
        IssuedOnly, SavesSuccessor
<1>5. ASSUME NEW a \in Actor, Recheck(a) PROVE SavesSuccessor'
  BY <1>5
    DEF Recheck, Sound, issuer, SignInTypeOK, LockHeld, Locked, PresentsStored,
        IssuedOnly, SavesSuccessor
<1>6. ASSUME NEW a \in Actor, Present(a) PROVE SavesSuccessor'
  BY <1>6
    DEF Present, Sound, files, Issue, SignInTypeOK, LockHeld, Locked, PresentsStored,
        IssuedOnly, SavesSuccessor
<1>7. ASSUME NEW a \in Actor, PresentFails(a) PROVE SavesSuccessor'
  BY <1>7
    DEF PresentFails, Sound, Fault, SignInTypeOK, LockHeld, Locked, PresentsStored,
        IssuedOnly, SavesSuccessor
<1>8. ASSUME NEW a \in Actor, Save(a) PROVE SavesSuccessor'
  BY <1>8
    DEF Save, Sound, issuer, SignInTypeOK, LockHeld, Locked, PresentsStored,
        IssuedOnly, SavesSuccessor
<1>9. ASSUME NEW a \in Actor, Write(a) PROVE SavesSuccessor'
  BY <1>9
    DEF Write, Sound, issuer, SignInTypeOK, LockHeld, Locked, PresentsStored,
        IssuedOnly, SavesSuccessor
<1>10. ASSUME NEW a \in Actor, Store(a) PROVE SavesSuccessor'
  BY <1>10
    DEF Store, Sound, issuer, SignInTypeOK, LockHeld, Locked, PresentsStored,
        IssuedOnly, SavesSuccessor
<1>11. ASSUME NEW a \in Actor, Remove(a) PROVE SavesSuccessor'
  BY <1>11
    DEF Remove, Sound, issuer, SignInTypeOK, LockHeld, Locked, PresentsStored,
        IssuedOnly, SavesSuccessor
<1>12. ASSUME NEW a \in Actor, SaveFails(a) PROVE SavesSuccessor'
  BY <1>12
    DEF SaveFails, Sound, Fault, SignInTypeOK, LockHeld, Locked, PresentsStored,
        IssuedOnly, SavesSuccessor
<1>13. ASSUME NEW a \in Actor, WriteFails(a) PROVE SavesSuccessor'
  BY <1>13
    DEF WriteFails, Sound, issuer, Fault, SignInTypeOK, LockHeld, Locked,
        PresentsStored, IssuedOnly, SavesSuccessor
<1>14. ASSUME NEW a \in Actor, Kill(a) PROVE SavesSuccessor'
  BY <1>14
    DEF Kill, Sound, files, Fault, SignInTypeOK, LockHeld, Locked, PresentsStored,
        IssuedOnly, SavesSuccessor
<1>15. ASSUME NEW p \in Process, NEW what \in Jobs, Begin(p, what) PROVE SavesSuccessor'
  BY <1>15
    DEF Begin, Issue, Sound, files, SignInTypeOK, LockHeld, Locked, PresentsStored,
        IssuedOnly, SavesSuccessor
<1>16. CASE Start
  BY <1>16
    DEF Start, Sound, files, issuer, SignInTypeOK, LockHeld, Locked, PresentsStored,
        IssuedOnly, SavesSuccessor
<1>17. CASE Check
  BY <1>17
    DEF Check, Sound, files, issuer, SignInTypeOK, LockHeld, Locked, PresentsStored,
        IssuedOnly, SavesSuccessor
<1>18. CASE Stop
  BY <1>18
    DEF Stop, Sound, issuer, SignInTypeOK, LockHeld, Locked, PresentsStored,
        IssuedOnly, SavesSuccessor
<1>19. CASE CodexChanges
  BY <1>19
    DEF CodexChanges, Issue, Sound, SignInTypeOK, LockHeld, Locked, PresentsStored,
        IssuedOnly, SavesSuccessor
<1>20. ASSUME NEW t \in Token, Age(t) PROVE SavesSuccessor'
  BY <1>20
    DEF Age, Sound, files, issuer, SignInTypeOK, LockHeld, Locked, PresentsStored,
        IssuedOnly, SavesSuccessor
<1>21. CASE UNCHANGED vars
  BY <1>21
    DEF vars, files, issuer, Sound, files, issuer, Fault, Issue, SignInTypeOK,
        LockHeld, Locked, PresentsStored, IssuedOnly, SavesSuccessor
<1> QED BY <1>1, <1>2, <1>3, <1>4, <1>5, <1>6, <1>7, <1>8, <1>9, <1>10, <1>11, <1>12, <1>13, <1>14, <1>15, <1>16, <1>17, <1>18, <1>19, <1>20, <1>21
  DEF Next, Step, Jobs

\* A new sign-in waits for the lock as unused as it was issued.
LEMMA FreshStep ==
    ASSUME Sound, [Next]_vars PROVE FreshIsUnused'
PROOF
<1> USE SignInAssumption
  DEF Actor, Token, Copy, Goto, Hold, Unlock, Finish, GiveUp, Loaded
<1>1. ASSUME NEW a \in Actor, Load(a) PROVE FreshIsUnused'
  <2>1. /\ UNCHANGED <<login, issuer>> /\ pc[a] = "load"
        /\ \A b \in Actor \ {a} : pc'[b] = pc[b] /\ job'[b] = job[b] /\ held'[b] = held[b]
        /\ pc'[a] # "store"
    BY <1>1 DEF Load, Sound, SignInTypeOK, files, issuer
  <2>2. ~Fresh(a) /\ job'[a] # "login"
    BY <1>1, <2>1 DEF Load, Sound, SignInTypeOK, FreshIsUnused, Fresh
  <2> QED BY <2>1, <2>2 DEF Sound, FreshIsUnused, Fresh, issuer
<1>2. ASSUME NEW a \in Actor, Reload(a) PROVE FreshIsUnused'
  BY <1>2
    DEF Reload, Sound, files, issuer, SignInTypeOK, LockHeld, Locked, IssuedOnly,
        PresentsStored, SavesSuccessor, FreshIsUnused, Fresh, Jobs
<1>3. ASSUME NEW a \in Actor, ReloadThroughCodex(a) PROVE FreshIsUnused'
  BY <1>3
    DEF ReloadThroughCodex, Sound, Fault, Issue, SignInTypeOK, LockHeld, Locked,
        IssuedOnly, PresentsStored, SavesSuccessor, FreshIsUnused, Fresh, Jobs
<1>4. ASSUME NEW a \in Actor, Lock(a) PROVE FreshIsUnused'
  BY <1>4
    DEF Lock, Sound, files, issuer, SignInTypeOK, LockHeld, Locked, IssuedOnly,
        PresentsStored, SavesSuccessor, FreshIsUnused, Fresh, Jobs
<1>5. ASSUME NEW a \in Actor, Recheck(a) PROVE FreshIsUnused'
  BY <1>5
    DEF Recheck, Sound, issuer, SignInTypeOK, LockHeld, Locked, IssuedOnly,
        PresentsStored, SavesSuccessor, FreshIsUnused, Fresh, Jobs
<1>6. ASSUME NEW a \in Actor, Present(a) PROVE FreshIsUnused'
  BY <1>6
    DEF Present, Sound, files, Issue, SignInTypeOK, LockHeld, Locked, IssuedOnly,
        PresentsStored, SavesSuccessor, FreshIsUnused, Fresh, Jobs
<1>7. ASSUME NEW a \in Actor, PresentFails(a) PROVE FreshIsUnused'
  BY <1>7
    DEF PresentFails, Sound, Fault, SignInTypeOK, LockHeld, Locked, IssuedOnly,
        PresentsStored, SavesSuccessor, FreshIsUnused, Fresh, Jobs
<1>8. ASSUME NEW a \in Actor, Save(a) PROVE FreshIsUnused'
  BY <1>8
    DEF Save, Sound, issuer, SignInTypeOK, LockHeld, Locked, IssuedOnly,
        PresentsStored, SavesSuccessor, FreshIsUnused, Fresh, Jobs
<1>9. ASSUME NEW a \in Actor, Write(a) PROVE FreshIsUnused'
  BY <1>9
    DEF Write, Sound, issuer, SignInTypeOK, LockHeld, Locked, IssuedOnly,
        PresentsStored, SavesSuccessor, FreshIsUnused, Fresh, Jobs
<1>10. ASSUME NEW a \in Actor, Store(a) PROVE FreshIsUnused'
  BY <1>10
    DEF Store, Sound, issuer, SignInTypeOK, LockHeld, Locked, IssuedOnly,
        PresentsStored, SavesSuccessor, FreshIsUnused, Fresh, Jobs
<1>11. ASSUME NEW a \in Actor, Remove(a) PROVE FreshIsUnused'
  BY <1>11
    DEF Remove, Sound, issuer, SignInTypeOK, LockHeld, Locked, IssuedOnly,
        PresentsStored, SavesSuccessor, FreshIsUnused, Fresh, Jobs
<1>12. ASSUME NEW a \in Actor, SaveFails(a) PROVE FreshIsUnused'
  BY <1>12
    DEF SaveFails, Sound, Fault, SignInTypeOK, LockHeld, Locked, IssuedOnly,
        PresentsStored, SavesSuccessor, FreshIsUnused, Fresh, Jobs
<1>13. ASSUME NEW a \in Actor, WriteFails(a) PROVE FreshIsUnused'
  BY <1>13
    DEF WriteFails, Sound, issuer, Fault, SignInTypeOK, LockHeld, Locked, IssuedOnly,
        PresentsStored, SavesSuccessor, FreshIsUnused, Fresh, Jobs
<1>14. ASSUME NEW a \in Actor, Kill(a) PROVE FreshIsUnused'
  BY <1>14
    DEF Kill, Sound, files, Fault, SignInTypeOK, LockHeld, Locked, IssuedOnly,
        PresentsStored, SavesSuccessor, FreshIsUnused, Fresh, Jobs
<1>15. ASSUME NEW p \in Process, NEW what \in Jobs, Begin(p, what) PROVE FreshIsUnused'
  BY <1>15
    DEF Begin, Issue, Sound, files, SignInTypeOK, LockHeld, Locked, IssuedOnly,
        PresentsStored, SavesSuccessor, FreshIsUnused, Fresh, Jobs
<1>16. CASE Start
  BY <1>16
    DEF Start, Sound, files, issuer, SignInTypeOK, LockHeld, Locked, IssuedOnly,
        PresentsStored, SavesSuccessor, FreshIsUnused, Fresh, Jobs
<1>17. CASE Check
  BY <1>17
    DEF Check, Sound, files, issuer, SignInTypeOK, LockHeld, Locked, IssuedOnly,
        PresentsStored, SavesSuccessor, FreshIsUnused, Fresh, Jobs
<1>18. CASE Stop
  BY <1>18
    DEF Stop, Sound, issuer, SignInTypeOK, LockHeld, Locked, IssuedOnly,
        PresentsStored, SavesSuccessor, FreshIsUnused, Fresh, Jobs
<1>19. CASE CodexChanges
  BY <1>19
    DEF CodexChanges, Issue, Sound, SignInTypeOK, LockHeld, Locked, IssuedOnly,
        PresentsStored, SavesSuccessor, FreshIsUnused, Fresh, Jobs
<1>20. ASSUME NEW t \in Token, Age(t) PROVE FreshIsUnused'
  BY <1>20
    DEF Age, Sound, files, issuer, SignInTypeOK, LockHeld, Locked, IssuedOnly,
        PresentsStored, SavesSuccessor, FreshIsUnused, Fresh, Jobs
<1>21. CASE UNCHANGED vars
  BY <1>21
    DEF vars, files, issuer, Sound, files, issuer, Fault, Issue, SignInTypeOK,
        LockHeld, Locked, IssuedOnly, PresentsStored, SavesSuccessor, FreshIsUnused, Fresh,
        Jobs
<1> QED BY <1>1, <1>2, <1>3, <1>4, <1>5, <1>6, <1>7, <1>8, <1>9, <1>10, <1>11, <1>12, <1>13, <1>14, <1>15, <1>16, <1>17, <1>18, <1>19, <1>20, <1>21
  DEF Next, Step, Jobs

\* A spent token stays in codex.json only while its successor is saved, or is lost.
LEMMA RenewableStep ==
    ASSUME Sound, [Next]_vars PROVE StaysRenewable'
PROOF
<1> USE SignInAssumption
  DEF Actor, Token, Copy, Goto, Hold, Unlock, Finish, GiveUp, Loaded
<1>1. ASSUME NEW a \in Actor, Load(a) PROVE StaysRenewable'
  BY <1>1
    DEF Load, Sound, issuer, SignInTypeOK, LockHeld, Locked, IssuedOnly,
        PresentsStored, SavesSuccessor, FreshIsUnused, Fresh, StaysRenewable
<1>2. ASSUME NEW a \in Actor, Reload(a) PROVE StaysRenewable'
  BY <1>2
    DEF Reload, Sound, files, issuer, SignInTypeOK, LockHeld, Locked, IssuedOnly,
        PresentsStored, SavesSuccessor, FreshIsUnused, Fresh, StaysRenewable
<1>3. ASSUME NEW a \in Actor, ReloadThroughCodex(a) PROVE StaysRenewable'
  BY <1>3
    DEF ReloadThroughCodex, Sound, Fault, Issue, SignInTypeOK, LockHeld, Locked,
        IssuedOnly, PresentsStored, SavesSuccessor, FreshIsUnused, Fresh, StaysRenewable
<1>4. ASSUME NEW a \in Actor, Lock(a) PROVE StaysRenewable'
  BY <1>4
    DEF Lock, Sound, files, issuer, SignInTypeOK, LockHeld, Locked, IssuedOnly,
        PresentsStored, SavesSuccessor, FreshIsUnused, Fresh, StaysRenewable
<1>5. ASSUME NEW a \in Actor, Recheck(a) PROVE StaysRenewable'
  BY <1>5
    DEF Recheck, Sound, issuer, SignInTypeOK, LockHeld, Locked, IssuedOnly,
        PresentsStored, SavesSuccessor, FreshIsUnused, Fresh, StaysRenewable
<1>6. ASSUME NEW a \in Actor, Present(a) PROVE StaysRenewable'
  BY <1>6
    DEF Present, Sound, files, Issue, SignInTypeOK, LockHeld, Locked, IssuedOnly,
        PresentsStored, SavesSuccessor, FreshIsUnused, Fresh, StaysRenewable
<1>7. ASSUME NEW a \in Actor, PresentFails(a) PROVE StaysRenewable'
  BY <1>7
    DEF PresentFails, Sound, Fault, SignInTypeOK, LockHeld, Locked, IssuedOnly,
        PresentsStored, SavesSuccessor, FreshIsUnused, Fresh, StaysRenewable
<1>8. ASSUME NEW a \in Actor, Save(a) PROVE StaysRenewable'
  BY <1>8
    DEF Save, Sound, issuer, SignInTypeOK, LockHeld, Locked, IssuedOnly,
        PresentsStored, SavesSuccessor, FreshIsUnused, Fresh, StaysRenewable
<1>9. ASSUME NEW a \in Actor, Write(a) PROVE StaysRenewable'
  BY <1>9
    DEF Write, Sound, issuer, SignInTypeOK, LockHeld, Locked, IssuedOnly,
        PresentsStored, SavesSuccessor, FreshIsUnused, Fresh, StaysRenewable
<1>10. ASSUME NEW a \in Actor, Store(a) PROVE StaysRenewable'
  BY <1>10
    DEF Store, Sound, issuer, SignInTypeOK, LockHeld, Locked, IssuedOnly,
        PresentsStored, SavesSuccessor, FreshIsUnused, Fresh, StaysRenewable
<1>11. ASSUME NEW a \in Actor, Remove(a) PROVE StaysRenewable'
  BY <1>11
    DEF Remove, Sound, issuer, SignInTypeOK, LockHeld, Locked, IssuedOnly,
        PresentsStored, SavesSuccessor, FreshIsUnused, Fresh, StaysRenewable
<1>12. ASSUME NEW a \in Actor, SaveFails(a) PROVE StaysRenewable'
  BY <1>12
    DEF SaveFails, Sound, Fault, SignInTypeOK, LockHeld, Locked, IssuedOnly,
        PresentsStored, SavesSuccessor, FreshIsUnused, Fresh, StaysRenewable
<1>13. ASSUME NEW a \in Actor, WriteFails(a) PROVE StaysRenewable'
  BY <1>13
    DEF WriteFails, Sound, issuer, Fault, SignInTypeOK, LockHeld, Locked, IssuedOnly,
        PresentsStored, SavesSuccessor, FreshIsUnused, Fresh, StaysRenewable
<1>14. ASSUME NEW a \in Actor, Kill(a) PROVE StaysRenewable'
  BY <1>14
    DEF Kill, Sound, files, Fault, SignInTypeOK, LockHeld, Locked, IssuedOnly,
        PresentsStored, SavesSuccessor, FreshIsUnused, Fresh, StaysRenewable
<1>15. ASSUME NEW p \in Process, NEW what \in Jobs, Begin(p, what) PROVE StaysRenewable'
  <2>1. UNCHANGED <<login, spent, orphaned, lock, parent>> \/ Issue(None)
    BY <1>15 DEF Begin, files
  <2>2. \A b \in Actor : pc[b] = "save" => pc'[b] = "save" /\ held'[b] = held[b]
    BY <1>15 DEF Begin, Sound, JobHeld, SignInTypeOK
  <2>3. \A b \in Actor : pc[b] = "save" => parent'[held[b]] = parent[held[b]]
    BY <2>1, SavedIsSuccessor DEF Issue, Sound, SignInTypeOK, SavesSuccessor
  <2>4. UNCHANGED <<login, spent, orphaned, lock>>
    BY <1>15 DEF Begin, files
  <2> QED BY <2>2, <2>3, <2>4 DEF Sound, StaysRenewable
<1>16. CASE Start
  <2>1. UNCHANGED <<login, spent, orphaned, lock, parent>> \/ Issue(None)
    BY <1>16 DEF Start, files, issuer
  <2>2. \A b \in Actor : pc[b] = "save" => pc'[b] = "save" /\ held'[b] = held[b]
    BY <1>16 DEF Start, Sound, JobHeld, SignInTypeOK
  <2>3. \A b \in Actor : pc[b] = "save" => parent'[held[b]] = parent[held[b]]
    BY <2>1, SavedIsSuccessor DEF Issue, Sound, SignInTypeOK, SavesSuccessor
  <2>4. UNCHANGED <<login, spent, orphaned, lock>>
    BY <1>16 DEF Start, files, issuer
  <2> QED BY <2>2, <2>3, <2>4 DEF Sound, StaysRenewable
<1>17. CASE Check
  BY <1>17
    DEF Check, Sound, files, issuer, SignInTypeOK, LockHeld, Locked, IssuedOnly,
        PresentsStored, SavesSuccessor, FreshIsUnused, Fresh, StaysRenewable
<1>18. CASE Stop
  BY <1>18
    DEF Stop, Sound, issuer, SignInTypeOK, LockHeld, Locked, IssuedOnly,
        PresentsStored, SavesSuccessor, FreshIsUnused, Fresh, StaysRenewable
<1>19. CASE CodexChanges
  BY <1>19
    DEF CodexChanges, Issue, Sound, SignInTypeOK, LockHeld, Locked, IssuedOnly,
        PresentsStored, SavesSuccessor, FreshIsUnused, Fresh, StaysRenewable
<1>20. ASSUME NEW t \in Token, Age(t) PROVE StaysRenewable'
  BY <1>20
    DEF Age, Sound, files, issuer, SignInTypeOK, LockHeld, Locked, IssuedOnly,
        PresentsStored, SavesSuccessor, FreshIsUnused, Fresh, StaysRenewable
<1>21. CASE UNCHANGED vars
  BY <1>21
    DEF vars, files, issuer, Sound, files, issuer, Fault, Issue, SignInTypeOK,
        LockHeld, Locked, IssuedOnly, PresentsStored, SavesSuccessor, FreshIsUnused, Fresh,
        StaysRenewable
<1> QED BY <1>1, <1>2, <1>3, <1>4, <1>5, <1>6, <1>7, <1>8, <1>9, <1>10, <1>11, <1>12, <1>13, <1>14, <1>15, <1>16, <1>17, <1>18, <1>19, <1>20, <1>21
  DEF Next, Step, Jobs

\* The issuer refuses nothing but a token whose successor was lost.
LEMMA SpentStep ==
    ASSUME Sound, [Next]_vars PROVE NeverSpentTwice'
PROOF
<1> USE SignInAssumption
  DEF Actor, Token, Copy, Goto, Hold, Unlock, Finish, GiveUp, Loaded
<1>1. ASSUME NEW a \in Actor, Load(a) PROVE NeverSpentTwice'
  BY <1>1
    DEF Load, Sound, issuer, SignInTypeOK, LockHeld, Locked, PresentsStored,
        StaysRenewable, NeverSpentTwice
<1>2. ASSUME NEW a \in Actor, Reload(a) PROVE NeverSpentTwice'
  BY <1>2
    DEF Reload, Sound, files, issuer, SignInTypeOK, LockHeld, Locked, PresentsStored,
        StaysRenewable, NeverSpentTwice
<1>3. ASSUME NEW a \in Actor, ReloadThroughCodex(a) PROVE NeverSpentTwice'
  BY <1>3
    DEF ReloadThroughCodex, Sound, Fault, Issue, SignInTypeOK, LockHeld, Locked,
        PresentsStored, StaysRenewable, NeverSpentTwice
<1>4. ASSUME NEW a \in Actor, Lock(a) PROVE NeverSpentTwice'
  BY <1>4
    DEF Lock, Sound, files, issuer, SignInTypeOK, LockHeld, Locked, PresentsStored,
        StaysRenewable, NeverSpentTwice
<1>5. ASSUME NEW a \in Actor, Recheck(a) PROVE NeverSpentTwice'
  BY <1>5
    DEF Recheck, Sound, issuer, SignInTypeOK, LockHeld, Locked, PresentsStored,
        StaysRenewable, NeverSpentTwice
<1>6. ASSUME NEW a \in Actor, Present(a) PROVE NeverSpentTwice'
  BY <1>6
    DEF Present, Sound, files, Issue, SignInTypeOK, LockHeld, Locked, PresentsStored,
        StaysRenewable, NeverSpentTwice
<1>7. ASSUME NEW a \in Actor, PresentFails(a) PROVE NeverSpentTwice'
  <2>1. refused' \subseteq refused \union ({held[a]} \intersect spent) /\ orphaned \subseteq orphaned'
    BY <1>7 DEF PresentFails
  <2>2. {held[a]} \intersect spent \subseteq orphaned
    BY <1>7, PresentedIsStored DEF PresentFails
  <2> QED BY <2>1, <2>2 DEF Sound, NeverSpentTwice
<1>8. ASSUME NEW a \in Actor, Save(a) PROVE NeverSpentTwice'
  BY <1>8
    DEF Save, Sound, issuer, SignInTypeOK, LockHeld, Locked, PresentsStored,
        StaysRenewable, NeverSpentTwice
<1>9. ASSUME NEW a \in Actor, Write(a) PROVE NeverSpentTwice'
  BY <1>9
    DEF Write, Sound, issuer, SignInTypeOK, LockHeld, Locked, PresentsStored,
        StaysRenewable, NeverSpentTwice
<1>10. ASSUME NEW a \in Actor, Store(a) PROVE NeverSpentTwice'
  BY <1>10
    DEF Store, Sound, issuer, SignInTypeOK, LockHeld, Locked, PresentsStored,
        StaysRenewable, NeverSpentTwice
<1>11. ASSUME NEW a \in Actor, Remove(a) PROVE NeverSpentTwice'
  BY <1>11
    DEF Remove, Sound, issuer, SignInTypeOK, LockHeld, Locked, PresentsStored,
        StaysRenewable, NeverSpentTwice
<1>12. ASSUME NEW a \in Actor, SaveFails(a) PROVE NeverSpentTwice'
  BY <1>12
    DEF SaveFails, Sound, Fault, SignInTypeOK, LockHeld, Locked, PresentsStored,
        StaysRenewable, NeverSpentTwice
<1>13. ASSUME NEW a \in Actor, WriteFails(a) PROVE NeverSpentTwice'
  BY <1>13
    DEF WriteFails, Sound, issuer, Fault, SignInTypeOK, LockHeld, Locked,
        PresentsStored, StaysRenewable, NeverSpentTwice
<1>14. ASSUME NEW a \in Actor, Kill(a) PROVE NeverSpentTwice'
  BY <1>14
    DEF Kill, Sound, files, Fault, SignInTypeOK, LockHeld, Locked, PresentsStored,
        StaysRenewable, NeverSpentTwice
<1>15. ASSUME NEW p \in Process, NEW what \in Jobs, Begin(p, what) PROVE NeverSpentTwice'
  BY <1>15
    DEF Begin, Issue, Sound, files, SignInTypeOK, LockHeld, Locked, PresentsStored,
        StaysRenewable, NeverSpentTwice
<1>16. CASE Start
  BY <1>16
    DEF Start, Sound, files, issuer, SignInTypeOK, LockHeld, Locked, PresentsStored,
        StaysRenewable, NeverSpentTwice
<1>17. CASE Check
  BY <1>17
    DEF Check, Sound, files, issuer, SignInTypeOK, LockHeld, Locked, PresentsStored,
        StaysRenewable, NeverSpentTwice
<1>18. CASE Stop
  BY <1>18
    DEF Stop, Sound, issuer, SignInTypeOK, LockHeld, Locked, PresentsStored,
        StaysRenewable, NeverSpentTwice
<1>19. CASE CodexChanges
  BY <1>19
    DEF CodexChanges, Issue, Sound, SignInTypeOK, LockHeld, Locked, PresentsStored,
        StaysRenewable, NeverSpentTwice
<1>20. ASSUME NEW t \in Token, Age(t) PROVE NeverSpentTwice'
  BY <1>20
    DEF Age, Sound, files, issuer, SignInTypeOK, LockHeld, Locked, PresentsStored,
        StaysRenewable, NeverSpentTwice
<1>21. CASE UNCHANGED vars
  BY <1>21
    DEF vars, files, issuer, Sound, files, issuer, Fault, Issue, SignInTypeOK,
        LockHeld, Locked, PresentsStored, StaysRenewable, NeverSpentTwice
<1> QED BY <1>1, <1>2, <1>3, <1>4, <1>5, <1>6, <1>7, <1>8, <1>9, <1>10, <1>11, <1>12, <1>13, <1>14, <1>15, <1>16, <1>17, <1>18, <1>19, <1>20, <1>21
  DEF Next, Step, Jobs

\* The start, where no token exists.
LEMMA InitSound == Init => Sound
PROOF
<1> SUFFICES ASSUME Init PROVE Sound
  OBVIOUS
<1> USE SignInAssumption DEF Init, Actor, Token, Copy
<1>1. SignInTypeOK
  BY DEF SignInTypeOK, Jobs, Steps, Carrying
<1>2. LockHeld /\ JobHeld /\ IssuedOnly /\ PresentsStored /\ SavesSuccessor
  BY DEF LockHeld, Locked, JobHeld, IssuedOnly, PresentsStored, SavesSuccessor
<1>3. FreshIsUnused /\ StaysRenewable /\ NeverSpentTwice
  BY DEF FreshIsUnused, Fresh, StaysRenewable, NeverSpentTwice
<1> QED BY <1>1, <1>2, <1>3 DEF Sound

\* The inductive invariant holds in every reachable state.
THEOREM SoundAlways == Spec => []Sound
PROOF
<1>1. Sound /\ [Next]_vars => Sound'
  BY TypingStep, LockStep, JobStep, IssuedStep, PresentsStep, SavesStep, FreshStep,
     RenewableStep, SpentStep DEF Sound
<1> QED BY InitSound, <1>1, PTL DEF Spec

\* Every reachable state of the sign-in, its copies and its users is well typed.
THEOREM SignInTyping == Spec => []SignInTypeOK
PROOF
<1>1. Sound => SignInTypeOK
  BY DEF Sound
<1> QED BY SoundAlways, <1>1, PTL

\* However many processes renew the sign-in, die or fail: the issuer is never
\* shown a refresh token again, unless the first answer was lost with its taker.
THEOREM NoTokenSpentTwice == Spec => []NeverSpentTwice
PROOF
<1>1. Sound => NeverSpentTwice
  BY DEF Sound
<1> QED BY SoundAlways, <1>1, PTL

\* What codex.json holds can be renewed, or its successor is being saved or lost.
THEOREM StoredIsRenewable == Spec => []StaysRenewable
PROOF
<1>1. Sound => StaysRenewable
  BY DEF Sound
<1> QED BY SoundAlways, <1>1, PTL

\* Every reachable state is well formed, and its sign-in can be renewed.
THEOREM SignInIsInOrder == Spec => []SignInInOrder
PROOF
<1>1. SignInTypeOK /\ StaysRenewable => SignInInOrder
  BY DEF SignInInOrder
<1> QED BY <1>1, SignInTyping, StoredIsRenewable, PTL

\* No renewal overwrites a newer sign-in or brings back a removed one: only the
\* save of a renewal and the store of a new sign-in put a token into codex.json.
THEOREM NoLostSignIn == Spec => RenewsWhatIsStored
PROOF
<1> DEFINE Renews == login' # login /\ login' # None => parent[login'] \in {None, login}
<1>1. ASSUME Sound, [Next]_vars PROVE Renews
  <2>1. ASSUME NEW a \in Actor, Save(a) PROVE Renews
    BY <1>1, <2>1, SavedIsSuccessor DEF Save
  <2>2. ASSUME NEW a \in Actor, Store(a) PROVE Renews
    BY <1>1, <2>2 DEF Store, Sound, FreshIsUnused
  <2>3. ASSUME NEW a \in Actor, Remove(a) PROVE Renews
    BY <2>3 DEF Remove
  <2>4. CASE UNCHANGED login
    BY <2>4
  <2>5. [Next]_vars => \/ UNCHANGED login
                       \/ \E a \in Actor : Save(a) \/ Store(a) \/ Remove(a)
    BY DEF Next, Step, vars, files, Begin, Start, Check, Stop, Load, Reload,
       ReloadThroughCodex, Lock, Recheck, Present, PresentFails, Write, SaveFails,
       WriteFails, CodexChanges, Age, Kill
  <2> QED BY <1>1, <2>1, <2>2, <2>3, <2>4, <2>5
<1>2. Renews => [Renews]_vars
  OBVIOUS
<1> QED BY SoundAlways, <1>1, PTL DEF Spec, RenewsWhatIsStored

-----------------------------------------------------------------------------
(* Updates.  A check that asks GitHub holds the lock, and an update that was
   not overtaken still compares with what is installed. *)

CheckHoldsLock == \A s \in Checker : session[s].check \in {"fetching", "fetched"} => checkLock = s

ComparesInstalled ==
    \A u \in Updater :
        /\ updater[u].at # "off" /\ ~updater[u].overtaken => updater[u].build = installed
        /\ updater[u].at = "installing" => updater[u].release > updater[u].build

UpdatesInv == UpdatesTypeOK /\ CheckHoldsLock /\ ComparesInstalled

\* The step of a session or a check keeps the types and the lock.
LEMMA CheckersKeep ==
    ASSUME UpdatesInv, NEW s \in Checker,
           StartSession(s) \/ Pin(s) \/ End(s) \/ Look(s) \/ TakeLock(s) \/ Fetched(s) \/ Recorded(s)
    PROVE  UpdatesInv'
PROOF
<1> DEFINE SessionRecord == [at: {"off", "started", "running"}, build: Version, pinned: Version,
                             check: {"sleeping", "stale", "fetching", "fetched"}, release: Version]
<1>0. 0 \in Version
  BY UpdatesAssumption DEF Version
<1>1. /\ session \in [Checker -> SessionRecord] /\ checkLock \in Checker \union {NoOne}
      /\ installed \in Version /\ latest \in Version /\ cache \in [release: Version, age: Ages]
  BY DEF UpdatesInv, UpdatesTypeOK
<1>2. NotStarted \in SessionRecord
  BY <1>0 DEF NotStarted
<1>3. /\ \E x \in SessionRecord : session' = [session EXCEPT ![s] = x]
      /\ checkLock' \in Checker \union {NoOne} /\ cache' \in [release: Version, age: Ages]
  <2>1. CASE StartSession(s)
    <3>1. session' = [session EXCEPT ![s] = [session[s] EXCEPT !.at = "started", !.build = installed]]
      BY <1>1, <2>1 DEF StartSession
    <3>2. [session[s] EXCEPT !.at = "started", !.build = installed] \in SessionRecord
      BY <1>1
    <3>3. UNCHANGED <<checkLock, cache>>
      BY <2>1 DEF StartSession
    <3> HIDE DEF SessionRecord
    <3> QED BY <1>1, <3>1, <3>2, <3>3
  <2>2. CASE Pin(s)
    <3>1. Opens(s) \in Version
      BY <1>0, <1>1 DEF Opens
    <3>2. session' = [session EXCEPT ![s] = IF Opens(s) = 0 THEN NotStarted
                                            ELSE [@ EXCEPT !.at = "running", !.pinned = Opens(s)]]
      BY <2>2 DEF Pin
    <3> QED BY ZenonT(40), <1>1, <1>2, <2>2, <3>1, <3>2 DEF Pin
  <2>3. CASE End(s)
    BY <1>1, <1>2, <2>3 DEF End
  <2>4. CASE Look(s)
    <3>1. session' = [session EXCEPT ![s] = [@ EXCEPT !.check = "stale"]]
      BY <2>4 DEF Look
    <3> QED BY ZenonT(40), <1>1, <2>4, <3>1 DEF Look
  <2>5. CASE TakeLock(s)
    <3>1. \/ session' = [session EXCEPT ![s] = [@ EXCEPT !.check = "fetching", !.release = cache.release]]
          \/ session' = [session EXCEPT ![s] = [@ EXCEPT !.check = "sleeping"]]
      BY <2>5 DEF TakeLock
    <3>2. cache' = cache /\ checkLock' \in {s, checkLock}
      BY <2>5 DEF TakeLock
    <3> QED BY ZenonT(40), <1>1, <3>1, <3>2
  <2>6. CASE Fetched(s)
    <3>1. PICK release \in {latest, session[s].release} :
             session' = [session EXCEPT ![s] = [session[s] EXCEPT !.check = "fetched", !.release = release]]
      BY <1>1, <2>6 DEF Fetched
    <3>2. [session[s] EXCEPT !.check = "fetched", !.release = release] \in SessionRecord
      BY ZenonT(40), <1>1
    <3>3. UNCHANGED <<checkLock, cache>>
      BY <2>6 DEF Fetched
    <3> HIDE DEF SessionRecord
    <3> QED BY <1>1, <3>1, <3>2, <3>3
  <2>7. CASE Recorded(s)
    <3>1. session' = [session EXCEPT ![s] = [session[s] EXCEPT !.check = "sleeping", !.release = 0]]
      BY <1>1, <2>7 DEF Recorded
    <3>2. cache' \in [release: Version, age: Ages] /\ checkLock' = NoOne
      BY <1>1, <2>7 DEF Recorded, Ages
    <3>3. [session[s] EXCEPT !.check = "sleeping", !.release = 0] \in SessionRecord
      BY <1>0, <1>1
    <3> HIDE DEF SessionRecord
    <3> QED BY <3>1, <3>2, <3>3
  <2> QED BY <2>1, <2>2, <2>3, <2>4, <2>5, <2>6, <2>7
<1>4. UNCHANGED <<latest, installed, updater>>
  BY DEF StartSession, Pin, End, Look, TakeLock, Fetched, Recorded
<1>5. UpdatesTypeOK'
  BY <1>1, <1>3, <1>4 DEF UpdatesInv, UpdatesTypeOK
<1>6. CheckHoldsLock'
  <2>1. ASSUME NEW t \in Checker, t # s, session[t].check \in {"fetching", "fetched"}
        PROVE  checkLock' = t
    BY <1>1, <2>1, UpdatesAssumption
       DEF UpdatesInv, CheckHoldsLock, StartSession, Pin, End, Look, TakeLock, Fetched, Recorded
  <2>2. session'[s].check \in {"fetching", "fetched"} => checkLock' = s
    <3>1. CASE StartSession(s)
      BY <1>1, <3>1 DEF StartSession, UpdatesInv, CheckHoldsLock
    <3>2. CASE Pin(s)
      BY <1>1, <3>2 DEF Pin, NotStarted, UpdatesInv, CheckHoldsLock
    <3>3. CASE End(s) \/ Look(s) \/ Recorded(s)
      BY <1>1, <3>3 DEF End, Look, Recorded, NotStarted
    <3>4. CASE TakeLock(s)
      BY <1>1, <3>4 DEF TakeLock
    <3>5. CASE Fetched(s)
      BY <1>1, <3>5 DEF Fetched, UpdatesInv, CheckHoldsLock
    <3> QED BY <3>1, <3>2, <3>3, <3>4, <3>5
  <2>3. \A t \in Checker : t # s => session'[t] = session[t]
    BY <1>1, <1>3
  <2> QED BY <2>1, <2>2, <2>3 DEF CheckHoldsLock
<1>7. ComparesInstalled'
  BY <1>4 DEF UpdatesInv, ComparesInstalled
<1> QED BY <1>5, <1>6, <1>7 DEF UpdatesInv

\* The step of an update command keeps the types, and what its release is compared with.
LEMMA UpdatersKeep ==
    ASSUME UpdatesInv, NEW u \in Updater,
           StartUpdate(u) \/ UpdateFetched(u) \/ Decide(u) \/ Install(u) \/ UpdateFails(u)
    PROVE  UpdatesInv'
PROOF
<1> DEFINE Command == [at: {"off", "fetching", "fetched", "installing"}, build: Version,
                       release: Version, overtaken: BOOLEAN]
           Compares(v) == /\ updater[v].at # "off" /\ ~updater[v].overtaken => updater[v].build = installed
                          /\ updater[v].at = "installing" => updater[v].release > updater[v].build
<1>0. 0 \in Version /\ Version \subseteq Nat
  BY UpdatesAssumption DEF Version
<1>1. /\ updater \in [Updater -> Command] /\ latest \in Version /\ installed \in Version \ {0}
      /\ cache \in [release: Version, age: Ages] /\ "fresh" \in Ages
  BY DEF UpdatesInv, UpdatesTypeOK, Ages
<1>2. \A v \in Updater : Compares(v)
  BY DEF UpdatesInv, ComparesInstalled
<1>3. NotRun \in Command
  BY <1>0 DEF NotRun
<1>4. UNCHANGED <<latest, checkLock, session>>
  BY DEF StartUpdate, UpdateFetched, Decide, Install, UpdateFails
<1>5. CASE Install(u)
  <2>1. updater[u].release \in Version \ {0} /\ updater[u].build \in Version
    BY <1>0, <1>1, <1>2, <1>5 DEF Install
  <2>2. \A v \in Updater : updater'[v] = IF v = u THEN NotRun ELSE [updater[v] EXCEPT !.overtaken = TRUE]
    BY <1>5 DEF Install
  <2>3. updater' \in [Updater -> Command]
    BY <1>1, <1>3, <1>5 DEF Install
  <2>4. ComparesInstalled'
    <3>1. ASSUME NEW v \in Updater, v # u
          PROVE  updater'[v].overtaken /\ (updater'[v].at = "installing" => updater'[v].release > updater'[v].build)
      <4>1. /\ updater'[v].at = updater[v].at /\ updater'[v].build = updater[v].build
            /\ updater'[v].release = updater[v].release /\ updater'[v].overtaken
        BY ZenonT(40), <1>1, <2>2, <3>1
      <4>2. Compares(v)
        BY <1>2
      <4> QED BY <4>1, <4>2
    <3>2. updater'[u].at = "off"
      <4>1. updater'[u] = NotRun
        BY <1>1, <1>5 DEF Install
      <4> QED BY <4>1 DEF NotRun
    <3> HIDE DEF Compares, Command
    <3> QED BY <3>1, <3>2 DEF ComparesInstalled
  <2>5. installed' = updater[u].release /\ cache' = cache
    BY <1>5 DEF Install
  <2> QED BY <1>1, <1>4, <2>1, <2>3, <2>4, <2>5 DEF UpdatesInv, UpdatesTypeOK, CheckHoldsLock
<1>6. CASE ~Install(u)
  <2>1. /\ \E x \in Command : /\ updater' = [updater EXCEPT ![u] = x]
                              /\ x.at # "off" /\ ~x.overtaken => x.build = installed
                              /\ x.at = "installing" => x.release > x.build
        /\ cache' \in [release: Version, age: Ages]
    <3>1. CASE StartUpdate(u)
      <4>1. [NotRun EXCEPT !.at = "fetching", !.build = installed] \in Command
        BY <1>0, <1>1 DEF NotRun
      <4> QED BY <1>1, <3>1, <4>1 DEF StartUpdate, NotRun
    <3>2. CASE UpdateFetched(u)
      <4> DEFINE x == [updater[u] EXCEPT !.at = "fetched", !.release = latest]
      <4>1. updater' = [updater EXCEPT ![u] = x] /\ updater[u].at # "off" /\ cache' = cache
        BY <1>1, <3>2 DEF UpdateFetched
      <4>2. x \in Command /\ x.at = "fetched" /\ x.build = updater[u].build /\ x.overtaken = updater[u].overtaken
        BY <1>1
      <4>3. ~x.overtaken => x.build = installed
        BY <1>2, <4>1, <4>2
      <4> HIDE DEF x, Command
      <4> QED BY <1>1, <4>1, <4>2, <4>3
    <3>3. CASE Decide(u)
      <4>1. cache' \in [release: Version, age: Ages]
        BY <1>1, <3>3 DEF Decide
      <4>2. CASE updater' = [updater EXCEPT ![u] = NotRun]
        BY <1>3, <4>1, <4>2 DEF NotRun
      <4>3. CASE updater' = [updater EXCEPT ![u] = [@ EXCEPT !.at = "installing"]]
                 /\ updater[u].release > updater[u].build /\ updater[u].at # "off"
        <5> DEFINE x == [updater[u] EXCEPT !.at = "installing"]
        <5>1. updater' = [updater EXCEPT ![u] = x]
          BY <1>1, <4>3
        <5>2. /\ x \in Command /\ x.build = updater[u].build /\ x.overtaken = updater[u].overtaken
              /\ x.release = updater[u].release
          BY <1>1
        <5>3. /\ ~x.overtaken => x.build = installed
              /\ x.release > x.build
          BY <1>2, <4>3, <5>2
        <5> HIDE DEF x, Command
        <5> QED BY <4>1, <5>1, <5>2, <5>3
      <4>4. \/ updater' = [updater EXCEPT ![u] = NotRun]
            \/ /\ updater' = [updater EXCEPT ![u] = [@ EXCEPT !.at = "installing"]]
               /\ updater[u].release > updater[u].build /\ updater[u].at # "off"
        BY <3>3 DEF Decide, NewerThan
      <4> QED BY <4>2, <4>3, <4>4
    <3>4. CASE UpdateFails(u)
      BY <1>1, <1>3, <3>4 DEF UpdateFails, NotRun
    <3> QED BY <1>6, <3>1, <3>2, <3>3, <3>4
  <2>2. UNCHANGED installed
    BY <1>6 DEF StartUpdate, UpdateFetched, Decide, UpdateFails
  <2>3. updater' \in [Updater -> Command]
    BY <1>1, <2>1
  <2>4. ComparesInstalled'
    BY <1>1, <1>2, <2>1, <2>2 DEF ComparesInstalled
  <2> QED BY <1>1, <1>4, <2>1, <2>2, <2>3, <2>4 DEF UpdatesInv, UpdatesTypeOK, CheckHoldsLock
<1> QED BY <1>5, <1>6

LEMMA UpdatesInvAlways == UpdatesSpec => []UpdatesInv
PROOF
<1>1. UpdatesInit => UpdatesInv
  <2> SUFFICES ASSUME UpdatesInit PROVE UpdatesInv
    OBVIOUS
  <2>1. 0 \in Version
    BY UpdatesAssumption DEF Version
  <2>2. UpdatesTypeOK
    BY <2>1 DEF UpdatesInit, UpdatesTypeOK, NotStarted, NotRun, Ages
  <2>3. CheckHoldsLock /\ ComparesInstalled
    BY DEF UpdatesInit, CheckHoldsLock, ComparesInstalled, NotStarted, NotRun
  <2> QED BY <2>2, <2>3 DEF UpdatesInv
<1>2. UpdatesInv /\ [UpdatesNext]_updateVars => UpdatesInv'
  <2> SUFFICES ASSUME UpdatesInv, [UpdatesNext]_updateVars PROVE UpdatesInv'
    OBVIOUS
  <2>1. CASE Publish \/ HourPasses \/ ClockCatchesUp \/ ClockSetBack
    BY <2>1, UpdatesAssumption DEF Publish, HourPasses, ClockCatchesUp, ClockSetBack, UpdatesInv,
       UpdatesTypeOK, Version, Ages, CheckHoldsLock, ComparesInstalled
  <2>2. CASE UNCHANGED updateVars
    BY <2>2 DEF updateVars, UpdatesInv, UpdatesTypeOK, CheckHoldsLock, ComparesInstalled
  <2> QED BY <2>1, <2>2, CheckersKeep, UpdatersKeep DEF UpdatesNext
<1> QED BY <1>1, <1>2, PTL DEF UpdatesSpec

\* Whoever begins to ask GitHub in the background found the cache stale under
\* the lock, and nobody else is asking.
THEOREM OneAsksGitHub == UpdatesSpec => OneCheckAnHour
PROOF
<1> DEFINE Begins(s) == session[s].check # "fetching" /\ session'[s].check = "fetching"
           Alone(s) == /\ ~IsFresh
                       /\ \A other \in Checker \ {s} : session[other].check \notin {"fetching", "fetched"}
<1>1. ASSUME UpdatesInv, [UpdatesNext]_updateVars, NEW s \in Checker, Begins(s)
      PROVE  Alone(s)
  <2>1. TakeLock(s)
    <3>1. ASSUME NEW t \in Checker,
                 StartSession(t) \/ Pin(t) \/ End(t) \/ Look(t) \/ Fetched(t) \/ Recorded(t) \/ (t # s /\ TakeLock(t))
          PROVE  session'[s].check # "fetching" \/ session[s].check = "fetching"
      <4>1. session \in [Checker -> [at: {"off", "started", "running"}, build: Version, pinned: Version,
                                     check: {"sleeping", "stale", "fetching", "fetched"}, release: Version]]
        BY <1>1 DEF UpdatesInv, UpdatesTypeOK
      <4>2. CASE t # s
        BY <3>1, <4>1, <4>2 DEF StartSession, Pin, End, Look, Fetched, Recorded, TakeLock
      <4>3. CASE t = s /\ StartSession(s)
        BY <4>1, <4>3 DEF StartSession
      <4>4. CASE t = s /\ Pin(s)
        BY <4>1, <4>4 DEF Pin, NotStarted
      <4>5. CASE t = s /\ (End(s) \/ Look(s) \/ Fetched(s) \/ Recorded(s))
        BY <4>1, <4>5 DEF End, Look, Fetched, Recorded, NotStarted
      <4> QED BY <3>1, <4>2, <4>3, <4>4, <4>5
    <3>2. session' # session
      BY <1>1
    <3>3. \E t \in Checker : \/ StartSession(t) \/ Pin(t) \/ End(t) \/ Look(t) \/ Fetched(t) \/ Recorded(t)
                             \/ TakeLock(t)
      BY <1>1, <3>2 DEF UpdatesNext, updateVars, Publish, HourPasses, ClockCatchesUp, ClockSetBack,
         StartUpdate, UpdateFetched, Decide, Install, UpdateFails
    <3> QED BY <1>1, <3>1, <3>3
  <2>2. checkLock = NoOne /\ StillStale
    BY <1>1, <2>1 DEF TakeLock, UpdatesInv, UpdatesTypeOK
  <2> QED BY <1>1, <2>2, UpdatesAssumption DEF StillStale, UpdatesInv, CheckHoldsLock
<1>2. UpdatesInv /\ [UpdatesNext]_updateVars => [\A s \in Checker : Begins(s) => Alone(s)]_updateVars
  BY <1>1
<1> QED BY <1>2, UpdatesInvAlways, PTL DEF UpdatesSpec, OneCheckAnHour

\* What replaces the executable is newer, unless another update replaced it
\* while this one ran.
THEOREM ReplacedByNewer == UpdatesSpec => OnlyForward
PROOF
<1> DEFINE Forward == installed' # installed =>
                          \/ installed' > installed
                          \/ \E u \in Updater : updater[u].overtaken /\ updater[u].release = installed'
<1>1. ASSUME UpdatesInv, [UpdatesNext]_updateVars PROVE Forward
  <2>1. ASSUME NEW u \in Updater, Install(u) PROVE Forward
    BY <1>1, <2>1, UpdatesAssumption DEF Install, UpdatesInv, UpdatesTypeOK, ComparesInstalled, Version
  <2>2. UNCHANGED installed \/ \E u \in Updater : Install(u)
    BY <1>1 DEF UpdatesNext, updateVars, Publish, HourPasses, ClockCatchesUp, ClockSetBack, StartSession,
       Pin, End, Look, TakeLock, Fetched, Recorded, StartUpdate, UpdateFetched, Decide, UpdateFails
  <2> QED BY <2>1, <2>2
<1>2. Forward => [Forward]_updateVars
  OBVIOUS
<1> QED BY <1>1, <1>2, UpdatesInvAlways, PTL DEF UpdatesSpec, OnlyForward

\* All of the updates' safety where a running process's name is that of its file,
\* as on Linux.  Where it is that of the path which was started, a session that
\* begins while its executable is replaced pins the newer build.
THEOREM UpdatesAreInStep == ~OpensByName => (UpdatesSpec => UpdatesInStep)
PROOF
<1> SUFFICES ASSUME ~OpensByName PROVE UpdatesSpec => UpdatesInStep
  OBVIOUS
<1>1. UpdatesInit => PinsItsOwnBuild
  BY DEF UpdatesInit, PinsItsOwnBuild, NotStarted
<1>2. ASSUME UpdatesInv, PinsItsOwnBuild, [UpdatesNext]_updateVars PROVE PinsItsOwnBuild'
  <2> USE <1>2 DEF UpdatesInv, UpdatesTypeOK, PinsItsOwnBuild
  <2>1. ASSUME NEW s \in Checker, StartSession(s) \/ End(s) \/ Look(s) \/ TakeLock(s) \/ Fetched(s) \/ Recorded(s)
        PROVE  PinsItsOwnBuild'
    BY <2>1 DEF StartSession, End, Look, TakeLock, Fetched, Recorded, NotStarted
  <2>2. ASSUME NEW s \in Checker, Pin(s) PROVE PinsItsOwnBuild'
    BY <2>2 DEF Pin, Opens, NotStarted
  <2>3. CASE UNCHANGED session
    BY <2>3
  <2>4. UNCHANGED session \/ \E s \in Checker : \/ StartSession(s) \/ End(s) \/ Look(s) \/ TakeLock(s)
                                                \/ Fetched(s) \/ Recorded(s) \/ Pin(s)
    BY DEF UpdatesNext, updateVars, Publish, HourPasses, ClockCatchesUp, ClockSetBack, StartUpdate,
       UpdateFetched, Decide, Install, UpdateFails
  <2> QED BY <2>1, <2>2, <2>3, <2>4
<1>3. UpdatesInv /\ PinsItsOwnBuild => UpdatesSafety
  BY DEF UpdatesInv, UpdatesSafety
<1> QED BY <1>1, <1>2, <1>3, UpdatesInvAlways, OneAsksGitHub, ReplacedByNewer, PTL
        DEF UpdatesSpec, UpdatesInStep
================================================================================
