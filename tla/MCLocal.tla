-------------------------------- MODULE MCLocal --------------------------------
(* What the sessions of a machine share beside their supervisor, each by        *)
(* itself: the sign-in, and the installed executable with the known release.    *)
(* A behaviour is one of a part; the other part stays where it begins.  No      *)
(* symmetry: the run checks a liveness property.                                *)
EXTENDS SignIn, Updates

VARIABLE part

localVars == <<part, vars, updateVars>>

LocalInit ==
    /\ part \in {"sign_in", "updates"} /\ Init /\ UpdatesInit
    /\ part = "sign_in" => latest = 0 /\ installed = 1

LocalNext ==
    /\ UNCHANGED part
    /\ \/ part = "sign_in" /\ Next /\ UNCHANGED updateVars
       \/ part = "updates" /\ UpdatesNext /\ UNCHANGED vars

\* The fairness of the sign-in: no step of it is enabled in the other part.
LocalFairness ==
    /\ WF_vars(part = "sign_in" /\ Check)
    /\ \A a \in Actor : /\ WF_vars(part = "sign_in" /\ Step(a))
                        /\ SF_vars(part = "sign_in" /\ Lock(a))

LocalSpec == LocalInit /\ [][LocalNext]_localVars /\ LocalFairness
================================================================================
