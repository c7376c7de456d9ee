----------------------------- MODULE MCSupervisor -----------------------------
(* Instances of Supervisor for TLC.                                          *)
EXTENDS Supervisor, TLC

\* Launchers and supervisor slots are interchangeable (safety runs only).
Symmetry == Permutations(Launchers) \union Permutations(Supervisors)
=============================================================================
