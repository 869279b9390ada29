---------------------- MODULE MCAuthenticatedExecution ----------------------
(* Model values for TLC, the symmetry of the interchangeable ones, and a bound on the *)
(* history variable kills, which no step reads.                                       *)
EXTENDS AuthenticatedExecution, TLC

Symmetry == Permutations(Ops) \cup Permutations(Refreshes) \cup Permutations(Attempts)

MaxKills == 2

\* No step is taken after more KILLs than these have been sent, but those are checked.
FewKills == Cardinality(kills) <= MaxKills
=============================================================================
