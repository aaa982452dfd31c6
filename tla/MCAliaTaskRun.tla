--------------------------- MODULE MCAliaTaskRun ---------------------------
(* AliaTaskRun on small instances. *)
EXTENDS AliaTaskRun, TLC

CONSTANT k1

OneKey == [r \in Runs |-> k1]

\* Sound with OneKey: every run is of the same occurrence.
ProcessSymmetry ==
    Permutations(Runs) \cup Permutations(Workers) \cup Permutations(Reapers)
=============================================================================
