--------------------------- MODULE MCCleanerRuns ---------------------------
(* Small instances of CleanerRuns for TLC.                                 *)
EXTENDS CleanerRuns, TLC

\* Invocations, process ids and caches are only ever compared for equality.
Symmetry == Permutations(Run) \cup Permutations(Pid) \cup Permutations(Cache)

=============================================================================
