------------------------------- MODULE MCUvGc -------------------------------
(* Small instances of UvGc for TLC.                                        *)
EXTENDS UvGc, TLC

\* Evaluations and directories are only ever compared for equality.
Symmetry == Permutations(Evaluation) \cup Permutations(Dir)

=============================================================================
