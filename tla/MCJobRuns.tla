------------------------------ MODULE MCJobRuns ------------------------------
(* Small instances of JobRuns for TLC.                                     *)
EXTENDS JobRuns, TLC

Symmetry == Permutations(Jobs) \union Permutations(Benchmarks)
=============================================================================
