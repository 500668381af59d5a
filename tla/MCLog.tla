------------------------------- MODULE MCLog -------------------------------
(* Instances of Log for TLC. *)
EXTENDS LogInvariant, TLC

\* The steps of QuietNext, as an action constraint on those of Next.
Undisturbed == SyncUndisturbed'

\* Processes, blocks and contents are interchangeable.
LogSymmetry == Permutations(Procs) \cup Permutations(Blocks) \cup Permutations(Value)
=============================================================================
