-------------------------- MODULE MCCommandPipeline --------------------------
(* Small instances of the command pipeline. *)
EXTENDS CommandPipeline, TLC

\* Ids are only compared for equality, so states that differ by renaming them
\* are alike.  (The instance checks no liveness.)
Symmetry ==
  Permutations(Request) \cup Permutations(Operation) \cup Permutations(Aggregate)
=============================================================================
