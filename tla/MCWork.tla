------------------------------- MODULE MCWork -------------------------------
(* A small instance of the work context. *)
EXTENDS Work, TLC

Symmetry ==
  Permutations(Request) \cup Permutations(Task)
    \cup Permutations(MissionId) \cup Permutations(Organization)
=============================================================================
