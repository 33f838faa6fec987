------------------------------- MODULE MCInbox -------------------------------
(* Small instances of the inbox. *)
EXTENDS Inbox, TLC

\* Ids and contents are only compared for equality, and no liveness is checked.
Symmetry == Permutations(Worker) \cup Permutations(Event) \cup Permutations(Content)
=============================================================================
