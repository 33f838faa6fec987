--------------------------- MODULE Synchronization ---------------------------
(***************************************************************************)
(* The Synchronization context: two replicas that exchange batches of      *)
(* operations, settle conflicts and acknowledge what they have reached     *)
(* (src/synchronization/service.ts).                                       *)
(*                                                                         *)
(* A command is one step, as in Organization.  Clocks count for the two    *)
(* replicas; the values in conflict and their resolutions are left out.    *)
(***************************************************************************)
EXTENDS Integers

CONSTANTS
  Replica,    \* the source and the target
  Batch, Operation, Conflict,  \* ids
  NoBatch,    \* the batch of a conflict that is not there
  NoClock,    \* the acknowledgement that a replica has not given
  MaxClock    \* bound on the clocks' entries

Clock == [Replica -> 0 .. MaxClock]

SynchronizationAssumption ==
  MaxClock \in Nat /\ NoBatch \notin Batch /\ NoClock \notin Clock

VARIABLE synchronization  \* the snapshot of Synchronization

TypeOK ==
  synchronization \in
    [status: {"ABSENT", "ACTIVE", "CONFLICTED", "SYNCHRONIZED", "CLOSED"}, lifecycleEpoch: 0 .. 1,
     vectorClock: Clock, acknowledgements: [Replica -> Clock \cup {NoClock}],
     batches: [Batch -> [status: {"ABSENT", "OFFERED", "ACCEPTED", "MERGED"},
                         operations: SUBSET Operation, accepted: SUBSET Operation]],
     conflicts: [Conflict -> [status: {"ABSENT", "OPEN", "ESCALATED", "RESOLVED"},
                              batch: Batch \cup {NoBatch}]]]

Init ==
  synchronization =
    [status |-> "ABSENT", lifecycleEpoch |-> 0, vectorClock |-> [r \in Replica |-> 0],
     acknowledgements |-> [r \in Replica |-> NoClock],
     batches |-> [b \in Batch |-> [status |-> "ABSENT", operations |-> {}, accepted |-> {}]],
     conflicts |-> [c \in Conflict |-> [status |-> "ABSENT", batch |-> NoBatch]]]

-----------------------------------------------------------------------------

Loadable == synchronization.status \notin {"ABSENT", "CLOSED"}

batch(b, status) == synchronization.batches[b].status = status

conflict(c, statuses) == synchronization.conflicts[c].status \in statuses

Unresolved(conflicts) == {c \in Conflict : conflicts[c].status \in {"OPEN", "ESCALATED"}}

mergeClock(a, b) == [r \in Replica |-> IF a[r] >= b[r] THEN a[r] ELSE b[r]]

StartSynchronization(base) ==
  /\ synchronization.status = "ABSENT"
  /\ synchronization' = [synchronization EXCEPT !.status = "ACTIVE", !.vectorClock = base]

\* Whether or not the replicas are synchronized: the status stays.
OfferOperationBatch(b, operations, clock) ==
  /\ Loadable /\ batch(b, "ABSENT")
  /\ synchronization' = [synchronization EXCEPT
       !.batches[b] = [status |-> "OFFERED", operations |-> operations, accepted |-> {}],
       !.vectorClock = mergeClock(@, clock)]

AcceptOperationBatch(b, operations) ==
  /\ Loadable /\ batch(b, "OFFERED")
  /\ operations \subseteq synchronization.batches[b].operations
  /\ synchronization' = [synchronization EXCEPT
       !.batches[b].status = "ACCEPTED", !.batches[b].accepted = operations]

\* Defect: the status of a synchronization that was acknowledged stays.
MergeOperationBatchQuietly(b, clock, conflicts) ==
  /\ Loadable /\ batch(b, "ACCEPTED")
  /\ synchronization' = [synchronization EXCEPT
       !.batches[b].status = "MERGED",
       !.vectorClock = mergeClock(@, clock),
       !.conflicts = [c \in Conflict |->
          IF c \in conflicts THEN [status |-> "OPEN", batch |-> b] ELSE @[c]],
       !.status = IF conflicts # {} /\ @ = "ACTIVE" THEN "CONFLICTED" ELSE @]

\* A conflict that is reported again is open again, under the new batch.
MergeOperationBatch(b, clock, conflicts) ==
  /\ Loadable /\ batch(b, "ACCEPTED")
  /\ synchronization' = [synchronization EXCEPT
       !.batches[b].status = "MERGED",
       !.vectorClock = mergeClock(@, clock),
       !.conflicts = [c \in Conflict |->
          IF c \in conflicts THEN [status |-> "OPEN", batch |-> b] ELSE @[c]],
       !.status = IF conflicts # {} THEN "CONFLICTED" ELSE @]

ResolveConflict(c) ==
  /\ Loadable /\ conflict(c, {"OPEN", "ESCALATED"})
  /\ synchronization' = [synchronization EXCEPT
       !.conflicts[c].status = "RESOLVED",
       !.status = IF Unresolved(synchronization.conflicts) = {c} THEN "ACTIVE" ELSE @]

EscalateConflict(c) ==
  /\ Loadable /\ conflict(c, {"OPEN"})
  /\ synchronization' = [synchronization EXCEPT !.conflicts[c].status = "ESCALATED"]

\* Also while conflicts are open; a replica may acknowledge less than before.
AcknowledgeSynchronization(r, clock) ==
  /\ Loadable
  /\ LET acknowledgements == [synchronization.acknowledgements EXCEPT ![r] = clock] IN
     synchronization' = [synchronization EXCEPT
       !.acknowledgements = acknowledgements,
       !.vectorClock = mergeClock(@, clock),
       !.status = IF /\ \A s \in Replica : acknowledgements[s] # NoClock
                     /\ Unresolved(synchronization.conflicts) = {}
                  THEN "SYNCHRONIZED" ELSE @]

CloseSynchronization ==
  /\ Loadable /\ Unresolved(synchronization.conflicts) = {}
  /\ synchronization' = [synchronization EXCEPT !.status = "CLOSED", !.lifecycleEpoch = @ + 1]

Next ==
  \/ \E base \in Clock : StartSynchronization(base)
  \/ \E b \in Batch :
       \/ \E operations \in (SUBSET Operation) \ {{}}, clock \in Clock :
            OfferOperationBatch(b, operations, clock)
       \/ \E operations \in SUBSET Operation : AcceptOperationBatch(b, operations)
       \/ \E clock \in Clock, conflicts \in SUBSET Conflict : MergeOperationBatch(b, clock, conflicts)
  \/ \E c \in Conflict : ResolveConflict(c) \/ EscalateConflict(c)
  \/ \E r \in Replica, clock \in Clock : AcknowledgeSynchronization(r, clock)
  \/ CloseSynchronization

-----------------------------------------------------------------------------
(* Properties *)

\* The status tells how far the replicas have converged, in whichever order
\* batches are merged, conflicts reported again, escalated and resolved, and
\* acknowledgements given: CONFLICTED while a conflict is left and not
\* otherwise, both replicas heard from under SYNCHRONIZED.  The clock is never
\* behind what a replica has acknowledged ("merge monotonic vector clocks",
\* docs/synchronization-context.md), every conflict comes of a merged batch,
\* and what was accepted was offered.
ConvergenceSound ==
  /\ synchronization.status = "CONFLICTED" <=> Unresolved(synchronization.conflicts) # {}
  /\ synchronization.status = "SYNCHRONIZED" =>
       \A r \in Replica : synchronization.acknowledgements[r] # NoClock
  /\ \A r, s \in Replica :
       synchronization.acknowledgements[r] # NoClock =>
         synchronization.acknowledgements[r][s] <= synchronization.vectorClock[s]
  /\ \A c \in Conflict :
       ~conflict(c, {"ABSENT"}) => batch(synchronization.conflicts[c].batch, "MERGED")
  /\ \A b \in Batch : synchronization.batches[b].accepted \subseteq synchronization.batches[b].operations
=============================================================================
