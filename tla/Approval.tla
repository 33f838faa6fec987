------------------------------- MODULE Approval -------------------------------
(***************************************************************************)
(* The Approval context: one decision gate, its approvers, and what        *)
(* delegation, escalation, reversal and reopening do to it                 *)
(* (src/approval/service.ts).                                              *)
(*                                                                         *)
(* A command is one step, as in Organization.  Any user may be active when *)
(* assigned, so all are candidates; roles, comments and reasons are left   *)
(* out, and of the escalations their order.                                *)
(***************************************************************************)
EXTENDS Integers, FiniteSets

CONSTANTS
  User,         \* who may be asked to decide
  Nobody,       \* to whom no decision is delegated
  MaxRequired,  \* bound on the number of approvals a request asks for
  MaxEpoch      \* bound on the lifecycle epoch up to which a gate is reopened

ApprovalAssumption ==
  /\ IsFiniteSet(User) /\ Nobody \notin User
  /\ MaxRequired \in Nat /\ MaxEpoch \in Nat

\* `decidedIn` is history: the lifecycle epoch of the last decision.
Approver ==
  [decision: {"NONE", "PENDING", "APPROVED", "REJECTED", "DELEGATED"},
   delegatedTo: User \cup {Nobody}, decidedIn: 0 .. MaxEpoch + 2]

VARIABLES
  approval,  \* the snapshot of Approval
  openedIn   \* history: the lifecycle epoch in which it was created or last reopened

TypeOK ==
  /\ approval \in
       [status: {"ABSENT", "PENDING", "APPROVED", "REJECTED", "CHANGES_REQUESTED", "CANCELLED", "REVERSED"},
        requiredApprovals: 0 .. MaxRequired, lifecycleEpoch: 0 .. MaxEpoch + 3,
        approvers: [User -> Approver], escalations: SUBSET User]
  /\ openedIn \in 0 .. MaxEpoch + 1

Unassigned == [decision |-> "NONE", delegatedTo |-> Nobody, decidedIn |-> 0]

Assigned == [Unassigned EXCEPT !.decision = "PENDING"]

Init ==
  /\ approval = [status |-> "ABSENT", requiredApprovals |-> 0, lifecycleEpoch |-> 0,
                 approvers |-> [u \in User |-> Unassigned], escalations |-> {}]
  /\ openedIn = 0

-----------------------------------------------------------------------------

Decided(approvers, decision) == {u \in User : approvers[u].decision = decision}

decision(u) == approval.approvers[u].decision

pending == approval.status = "PENDING"

\* Approver u takes a decision.
decides(u, d) ==
  [approval.approvers EXCEPT ![u].decision = d, ![u].decidedIn = approval.lifecycleEpoch]

CreateApproval(required) ==
  /\ approval.status = "ABSENT"
  /\ approval' = [approval EXCEPT !.status = "PENDING", !.requiredApprovals = required]
  /\ UNCHANGED openedIn

AssignApprover(u) ==
  /\ pending /\ decision(u) = "NONE"
  /\ approval' = [approval EXCEPT !.approvers[u] = Assigned]
  /\ UNCHANGED openedIn

Approve(u) ==
  /\ pending /\ decision(u) = "PENDING"
  /\ LET approvers == decides(u, "APPROVED")
         granted == Cardinality(Decided(approvers, "APPROVED")) >= approval.requiredApprovals IN
     approval' = [approval EXCEPT !.approvers = approvers,
                    !.status = IF granted THEN "APPROVED" ELSE @,
                    !.lifecycleEpoch = IF granted THEN @ + 1 ELSE @]
  /\ UNCHANGED openedIn

Reject(u) ==
  /\ pending /\ decision(u) = "PENDING"
  /\ approval' = [approval EXCEPT !.approvers = decides(u, "REJECTED"),
                    !.status = "REJECTED", !.lifecycleEpoch = @ + 1]
  /\ UNCHANGED openedIn

\* The approver has not decided yet.
RequestChanges(u) ==
  /\ pending /\ decision(u) = "PENDING"
  /\ approval' = [approval EXCEPT !.status = "CHANGES_REQUESTED", !.lifecycleEpoch = @ + 1]
  /\ UNCHANGED openedIn

\* The delegate must be new to the request.
DelegateApproval(from, to) ==
  /\ pending /\ decision(from) = "PENDING" /\ decision(to) = "NONE"
  /\ approval' = [approval EXCEPT
       !.approvers = [@ EXCEPT ![from].decision = "DELEGATED", ![from].delegatedTo = to,
                               ![to] = Assigned]]
  /\ UNCHANGED openedIn

\* Whoever is an approver already stays what he is, one who has delegated too.
EscalateApproval(u) ==
  /\ pending
  /\ approval' = [approval EXCEPT !.escalations = @ \cup {u},
                    !.approvers[u] = IF @.decision = "NONE" THEN Assigned ELSE @]
  /\ UNCHANGED openedIn

CancelApproval ==
  /\ pending
  /\ approval' = [approval EXCEPT !.status = "CANCELLED", !.lifecycleEpoch = @ + 1]
  /\ UNCHANGED openedIn

ReverseApproval ==
  /\ approval.status = "APPROVED"
  /\ approval' = [approval EXCEPT !.status = "REVERSED", !.lifecycleEpoch = @ + 1]
  /\ UNCHANGED openedIn

Reopenable == {"REJECTED", "CHANGES_REQUESTED", "CANCELLED", "REVERSED"}

\* Defect: approvals are kept.
ReopenKeepingApprovals ==
  /\ approval.status \in Reopenable /\ approval.lifecycleEpoch <= MaxEpoch
  /\ approval' = [approval EXCEPT !.status = "PENDING", !.lifecycleEpoch = @ + 1,
       !.approvers = [u \in User |->
          IF @[u].decision = "REJECTED" THEN [@[u] EXCEPT !.decision = "PENDING"] ELSE @[u]]]
  /\ openedIn' = approval.lifecycleEpoch + 1

\* All decide anew but those who delegated.
ReopenApproval ==
  /\ approval.status \in Reopenable /\ approval.lifecycleEpoch <= MaxEpoch
  /\ approval' = [approval EXCEPT !.status = "PENDING", !.lifecycleEpoch = @ + 1,
       !.approvers = [u \in User |->
          IF @[u].decision \in {"APPROVED", "REJECTED"}
          THEN [@[u] EXCEPT !.decision = "PENDING"] ELSE @[u]]]
  /\ openedIn' = approval.lifecycleEpoch + 1

Next ==
  \/ \E required \in 1 .. MaxRequired : CreateApproval(required)
  \/ \E u \in User :
       \/ AssignApprover(u)
       \/ Approve(u)
       \/ Reject(u)
       \/ RequestChanges(u)
       \/ \E to \in User \ {u} : DelegateApproval(u, to)
       \/ EscalateApproval(u)
  \/ CancelApproval
  \/ ReverseApproval
  \/ ReopenApproval

-----------------------------------------------------------------------------
(* Properties *)

granting == Decided(approval.approvers, "APPROVED")

\* The outcome is what the present decisions add up to, through delegation,
\* escalation and reopening: as many distinct approvals as required if it was
\* granted, fewer while it is open, one rejection if it was rejected; none of
\* the decisions that count dates from before the last reopening; and a
\* delegated one is somebody's: following the delegations, each to a delegate
\* of one delegator, leads to an approver who has not delegated.
DecisionsAddUp ==
  /\ approval.status \in {"APPROVED", "REVERSED"} =>
       Cardinality(granting) = approval.requiredApprovals
  /\ approval.status \in {"PENDING", "CHANGES_REQUESTED", "CANCELLED", "REJECTED"} =>
       Cardinality(granting) < approval.requiredApprovals
  /\ Cardinality(Decided(approval.approvers, "REJECTED")) = IF approval.status = "REJECTED" THEN 1 ELSE 0
  /\ \A u \in User :
       decision(u) \in {"APPROVED", "REJECTED"} => approval.approvers[u].decidedIn >= openedIn
  /\ LET delegators == Decided(approval.approvers, "DELEGATED")
         delegate(u) == approval.approvers[u].delegatedTo IN
     /\ \A u \in delegators : delegate(u) # Nobody /\ decision(delegate(u)) # "NONE"
     /\ \A u, v \in delegators : delegate(u) = delegate(v) => u = v
     /\ \A S \in SUBSET delegators : S # {} => \E u \in S : delegate(u) \notin S
=============================================================================
