------------------------------ MODULE Reporting ------------------------------
(***************************************************************************)
(* The Reporting and evidence context: one report and its review           *)
(* (src/reporting-evidence/service.ts).                                    *)
(*                                                                         *)
(* A command is one step, as in Organization.  The subject is looked up    *)
(* when the report is created and never disappears; texts, URIs and hashes *)
(* are left out.                                                           *)
(***************************************************************************)
EXTENDS Integers

CONSTANTS
  Evidence,  \* ids of evidence
  Unset,     \* a field that a snapshot of an earlier release lacks
  MaxEpoch   \* bound on the lifecycle epoch

ReportingAssumption == MaxEpoch \in Nat /\ Unset \notin Nat

Editable == {"DRAFT", "REJECTED"}

EvidenceRecords == [Evidence -> {"ABSENT", "ADDED", "VERIFIED", "REJECTED"}]

Report ==
  [status: {"ABSENT", "DRAFT", "SUBMITTED", "APPROVED", "REJECTED", "ARCHIVED"},
   lifecycleEpoch: 0 .. MaxEpoch + 1, evidence: EvidenceRecords]

NoEvidence == [e \in Evidence |-> "ABSENT"]

Absent == [status |-> "ABSENT", lifecycleEpoch |-> 0, evidence |-> NoEvidence]

\* A report of the release that could only create reports.
CreatedEarlier == [status |-> Unset, lifecycleEpoch |-> Unset, evidence |-> Unset]

VARIABLES
  report,      \* the snapshot as stored
  submissions  \* history: the evidence of each submission, with its epoch

TypeOK ==
  /\ report \in Report \cup {CreatedEarlier}
  /\ submissions \subseteq [epoch: 0 .. MaxEpoch, evidence: EvidenceRecords]

Init == report = Absent /\ submissions = {}

-----------------------------------------------------------------------------

\* #normalize(): what a command loads.
normalized ==
  IF report = CreatedEarlier
  THEN [status |-> "DRAFT", lifecycleEpoch |-> 0, evidence |-> NoEvidence]
  ELSE report

\* #mutate(): a command that is allowed in some statuses stores `next`.
mutate(allowed, next) == normalized.status \in allowed /\ report' = next

CreateReport ==
  /\ report = Absent
  /\ report' = [report EXCEPT !.status = "DRAFT"]
  /\ UNCHANGED submissions

\* What the earlier release did, before this one came.
CreateReportEarlier ==
  /\ report = Absent
  /\ report' = CreatedEarlier
  /\ UNCHANGED submissions

\* Defect: evidence is still accepted while the report is under review.
AddEvidenceLate(e) ==
  /\ normalized.evidence[e] = "ABSENT"
  /\ mutate(Editable \cup {"SUBMITTED"}, [normalized EXCEPT !.evidence[e] = "ADDED"])
  /\ UNCHANGED submissions

AddEvidence(e) ==
  /\ normalized.evidence[e] = "ABSENT"
  /\ mutate(Editable, [normalized EXCEPT !.evidence[e] = "ADDED"])
  /\ UNCHANGED submissions

\* Evidence that was rejected may be verified later, and the other way round.
VerifyEvidence(e) ==
  /\ normalized.evidence[e] # "ABSENT"
  /\ mutate(Editable, [normalized EXCEPT !.evidence[e] = "VERIFIED"])
  /\ UNCHANGED submissions

RejectEvidence(e) ==
  /\ normalized.evidence[e] # "ABSENT"
  /\ mutate(Editable, [normalized EXCEPT !.evidence[e] = "REJECTED"])
  /\ UNCHANGED submissions

SubmitReport ==
  /\ \E e \in Evidence : normalized.evidence[e] = "VERIFIED"
  /\ mutate(Editable, [normalized EXCEPT !.status = "SUBMITTED"])
  /\ submissions' = submissions \cup
       {[epoch |-> normalized.lifecycleEpoch, evidence |-> normalized.evidence]}

ApproveReport ==
  /\ mutate({"SUBMITTED"}, [normalized EXCEPT !.status = "APPROVED"])
  /\ UNCHANGED submissions

RejectReport ==
  /\ normalized.lifecycleEpoch < MaxEpoch
  /\ mutate({"SUBMITTED"}, [normalized EXCEPT !.status = "REJECTED", !.lifecycleEpoch = @ + 1])
  /\ UNCHANGED submissions

ArchiveReport ==
  /\ mutate({"APPROVED", "REJECTED"},
            [normalized EXCEPT !.status = "ARCHIVED", !.lifecycleEpoch = @ + 1])
  /\ UNCHANGED submissions

Next ==
  \/ CreateReport \/ CreateReportEarlier
  \/ \E e \in Evidence : AddEvidence(e) \/ VerifyEvidence(e) \/ RejectEvidence(e)
  \/ SubmitReport \/ ApproveReport \/ RejectReport \/ ArchiveReport

-----------------------------------------------------------------------------
(* Properties *)

\* A review is of one submission: each submission has an epoch of its own,
\* what is under review or approved holds the evidence it was submitted with,
\* and some of that has been verified (src/reporting-evidence/service.ts:20,
\* "resubmitted using a new lifecycle epoch", docs/reporting-evidence-context.md).
ReviewedAsSubmitted ==
  /\ \A s, t \in submissions : s.epoch = t.epoch => s = t
  /\ normalized.status \in {"SUBMITTED", "APPROVED"} =>
       /\ [epoch |-> normalized.lifecycleEpoch, evidence |-> normalized.evidence] \in submissions
       /\ \E e \in Evidence : normalized.evidence[e] = "VERIFIED"
=============================================================================
