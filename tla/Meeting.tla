------------------------------- MODULE Meeting -------------------------------
(***************************************************************************)
(* The Meeting context: one meeting, who takes part, and what they decide  *)
(* and are given to do (src/meeting/service.ts).                           *)
(*                                                                         *)
(* A command is one step, as in Organization.  Any user may be active when *)
(* invited; titles, roles, reasons and texts are left out.  Clients give   *)
(* instants finer than a millisecond: they are counted in halves of one.   *)
(***************************************************************************)
EXTENDS Integers

CONSTANTS
  User, Nobody,          \* Nobody: in place of a user
  DecisionId, ActionItem,  \* ids
  MaxTime                \* bound on the instants that clients give

MeetingAssumption == Nobody \notin User /\ MaxTime \in Nat

Instant == 1 .. MaxTime  \* 0: none

\* Date.parse()
millisecond(at) == at \div 2

VARIABLE meeting  \* the snapshot of Meeting

TypeOK ==
  meeting \in [status: {"ABSENT", "SCHEDULED", "IN_PROGRESS", "ENDED", "CANCELLED"},
               lifecycleEpoch: 0 .. 1, organizer: User \cup {Nobody}, participants: SUBSET User,
               startedAt: Instant \cup {0}, endedAt: Instant \cup {0},
               decisions: [DecisionId -> User \cup {Nobody}],
               actionItems: [ActionItem -> User \cup {Nobody}]]

Init ==
  meeting = [status |-> "ABSENT", lifecycleEpoch |-> 0, organizer |-> Nobody, participants |-> {},
             startedAt |-> 0, endedAt |-> 0, decisions |-> [d \in DecisionId |-> Nobody],
             actionItems |-> [a \in ActionItem |-> Nobody]]

-----------------------------------------------------------------------------

scheduled == meeting.status = "SCHEDULED"

inProgress == meeting.status = "IN_PROGRESS"

\* The organizer is the first participant.
CreateMeeting(organizer) ==
  /\ meeting.status = "ABSENT"
  /\ meeting' = [meeting EXCEPT !.status = "SCHEDULED", !.organizer = organizer,
                                !.participants = {organizer}]

InviteParticipant(u) ==
  /\ scheduled /\ u \notin meeting.participants
  /\ meeting' = [meeting EXCEPT !.participants = @ \cup {u}]

\* Defect: participants also leave while the meeting goes on.
RemoveParticipantLate(u) ==
  /\ scheduled \/ inProgress
  /\ u # meeting.organizer /\ u \in meeting.participants
  /\ meeting' = [meeting EXCEPT !.participants = @ \ {u}]

RemoveParticipant(u) ==
  /\ scheduled
  /\ u # meeting.organizer /\ u \in meeting.participants
  /\ meeting' = [meeting EXCEPT !.participants = @ \ {u}]

StartMeeting(at) ==
  /\ scheduled
  /\ meeting' = [meeting EXCEPT !.status = "IN_PROGRESS", !.startedAt = at]

RecordDecision(d, decidedBy) ==
  /\ inProgress /\ decidedBy \in meeting.participants /\ meeting.decisions[d] = Nobody
  /\ meeting' = [meeting EXCEPT !.decisions[d] = decidedBy]

ProposeActionItem(a, assignee) ==
  /\ inProgress /\ assignee \in meeting.participants /\ meeting.actionItems[a] = Nobody
  /\ meeting' = [meeting EXCEPT !.actionItems[a] = assignee]

EndMeeting(at) ==
  /\ inProgress /\ millisecond(at) >= millisecond(meeting.startedAt)
  /\ meeting' = [meeting EXCEPT !.status = "ENDED", !.endedAt = at, !.lifecycleEpoch = @ + 1]

CancelMeeting ==
  /\ scheduled \/ inProgress
  /\ meeting' = [meeting EXCEPT !.status = "CANCELLED", !.lifecycleEpoch = @ + 1]

Next ==
  \/ \E u \in User :
       \/ CreateMeeting(u) \/ InviteParticipant(u) \/ RemoveParticipant(u)
       \/ \E d \in DecisionId : RecordDecision(d, u)
       \/ \E a \in ActionItem : ProposeActionItem(a, u)
  \/ \E at \in Instant : StartMeeting(at) \/ EndMeeting(at)
  \/ CancelMeeting

-----------------------------------------------------------------------------
(* Properties *)

\* What is on record was decided by, or given to, somebody who takes part, the
\* organizer always among them, in a meeting that had begun; also after it ended
\* or was cancelled ("Decision makers and action assignees must already be
\* participants", docs/meeting-context.md).  It began before it ended, or did both
\* in the same millisecond.
RecordsOfParticipants ==
  LET recorded == {meeting.decisions[d] : d \in DecisionId}
                    \cup {meeting.actionItems[a] : a \in ActionItem} IN
  /\ recorded \ {Nobody} \subseteq meeting.participants
  /\ recorded \subseteq {Nobody} \/ meeting.startedAt # 0
  /\ meeting.status # "ABSENT" => meeting.organizer \in meeting.participants
  /\ meeting.status = "ENDED" =>
       meeting.startedAt # 0 /\ millisecond(meeting.startedAt) <= millisecond(meeting.endedAt)
  /\ meeting.status \in {"ENDED", "CANCELLED"} <=> meeting.lifecycleEpoch = 1
=============================================================================
