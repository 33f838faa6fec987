---------------------------- MODULE Notification ----------------------------
(***************************************************************************)
(* The Notification context: one notification from its draft to its last   *)
(* acknowledgement (src/notification/service.ts).                          *)
(*                                                                         *)
(* A command is one step, as in Organization.  Any user may be active when *)
(* resolved or escalated to; texts, channels, instants and reasons are     *)
(* left out, and of the escalations their order.                           *)
(***************************************************************************)
EXTENDS Integers

CONSTANTS
  Person,      \* users
  Batch,       \* ids of delivery batches
  MaxAttempt   \* bound on the number of a retry

NotificationAssumption == MaxAttempt \in Nat

NoDelivery == [status |-> "ABSENT", retryAttempt |-> 0]

VARIABLES
  notification,  \* the snapshot of Notification
  late           \* history: who was escalated to since recipients were resolved

TypeOK ==
  /\ notification \in
       [status: {"ABSENT", "DRAFT", "READY", "SENT", "ARCHIVED"}, lifecycleEpoch: 0 .. 2,
        recipients: SUBSET Person, acknowledged: SUBSET Person, escalations: SUBSET Person,
        deliveries: [Batch -> [status: {"ABSENT", "SENT", "FAILED"}, retryAttempt: 0 .. MaxAttempt]]]
  /\ late \subseteq Person

Init ==
  /\ notification = [status |-> "ABSENT", lifecycleEpoch |-> 0, recipients |-> {},
                     acknowledged |-> {}, escalations |-> {},
                     deliveries |-> [b \in Batch |-> NoDelivery]]
  /\ late = {}

-----------------------------------------------------------------------------

status(allowed) == notification.status \in allowed

Stores(next) == notification' = next /\ UNCHANGED late

CreateNotification ==
  /\ status({"ABSENT"})
  /\ Stores([notification EXCEPT !.status = "DRAFT"])

\* Defect: recipients may be resolved once more before sending.
ResolveRecipientsAgain(recipients) ==
  /\ status({"DRAFT", "READY"})
  /\ Stores([notification EXCEPT !.status = "READY", !.recipients = recipients])

\* In place of all there were, those a draft was escalated to among them.
ResolveRecipients(recipients) ==
  /\ status({"DRAFT"})
  /\ Stores([notification EXCEPT !.status = "READY", !.recipients = recipients])

SendNotification(b) ==
  /\ status({"READY"}) /\ notification.deliveries[b] = NoDelivery
  /\ Stores([notification EXCEPT !.status = "SENT", !.lifecycleEpoch = @ + 1,
                                 !.deliveries[b].status = "SENT"])

\* A retry that failed as well.
RetryDelivery(b, attempt) ==
  /\ status({"SENT"}) /\ notification.deliveries[b] # NoDelivery
  /\ attempt > notification.deliveries[b].retryAttempt
  /\ Stores([notification EXCEPT !.deliveries[b] = [status |-> "FAILED", retryAttempt |-> attempt]])

EscalateNotification(p) ==
  /\ status({"DRAFT", "READY", "SENT"})
  /\ notification' = [notification EXCEPT !.recipients = @ \cup {p}, !.escalations = @ \cup {p}]
  /\ late' = IF status({"DRAFT"}) THEN late ELSE late \cup {p}

AcknowledgeNotification(p) ==
  /\ status({"SENT"})
  /\ p \in notification.recipients \ notification.acknowledged
  /\ Stores([notification EXCEPT !.acknowledged = @ \cup {p}])

ArchiveNotification ==
  /\ status({"DRAFT", "READY", "SENT"})
  /\ Stores([notification EXCEPT !.status = "ARCHIVED", !.lifecycleEpoch = @ + 1])

Next ==
  \/ CreateNotification
  \/ \E recipients \in (SUBSET Person) \ {{}} : ResolveRecipients(recipients)
  \/ \E b \in Batch :
       SendNotification(b) \/ \E attempt \in 1 .. MaxAttempt : RetryDelivery(b, attempt)
  \/ \E p \in Person : EscalateNotification(p) \/ AcknowledgeNotification(p)
  \/ ArchiveNotification

-----------------------------------------------------------------------------
(* Properties *)

\* A notification is sent once, to somebody, and acknowledged by those it was
\* sent or escalated to and no others; whoever it is escalated to once its
\* recipients are resolved stays one of them ("acknowledgement is accepted only
\* for a resolved recipient", docs/notification-context.md).  A batch failed if
\* it was tried again.
SentOnceToRecipients ==
  LET batches == {b \in Batch : notification.deliveries[b] # NoDelivery} IN
  /\ \A b, c \in batches : b = c
  /\ status({"SENT"}) => batches # {}
  /\ status({"READY", "SENT"}) => notification.recipients # {}
  /\ batches = {} => notification.acknowledged = {}
  /\ notification.acknowledged \cup late \subseteq notification.recipients
  /\ \A b \in batches :
       notification.deliveries[b].status = "FAILED" <=> notification.deliveries[b].retryAttempt > 0
=============================================================================
