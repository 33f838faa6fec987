----------------------------- MODULE Application -----------------------------
(***************************************************************************)
(* What stands around and behind OnyxApplication (src/api/application.ts): *)
(* contexts beside those of missions, tasks and deadlines, the gateway     *)
(* that requests come through, the readers, and the process that runs it   *)
(* all.                                                                    *)
(*                                                                         *)
(* The parts keep no state in common: each context writes its own          *)
(* aggregates, and what one asks of another (ContextLink) is in the module *)
(* of the one that asks.  Their interleavings tell nothing that a          *)
(* behaviour of one part alone does not, so a behaviour here is one of the *)
(* part in focus, while the others rest.                                   *)
(***************************************************************************)
EXTENDS Integers

CONSTANTS
  Workspace, Department, Team, Group, NoDepartment,                      \* Organization
  Evidence, Unset,                                                       \* Reporting
  Upload, Version, Access, Index, NoUpload, MaxSize,                     \* FileAsset
  User, Nobody, MaxRequired,                                             \* Approval
  Replica, Batch, Operation, Conflict, NoBatch, NoClock, MaxClock,       \* Synchronization
  Object, Tenant, NoOrganization, Strength, Request, NoCommand,          \* ContextLink
  Role, Device, Delegation,                                              \* Identity
  Principal, Scope, TokenId, KeyId, Signer, NoKeyId, Token, NoToken,     \* Gateway
  Call, NoCall, Tolerance, MaxTime,
  Connection,                                                            \* Server
  Id, MaxLimit,                                                          \* Reading
  Entry, Export, Verification,                                           \* Audit
  PolicyVersion, Evaluation, Violation, Hold, RateLimit, Rule, Denying,  \* Policy
  Action, Matching, NoVersion,
  Execution, NoEvaluation, MaxAttempt,                                   \* Automation
  Scenario, MaxPart, MaxValue,                                           \* Forecast
  Person, DecisionId, ActionItem,                                        \* Meeting
  Message, Redacted, MaxEdits,                                           \* Conversation
  Period, Allocation, CapacitySnapshot, MaxUnits,                        \* Capacity
  MaxEpoch, MaxVersion                                                   \* several

VARIABLES
  focus,  \* the part that moves
  organization,
  report, submissions,
  file,
  approval, openedIn,
  synchronization,
  owner, link, request,
  user, command,
  now, auth, pending,
  phase, connection, worker, stopping, shuttingDown, handled, deadline, closed, exited,
  holder, version, walk,
  partition,
  policy, under,
  rule,
  forecast,
  meeting,
  conversation,
  notification, late,
  capacity, captured

O == INSTANCE Organization
R == INSTANCE Reporting
F == INSTANCE FileAsset
A == INSTANCE Approval
S == INSTANCE Synchronization
L == INSTANCE ContextLink
I == INSTANCE Identity
G == INSTANCE Gateway
V == INSTANCE Server
P == INSTANCE Reading
D == INSTANCE Audit
Y == INSTANCE Policy
U == INSTANCE Automation
C == INSTANCE Forecast
M == INSTANCE Meeting WITH User <- Person
B == INSTANCE Conversation
N == INSTANCE Notification
K == INSTANCE Capacity

ASSUME ApplicationAssumption ==
  /\ O!OrganizationAssumption /\ R!ReportingAssumption /\ F!FileAssumption
  /\ A!ApprovalAssumption /\ S!SynchronizationAssumption /\ L!ContextLinkAssumption
  /\ I!IdentityAssumption /\ G!GatewayAssumption /\ P!ReadingAssumption
  /\ Y!PolicyAssumption /\ U!AutomationAssumption /\ C!ForecastAssumption
  /\ M!MeetingAssumption /\ B!ConversationAssumption /\ N!NotificationAssumption
  /\ K!CapacityAssumption

reporting == <<report, submissions>>
gate      == <<approval, openedIn>>
context   == <<owner, link, request>>
identity  == <<user, command>>
gateway   == <<now, auth, pending>>
server    == <<phase, connection, worker, stopping, shuttingDown, handled, deadline, closed, exited>>
reading   == <<holder, version, walk>>
decisions == <<policy, under>>
notices   == <<notification, late>>
profile   == <<capacity, captured>>

vars == <<focus, organization, reporting, file, gate, synchronization, context, identity,
          gateway, server, reading, partition, decisions, rule, forecast, meeting,
          conversation, notices, profile>>

TypeOK ==
  /\ O!TypeOK /\ R!TypeOK /\ F!TypeOK /\ A!TypeOK /\ S!TypeOK /\ L!TypeOK /\ I!TypeOK
  /\ G!TypeOK /\ V!TypeOK /\ P!TypeOK /\ D!TypeOK /\ Y!TypeOK /\ U!TypeOK /\ C!TypeOK
  /\ M!TypeOK /\ B!TypeOK /\ N!TypeOK /\ K!TypeOK

Init ==
  /\ focus \in {"organization", "reporting", "file", "approval", "synchronization", "context",
               "identity", "gateway", "server", "reading", "audit", "policy", "automation",
               "forecast", "meeting", "conversation", "notification", "capacity"}
  /\ O!Init /\ R!Init /\ F!Init /\ A!Init /\ S!Init /\ L!Init /\ I!Init
  /\ G!Init /\ V!Init /\ P!Init /\ D!Init /\ Y!Init /\ U!Init /\ C!Init
  /\ M!Init /\ B!Init /\ N!Init /\ K!Init

-----------------------------------------------------------------------------
(* One action per part. *)

Organize ==
  /\ focus = "organization" /\ O!Next
  /\ UNCHANGED <<focus, reporting, file, gate, synchronization, context, identity,
                 gateway, server, reading, partition, decisions, rule, forecast,
                 meeting, conversation, notices, profile>>

Report ==
  /\ focus = "reporting" /\ R!Next
  /\ UNCHANGED <<focus, organization, file, gate, synchronization, context, identity,
                 gateway, server, reading, partition, decisions, rule, forecast,
                 meeting, conversation, notices, profile>>

StoreFile ==
  /\ focus = "file" /\ F!Next
  /\ UNCHANGED <<focus, organization, reporting, gate, synchronization, context, identity,
                 gateway, server, reading, partition, decisions, rule, forecast,
                 meeting, conversation, notices, profile>>

DecideApproval ==
  /\ focus = "approval" /\ A!Next
  /\ UNCHANGED <<focus, organization, reporting, file, synchronization, context, identity,
                 gateway, server, reading, partition, decisions, rule, forecast,
                 meeting, conversation, notices, profile>>

Synchronize ==
  /\ focus = "synchronization" /\ S!Next
  /\ UNCHANGED <<focus, organization, reporting, file, gate, context, identity,
                 gateway, server, reading, partition, decisions, rule, forecast,
                 meeting, conversation, notices, profile>>

LinkContext ==
  /\ focus = "context" /\ L!Next
  /\ UNCHANGED <<focus, organization, reporting, file, gate, synchronization, identity,
                 gateway, server, reading, partition, decisions, rule, forecast,
                 meeting, conversation, notices, profile>>

Identify ==
  /\ focus = "identity" /\ I!Next
  /\ UNCHANGED <<focus, organization, reporting, file, gate, synchronization, context,
                 gateway, server, reading, partition, decisions, rule, forecast,
                 meeting, conversation, notices, profile>>

PassGateway ==
  /\ focus = "gateway" /\ G!Next
  /\ UNCHANGED <<focus, organization, reporting, file, gate, synchronization, context,
                 identity, server, reading, partition, decisions, rule, forecast,
                 meeting, conversation, notices, profile>>

Serve ==
  /\ focus = "server" /\ V!Next
  /\ UNCHANGED <<focus, organization, reporting, file, gate, synchronization, context,
                 identity, gateway, reading, partition, decisions, rule, forecast,
                 meeting, conversation, notices, profile>>

Read ==
  /\ focus = "reading" /\ P!Next
  /\ UNCHANGED <<focus, organization, reporting, file, gate, synchronization, context,
                 identity, gateway, server, partition, decisions, rule, forecast,
                 meeting, conversation, notices, profile>>

KeepAudit ==
  /\ focus = "audit" /\ D!Next
  /\ UNCHANGED <<focus, organization, reporting, file, gate, synchronization, context,
                 identity, gateway, server, reading, decisions, rule, forecast,
                 meeting, conversation, notices, profile>>

ApplyPolicy ==
  /\ focus = "policy" /\ Y!Next
  /\ UNCHANGED <<focus, organization, reporting, file, gate, synchronization, context,
                 identity, gateway, server, reading, partition, rule, forecast,
                 meeting, conversation, notices, profile>>

Automate ==
  /\ focus = "automation" /\ U!Next
  /\ UNCHANGED <<focus, organization, reporting, file, gate, synchronization, context,
                 identity, gateway, server, reading, partition, decisions, forecast,
                 meeting, conversation, notices, profile>>

Predict ==
  /\ focus = "forecast" /\ C!Next
  /\ UNCHANGED <<focus, organization, reporting, file, gate, synchronization, context,
                 identity, gateway, server, reading, partition, decisions, rule,
                 meeting, conversation, notices, profile>>

Meet ==
  /\ focus = "meeting" /\ M!Next
  /\ UNCHANGED <<focus, organization, reporting, file, gate, synchronization, context,
                 identity, gateway, server, reading, partition, decisions, rule, forecast,
                 conversation, notices, profile>>

Converse ==
  /\ focus = "conversation" /\ B!Next
  /\ UNCHANGED <<focus, organization, reporting, file, gate, synchronization, context,
                 identity, gateway, server, reading, partition, decisions, rule, forecast,
                 meeting, notices, profile>>

Notify ==
  /\ focus = "notification" /\ N!Next
  /\ UNCHANGED <<focus, organization, reporting, file, gate, synchronization, context,
                 identity, gateway, server, reading, partition, decisions, rule, forecast,
                 meeting, conversation, profile>>

PlanCapacity ==
  /\ focus = "capacity" /\ K!Next
  /\ UNCHANGED <<focus, organization, reporting, file, gate, synchronization, context,
                 identity, gateway, server, reading, partition, decisions, rule, forecast,
                 meeting, conversation, notices>>

Next ==
  \/ Organize \/ Report \/ StoreFile \/ DecideApproval \/ Synchronize \/ LinkContext
  \/ Identify \/ PassGateway \/ Serve \/ Read \/ KeepAudit \/ ApplyPolicy \/ Automate \/ Predict
  \/ Meet \/ Converse \/ Notify \/ PlanCapacity

\* The one thing the code relies on to happen: a timer that runs is due some time.
Deadline == Serve /\ V!DeadlineFires

Spec == Init /\ [][Next]_vars /\ WF_vars(Deadline)

-----------------------------------------------------------------------------
(* What each part promises; its module says it in full. *)

\* Teams belong to active departments, and departments form a forest.
HierarchySound == O!HierarchySound

\* What was put on record stays what it was: a report under review holds the
\* evidence that was submitted, and a sealed ledger its entries, with the exports
\* and verifications that were made of it.
EvidenceHolds == R!ReviewedAsSubmitted /\ D!LedgerIsEvidence

\* Final uploads are whole, and a quarantine blocks new ones.
UploadsComplete == F!UploadsComplete

\* The outcome of a gate is the sum of decisions given since it was opened.
DecisionsAddUp == A!DecisionsAddUp

\* The status of a synchronization tells how far its replicas have converged.
ConvergenceSound == S!ConvergenceSound

\* A link joins two objects of its own organization.
LinksResolve == L!LinksResolve

\* No proof given before a revocation changes the user after it.
RevocationIsFinal == I!RevocationIsFinal

\* A context acts only within the token that came with the request.
WithinItsToken == G!WithinItsToken

\* Databases are closed when nobody uses them any more, and not before.
DatabaseClosedLast == V!DatabaseClosedLast

\* A shutdown ends.
ShutdownEnds == V!ShutdownEnds

\* A finished walk has shown all that was there when it began.
ReadsComplete == P!ReadsComplete

\* Every decision of a policy follows from the version it was taken under.
DecisionsAccountedFor == Y!DecisionsAccountedFor

\* Receipts of executions are kept in order.
ReceiptsInOrder == U!ReceiptsInOrder

\* Figures that are stored follow from what they are computed from: a published
\* forecast from all its scenarios, the totals of a capacity profile from its
\* availability and allocations.
FiguresFollow == C!PublishedIsCalculated /\ K!TotalsFollow

\* Who is on record with a decision, a message, a reaction or an acknowledgement
\* takes part in the meeting, the conversation or the notification, and what a
\* redaction or a sending has ended does not come back.
CommunicationHolds == M!RecordsOfParticipants /\ B!MessagesHold /\ N!SentOnceToRecipients
=============================================================================
