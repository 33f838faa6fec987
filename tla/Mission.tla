------------------------------- MODULE Mission -------------------------------
(***************************************************************************)
(* The life of a mission (src/mission/service.ts) under commands that      *)
(* arrive late, out of order, and again after a refusal.                   *)
(*                                                                         *)
(* A command is one step: CommandPipeline shows that over the SQLite store *)
(* a command that commits has decided on the latest version.  A command    *)
(* that replays an operation, lacks authority, or belongs to another       *)
(* organization changes nothing and stays out.                             *)
(***************************************************************************)
EXTENDS Integers, FiniteSets, Sequences

CONSTANTS
  Operation,      \* operation_ids of the commands on their way
  Revision,       \* blueprint revision ids
  Timeline,       \* timeline ids
  None,           \* an optional field left out
  LastVersion     \* up to which version commands are given

ASSUME MissionAssumption ==
  /\ LastVersion \in Nat
  /\ None \notin Nat \cup Revision \cup Timeline

Status == {"ABSENT", "DRAFT", "PLANNING", "AWAITING_APPROVAL", "ACTIVE", "PAUSED",
           "HALTED", "REVIEW", "CLOSED", "ARCHIVED", "CANCELLED"}

Kind == {"CreateMission", "CreateBlueprintRevision", "SubmitBlueprint", "ActivateMission",
         "PauseMission", "ResumeMission", "OperationalHaltMission", "RestartMission",
         "CloseMission", "CancelMission", "ArchiveMission"}

\* `revisions` keeps the order of creation.
Snapshot == [status: Status, version: Nat, lifecycleEpoch: Nat,
             revisions: Seq([id: Revision, base: Revision \cup {None}]),
             submitted: Revision \cup {None}, active: Revision \cup {None},
             timeline: Timeline \cup {None}]

\* A command on its way: what its payload names, what it expects of the
\* mission, and (history) the version that its sender had seen.
Order == [operation: Operation, kind: Kind,
          revision: Revision \cup {None}, base: Revision \cup {None},
          timeline: Timeline \cup {None},
          version: Nat \cup {None}, epoch: Nat \cup {None}, seen: Nat]

\* What a validated payload names: the revision, its base, the timeline.
Payload(kind) ==
  CASE kind = "CreateBlueprintRevision" -> Revision \X (Revision \cup {None}) \X {None}
    [] kind = "SubmitBlueprint" -> Revision \X {None} \X {None}
    [] kind = "ActivateMission" -> Revision \X {None} \X Timeline
    [] kind = "RestartMission" -> {None} \X {None} \X (Timeline \cup {None})
    [] OTHER -> {None} \X {None} \X {None}

VARIABLES
  mission,    \* the stored mission
  orders,     \* the commands on their way
  lifeBegan   \* history: the version that began the mission's present life

vars == <<mission, orders, lifeBegan>>

TypeOK ==
  /\ mission \in Snapshot
  /\ orders \subseteq Order
  /\ lifeBegan \in Nat
  /\ mission.status = "ABSENT" <=> mission.version = 0
  /\ \A o \in orders : <<o.revision, o.base, o.timeline>> \in Payload(o.kind)
  /\ \A o, p \in orders : o.operation = p.operation => o = p

Absent == [status |-> "ABSENT", version |-> 0, lifecycleEpoch |-> 0, revisions |-> <<>>,
           submitted |-> None, active |-> None, timeline |-> None]

Init ==
  /\ mission = Absent
  /\ orders = {}
  /\ lifeBegan = 0

-----------------------------------------------------------------------------
(* Senders *)

\* A client gives a command, with or without expectations taken from the
\* mission it sees.
Send(o) ==
  /\ \A p \in orders : p.operation # o
  /\ mission.version < LastVersion
  /\ \E kind \in Kind : \E p \in Payload(kind) :
     \E version \in {None, mission.version}, epoch \in {None, mission.lifecycleEpoch} :
       orders' = orders \cup
         {[operation |-> o, kind |-> kind, revision |-> p[1], base |-> p[2],
           timeline |-> p[3], version |-> version, epoch |-> epoch,
           seen |-> mission.version]}
  /\ UNCHANGED <<mission, lifeBegan>>

\* A client gives up on a command, refused or lost.  One that was refused
\* has left no operation record: until then it may come again.
GiveUp(o) ==
  /\ orders' = orders \ {o}
  /\ UNCHANGED <<mission, lifeBegan>>

-----------------------------------------------------------------------------
(* The service *)

\* Defect: the epoch expected is not compared.
LoadsAnyEpoch(o, allowed) ==
  /\ mission.status # "ABSENT"
  /\ o.version \in {None, mission.version}
  /\ mission.status \in allowed

loadForMutation(o, allowed) ==
  /\ mission.status # "ABSENT"
  /\ o.version \in {None, mission.version}
  /\ o.epoch \in {None, mission.lifecycleEpoch}
  /\ mission.status \in allowed

\* The events after which a command meant for the life before is stale.
BeginsLife == {"RestartMission", "CloseMission", "CancelMission"}

publish(o, next) ==
  /\ mission' = [next EXCEPT !.version = mission.version + 1]
  /\ orders' = orders \ {o}
  /\ lifeBegan' = IF o.kind \in BeginsLife THEN mission.version + 1 ELSE lifeBegan

Revised(t) == {t.revisions[i].id : i \in DOMAIN t.revisions}

createMission(o) ==
  /\ o.kind = "CreateMission"
  /\ o.version \in {None, 0}
  /\ mission.status = "ABSENT"
  /\ publish(o, [mission EXCEPT !.status = "DRAFT"])

createBlueprintRevision(o) ==
  /\ o.kind = "CreateBlueprintRevision"
  /\ loadForMutation(o, {"DRAFT", "PLANNING"})
  /\ o.revision \notin Revised(mission)
  /\ o.base \in Revised(mission) \cup {None}
  /\ publish(o, [mission EXCEPT !.status = "PLANNING",
                   !.revisions = Append(@, [id |-> o.revision, base |-> o.base])])

submitBlueprint(o) ==
  /\ o.kind = "SubmitBlueprint"
  /\ loadForMutation(o, {"DRAFT", "PLANNING"})
  /\ o.revision \in Revised(mission)
  /\ publish(o, [mission EXCEPT !.status = "AWAITING_APPROVAL", !.submitted = o.revision])

\* Defect: the approved revision need not be the one submitted.
activateAnyRevision(o) ==
  /\ o.kind = "ActivateMission"
  /\ loadForMutation(o, {"AWAITING_APPROVAL"})
  /\ publish(o, [mission EXCEPT !.status = "ACTIVE", !.active = o.revision,
                                !.timeline = o.timeline])

activateMission(o) ==
  /\ o.kind = "ActivateMission"
  /\ loadForMutation(o, {"AWAITING_APPROVAL"})
  /\ o.revision = mission.submitted
  /\ publish(o, [mission EXCEPT !.status = "ACTIVE", !.active = o.revision,
                                !.timeline = o.timeline])

pauseMission(o) ==
  /\ o.kind = "PauseMission"
  /\ loadForMutation(o, {"ACTIVE"})
  /\ publish(o, [mission EXCEPT !.status = "PAUSED"])

resumeMission(o) ==
  /\ o.kind = "ResumeMission"
  /\ loadForMutation(o, {"PAUSED"})
  /\ publish(o, [mission EXCEPT !.status = "ACTIVE"])

operationalHaltMission(o) ==
  /\ o.kind = "OperationalHaltMission"
  /\ loadForMutation(o, {"ACTIVE", "PAUSED"})
  /\ publish(o, [mission EXCEPT !.status = "HALTED"])

restartMission(o) ==
  /\ o.kind = "RestartMission"
  /\ loadForMutation(o, {"HALTED"})
  /\ publish(o, [mission EXCEPT !.status = "ACTIVE", !.lifecycleEpoch = @ + 1,
                   !.timeline = IF o.timeline = None THEN @ ELSE o.timeline])

closeMission(o) ==
  /\ o.kind = "CloseMission"
  /\ loadForMutation(o, {"ACTIVE", "PAUSED", "HALTED", "REVIEW"})
  /\ publish(o, [mission EXCEPT !.status = "CLOSED", !.lifecycleEpoch = @ + 1])

cancelMission(o) ==
  /\ o.kind = "CancelMission"
  /\ loadForMutation(o, {"DRAFT", "PLANNING", "AWAITING_APPROVAL", "ACTIVE", "PAUSED",
                         "HALTED", "REVIEW"})
  /\ publish(o, [mission EXCEPT !.status = "CANCELLED", !.lifecycleEpoch = @ + 1])

archiveMission(o) ==
  /\ o.kind = "ArchiveMission"
  /\ loadForMutation(o, {"CLOSED", "CANCELLED"})
  /\ publish(o, [mission EXCEPT !.status = "ARCHIVED"])

-----------------------------------------------------------------------------

Execute(o) ==
  \/ createMission(o)
  \/ createBlueprintRevision(o)
  \/ submitBlueprint(o)
  \/ activateMission(o)
  \/ pauseMission(o)
  \/ resumeMission(o)
  \/ operationalHaltMission(o)
  \/ restartMission(o)
  \/ closeMission(o)
  \/ cancelMission(o)
  \/ archiveMission(o)

Next ==
  \/ \E o \in Operation : Send(o)
  \/ \E o \in orders : Execute(o) \/ GiveUp(o)

Spec == Init /\ [][Next]_vars

-----------------------------------------------------------------------------
(* Properties *)

\* "Each revision rests on one that exists": a revision's base was created
\* before it and no id is used twice, so that following the bases always ends,
\* whatever was executed in which order (createBlueprintRevision).
BasesComeFirst ==
  \A i \in DOMAIN mission.revisions :
    LET earlier == {mission.revisions[j].id : j \in 1 .. i - 1}
    IN  /\ mission.revisions[i].id \notin earlier
        /\ mission.revisions[i].base \in earlier \cup {None}

Working == {"ACTIVE", "PAUSED", "HALTED"}

\* A mission at work runs the blueprint that was submitted for approval, which
\* is one of its revisions, on a timeline; this survives halts and restarts
\* (activateMission, restartMission).
RunsWhatWasSubmitted ==
  mission.status \in Working =>
    /\ mission.active \in Revised(mission)
    /\ mission.active = mission.submitted
    /\ mission.timeline # None

\* The lifecycle epoch fences stale commands: one that expects an epoch takes
\* effect only in the life its sender saw, however late it arrives; between
\* its sending and its effect the mission was not restarted, closed or
\* cancelled (loadForMutation and the epoch increments).
FencedToItsLife ==
  [][\A o \in orders : Execute(o) /\ o.epoch # None => o.seen >= lifeBegan]_vars

\* Both together: what a mission works on was submitted, and what it is told was
\* meant for the life it is in.
LifeHolds == []RunsWhatWasSubmitted /\ FencedToItsLife
=============================================================================
