-------------------------------- MODULE Work --------------------------------
(***************************************************************************)
(* Task commands (src/work/service.ts over the SQLite store) with the      *)
(* reads they make before their commit: the task, the mission it belongs   *)
(* to, the task it shall depend on.  Each read is behind an await, at      *)
(* which other commands interleave; only the task's own version is         *)
(* compared at the commit.                                                 *)
(*                                                                         *)
(* Replays of an operation are those of CommandPipeline.                   *)
(***************************************************************************)
EXTENDS Integers, FiniteSets, FiniteSetsExt, Sequences

CONSTANTS
  Organization,
  MissionId,
  Task,
  Request,      \* commands that may be on their way or in work together
  Nobody,       \* in place of the organization of what does not exist
  NoMission,    \* in place of the mission of a task that does not exist
  None,         \* an expectation left out
  LastVersion   \* up to which sum of the tasks' versions commands are given

ASSUME WorkAssumption ==
  /\ LastVersion \in Nat
  /\ None \notin Nat
  /\ Nobody \notin Organization
  /\ NoMission \notin MissionId

Status == {"ABSENT", "DRAFT", "READY", "ACTIVE", "PAUSED", "BLOCKED", "SUBMITTED",
           "APPROVED", "CLOSED", "CANCELLED"}

Kind == {"CreateTask", "AssignOwner", "ChangePriority", "AddDependency", "StartTask",
         "PauseTask", "BlockTask", "SubmitCompletion", "ApproveTask", "ReopenTask",
         "CloseTask", "CancelTask"}

Snapshot == [status: Status, version: Nat, lifecycleEpoch: Nat,
             organization: Organization \cup {Nobody}, mission: MissionId \cup {NoMission},
             dependencies: Seq(Task)]

\* A command, from its sending to its commit: `names` is the mission of a new
\* task or the task to depend on, `found` the mission that this one was found
\* in; `stale` (history) tells that a new life of the task has begun since.
InFlight == [id: Request, kind: Kind, organization: Organization, task: Task,
             names: MissionId \cup Task \cup {None}, found: MissionId \cup {NoMission},
             version: Nat \cup {None}, epoch: Nat \cup {None}, stale: BOOLEAN,
             at: {"sent", "mission", "load", "commit"}, copy: Snapshot]

\* The id a validated payload names besides the task's own.
Payload(kind) ==
  CASE kind = "CreateTask" -> MissionId
    [] kind = "AddDependency" -> Task
    [] OTHER -> {None}

VARIABLES
  owner,      \* the organization each mission belongs to
  tasks,      \* the stored tasks
  requests    \* the commands in flight

vars == <<owner, tasks, requests>>

TypeOK ==
  /\ owner \in [MissionId -> Organization \cup {Nobody}]
  /\ tasks \in [Task -> Snapshot]
  /\ requests \subseteq InFlight
  /\ \A t \in Task : tasks[t].status = "ABSENT" <=> tasks[t].version = 0
  /\ \A q, r \in requests : q.id = r.id => q = r
  /\ \A q \in requests :
       /\ q.names \in Payload(q.kind)
       /\ q.at = "mission" => q.kind = "CreateTask"
       /\ q.at = "load" => q.kind = "AddDependency"

Absent == [status |-> "ABSENT", version |-> 0, lifecycleEpoch |-> 0,
           organization |-> Nobody, mission |-> NoMission, dependencies |-> <<>>]

Init ==
  /\ owner = [m \in MissionId |-> Nobody]
  /\ tasks = [t \in Task |-> Absent]
  /\ requests = {}

-----------------------------------------------------------------------------
(* Outside *)

\* The mission context: a mission comes into being and stays.
CreateMission(m) ==
  /\ owner[m] = Nobody
  /\ \E o \in Organization : owner' = [owner EXCEPT ![m] = o]
  /\ UNCHANGED <<tasks, requests>>

WithinBound == MapThenSumSet(LAMBDA t : tasks[t].version, Task) < LastVersion

\* A client gives a command, for a task that exists or to create one that does
\* not, with or without expectations of it (who expects its version may as
\* well expect its epoch).
Send(r) ==
  /\ \A q \in requests : q.id # r
  /\ WithinBound
  /\ \E kind \in Kind, t \in Task, o \in Organization : \E names \in Payload(kind) :
     \E epoch \in {None, tasks[t].lifecycleEpoch} :
     \E version \in {None} \cup (IF epoch = None THEN {} ELSE {tasks[t].version}) :
       /\ kind = "CreateTask" <=> tasks[t].status = "ABSENT"
       /\ requests' = requests \cup
            {[id |-> r, kind |-> kind, organization |-> o, task |-> t, names |-> names,
              found |-> NoMission, version |-> version, epoch |-> epoch,
              stale |-> FALSE, at |-> "sent", copy |-> Absent]}
  /\ UNCHANGED <<owner, tasks>>

Turns(q, next) == requests' = (requests \ {q}) \cup {next}

\* The command fails: it was refused, the storage threw, or the process died.
\* (One that is sent again afterwards is one that took longer to arrive.)
Fail(q) ==
  /\ requests' = requests \ {q}
  /\ UNCHANGED <<owner, tasks>>

-----------------------------------------------------------------------------
(* Reads before the load *)

\* createTask(): the task must be new ...
FindNone(q) ==
  /\ q.kind = "CreateTask" /\ q.at = "sent"
  /\ q.version \in {None, 0}
  /\ tasks[q.task].status = "ABSENT"
  /\ Turns(q, [q EXCEPT !.at = "mission"])
  /\ UNCHANGED <<owner, tasks>>

\* Defect: the mission may be anyone's, or no one's.
requireNoMission(q) ==
  /\ q.kind = "CreateTask" /\ q.at = "mission"
  /\ Turns(q, [q EXCEPT !.at = "commit",
                 !.copy = [Absent EXCEPT !.status = "DRAFT", !.version = 1,
                             !.organization = q.organization, !.mission = q.names]])
  /\ UNCHANGED <<owner, tasks>>

\* ... and then its mission must be one of the same organization.
requireMission(q) ==
  /\ q.kind = "CreateTask" /\ q.at = "mission"
  /\ owner[q.names] = q.organization
  /\ Turns(q, [q EXCEPT !.at = "commit",
                 !.copy = [Absent EXCEPT !.status = "DRAFT", !.version = 1,
                             !.organization = q.organization, !.mission = q.names]])
  /\ UNCHANGED <<owner, tasks>>

\* AddDependency: the other task is looked up before the task itself.
FindDependency(q) ==
  /\ q.kind = "AddDependency" /\ q.at = "sent"
  /\ q.names # q.task
  /\ tasks[q.names].status # "ABSENT"
  /\ tasks[q.names].organization = q.organization
  /\ Turns(q, [q EXCEPT !.at = "load", !.found = tasks[q.names].mission])
  /\ UNCHANGED <<owner, tasks>>

-----------------------------------------------------------------------------
(* The load, and the change of the copy *)

load(q, allowed) ==
  LET task == tasks[q.task]
  IN  /\ q.at = IF q.kind = "AddDependency" THEN "load" ELSE "sent"
      /\ task.status # "ABSENT"
      /\ task.organization = q.organization
      /\ q.version \in {None, task.version}
      /\ q.epoch \in {None, task.lifecycleEpoch}
      /\ task.status \in allowed

mutate(q, allowed, changed) ==
  /\ load(q, allowed)
  /\ Turns(q, [q EXCEPT !.at = "commit", !.copy = [changed EXCEPT !.version = @ + 1]])
  /\ UNCHANGED <<owner, tasks>>

transition(q, allowed, status) ==
  mutate(q, allowed, [tasks[q.task] EXCEPT !.status = status])

\* The same, and a new lifecycle epoch.
transitionEpoch(q, allowed, status) ==
  mutate(q, allowed, [tasks[q.task] EXCEPT !.status = status, !.lifecycleEpoch = @ + 1])

\* Owner and priority matter to nothing here; the version counts.
AssignOwner(q) ==
  /\ q.kind = "AssignOwner"
  /\ mutate(q, {"DRAFT", "READY", "ACTIVE", "PAUSED", "BLOCKED"}, tasks[q.task])

ChangePriority(q) ==
  /\ q.kind = "ChangePriority"
  /\ mutate(q, {"DRAFT", "READY", "ACTIVE", "PAUSED", "BLOCKED", "SUBMITTED"}, tasks[q.task])

Dependencies(task) == {task.dependencies[i] : i \in DOMAIN task.dependencies}

\* Defect: the same dependency may be added again.
AddDependencyAgain(q) ==
  /\ q.kind = "AddDependency"
  /\ tasks[q.task].mission = q.found
  /\ mutate(q, {"DRAFT", "READY"}, [tasks[q.task] EXCEPT !.dependencies = Append(@, q.names)])

AddDependency(q) ==
  /\ q.kind = "AddDependency"
  /\ tasks[q.task].mission = q.found
  /\ q.names \notin Dependencies(tasks[q.task])
  /\ mutate(q, {"DRAFT", "READY"}, [tasks[q.task] EXCEPT !.dependencies = Append(@, q.names)])

StartTask(q) ==
  /\ q.kind = "StartTask"
  /\ transition(q, {"DRAFT", "READY", "PAUSED", "BLOCKED"}, "ACTIVE")

PauseTask(q) == q.kind = "PauseTask" /\ transition(q, {"ACTIVE"}, "PAUSED")

BlockTask(q) == q.kind = "BlockTask" /\ transition(q, {"READY", "ACTIVE", "PAUSED"}, "BLOCKED")

SubmitCompletion(q) == q.kind = "SubmitCompletion" /\ transition(q, {"ACTIVE"}, "SUBMITTED")

ApproveTask(q) == q.kind = "ApproveTask" /\ transition(q, {"SUBMITTED"}, "APPROVED")

\* Defect: the epoch stays.
ReopenInSameEpoch(q) ==
  /\ q.kind = "ReopenTask"
  /\ transition(q, {"SUBMITTED", "APPROVED", "CLOSED"}, "ACTIVE")

ReopenTask(q) ==
  /\ q.kind = "ReopenTask"
  /\ transitionEpoch(q, {"SUBMITTED", "APPROVED", "CLOSED"}, "ACTIVE")

CloseTask(q) == q.kind = "CloseTask" /\ transitionEpoch(q, {"APPROVED"}, "CLOSED")

CancelTask(q) ==
  /\ q.kind = "CancelTask"
  /\ transitionEpoch(q, {"DRAFT", "READY", "ACTIVE", "PAUSED", "BLOCKED", "SUBMITTED",
                         "APPROVED"}, "CANCELLED")

-----------------------------------------------------------------------------
(* The commit *)

\* Defect: the update does not compare the version.
AcceptsUnversioned(q) ==
  q.kind = "CreateTask" <=> tasks[q.task].status = "ABSENT"

Accepts(q) ==
  IF q.kind = "CreateTask"
  THEN tasks[q.task].status = "ABSENT"
  ELSE tasks[q.task].version = q.copy.version - 1

\* The events after which a command meant for the life before is stale.
BeginsLife == {"ReopenTask", "CloseTask", "CancelTask"}

\* The other commands in flight, after q has committed.
Aged(q) ==
  {[p EXCEPT !.stale = @ \/ (p.task = q.task /\ q.kind \in BeginsLife)] : p \in requests \ {q}}

Commit(q) ==
  /\ q.at = "commit"
  /\ Accepts(q)
  /\ tasks' = [tasks EXCEPT ![q.task] = q.copy]
  /\ requests' = Aged(q)
  /\ UNCHANGED owner

-----------------------------------------------------------------------------

Load(q) ==
  \/ AssignOwner(q)
  \/ ChangePriority(q)
  \/ AddDependency(q)
  \/ StartTask(q)
  \/ PauseTask(q)
  \/ BlockTask(q)
  \/ SubmitCompletion(q)
  \/ ApproveTask(q)
  \/ ReopenTask(q)
  \/ CloseTask(q)
  \/ CancelTask(q)

Next ==
  \/ \E m \in MissionId : CreateMission(m)
  \/ \E r \in Request : Send(r)
  \/ \E q \in requests :
       FindNone(q) \/ requireMission(q) \/ FindDependency(q) \/ Load(q) \/ Commit(q) \/ Fail(q)

Spec == Init /\ [][Next]_vars

-----------------------------------------------------------------------------
(* Properties *)

\* A task belongs to a mission of its organization; it depends on tasks of the
\* same organization and mission, never on itself, on none of them twice:
\* although mission, dependency and task are read at different moments and
\* only the task's version is compared (AddDependency, createTask).
ReferencesSound ==
  \A t \in Task : tasks[t].status # "ABSENT" =>
    /\ tasks[t].mission \in MissionId
    /\ owner[tasks[t].mission] = tasks[t].organization
    /\ \A i \in DOMAIN tasks[t].dependencies :
         LET d == tasks[t].dependencies[i]
         IN  /\ d # t
             /\ tasks[d].status # "ABSENT"
             /\ tasks[d].organization = tasks[t].organization
             /\ tasks[d].mission = tasks[t].mission
             /\ \A j \in 1 .. i - 1 : tasks[t].dependencies[j] # d

\* "Closure, reopening, and cancellation increment the lifecycle epoch to
\* fence stale commands": one that expects an epoch commits only in the life
\* of the task that its sender saw, however late it is loaded and whatever
\* commits between its load and its commit.
FencedToItsLife ==
  [][\A q \in requests : Commit(q) /\ q.epoch # None => ~q.stale]_vars

\* Commands, their reads spread over time, implement tasks on which every
\* command is one instant: whatever it read of other aggregates still holds
\* when it commits, and no stale copy takes a task off the lifecycle.
Board == INSTANCE TaskBoard
           WITH owner <- owner,
                board <- [t \in Task |->
                  [status |-> tasks[t].status, organization |-> tasks[t].organization,
                   mission |-> tasks[t].mission, dependencies |-> Dependencies(tasks[t])]]

BoardSpec == Board!Spec
=============================================================================
