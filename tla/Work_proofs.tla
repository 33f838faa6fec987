----------------------------- MODULE Work_proofs -----------------------------
(***************************************************************************)
(* Proofs about the work context, for any organizations, missions, tasks   *)
(* and number of commands under way.                                       *)
(***************************************************************************)
EXTENDS Work, TLAPS

-----------------------------------------------------------------------------
(* The inductive invariant *)

\* What is not there is blank, the rest is somebody's, and nothing is ever READY.
TasksInv ==
  \A t \in Task :
    /\ tasks[t].status # "READY"
    /\ IF tasks[t].status = "ABSENT"
       THEN tasks[t] = Absent
       ELSE tasks[t].organization \in Organization

\* The task a command wants to depend on is what it was found to be.
DependencyInv(q) ==
  q.kind = "AddDependency" /\ q.at \in {"load", "commit"} =>
    /\ q.names # q.task
    /\ tasks[q.names].status # "ABSENT"
    /\ tasks[q.names].organization = q.organization
    /\ tasks[q.names].mission = q.found

\* What a command makes of the snapshot s of its task.
Follows(q, s, copy) ==
  /\ copy.version = s.version + 1
  /\ copy.organization = s.organization
  /\ copy.mission = s.mission
  /\ q.epoch \in {None, s.lifecycleEpoch}
  /\ copy.lifecycleEpoch = IF q.kind \in BeginsLife THEN s.lifecycleEpoch + 1 ELSE s.lifecycleEpoch
  /\ \/ copy.status = s.status /\ copy.dependencies = s.dependencies
     \/ <<s.status, copy.status>> \in Board!Lifecycle /\ copy.dependencies = s.dependencies
     \/ /\ q.kind = "AddDependency"
        /\ s.status = "DRAFT" /\ copy.status = "DRAFT"
        /\ s.organization = q.organization
        /\ s.mission = q.found
        /\ q.names \notin Dependencies(s)
        /\ copy.dependencies = Append(s.dependencies, q.names)

\* A copy about to be committed was made of an old version, or of the present
\* one; a new task is one of a mission of its organization.
CopyInv(q) ==
  q.at = "commit" =>
    IF q.kind = "CreateTask"
    THEN /\ q.copy = [Absent EXCEPT !.status = "DRAFT", !.version = 1,
                        !.organization = q.organization, !.mission = q.names]
         /\ owner[q.names] = q.organization
    ELSE /\ tasks[q.task].status # "ABSENT"
         /\ tasks[q.task].version = q.copy.version - 1 => Follows(q, tasks[q.task], q.copy)
         /\ q.copy.version <= tasks[q.task].version + 1
         /\ q.copy.status \notin {"ABSENT", "READY"}

\* A command expects an epoch of the present or the past, and one of the past
\* if it is stale.
EpochInv(q) ==
  /\ q.stale => tasks[q.task].status # "ABSENT"
  /\ q.kind # "CreateTask" /\ q.epoch # None =>
       /\ q.epoch <= tasks[q.task].lifecycleEpoch
       /\ q.stale => q.epoch < tasks[q.task].lifecycleEpoch

RequestInv(q) == DependencyInv(q) /\ CopyInv(q) /\ EpochInv(q)

IInv ==
  /\ TypeOK
  /\ TasksInv
  /\ ReferencesSound
  /\ \A q \in requests : RequestInv(q)

-----------------------------------------------------------------------------
(* Loading *)

\* q has a copy that follows its task as it is.
Loaded(q) ==
  \E copy \in Snapshot :
    /\ Follows(q, tasks[q.task], copy)
    /\ tasks[q.task].status # "ABSENT"
    /\ copy.status \notin {"ABSENT", "READY"}
    /\ requests' = (requests \ {q}) \cup {[q EXCEPT !.at = "commit", !.copy = copy]}
    /\ UNCHANGED <<owner, tasks>>
    /\ q.kind # "CreateTask"

\* A change of the loaded task is a copy, if it follows the task.
LEMMA MutateLoads ==
  ASSUME IInv, NEW q \in requests, NEW allowed, NEW changed \in Snapshot,
         mutate(q, allowed, changed),
         load(q, allowed) => Follows(q, tasks[q.task], [changed EXCEPT !.version = @ + 1]),
         changed.status \notin {"ABSENT", "READY"},
         q.kind # "CreateTask"
  PROVE  Loaded(q)
  <1> DEFINE copy == [changed EXCEPT !.version = @ + 1]
  <1>1. copy \in Snapshot /\ copy.status = changed.status
    BY DEF Snapshot
  <1>2. /\ load(q, allowed)
        /\ UNCHANGED <<owner, tasks>>
        /\ requests' = (requests \ {q}) \cup {[q EXCEPT !.at = "commit", !.copy = copy]}
    BY DEF mutate, Turns
  <1>3. tasks[q.task].status # "ABSENT"
    BY <1>2 DEF load
  <1>4. QED
    BY <1>1, <1>2, <1>3 DEF Loaded

\* A transition along the lifecycle, in the same epoch.
LEMMA TransitionLoads ==
  ASSUME IInv, NEW q \in requests, NEW allowed, NEW status \in Status \ {"ABSENT", "READY"},
         transition(q, allowed, status),
         \A from \in allowed \ {"READY"} : <<from, status>> \in Board!Lifecycle,
         q.kind \notin BeginsLife, q.kind # "CreateTask"
  PROVE  Loaded(q)
  <1> DEFINE s == tasks[q.task]
             changed == [s EXCEPT !.status = status]
  <1>1. s \in Snapshot /\ s.status # "READY"
    BY DEF IInv, TypeOK, InFlight, TasksInv
  <1>2. changed \in Snapshot /\ changed.status = status
    BY <1>1 DEF Snapshot
  <1>3. ASSUME load(q, allowed)
        PROVE  Follows(q, s, [changed EXCEPT !.version = @ + 1])
    <2>1. <<s.status, status>> \in Board!Lifecycle /\ q.epoch \in {None, s.lifecycleEpoch}
      BY <1>1, <1>3 DEF load
    <2>2. QED
      BY <1>1, <2>1 DEF Follows, Snapshot
  <1>4. QED
    BY <1>2, <1>3, MutateLoads DEF transition

\* A transition that begins a new life.
LEMMA EpochLoads ==
  ASSUME IInv, NEW q \in requests, NEW allowed, NEW status \in Status \ {"ABSENT", "READY"},
         transitionEpoch(q, allowed, status),
         \A from \in allowed \ {"READY"} : <<from, status>> \in Board!Lifecycle,
         q.kind \in BeginsLife, q.kind # "CreateTask"
  PROVE  Loaded(q)
  <1> DEFINE s == tasks[q.task]
             changed == [s EXCEPT !.status = status, !.lifecycleEpoch = @ + 1]
  <1>1. s \in Snapshot /\ s.status # "READY"
    BY DEF IInv, TypeOK, InFlight, TasksInv
  <1>2. changed \in Snapshot /\ changed.status = status
    <2>1. s.lifecycleEpoch + 1 \in Nat
      BY <1>1 DEF Snapshot
    <2>2. QED
      BY <1>1, <2>1 DEF Snapshot
  <1>3. ASSUME load(q, allowed)
        PROVE  Follows(q, s, [changed EXCEPT !.version = @ + 1])
    <2>1. <<s.status, status>> \in Board!Lifecycle /\ q.epoch \in {None, s.lifecycleEpoch}
      BY <1>1, <1>3 DEF load
    <2>2. QED
      BY <1>1, <2>1 DEF Follows, Snapshot
  <1>4. QED
    BY <1>2, <1>3, MutateLoads DEF transitionEpoch

\* Every load makes a copy that follows its task.
LEMMA LoadLoads ==
  ASSUME IInv, NEW q \in requests, Load(q)
  PROVE  Loaded(q)
  <1> DEFINE s == tasks[q.task]
  <1>1. /\ q \in InFlight /\ s \in Snapshot
        /\ s.status # "READY"
        /\ q.names \in Payload(q.kind)
    BY DEF IInv, TypeOK, InFlight, TasksInv
  <1>2. CASE AssignOwner(q) \/ ChangePriority(q)
    <2>1. PICK allowed : mutate(q, allowed, s)
      BY <1>2 DEF AssignOwner, ChangePriority
    <2>2. q.kind \in {"AssignOwner", "ChangePriority"}
      BY <1>2 DEF AssignOwner, ChangePriority
    <2>3. load(q, allowed)
      BY <2>1 DEF mutate
    <2>4. s.status # "ABSENT" /\ q.epoch \in {None, s.lifecycleEpoch}
      BY <2>3 DEF load
    <2>5. Follows(q, s, [s EXCEPT !.version = @ + 1])
      BY <1>1, <2>2, <2>4 DEF Follows, Snapshot, BeginsLife
    <2>6. QED
      BY <1>1, <2>1, <2>2, <2>4, <2>5, MutateLoads
  <1>3. CASE AddDependency(q)
    <2> DEFINE changed == [s EXCEPT !.dependencies = Append(@, q.names)]
    <2>1. /\ q.kind = "AddDependency"
          /\ s.mission = q.found
          /\ q.names \notin Dependencies(s)
          /\ mutate(q, {"DRAFT", "READY"}, changed)
          /\ load(q, {"DRAFT", "READY"})
      BY <1>3 DEF AddDependency, mutate
    <2>2. /\ s.status = "DRAFT"
          /\ s.organization = q.organization
          /\ q.epoch \in {None, s.lifecycleEpoch}
      BY <1>1, <2>1 DEF load
    <2>3. Append(s.dependencies, q.names) \in Seq(Task)
      BY <1>1, <2>1 DEF Payload, Snapshot
    <2>4. changed \in Snapshot /\ changed.status = "DRAFT"
      BY <1>1, <2>2, <2>3 DEF Snapshot
    <2>5. Follows(q, s, [changed EXCEPT !.version = @ + 1])
      BY <1>1, <2>1, <2>2 DEF Follows, Snapshot, BeginsLife
    <2>6. QED
      BY <2>1, <2>4, <2>5, MutateLoads
  <1>4. CASE StartTask(q)
    BY <1>4, TransitionLoads DEF StartTask, Status, BeginsLife, Board!Lifecycle
  <1>5. CASE PauseTask(q)
    BY <1>5, TransitionLoads DEF PauseTask, Status, BeginsLife, Board!Lifecycle
  <1>6. CASE BlockTask(q)
    BY <1>6, TransitionLoads DEF BlockTask, Status, BeginsLife, Board!Lifecycle
  <1>7. CASE SubmitCompletion(q)
    BY <1>7, TransitionLoads DEF SubmitCompletion, Status, BeginsLife, Board!Lifecycle
  <1>8. CASE ApproveTask(q)
    BY <1>8, TransitionLoads DEF ApproveTask, Status, BeginsLife, Board!Lifecycle
  <1>9. CASE ReopenTask(q)
    BY <1>9, EpochLoads DEF ReopenTask, Status, BeginsLife, Board!Lifecycle
  <1>10. CASE CloseTask(q)
    BY <1>10, EpochLoads DEF CloseTask, Status, BeginsLife, Board!Lifecycle
  <1>11. CASE CancelTask(q)
    BY <1>11, EpochLoads DEF CancelTask, Status, BeginsLife, Board!Lifecycle
  <1>12. QED
    BY <1>2, <1>3, <1>4, <1>5, <1>6, <1>7, <1>8, <1>9, <1>10, <1>11 DEF Load

-----------------------------------------------------------------------------
(* Steps that leave the tasks alone *)

\* A command in flight may move on to whatever satisfies the invariant.
LEMMA TurnKeeps ==
  ASSUME IInv, NEW q \in requests, NEW next \in InFlight, Turns(q, next),
         UNCHANGED <<owner, tasks>>,
         next.id = q.id, next.names \in Payload(next.kind),
         next.at = "mission" => next.kind = "CreateTask",
         next.at = "load" => next.kind = "AddDependency",
         RequestInv(next)
  PROVE  IInv'
  <1>1. requests' = (requests \ {q}) \cup {next} /\ owner' = owner /\ tasks' = tasks
    BY DEF Turns
  <1>2. TypeOK'
    BY <1>1 DEF IInv, TypeOK
  <1>3. TasksInv' /\ ReferencesSound'
    BY <1>1 DEF IInv, TasksInv, ReferencesSound
  <1>4. ASSUME NEW p \in requests'
        PROVE  RequestInv(p)'
    <2>1. RequestInv(p)
      BY <1>1 DEF IInv
    <2>2. QED
      BY <1>1, <2>1 DEF RequestInv, DependencyInv, CopyInv, EpochInv, Follows, Dependencies
  <1>5. QED
    BY <1>2, <1>3, <1>4 DEF IInv

\* A new mission makes no difference to what is there.
LEMMA CreateMissionKeeps ==
  ASSUME IInv, NEW m \in MissionId, CreateMission(m)
  PROVE  IInv'
  <1>1. PICK o \in Organization : owner' = [owner EXCEPT ![m] = o]
    BY DEF CreateMission
  <1>2. /\ owner[m] = Nobody /\ requests' = requests /\ tasks' = tasks
        /\ owner \in [MissionId -> Organization \cup {Nobody}]
    BY DEF CreateMission, IInv, TypeOK
  <1>3. \A n \in MissionId : owner[n] # Nobody => owner'[n] = owner[n]
    BY <1>1, <1>2
  <1>4. TypeOK'
    BY <1>1, <1>2 DEF IInv, TypeOK
  <1>5. TasksInv'
    BY <1>2 DEF IInv, TasksInv
  <1>6. ReferencesSound'
    <2>1. \A t \in Task : tasks[t].status # "ABSENT" =>
            tasks[t].mission \in MissionId /\ owner[tasks[t].mission] = tasks[t].organization
      BY DEF IInv, ReferencesSound
    <2>2. ASSUME NEW t \in Task, tasks[t].status # "ABSENT"
          PROVE  owner'[tasks[t].mission] = tasks[t].organization
      <3>1. tasks[t].mission \in MissionId /\ owner[tasks[t].mission] = tasks[t].organization
        BY <2>1, <2>2
      <3>2. tasks[t].organization # Nobody
        BY <2>2, WorkAssumption DEF IInv, TasksInv
      <3>3. QED
        BY <1>3, <3>1, <3>2
    <2>3. QED
      BY <1>2, <2>2 DEF IInv, ReferencesSound
  <1>7. ASSUME NEW q \in requests
        PROVE  RequestInv(q)'
    <2>1. q \in InFlight /\ RequestInv(q) /\ q.names \in Payload(q.kind)
      BY DEF IInv, TypeOK
    <2>2. q.organization \in Organization /\ (q.kind = "CreateTask" => q.names \in MissionId)
      BY <2>1 DEF InFlight, Payload
    <2>3. q.kind = "CreateTask" /\ owner[q.names] = q.organization => owner'[q.names] = q.organization
      BY <1>3, <2>2, WorkAssumption
    <2>4. QED
      BY <1>2, <2>1, <2>3 DEF RequestInv, DependencyInv, CopyInv, EpochInv, Follows
  <1>8. QED
    BY <1>2, <1>4, <1>5, <1>6, <1>7 DEF IInv

\* A command that is given expects what its task is.
LEMMA SendKeeps ==
  ASSUME IInv, NEW r \in Request, Send(r)
  PROVE  IInv'
  <1>1. PICK kind \in Kind, t \in Task, o \in Organization :
             \E names \in Payload(kind) :
             \E epoch \in {None, tasks[t].lifecycleEpoch} :
             \E version \in {None} \cup (IF epoch = None THEN {} ELSE {tasks[t].version}) :
               /\ kind = "CreateTask" <=> tasks[t].status = "ABSENT"
               /\ requests' = requests \cup
                    {[id |-> r, kind |-> kind, organization |-> o, task |-> t, names |-> names,
                      found |-> NoMission, version |-> version, epoch |-> epoch,
                      stale |-> FALSE, at |-> "sent", copy |-> Absent]}
    BY DEF Send
  <1>2. PICK names \in Payload(kind), epoch \in {None, tasks[t].lifecycleEpoch},
             version \in {None, tasks[t].version} :
               requests' = requests \cup
                    {[id |-> r, kind |-> kind, organization |-> o, task |-> t, names |-> names,
                      found |-> NoMission, version |-> version, epoch |-> epoch,
                      stale |-> FALSE, at |-> "sent", copy |-> Absent]}
    BY <1>1
  <1> DEFINE new == [id |-> r, kind |-> kind, organization |-> o, task |-> t, names |-> names,
                     found |-> NoMission, version |-> version, epoch |-> epoch,
                     stale |-> FALSE, at |-> "sent", copy |-> Absent]
  <1>3. /\ requests' = requests \cup {new}
        /\ owner' = owner /\ tasks' = tasks
        /\ \A q \in requests : q.id # new.id
    BY <1>2 DEF Send
  <1>4. /\ tasks[t] \in Snapshot
        /\ tasks[t].version \in Nat /\ tasks[t].lifecycleEpoch \in Nat
    BY DEF IInv, TypeOK, Snapshot
  <1>5. new \in InFlight
    <2>1. names \in MissionId \cup Task \cup {None}
      BY DEF Payload, Kind
    <2>2. Absent \in Snapshot
      BY DEF Absent, Snapshot, Status
    <2>3. QED
      BY <1>4, <2>1, <2>2 DEF InFlight
  <1>6. RequestInv(new)
    <2>1. new.at = "sent" /\ ~new.stale /\ new.task = t /\ new.epoch = epoch
      OBVIOUS
    <2> HIDE DEF new
    <2>2. new.epoch # None => new.epoch <= tasks[new.task].lifecycleEpoch
      BY <1>4, <2>1
    <2>3. QED
      <3>1. DependencyInv(new)
        BY <2>1 DEF DependencyInv
      <3>2. CopyInv(new)
        BY <2>1 DEF CopyInv
      <3>3. EpochInv(new)
        BY <2>1, <2>2 DEF EpochInv
      <3>4. QED
        BY <3>1, <3>2, <3>3 DEF RequestInv
  <1>7. TypeOK'
    <2>1. new.names = names /\ new.kind = kind /\ new.at = "sent"
      OBVIOUS
    <2> HIDE DEF new
    <2>2. new.names \in Payload(new.kind)
      BY <1>2, <2>1
    <2>3. \A p, q \in requests' : p.id = q.id => p = q
      BY <1>3 DEF IInv, TypeOK
    <2>4. QED
      BY <1>3, <1>5, <2>1, <2>2, <2>3 DEF IInv, TypeOK
  <1>8. TasksInv' /\ ReferencesSound'
    BY <1>3 DEF IInv, TasksInv, ReferencesSound
  <1>9. ASSUME NEW p \in requests'
        PROVE  RequestInv(p)'
    <2> HIDE DEF new
    <2>1. RequestInv(p)
      BY <1>3, <1>6 DEF IInv
    <2>2. QED
      BY <1>3, <2>1 DEF RequestInv, DependencyInv, CopyInv, EpochInv, Follows, Dependencies
  <1>10. QED
    BY <1>7, <1>8, <1>9 DEF IInv

\* A command that has made its first reads, or its copy, keeps the invariant.
LEMMA ReadKeeps ==
  ASSUME IInv, NEW q \in requests,
         FindNone(q) \/ requireMission(q) \/ FindDependency(q) \/ Load(q)
  PROVE  IInv'
  <1>1. /\ q \in InFlight /\ q.names \in Payload(q.kind) /\ RequestInv(q)
        /\ tasks[q.task] \in Snapshot
    BY DEF IInv, TypeOK, InFlight
  <1>2. CASE FindNone(q)
    <2> DEFINE next == [q EXCEPT !.at = "mission"]
    <2>1. next \in InFlight /\ Turns(q, next) /\ UNCHANGED <<owner, tasks>>
      BY <1>1, <1>2 DEF FindNone, InFlight
    <2>2. RequestInv(next)
      BY <1>1, <1>2 DEF FindNone, InFlight, RequestInv, DependencyInv, CopyInv, EpochInv
    <2>3. next.id = q.id /\ next.names = q.names /\ next.kind = q.kind /\ next.kind = "CreateTask"
          /\ next.at = "mission"
      BY <1>1, <1>2 DEF FindNone, InFlight
    <2>4. QED
      BY <1>1, <2>1, <2>2, <2>3, TurnKeeps
  <1>3. CASE requireMission(q)
    <2> DEFINE copy == [Absent EXCEPT !.status = "DRAFT", !.version = 1,
                          !.organization = q.organization, !.mission = q.names]
               next == [q EXCEPT !.at = "commit", !.copy = copy]
    <2>1. q.kind = "CreateTask" /\ owner[q.names] = q.organization
          /\ Turns(q, next) /\ UNCHANGED <<owner, tasks>>
      BY <1>3 DEF requireMission
    <2>2. q.organization \in Organization /\ q.names \in MissionId
      BY <1>1, <2>1 DEF InFlight, Payload
    <2>3. copy \in Snapshot
      <3>1. Absent \in Snapshot
        BY DEF Absent, Snapshot, Status
      <3>2. QED
        BY <2>2, <3>1 DEF Snapshot, Status
    <2>4. next \in InFlight
      BY <1>1, <2>3 DEF InFlight
    <2>5. /\ next.id = q.id /\ next.names = q.names /\ next.kind = "CreateTask"
          /\ next.at = "commit" /\ next.task = q.task /\ next.stale = q.stale
          /\ next.copy = copy /\ next.organization = q.organization
      BY <1>1, <2>1 DEF InFlight
    <2>6. RequestInv(next)
      BY <1>1, <2>1, <2>5 DEF RequestInv, DependencyInv, CopyInv, EpochInv
    <2>7. QED
      BY <1>1, <2>1, <2>4, <2>5, <2>6, TurnKeeps
  <1>4. CASE FindDependency(q)
    <2> DEFINE next == [q EXCEPT !.at = "load", !.found = tasks[q.names].mission]
    <2>1. q.names \in Task
      BY <1>1, <1>4 DEF FindDependency, Payload
    <2>2. next \in InFlight /\ Turns(q, next) /\ UNCHANGED <<owner, tasks>>
      <3>1. tasks[q.names] \in Snapshot
        BY <2>1 DEF IInv, TypeOK
      <3>2. QED
        BY <1>1, <1>4, <3>1 DEF FindDependency, InFlight, Snapshot
    <2>3. /\ next.id = q.id /\ next.names = q.names /\ next.kind = q.kind
          /\ q.kind = "AddDependency" /\ next.at = "load" /\ next.task = q.task
          /\ next.stale = q.stale /\ next.epoch = q.epoch /\ next.organization = q.organization
          /\ next.found = tasks[q.names].mission
      BY <1>1, <1>4 DEF FindDependency, InFlight
    <2>4. RequestInv(next)
      BY <1>1, <1>4, <2>3 DEF FindDependency, RequestInv, DependencyInv, CopyInv, EpochInv
    <2>5. QED
      BY <1>1, <2>2, <2>3, <2>4, TurnKeeps
  <1>5. CASE Load(q)
    <2>1. q.at = IF q.kind = "AddDependency" THEN "load" ELSE "sent"
      BY <1>5 DEF Load, AssignOwner, ChangePriority, AddDependency, StartTask, PauseTask,
                  BlockTask, SubmitCompletion, ApproveTask, ReopenTask, CloseTask, CancelTask,
                  mutate, transition, transitionEpoch, load
    <2>2. PICK copy \in Snapshot :
            /\ Follows(q, tasks[q.task], copy)
            /\ tasks[q.task].status # "ABSENT"
            /\ copy.status \notin {"ABSENT", "READY"}
            /\ requests' = (requests \ {q}) \cup {[q EXCEPT !.at = "commit", !.copy = copy]}
            /\ UNCHANGED <<owner, tasks>>
            /\ q.kind # "CreateTask"
      BY <1>5, LoadLoads DEF Loaded
    <2> DEFINE next == [q EXCEPT !.at = "commit", !.copy = copy]
    <2>3. next \in InFlight /\ Turns(q, next)
      BY <1>1, <2>2 DEF InFlight, Turns
    <2>4. /\ next.id = q.id /\ next.names = q.names /\ next.kind = q.kind
          /\ next.at = "commit" /\ next.task = q.task /\ next.copy = copy
          /\ next.stale = q.stale /\ next.epoch = q.epoch /\ next.organization = q.organization
          /\ next.found = q.found
      BY <1>1 DEF InFlight
    <2> HIDE DEF next
    <2>5. DependencyInv(next) /\ EpochInv(next)
      BY <1>1, <2>1, <2>4 DEF RequestInv, DependencyInv, EpochInv
    <2>6. Follows(next, tasks[next.task], next.copy)
      BY <2>2, <2>4 DEF Follows
    <2>7. next.copy.version = tasks[next.task].version + 1
          /\ tasks[next.task].version \in Nat
      BY <1>1, <2>4, <2>6 DEF Follows, Snapshot
    <2>8. CopyInv(next)
      BY <2>2, <2>4, <2>6, <2>7 DEF CopyInv
    <2>9. QED
      BY <1>1, <2>2, <2>3, <2>4, <2>5, <2>8, TurnKeeps DEF RequestInv
  <1>6. QED
    BY <1>2, <1>3, <1>4, <1>5

\* So does one that fails.
LEMMA FailKeeps ==
  ASSUME IInv, NEW q \in requests, Fail(q)
  PROVE  IInv'
  <1>1. requests' = requests \ {q} /\ owner' = owner /\ tasks' = tasks
    BY DEF Fail
  <1>2. TypeOK' /\ TasksInv' /\ ReferencesSound'
    BY <1>1 DEF IInv, TypeOK, TasksInv, ReferencesSound
  <1>3. ASSUME NEW p \in requests'
        PROVE  RequestInv(p)'
    <2>1. RequestInv(p)
      BY <1>1 DEF IInv
    <2>2. QED
      BY <1>1, <2>1 DEF RequestInv, DependencyInv, CopyInv, EpochInv, Follows, Dependencies
  <1>4. QED
    BY <1>2, <1>3 DEF IInv

-----------------------------------------------------------------------------
(* The commit *)

\* A commit creates a task, or continues from the task as it is: the version
\* that it compares tells that the copy was made of nothing older.
LEMMA CommitContinues ==
  ASSUME IInv, NEW q \in requests, Commit(q)
  PROVE  /\ tasks' = [tasks EXCEPT ![q.task] = q.copy]
         /\ requests' = Aged(q) /\ owner' = owner
         /\ q \in InFlight
         /\ q.copy.status \notin {"ABSENT", "READY"}
         /\ IF q.kind = "CreateTask"
            THEN /\ tasks[q.task] = Absent
                 /\ q.names \in MissionId
                 /\ owner[q.names] = q.organization
                 /\ q.copy = [Absent EXCEPT !.status = "DRAFT", !.version = 1,
                                !.organization = q.organization, !.mission = q.names]
            ELSE /\ tasks[q.task].status # "ABSENT"
                 /\ Follows(q, tasks[q.task], q.copy)
  <1>1. /\ tasks' = [tasks EXCEPT ![q.task] = q.copy]
        /\ requests' = Aged(q) /\ owner' = owner
        /\ q.at = "commit" /\ Accepts(q)
    BY DEF Commit
  <1>2. q \in InFlight /\ q.task \in Task /\ q.names \in Payload(q.kind) /\ CopyInv(q)
    BY DEF IInv, TypeOK, InFlight, RequestInv
  <1>3. CASE q.kind = "CreateTask"
    <2>1. tasks[q.task] = Absent
      BY <1>1, <1>2, <1>3 DEF Accepts, IInv, TasksInv
    <2>2. /\ q.copy = [Absent EXCEPT !.status = "DRAFT", !.version = 1,
                         !.organization = q.organization, !.mission = q.names]
          /\ owner[q.names] = q.organization
      BY <1>1, <1>2, <1>3 DEF CopyInv
    <2>3. q.copy.status = "DRAFT"
      BY <2>2 DEF Absent
    <2>4. QED
      BY <1>1, <1>2, <1>3, <2>1, <2>2, <2>3 DEF Payload
  <1>4. CASE q.kind # "CreateTask"
    BY <1>1, <1>2, <1>4 DEF Accepts, CopyInv
  <1>5. QED
    BY <1>3, <1>4, <1>1, <1>2

\* What is there stays there, where it is; its own commit takes it on.
LEMMA CommitPersists ==
  ASSUME IInv, NEW q \in requests, Commit(q), NEW t \in Task, tasks[t].status # "ABSENT"
  PROVE  /\ tasks'[t].status # "ABSENT"
         /\ tasks'[t].organization = tasks[t].organization
         /\ tasks'[t].mission = tasks[t].mission
         /\ t # q.task => tasks'[t] = tasks[t]
         /\ t = q.task => /\ tasks'[t] = q.copy
                          /\ q.kind # "CreateTask"
                          /\ Follows(q, tasks[t], q.copy)
  <1>1. tasks \in [Task -> Snapshot]
    BY DEF IInv, TypeOK
  <1>2. CASE t # q.task
    <2>1. tasks'[t] = tasks[t]
      BY <1>1, <1>2, CommitContinues
    <2>2. QED
      BY <1>2, <2>1
  <1>3. CASE t = q.task
    <2>1. q.kind # "CreateTask"
      <3>1. tasks[t] # Absent
        BY DEF Absent
      <3>2. QED
        BY <1>3, <3>1, CommitContinues
    <2>2. tasks'[t] = q.copy
      BY <1>1, <1>3, CommitContinues
    <2>3. q.copy.status # "ABSENT" /\ Follows(q, tasks[t], q.copy)
      BY <1>3, <2>1, CommitContinues
    <2>4. QED
      BY <1>3, <2>1, <2>2, <2>3 DEF Follows
  <1>4. QED
    BY <1>2, <1>3

\* A commit keeps the references sound.
LEMMA CommitKeepsReferences ==
  ASSUME IInv, NEW q \in requests, Commit(q)
  PROVE  ReferencesSound'
  <1> SUFFICES ASSUME NEW t \in Task, tasks'[t].status # "ABSENT"
               PROVE  /\ tasks'[t].mission \in MissionId
                      /\ owner'[tasks'[t].mission] = tasks'[t].organization
                      /\ \A i \in DOMAIN tasks'[t].dependencies :
                           LET d == tasks'[t].dependencies[i]
                           IN  /\ d # t
                               /\ tasks'[d].status # "ABSENT"
                               /\ tasks'[d].organization = tasks'[t].organization
                               /\ tasks'[d].mission = tasks'[t].mission
                               /\ \A j \in 1 .. i - 1 : tasks'[t].dependencies[j] # d
    BY DEF ReferencesSound
  <1> DEFINE s == tasks[t].dependencies
             s2 == tasks'[t].dependencies
  <1>1. /\ tasks \in [Task -> Snapshot] /\ q.task \in Task
        /\ owner' = owner /\ s \in Seq(Task)
    BY CommitContinues DEF IInv, TypeOK, InFlight, Snapshot
  <1>2. CASE tasks[t].status = "ABSENT"
    <2>1. t = q.task /\ q.kind = "CreateTask"
      BY <1>1, <1>2, CommitContinues
    <2>2. /\ tasks'[t] = [Absent EXCEPT !.status = "DRAFT", !.version = 1,
                            !.organization = q.organization, !.mission = q.names]
          /\ q.names \in MissionId /\ owner[q.names] = q.organization
      BY <1>1, <2>1, CommitContinues
    <2>3. /\ tasks'[t].mission = q.names /\ tasks'[t].organization = q.organization
          /\ tasks'[t].dependencies = <<>>
      BY <2>2 DEF Absent
    <2>4. QED
      BY <1>1, <2>2, <2>3
  <1>3. CASE tasks[t].status # "ABSENT"
    <2>1. /\ tasks[t].mission \in MissionId
          /\ owner[tasks[t].mission] = tasks[t].organization
          /\ \A i \in DOMAIN s :
               /\ s[i] # t
               /\ tasks[s[i]].status # "ABSENT"
               /\ tasks[s[i]].organization = tasks[t].organization
               /\ tasks[s[i]].mission = tasks[t].mission
               /\ \A j \in 1 .. i - 1 : s[j] # s[i]
      BY <1>3 DEF IInv, ReferencesSound
    <2>2. /\ tasks'[t].mission = tasks[t].mission
          /\ tasks'[t].organization = tasks[t].organization
      BY <1>3, CommitPersists
    <2>3. \/ s2 = s
          \/ \E d \in Task :
               /\ s2 = Append(s, d)
               /\ d # t /\ d \notin Dependencies(tasks[t])
               /\ tasks[d].status # "ABSENT"
               /\ tasks[d].organization = tasks[t].organization
               /\ tasks[d].mission = tasks[t].mission
      <3>1. CASE t # q.task
        BY <1>3, <3>1, CommitPersists
      <3>2. CASE t = q.task
        <4>1. tasks'[t] = q.copy /\ Follows(q, tasks[t], q.copy)
          BY <1>3, <3>2, CommitPersists
        <4>2. CASE s2 # s
          <5>1. /\ q.kind = "AddDependency"
                /\ tasks[t].organization = q.organization
                /\ tasks[t].mission = q.found
                /\ q.names \notin Dependencies(tasks[t])
                /\ s2 = Append(s, q.names)
            BY <4>1, <4>2 DEF Follows
          <5>2. q.at = "commit" /\ DependencyInv(q) /\ q.names \in Task
            BY <5>1 DEF Commit, IInv, RequestInv, TypeOK, Payload
          <5>3. QED
            BY <3>2, <5>1, <5>2 DEF DependencyInv
        <4>3. QED
          BY <4>2
      <3>3. QED
        BY <3>1, <3>2
    <2>4. ASSUME NEW i \in DOMAIN s2
          PROVE  /\ s2[i] \in Task /\ s2[i] # t
                 /\ tasks[s2[i]].status # "ABSENT"
                 /\ tasks[s2[i]].organization = tasks[t].organization
                 /\ tasks[s2[i]].mission = tasks[t].mission
                 /\ \A j \in 1 .. i - 1 : s2[j] # s2[i]
      <3>1. CASE s2 = s
        BY <1>1, <2>1, <2>4, <3>1
      <3>2. CASE s2 # s
        <4>1. PICK d \in Task :
                /\ s2 = Append(s, d)
                /\ d # t /\ d \notin Dependencies(tasks[t])
                /\ tasks[d].status # "ABSENT"
                /\ tasks[d].organization = tasks[t].organization
                /\ tasks[d].mission = tasks[t].mission
          BY <2>3, <3>2
        <4>2. /\ i \in 1 .. Len(s) + 1
              /\ \A j \in 1 .. Len(s) : s2[j] = s[j] /\ s[j] \in Task /\ s[j] # d
              /\ s2[Len(s) + 1] = d /\ Len(s) \in Nat
              /\ DOMAIN s = 1 .. Len(s)
          BY <1>1, <2>4, <4>1 DEF Dependencies
        <4>3. CASE i = Len(s) + 1
          BY <4>1, <4>2, <4>3
        <4>4. CASE i \in 1 .. Len(s)
          <5>1. i \in DOMAIN s /\ s2[i] = s[i] /\ s[i] \in Task
            BY <4>2, <4>4
          <5>2. /\ s[i] # t
                /\ tasks[s[i]].status # "ABSENT"
                /\ tasks[s[i]].organization = tasks[t].organization
                /\ tasks[s[i]].mission = tasks[t].mission
                /\ \A j \in 1 .. i - 1 : s[j] # s[i]
            BY <2>1, <5>1
          <5>3. \A j \in 1 .. i - 1 : s2[j] = s[j]
            <6>1. 1 .. i - 1 \subseteq 1 .. Len(s)
              BY <4>2, <4>4
            <6>2. QED
              BY <4>2, <6>1
          <5>4. \A j \in 1 .. i - 1 : s2[j] # s2[i]
            BY <5>1, <5>2, <5>3
          <5>5. QED
            BY <5>1, <5>2, <5>4
        <4>5. QED
          BY <4>2, <4>3, <4>4
      <3>3. QED
        BY <3>1, <3>2
    <2>5. ASSUME NEW d \in Task, tasks[d].status # "ABSENT"
          PROVE  /\ tasks'[d].status # "ABSENT"
                 /\ tasks'[d].organization = tasks[d].organization
                 /\ tasks'[d].mission = tasks[d].mission
      BY <2>5, CommitPersists
    <2>6. QED
      BY <1>1, <2>1, <2>2, <2>4, <2>5
  <1>4. QED
    BY <1>2, <1>3

\* The other commands in flight are none the wiser: what they found still
\* holds, and those that hold a copy of the same task hold an old one.
LEMMA CommitKeepsRequests ==
  ASSUME IInv, NEW q \in requests, Commit(q), NEW p \in requests'
  PROVE  RequestInv(p)'
  <1>1. PICK r \in requests \ {q} :
          p = [r EXCEPT !.stale = @ \/ (r.task = q.task /\ q.kind \in BeginsLife)]
    <2>1. p \in Aged(q)
      BY CommitContinues
    <2>2. QED
      BY <2>1 DEF Aged
  <1>2. /\ r \in InFlight /\ r.task \in Task /\ r.names \in Payload(r.kind) /\ RequestInv(r)
        /\ q.task \in Task /\ tasks \in [Task -> Snapshot] /\ q.copy \in Snapshot
        /\ owner' = owner
        /\ tasks' = [tasks EXCEPT ![q.task] = q.copy]
    BY CommitContinues DEF IInv, TypeOK, InFlight
  <1>3. /\ p.kind = r.kind /\ p.at = r.at /\ p.task = r.task /\ p.names = r.names
        /\ p.found = r.found /\ p.organization = r.organization /\ p.copy = r.copy
        /\ p.epoch = r.epoch
        /\ p.stale <=> r.stale \/ (r.task = q.task /\ q.kind \in BeginsLife)
    BY <1>1, <1>2 DEF InFlight
  <1>4. DependencyInv(p)'
    <2>1. r.kind = "AddDependency" => r.names \in Task
      BY <1>2 DEF Payload
    <2>2. QED
      BY <1>2, <1>3, <2>1, CommitPersists DEF RequestInv, DependencyInv
  <1>5. CopyInv(p)'
    <2>1. CASE r.kind = "CreateTask"
      BY <1>2, <1>3, <2>1 DEF RequestInv, CopyInv
    <2>2. CASE r.kind # "CreateTask" /\ r.at = "commit"
      <3>1. /\ tasks[r.task].status # "ABSENT"
            /\ tasks[r.task].version = r.copy.version - 1 => Follows(r, tasks[r.task], r.copy)
            /\ r.copy.version <= tasks[r.task].version + 1
            /\ r.copy.status \notin {"ABSENT", "READY"}
        BY <1>2, <2>2 DEF RequestInv, CopyInv
      <3>2. CASE r.task # q.task
        <4>1. tasks'[r.task] = tasks[r.task]
          BY <1>2, <3>2
        <4>2. Follows(r, tasks[r.task], r.copy) => Follows(p, tasks[r.task], r.copy)
          BY <1>3 DEF Follows
        <4>3. Follows(p, tasks[r.task], r.copy) => Follows(p, tasks[p.task], p.copy)'
          <5>1. tasks'[p.task] = tasks[r.task] /\ p.copy = r.copy
            BY <1>3, <4>1
          <5>2. Follows(p, tasks'[p.task], p.copy) <=> Follows(p, tasks[r.task], r.copy)
            BY <5>1
          <5>3. QED
            BY <5>2 DEF Follows, Dependencies
        <4>4. QED
          BY <1>3, <2>2, <3>1, <4>1, <4>2, <4>3 DEF CopyInv
      <3>3. CASE r.task = q.task
        <4>1. tasks'[r.task] = q.copy /\ Follows(q, tasks[r.task], q.copy)
          BY <1>2, <3>1, <3>3, CommitPersists
        <4>2. /\ tasks'[r.task].version = tasks[r.task].version + 1
              /\ tasks[r.task].version \in Nat /\ r.copy.version \in Nat
          BY <1>2, <4>1 DEF Follows, Snapshot, InFlight
        <4>3. tasks'[r.task].status # "ABSENT"
          BY <1>2, <3>1, CommitPersists
        <4>4. /\ tasks'[p.task].version # p.copy.version - 1
              /\ p.copy.version <= tasks'[p.task].version + 1
          BY <1>3, <3>1, <4>2
        <4>5. QED
          BY <1>3, <2>2, <3>1, <4>3, <4>4 DEF CopyInv
      <3>4. QED
        BY <3>2, <3>3
    <2>3. CASE r.at # "commit"
      BY <1>3, <2>3 DEF CopyInv
    <2>4. QED
      BY <2>1, <2>2, <2>3
  <1>6. EpochInv(p)'
    <2>1. /\ r.stale => tasks[r.task].status # "ABSENT"
          /\ r.kind # "CreateTask" /\ r.epoch # None =>
               /\ r.epoch <= tasks[r.task].lifecycleEpoch
               /\ r.stale => r.epoch < tasks[r.task].lifecycleEpoch
          /\ r.epoch \in Nat \cup {None}
          /\ tasks[r.task].lifecycleEpoch \in Nat
      BY <1>2 DEF RequestInv, EpochInv, InFlight, Snapshot
    <2>2. CASE r.task # q.task
      <3>1. tasks'[r.task] = tasks[r.task] /\ (p.stale <=> r.stale)
        BY <1>2, <1>3, <2>2
      <3>2. QED
        BY <1>3, <2>1, <3>1 DEF EpochInv
    <2>3. CASE r.task = q.task
      <3>1. tasks'[r.task] = q.copy /\ q.copy.status # "ABSENT"
        BY <1>2, <2>3, CommitContinues
      <3>2. CASE q.kind = "CreateTask"
        <4>1. tasks[q.task] = Absent /\ q.copy.lifecycleEpoch = 0
          BY <3>2, CommitContinues DEF Absent
        <4>2. ~r.stale /\ tasks[r.task].lifecycleEpoch = 0
          BY <2>1, <2>3, <4>1 DEF Absent
        <4>3. ~p.stale
          BY <1>3, <3>2, <4>2 DEF BeginsLife
        <4>4. QED
          BY <1>3, <2>1, <3>1, <4>1, <4>2, <4>3 DEF EpochInv
      <3>3. CASE q.kind # "CreateTask"
        <4>1. q.copy.lifecycleEpoch = IF q.kind \in BeginsLife
                                      THEN tasks[r.task].lifecycleEpoch + 1
                                      ELSE tasks[r.task].lifecycleEpoch
          BY <2>3, <3>3, CommitContinues DEF Follows
        <4>2. r.kind # "CreateTask" /\ r.epoch # None =>
                /\ r.epoch <= q.copy.lifecycleEpoch
                /\ p.stale => r.epoch < q.copy.lifecycleEpoch
          BY <1>3, <2>1, <4>1
        <4>3. QED
          BY <1>3, <3>1, <4>2 DEF EpochInv
      <3>4. QED
        BY <3>2, <3>3
    <2>4. QED
      BY <2>2, <2>3
  <1>7. QED
    BY <1>4, <1>5, <1>6 DEF RequestInv

\* A commit keeps the invariant.
LEMMA CommitKeeps ==
  ASSUME IInv, NEW q \in requests, Commit(q)
  PROVE  IInv'
  <1>1. /\ q \in InFlight /\ q.task \in Task /\ q.copy \in Snapshot
        /\ tasks \in [Task -> Snapshot] /\ owner' = owner /\ requests' = Aged(q)
        /\ tasks' = [tasks EXCEPT ![q.task] = q.copy]
    BY CommitContinues DEF IInv, TypeOK, InFlight
  <1>2. ASSUME NEW t \in Task
        PROVE  /\ tasks'[t].status = "ABSENT" <=> tasks'[t].version = 0
               /\ tasks'[t].status # "READY"
               /\ IF tasks'[t].status = "ABSENT"
                  THEN tasks'[t] = Absent
                  ELSE tasks'[t].organization \in Organization
    <2>1. /\ tasks[t].status = "ABSENT" <=> tasks[t].version = 0
          /\ tasks[t].status # "READY"
          /\ IF tasks[t].status = "ABSENT"
             THEN tasks[t] = Absent
             ELSE tasks[t].organization \in Organization
      BY DEF IInv, TypeOK, TasksInv
    <2>2. CASE t # q.task
      <3>1. tasks'[t] = tasks[t]
        BY <1>1, <2>2
      <3>2. QED
        BY <2>1, <3>1
    <2>3. CASE t = q.task
      <3>1. tasks'[t] = q.copy /\ q.copy.status \notin {"ABSENT", "READY"}
        BY <1>1, <2>3, CommitContinues
      <3>2. q.copy.version # 0 /\ q.copy.organization \in Organization
        <4>1. CASE q.kind = "CreateTask"
          <5>1. q.copy = [Absent EXCEPT !.status = "DRAFT", !.version = 1,
                            !.organization = q.organization, !.mission = q.names]
            BY <4>1, CommitContinues
          <5>2. q.copy.version = 1 /\ q.copy.organization = q.organization
            BY <5>1 DEF Absent
          <5>3. QED
            BY <1>1, <5>2 DEF InFlight
        <4>2. CASE q.kind # "CreateTask"
          <5>1. Follows(q, tasks[t], q.copy) /\ tasks[t].status # "ABSENT"
            BY <2>3, <4>2, CommitContinues
          <5>2. tasks[t].version \in Nat
            BY <1>1 DEF Snapshot
          <5>3. QED
            BY <2>1, <5>1, <5>2 DEF Follows
        <4>3. QED
          BY <4>1, <4>2
      <3>3. QED
        BY <3>1, <3>2
    <2>4. QED
      BY <2>2, <2>3
  <1>3. ASSUME NEW p \in requests'
        PROVE  \E r \in requests :
                 /\ p \in InFlight
                 /\ p.id = r.id /\ p.names = r.names /\ p.kind = r.kind /\ p.at = r.at
                 /\ p = [r EXCEPT !.stale = @ \/ (r.task = q.task /\ q.kind \in BeginsLife)]
    <2>1. PICK r \in requests :
            p = [r EXCEPT !.stale = @ \/ (r.task = q.task /\ q.kind \in BeginsLife)]
      BY <1>1 DEF Aged
    <2>2. r \in InFlight
      BY DEF IInv, TypeOK
    <2>3. QED
      BY <2>1, <2>2 DEF InFlight
  <1>4. \A p, r \in requests' : p.id = r.id => p = r
    BY <1>3 DEF IInv, TypeOK
  <1>5. TypeOK'
    <2>1. tasks' \in [Task -> Snapshot]
      BY <1>1
    <2>2. requests' \subseteq InFlight
      BY <1>3
    <2>3. \A p \in requests' : /\ p.names \in Payload(p.kind)
                               /\ p.at = "mission" => p.kind = "CreateTask"
                               /\ p.at = "load" => p.kind = "AddDependency"
      BY <1>3 DEF IInv, TypeOK
    <2>4. QED
      BY <1>1, <1>2, <1>4, <2>1, <2>2, <2>3 DEF IInv, TypeOK
  <1>6. TasksInv'
    BY <1>2 DEF TasksInv
  <1>7. \A p \in requests' : RequestInv(p)'
    BY CommitKeepsRequests
  <1>8. QED
    BY <1>5, <1>6, <1>7, CommitKeepsReferences DEF IInv

-----------------------------------------------------------------------------
(* The theorems *)

LEMMA InitHolds == Init => IInv
  <1> SUFFICES ASSUME Init
               PROVE  IInv
    OBVIOUS
  <1>1. Absent \in Snapshot /\ Absent.status = "ABSENT" /\ Absent.version = 0
    BY DEF Absent, Snapshot, Status
  <1>2. /\ owner = [m \in MissionId |-> Nobody]
        /\ tasks \in [Task -> Snapshot] /\ \A t \in Task : tasks[t] = Absent
        /\ requests = {}
    BY <1>1 DEF Init
  <1>3. TypeOK
    BY <1>1, <1>2 DEF TypeOK
  <1>4. TasksInv /\ ReferencesSound
    BY <1>1, <1>2 DEF TasksInv, ReferencesSound
  <1>5. QED
    BY <1>2, <1>3, <1>4 DEF IInv

LEMMA NextKeeps == IInv /\ [Next]_vars => IInv'
  <1> SUFFICES ASSUME IInv, [Next]_vars
               PROVE  IInv'
    OBVIOUS
  <1>1. ASSUME NEW m \in MissionId, CreateMission(m)
        PROVE  IInv'
    BY <1>1, CreateMissionKeeps
  <1>2. ASSUME NEW r \in Request, Send(r)
        PROVE  IInv'
    BY <1>2, SendKeeps
  <1>3. ASSUME NEW q \in requests,
               FindNone(q) \/ requireMission(q) \/ FindDependency(q) \/ Load(q)
        PROVE  IInv'
    BY <1>3, ReadKeeps
  <1>4. ASSUME NEW q \in requests, Commit(q)
        PROVE  IInv'
    BY <1>4, CommitKeeps
  <1>5. ASSUME NEW q \in requests, Fail(q)
        PROVE  IInv'
    BY <1>5, FailKeeps
  <1>6. CASE UNCHANGED vars
    <2>1. owner' = owner /\ tasks' = tasks /\ requests' = requests
      BY <1>6 DEF vars
    <2>2. ASSUME NEW p \in requests'
          PROVE  RequestInv(p)'
      <3>1. RequestInv(p)
        BY <2>1 DEF IInv
      <3>2. QED
        BY <2>1, <3>1 DEF RequestInv, DependencyInv, CopyInv, EpochInv, Follows, Dependencies
    <2>3. QED
      BY <2>1, <2>2 DEF IInv, TypeOK, TasksInv, ReferencesSound
  <1>7. QED
    BY <1>1, <1>2, <1>3, <1>4, <1>5, <1>6 DEF Next

\* The invariant holds of every reachable state of the work context.
THEOREM Inductive == Spec => []IInv
  BY InitHolds, NextKeeps, PTL DEF Spec

\* Stored tasks and the commands under way have their types; versions and
\* statuses of a task agree (service.ts, store.ts).
THEOREM TypeCorrect == Spec => []TypeOK
  <1>1. IInv => TypeOK
    BY DEF IInv
  <1>2. QED
    BY <1>1, Inductive, PTL

\* Tasks refer to missions and tasks that exist in their organization, and to
\* no task twice or to themselves, although commands read them at different
\* moments (createTask, AddDependency).
THEOREM ReferencesAreSound == Spec => []ReferencesSound
  <1>1. IInv => ReferencesSound
    BY DEF IInv
  <1>2. QED
    BY <1>1, Inductive, PTL

\* A command that expects an epoch commits only in the life of the task that
\* its sender saw (load, and the version that the store compares).
THEOREM EpochsFence == Spec => FencedToItsLife
  <1>1. ASSUME IInv, NEW q \in requests, Commit(q), q.epoch # None
        PROVE  ~q.stale
    <2>1. /\ q.task \in Task /\ EpochInv(q) /\ tasks[q.task] \in Snapshot
          /\ q.epoch \in Nat \cup {None}
      BY <1>1 DEF IInv, TypeOK, InFlight, RequestInv
    <2>2. CASE q.kind = "CreateTask"
      <3>1. tasks[q.task].status = "ABSENT"
        BY <1>1, <2>2 DEF Commit, Accepts
      <3>2. QED
        BY <2>1, <3>1 DEF EpochInv
    <2>3. CASE q.kind # "CreateTask"
      <3>1. q.epoch = tasks[q.task].lifecycleEpoch
        BY <1>1, <2>3, CommitContinues DEF Follows
      <3>2. q.epoch \in Nat
        BY <1>1, <2>1
      <3>3. QED
        BY <1>1, <2>1, <2>3, <3>1, <3>2 DEF EpochInv
    <2>4. QED
      BY <2>2, <2>3
  <1>2. IInv /\ [Next]_vars =>
          [\A q \in requests : Commit(q) /\ q.epoch # None => ~q.stale]_vars
    BY <1>1
  <1>3. QED
    BY <1>2, Inductive, PTL DEF Spec, FencedToItsLife

-----------------------------------------------------------------------------
(* The refinement *)

board == [t \in Task |->
            [status |-> tasks[t].status, organization |-> tasks[t].organization,
             mission |-> tasks[t].mission, dependencies |-> Dependencies(tasks[t])]]

\* What is appended is added to the set.
LEMMA AppendAdds ==
  ASSUME NEW task, NEW copy, NEW d \in Task,
         task.dependencies \in Seq(Task),
         copy.dependencies = Append(task.dependencies, d)
  PROVE  Dependencies(copy) = Dependencies(task) \cup {d}
  <1> DEFINE s == task.dependencies
             a == copy.dependencies
  <1>1. /\ DOMAIN s = 1 .. Len(s) /\ DOMAIN a = 1 .. Len(s) + 1
        /\ Len(s) \in Nat
        /\ \A i \in 1 .. Len(s) : a[i] = s[i]
        /\ a[Len(s) + 1] = d
    OBVIOUS
  <1> HIDE DEF s, a
  <1>2. {a[i] : i \in DOMAIN a} = {s[i] : i \in DOMAIN s} \cup {d}
    BY <1>1
  <1>3. QED
    BY <1>2 DEF Dependencies, s, a

\* A commit is one instant of the board, or nothing to it.
LEMMA CommitIsInstant ==
  ASSUME IInv, NEW q \in requests, Commit(q)
  PROVE  Board!Next \/ (owner' = owner /\ board' = board)
  <1> DEFINE s == tasks[q.task]
             entry(task) == [status |-> task.status, organization |-> task.organization,
                             mission |-> task.mission, dependencies |-> Dependencies(task)]
  <1>1. /\ q \in InFlight /\ q.task \in Task /\ tasks \in [Task -> Snapshot]
        /\ owner' = owner
        /\ tasks' = [tasks EXCEPT ![q.task] = q.copy]
    BY CommitContinues DEF IInv, TypeOK, InFlight
  <1>2. board = [t \in Task |-> entry(tasks[t])]
        /\ board' = [board EXCEPT ![q.task] = entry(q.copy)]
    BY <1>1 DEF board
  <1>3. CASE q.kind = "CreateTask"
    <2>1. /\ s = Absent /\ q.names \in MissionId /\ owner[q.names] = q.organization
          /\ q.copy = [Absent EXCEPT !.status = "DRAFT", !.version = 1,
                         !.organization = q.organization, !.mission = q.names]
      BY <1>3, CommitContinues
    <2>2. Dependencies(Absent) = {}
      BY DEF Absent, Dependencies
    <2>3. board[q.task] = Board!NoTask
      <3>1. board[q.task] = entry(Absent)
        BY <1>1, <1>2, <2>1
      <3>2. /\ Absent.status = "ABSENT" /\ Absent.organization = Nobody
            /\ Absent.mission = NoMission
        BY DEF Absent
      <3>3. QED
        BY <2>2, <3>1, <3>2 DEF Board!NoTask
    <2>4. /\ q.copy.status = "DRAFT" /\ q.copy.organization = q.organization
          /\ q.copy.mission = q.names /\ q.copy.dependencies = <<>>
      BY <2>1 DEF Absent
    <2>5. entry(q.copy) = [status |-> "DRAFT", organization |-> owner[q.names],
                           mission |-> q.names, dependencies |-> {}]
      <3>1. Dependencies(q.copy) = {}
        BY <2>4 DEF Dependencies
      <3>2. QED
        BY <2>1, <2>4, <3>1
    <2>6. owner[q.names] # Nobody
      BY <1>1, <2>1, WorkAssumption DEF InFlight
    <2>7. Board!TaskCreated(q.task, q.names)
      BY <1>1, <1>2, <2>3, <2>5, <2>6 DEF Board!TaskCreated, board
    <2>8. QED
      BY <1>1, <2>1, <2>7 DEF Board!Next
  <1>4. CASE q.kind # "CreateTask"
    <2>1. Follows(q, s, q.copy) /\ s.status # "ABSENT" /\ q.at = "commit"
      BY <1>4, CommitContinues DEF Commit
    <2>2. board[q.task] = entry(s)
      BY <1>1, <1>2
    <2>3. CASE q.copy.status = s.status /\ q.copy.dependencies = s.dependencies
      <3>1. entry(q.copy) = entry(s)
        BY <2>1, <2>3 DEF Follows, Dependencies
      <3>2. board' = board
        BY <1>1, <1>2, <2>2, <3>1
      <3>3. QED
        BY <1>1, <3>2
    <2>4. CASE <<s.status, q.copy.status>> \in Board!Lifecycle
               /\ q.copy.dependencies = s.dependencies
      <3>1. entry(q.copy) = [entry(s) EXCEPT !.status = q.copy.status]
        <4>1. Dependencies(q.copy) = Dependencies(s)
          BY <2>4 DEF Dependencies
        <4>2. q.copy.organization = s.organization /\ q.copy.mission = s.mission
          BY <2>1 DEF Follows
        <4>3. QED
          BY <4>1, <4>2, SMTT(30)
      <3>2. Board!Moved(q.task)
        <4>1. board[q.task].status = s.status
          BY <2>2
        <4>2. board' = [board EXCEPT ![q.task].status = q.copy.status]
          BY <1>2, <2>2, <3>1
        <4>3. /\ <<s.status, q.copy.status>>[1] = s.status
              /\ <<s.status, q.copy.status>>[2] = q.copy.status
          OBVIOUS
        <4>4. \E step \in Board!Lifecycle :
                /\ board[q.task].status = step[1]
                /\ board' = [board EXCEPT ![q.task].status = step[2]]
          BY <2>4, <4>1, <4>2, <4>3
        <4>5. QED
          BY <1>1, <4>4 DEF Board!Moved, board
      <3>3. QED
        BY <1>1, <3>2 DEF Board!Next
    <2>5. CASE /\ q.kind = "AddDependency"
               /\ s.status = "DRAFT" /\ q.copy.status = "DRAFT"
               /\ s.organization = q.organization
               /\ s.mission = q.found
               /\ q.names \notin Dependencies(s)
               /\ q.copy.dependencies = Append(s.dependencies, q.names)
      <3>1. /\ q.names \in Task /\ q.names # q.task
            /\ tasks[q.names].status # "ABSENT"
            /\ tasks[q.names].organization = s.organization
            /\ tasks[q.names].mission = s.mission
        BY <2>1, <2>5 DEF IInv, TypeOK, RequestInv, DependencyInv, Payload
      <3>2. Dependencies(q.copy) = Dependencies(s) \cup {q.names}
        <4>1. s.dependencies \in Seq(Task)
          BY <1>1 DEF Snapshot
        <4>2. QED
          BY <2>5, <3>1, <4>1, AppendAdds
      <3>3. entry(q.copy) = [entry(s) EXCEPT !.dependencies = @ \cup {q.names}]
        <4>1. q.copy.organization = s.organization /\ q.copy.mission = s.mission
          BY <2>1 DEF Follows
        <4>2. q.copy.status = s.status
          BY <2>5
        <4>3. QED
          BY <3>2, <4>1, <4>2
      <3>4. Board!DependencyAdded(q.task, q.names)
        BY <1>1, <1>2, <2>2, <2>5, <3>1, <3>3 DEF Board!DependencyAdded, board
      <3>5. QED
        BY <1>1, <3>1, <3>4 DEF Board!Next
    <2>6. QED
      BY <2>1, <2>3, <2>4, <2>5 DEF Follows
  <1>5. QED
    BY <1>3, <1>4

\* Commands whose reads are spread over time implement tasks on which each
\* command is one instant (service.ts, docs/work-context.md).
THEOREM WorkImplementsBoard == Spec => BoardSpec
  <1>1. ASSUME Init
        PROVE  Board!Init
    <2>1. /\ Absent.status = "ABSENT" /\ Absent.organization = Nobody
          /\ Absent.mission = NoMission /\ Dependencies(Absent) = {}
      BY DEF Absent, Dependencies
    <2>2. \A t \in Task : tasks[t] = Absent
      BY <1>1 DEF Init
    <2>3. board = [t \in Task |-> Board!NoTask]
      BY <2>1, <2>2 DEF board, Board!NoTask
    <2>4. QED
      BY <1>1, <2>3 DEF Init, Board!Init, board
  <1>2. ASSUME IInv, [Next]_vars
        PROVE  Board!Next \/ (owner' = owner /\ board' = board)
    <2>1. ASSUME NEW m \in MissionId, CreateMission(m)
          PROVE  Board!Next
      <3>1. PICK o \in Organization : Board!MissionCreated(m, o)
        BY <2>1 DEF CreateMission, Board!MissionCreated, Dependencies
      <3>2. QED
        BY <3>1 DEF Board!Next
    <2>2. ASSUME NEW q \in requests, Commit(q)
          PROVE  Board!Next \/ (owner' = owner /\ board' = board)
      BY <1>2, <2>2, CommitIsInstant
    <2>3. ASSUME UNCHANGED <<owner, tasks>>
          PROVE  owner' = owner /\ board' = board
      BY <2>3 DEF board, Dependencies
    <2>4. ASSUME NEW r \in Request, Send(r)
          PROVE  UNCHANGED <<owner, tasks>>
      BY <2>4 DEF Send
    <2>5. ASSUME NEW q \in requests, FindNone(q) \/ requireMission(q) \/ FindDependency(q) \/ Fail(q)
          PROVE  UNCHANGED <<owner, tasks>>
      BY <2>5 DEF FindNone, requireMission, FindDependency, Fail
    <2>6. ASSUME NEW q \in requests, Load(q)
          PROVE  UNCHANGED <<owner, tasks>>
      BY <1>2, <2>6, LoadLoads DEF Loaded
    <2>7. CASE UNCHANGED vars
      BY <2>3, <2>7 DEF vars
    <2>8. QED
      BY <1>2, <2>1, <2>2, <2>3, <2>4, <2>5, <2>6, <2>7 DEF Next
  <1>3. IInv /\ [Next]_vars => [Board!Next]_(Board!vars)
    BY <1>2 DEF Board!vars, board
  <1>4. QED
    BY <1>1, <1>3, Inductive, PTL DEF Spec, BoardSpec, Board!Spec
=============================================================================
