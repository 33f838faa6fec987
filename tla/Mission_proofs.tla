--------------------------- MODULE Mission_proofs ---------------------------
(***************************************************************************)
(* Proofs about a mission's life, for any revisions, timelines and number  *)
(* of commands on their way.                                               *)
(***************************************************************************)
EXTENDS Mission, TLAPS

-----------------------------------------------------------------------------
(* The inductive invariant *)

\* What is submitted is a revision, from the submission on; what is active was
\* submitted.
BlueprintInv ==
  /\ mission.status \in {"AWAITING_APPROVAL"} \cup Working => mission.submitted \in Revised(mission)
  /\ mission.status \in Working => mission.active = mission.submitted /\ mission.timeline # None

\* A command expects an epoch of the present or the past, and one of the past
\* if the mission's life has begun after its sender looked.
OrderInv(o) ==
  /\ o.epoch # None => o.epoch <= mission.lifecycleEpoch
  /\ o.epoch # None /\ o.seen < lifeBegan => o.epoch < mission.lifecycleEpoch

LifeInv ==
  /\ lifeBegan <= mission.version
  /\ \A o \in orders : OrderInv(o)

IInv ==
  /\ TypeOK
  /\ BasesComeFirst
  /\ BlueprintInv
  /\ LifeInv

-----------------------------------------------------------------------------
(* What one command does, whichever it is *)

\* Every command advances the version by one, and begins a new life exactly
\* when it advances the epoch.
LEMMA ExecuteAdvances ==
  ASSUME TypeOK, NEW o \in orders, Execute(o)
  PROVE  /\ orders' = orders \ {o}
         /\ mission'.version = mission.version + 1
         /\ mission'.status \in Status \ {"ABSENT"}
         /\ \/ /\ lifeBegan' = mission.version + 1
               /\ mission'.lifecycleEpoch = mission.lifecycleEpoch + 1
            \/ /\ lifeBegan' = lifeBegan
               /\ mission'.lifecycleEpoch = mission.lifecycleEpoch
  <1>1. mission \in Snapshot
    BY DEF TypeOK
  <1>2. CASE createMission(o)
    BY <1>1, <1>2 DEF createMission, publish, Snapshot, Status, BeginsLife
  <1>3. CASE createBlueprintRevision(o)
    BY <1>1, <1>3 DEF createBlueprintRevision, publish, Snapshot, Status, BeginsLife
  <1>4. CASE submitBlueprint(o)
    BY <1>1, <1>4 DEF submitBlueprint, publish, Snapshot, Status, BeginsLife
  <1>5. CASE activateMission(o)
    BY <1>1, <1>5 DEF activateMission, publish, Snapshot, Status, BeginsLife
  <1>6. CASE pauseMission(o)
    BY <1>1, <1>6 DEF pauseMission, publish, Snapshot, Status, BeginsLife
  <1>7. CASE resumeMission(o)
    BY <1>1, <1>7 DEF resumeMission, publish, Snapshot, Status, BeginsLife
  <1>8. CASE operationalHaltMission(o)
    BY <1>1, <1>8 DEF operationalHaltMission, publish, Snapshot, Status, BeginsLife
  <1>9. CASE restartMission(o)
    BY <1>1, <1>9 DEF restartMission, publish, Snapshot, Status, BeginsLife
  <1>10. CASE closeMission(o)
    BY <1>1, <1>10 DEF closeMission, publish, Snapshot, Status, BeginsLife
  <1>11. CASE cancelMission(o)
    BY <1>1, <1>11 DEF cancelMission, publish, Snapshot, Status, BeginsLife
  <1>12. CASE archiveMission(o)
    BY <1>1, <1>12 DEF archiveMission, publish, Snapshot, Status, BeginsLife
  <1>13. QED
    BY <1>2, <1>3, <1>4, <1>5, <1>6, <1>7, <1>8, <1>9, <1>10, <1>11, <1>12 DEF Execute

\* The revisions change only by one appended to them, of a new id and on a
\* base that is among them.
LEMMA ExecuteRevises ==
  ASSUME TypeOK, NEW o \in orders, Execute(o)
  PROVE  \/ mission'.revisions = mission.revisions
         \/ \E r \in [id: Revision, base: Revision \cup {None}] :
              /\ r.id \notin Revised(mission)
              /\ r.base \in Revised(mission) \cup {None}
              /\ mission'.revisions = Append(mission.revisions, r)
  <1>1. mission \in Snapshot /\ o \in Order
    BY DEF TypeOK
  <1>2. CASE createBlueprintRevision(o)
    <2>1. o.kind = "CreateBlueprintRevision"
      BY <1>2 DEF createBlueprintRevision
    <2>2. mission'.revisions = Append(mission.revisions, [id |-> o.revision, base |-> o.base])
      BY <1>1, <1>2 DEF createBlueprintRevision, publish, Snapshot
    <2>3. /\ o.revision \notin Revised(mission)
          /\ o.base \in Revised(mission) \cup {None}
      BY <1>2 DEF createBlueprintRevision
    <2>4. o.revision \in Revision
      BY <2>1 DEF TypeOK, Payload
    <2>5. [id |-> o.revision, base |-> o.base] \in [id: Revision, base: Revision \cup {None}]
      BY <1>1, <2>4 DEF Order
    <2>6. QED
      BY <2>2, <2>3, <2>5
  <1>3. CASE ~createBlueprintRevision(o)
    <2>1. mission'.revisions = mission.revisions
      BY <1>1, <1>3 DEF Execute, createMission, submitBlueprint, activateMission, pauseMission,
        resumeMission, operationalHaltMission, restartMission, closeMission, cancelMission,
        archiveMission, publish, Snapshot
    <2>2. QED
      BY <2>1
  <1>4. QED
    BY <1>2, <1>3

\* What is submitted or active changes only in the commands for it.
LEMMA ExecuteBlueprint ==
  ASSUME IInv, NEW o \in orders, Execute(o)
  PROVE  BlueprintInv'
  <1>1. mission \in Snapshot /\ o \in Order /\ BlueprintInv
    BY DEF IInv, TypeOK
  <1>2. Revised(mission) \subseteq Revised(mission)'
    <2>1. DOMAIN mission.revisions = 1 .. Len(mission.revisions)
      BY <1>1 DEF Snapshot
    <2>2. CASE mission'.revisions = mission.revisions
      BY <2>2 DEF Revised
    <2>3. CASE mission'.revisions # mission.revisions
      <3>1. PICK r : /\ r \in [id: Revision, base: Revision \cup {None}]
                     /\ mission'.revisions = Append(mission.revisions, r)
        BY <2>3, ExecuteRevises DEF IInv
      <3>2. \A i \in DOMAIN mission.revisions :
              i \in DOMAIN mission'.revisions /\ mission'.revisions[i] = mission.revisions[i]
        BY <1>1, <3>1 DEF Snapshot
      <3>3. QED
        BY <3>2 DEF Revised
    <2>4. QED
      BY <2>2, <2>3
  <1>3. CASE submitBlueprint(o)
    <2>1. mission'.status = "AWAITING_APPROVAL" /\ mission'.submitted = o.revision
      BY <1>1, <1>3 DEF submitBlueprint, publish, Snapshot
    <2>2. o.revision \in Revised(mission)
      BY <1>3 DEF submitBlueprint
    <2>3. QED
      BY <1>2, <2>1, <2>2 DEF BlueprintInv, Working
  <1>4. CASE activateMission(o)
    <2>1. /\ mission.status = "AWAITING_APPROVAL"
          /\ mission'.submitted = mission.submitted
          /\ mission'.active = mission.submitted
          /\ mission'.timeline = o.timeline
      BY <1>1, <1>4 DEF activateMission, loadForMutation, publish, Snapshot
    <2>2. o.timeline # None
      <3>1. o.timeline \in Timeline
        BY <1>4 DEF activateMission, IInv, TypeOK, Payload
      <3>2. QED
        BY <3>1, MissionAssumption
    <2>3. QED
      BY <1>1, <1>2, <2>1, <2>2 DEF BlueprintInv
  <1>5. CASE restartMission(o)
    <2>1. /\ mission.status = "HALTED"
          /\ mission'.submitted = mission.submitted
          /\ mission'.active = mission.active
          /\ mission'.timeline = IF o.timeline = None THEN mission.timeline ELSE o.timeline
      BY <1>1, <1>5 DEF restartMission, loadForMutation, publish, Snapshot
    <2>2. QED
      BY <1>1, <1>2, <2>1 DEF BlueprintInv, Working
  <1>6. CASE ~submitBlueprint(o) /\ ~activateMission(o) /\ ~restartMission(o)
    <2>1. /\ mission'.submitted = mission.submitted
          /\ mission'.active = mission.active
          /\ mission'.timeline = mission.timeline
      BY <1>1, <1>6 DEF Execute, createMission, createBlueprintRevision, pauseMission,
        resumeMission, operationalHaltMission, closeMission, cancelMission, archiveMission,
        publish, Snapshot
    <2>2. mission'.status \in Working => mission.status \in Working
      BY <1>1, <1>6 DEF Execute, createMission, createBlueprintRevision, pauseMission,
        resumeMission, operationalHaltMission, closeMission, cancelMission, archiveMission,
        publish, loadForMutation, Snapshot, Working
    <2>3. mission'.status # "AWAITING_APPROVAL"
      BY <1>1, <1>6 DEF Execute, createMission, createBlueprintRevision, pauseMission,
        resumeMission, operationalHaltMission, closeMission, cancelMission, archiveMission,
        publish, Snapshot
    <2>4. QED
      BY <1>1, <1>2, <2>1, <2>2, <2>3 DEF BlueprintInv
  <1>7. QED
    BY <1>3, <1>4, <1>5, <1>6

\* Commands keep the types.
LEMMA ExecuteTyped ==
  ASSUME TypeOK, NEW o \in orders, Execute(o)
  PROVE  TypeOK'
  <1>1. mission \in Snapshot /\ o \in Order /\ orders \subseteq Order /\ lifeBegan \in Nat
    BY DEF TypeOK
  <1>2. mission'.revisions \in Seq([id: Revision, base: Revision \cup {None}])
    <2> DEFINE S == [id: Revision, base: Revision \cup {None}]
    <2>1. mission.revisions \in Seq(S)
      BY <1>1 DEF Snapshot
    <2>2. \/ mission'.revisions = mission.revisions
          \/ \E r \in S : mission'.revisions = Append(mission.revisions, r)
      BY ExecuteRevises
    <2> HIDE DEF S
    <2>3. mission'.revisions \in Seq(S)
      BY <2>1, <2>2
    <2>4. QED
      BY <2>3 DEF S
  <1>3. mission' = [status |-> mission'.status, version |-> mission'.version,
                    lifecycleEpoch |-> mission'.lifecycleEpoch,
                    revisions |-> mission'.revisions, submitted |-> mission'.submitted,
                    active |-> mission'.active, timeline |-> mission'.timeline]
    BY <1>1 DEF Execute, createMission, createBlueprintRevision, submitBlueprint,
      activateMission, pauseMission, resumeMission, operationalHaltMission, restartMission,
      closeMission, cancelMission, archiveMission, publish, Snapshot
  <1>4. mission' \in Snapshot
    <2>1. /\ mission.submitted \in Revision \cup {None}
          /\ mission.active \in Revision \cup {None}
          /\ mission.timeline \in Timeline \cup {None}
          /\ o.revision \in Revision \cup {None}
          /\ o.timeline \in Timeline \cup {None}
      BY <1>1 DEF Snapshot, Order
    <2>2. mission'.submitted \in {mission.submitted, o.revision, None}
      BY <1>1 DEF Execute, createMission, createBlueprintRevision, submitBlueprint,
        activateMission, pauseMission, resumeMission, operationalHaltMission, restartMission,
        closeMission, cancelMission, archiveMission, publish, Snapshot
    <2>3. mission'.active \in {mission.active, o.revision, None}
      BY <1>1 DEF Execute, createMission, createBlueprintRevision, submitBlueprint,
        activateMission, pauseMission, resumeMission, operationalHaltMission, restartMission,
        closeMission, cancelMission, archiveMission, publish, Snapshot
    <2>4. mission'.timeline \in {mission.timeline, o.timeline, None}
      BY <1>1 DEF Execute, createMission, createBlueprintRevision, submitBlueprint,
        activateMission, pauseMission, resumeMission, operationalHaltMission, restartMission,
        closeMission, cancelMission, archiveMission, publish, Snapshot
    <2>5. /\ mission'.status \in Status
          /\ mission'.version \in Nat
          /\ mission'.lifecycleEpoch \in Nat
      BY <1>1, ExecuteAdvances DEF Snapshot
    <2>6. QED
      BY <1>2, <1>3, <2>1, <2>2, <2>3, <2>4, <2>5 DEF Snapshot
  <1>5. /\ orders' = orders \ {o}
        /\ mission'.version = mission.version + 1
        /\ mission'.status # "ABSENT"
        /\ lifeBegan' \in Nat
    BY <1>1, ExecuteAdvances DEF Snapshot
  <1>6. mission'.status = "ABSENT" <=> mission'.version = 0
    BY <1>1, <1>5 DEF Snapshot
  <1>7. QED
    BY <1>4, <1>5, <1>6 DEF TypeOK

\* A new revision comes after its base.
LEMMA ExecuteBases ==
  ASSUME TypeOK, BasesComeFirst, NEW o \in orders, Execute(o)
  PROVE  BasesComeFirst'
  <1>1. mission \in Snapshot
    BY DEF TypeOK
  <1>2. CASE mission'.revisions = mission.revisions
    BY <1>2 DEF BasesComeFirst
  <1>3. CASE mission'.revisions # mission.revisions
    <2> DEFINE n == Len(mission.revisions)
    <2>1. PICK r \in [id: Revision, base: Revision \cup {None}] :
            /\ r.id \notin Revised(mission)
            /\ r.base \in Revised(mission) \cup {None}
            /\ mission'.revisions = Append(mission.revisions, r)
      BY <1>3, ExecuteRevises
    <2>2. /\ n \in Nat
          /\ DOMAIN mission.revisions = 1 .. n
          /\ DOMAIN mission'.revisions = 1 .. n + 1
          /\ mission'.revisions[n + 1] = r
          /\ \A i \in 1 .. n : mission'.revisions[i] = mission.revisions[i]
      BY <1>1, <2>1 DEF Snapshot
    <2>3. SUFFICES ASSUME NEW i \in 1 .. n + 1
                   PROVE  /\ mission'.revisions[i].id
                               \notin {mission'.revisions[j].id : j \in 1 .. i - 1}
                          /\ mission'.revisions[i].base
                               \in {mission'.revisions[j].id : j \in 1 .. i - 1} \cup {None}
      BY <2>2 DEF BasesComeFirst
    <2>4. {mission'.revisions[j].id : j \in 1 .. i - 1} = {mission.revisions[j].id : j \in 1 .. i - 1}
      <3>1. 1 .. i - 1 \subseteq 1 .. n
        BY <2>2, <2>3
      <3>2. \A j \in 1 .. i - 1 : mission'.revisions[j] = mission.revisions[j]
        BY <2>2, <3>1
      <3> HIDE DEF n
      <3>3. QED
        BY <3>2
    <2>5. CASE i \in 1 .. n
      BY <2>2, <2>4, <2>5 DEF BasesComeFirst
    <2>6. CASE i = n + 1
      <3>1. {mission.revisions[j].id : j \in 1 .. i - 1} = Revised(mission)
        BY <2>2, <2>6 DEF Revised
      <3>2. QED
        BY <2>1, <2>2, <2>4, <2>6, <3>1
    <2>7. i \in 1 .. n \/ i = n + 1
      <3>1. n \in Nat
        BY <2>2
      <3> HIDE DEF n
      <3>2. QED
        BY <3>1
    <2>8. QED
      BY <2>5, <2>6, <2>7
  <1>4. QED
    BY <1>2, <1>3

\* What begins a life leaves every older expectation behind.
LEMMA ExecuteLife ==
  ASSUME TypeOK, LifeInv, NEW o \in orders, Execute(o)
  PROVE  LifeInv'
  <1>1. /\ mission.version \in Nat /\ mission.lifecycleEpoch \in Nat
        /\ lifeBegan \in Nat
        /\ \A p \in orders : p.epoch \in Nat \cup {None} /\ p.seen \in Nat
    BY DEF TypeOK, Snapshot, Order
  <1>2. /\ orders' \subseteq orders
        /\ mission'.version = mission.version + 1
        /\ \/ /\ lifeBegan' = mission.version + 1
              /\ mission'.lifecycleEpoch = mission.lifecycleEpoch + 1
           \/ /\ lifeBegan' = lifeBegan
              /\ mission'.lifecycleEpoch = mission.lifecycleEpoch
    BY ExecuteAdvances
  <1>3. lifeBegan' <= mission'.version
    BY <1>1, <1>2 DEF LifeInv
  <1>4. ASSUME NEW p \in orders'
        PROVE  OrderInv(p)'
    BY <1>1, <1>2 DEF LifeInv, OrderInv
  <1>5. QED
    BY <1>3, <1>4 DEF LifeInv

-----------------------------------------------------------------------------
(* The invariant *)

\* Sending and giving up touch only the commands on their way.
LEMMA StepKeepsInv ==
  ASSUME IInv, [Next]_vars
  PROVE  IInv'
  <1>1. /\ TypeOK /\ BasesComeFirst /\ BlueprintInv /\ LifeInv
        /\ mission \in Snapshot
    BY DEF IInv, TypeOK
  <1>2. ASSUME NEW o \in Operation, Send(o)
        PROVE  IInv'
    <2>1. PICK kind, p, version, epoch :
            /\ kind \in Kind
            /\ p \in Payload(kind)
            /\ version \in {None, mission.version}
            /\ epoch \in {None, mission.lifecycleEpoch}
            /\ orders' = orders \cup
                 {[operation |-> o, kind |-> kind, revision |-> p[1], base |-> p[2],
                   timeline |-> p[3], version |-> version, epoch |-> epoch,
                   seen |-> mission.version]}
      BY <1>2 DEF Send
    <2> DEFINE sent == [operation |-> o, kind |-> kind, revision |-> p[1], base |-> p[2],
                        timeline |-> p[3], version |-> version, epoch |-> epoch,
                        seen |-> mission.version]
    <2>2. mission' = mission /\ lifeBegan' = lifeBegan
      BY <1>2 DEF Send
    <2>3. /\ p \in (Revision \cup {None}) \X (Revision \cup {None}) \X (Timeline \cup {None})
          /\ p = <<p[1], p[2], p[3]>>
      BY <2>1 DEF Payload
    <2>4. sent \in Order
      BY <1>1, <2>1, <2>3 DEF Order, Snapshot
    <2>5. \A q \in orders : q.operation # sent.operation
      BY <1>2 DEF Send
    <2>6. TypeOK'
      BY <1>1, <2>1, <2>2, <2>3, <2>4, <2>5 DEF TypeOK
    <2>7. BasesComeFirst' /\ BlueprintInv'
      BY <1>1, <2>2 DEF BasesComeFirst, BlueprintInv, Revised
    <2>8. LifeInv'
      <3>1. OrderInv(sent)
        BY <1>1, <2>1, MissionAssumption DEF OrderInv, LifeInv, Snapshot, TypeOK
      <3>2. QED
        BY <1>1, <2>1, <2>2, <3>1 DEF LifeInv, OrderInv
    <2>9. QED
      BY <2>6, <2>7, <2>8 DEF IInv
  <1>3. ASSUME NEW o \in orders, Execute(o)
        PROVE  IInv'
    BY <1>1, <1>3, ExecuteTyped, ExecuteBases, ExecuteBlueprint, ExecuteLife DEF IInv
  <1>4. ASSUME NEW o \in orders, GiveUp(o)
        PROVE  IInv'
    BY <1>1, <1>4 DEF GiveUp, IInv, TypeOK, BasesComeFirst, BlueprintInv, Revised, LifeInv, OrderInv
  <1>5. CASE UNCHANGED vars
    BY <1>1, <1>5 DEF vars, IInv, TypeOK, BasesComeFirst, BlueprintInv, Revised, LifeInv, OrderInv
  <1>6. QED
    BY <1>2, <1>3, <1>4, <1>5 DEF Next

\* The invariant holds: a mission runs what was submitted, and every
\* expectation of an epoch is of the present life or refused.
THEOREM Inductive == Spec => []IInv
  <1>1. Init => IInv
    BY MissionAssumption DEF Init, Absent, IInv, TypeOK, Snapshot, Status, BasesComeFirst,
      BlueprintInv, Working, LifeInv
  <1>2. QED
    BY <1>1, StepKeepsInv, PTL DEF Spec

\* Types are kept, versions count the commands (TypeOK).
THEOREM TypeCorrect == Spec => []TypeOK
  BY Inductive, PTL DEF IInv

\* The base of every revision was there before it (createBlueprintRevision).
THEOREM BasesAreFirst == Spec => []BasesComeFirst
  BY Inductive, PTL DEF IInv

\* A mission at work runs the blueprint that was submitted, one of its
\* revisions (activateMission, restartMission).
THEOREM BlueprintIsSubmitted == Spec => []RunsWhatWasSubmitted
  <1>1. IInv => RunsWhatWasSubmitted
    BY DEF IInv, BlueprintInv, RunsWhatWasSubmitted
  <1>2. QED
    BY <1>1, Inductive, PTL

\* No command that expects an epoch takes effect in a life that its sender had
\* not seen (loadForMutation).
THEOREM EpochsFence == Spec => FencedToItsLife
  <1>1. ASSUME IInv, NEW o \in orders, Execute(o), o.epoch # None
        PROVE  o.seen >= lifeBegan
    <2>1. /\ mission.lifecycleEpoch \in Nat /\ lifeBegan \in Nat /\ o.seen \in Nat
          /\ o.epoch \in Nat \cup {None}
          /\ OrderInv(o)
      BY <1>1 DEF IInv, TypeOK, Snapshot, Order, LifeInv
    <2>2. CASE createMission(o)
      <3>1. mission.version = 0
        BY <1>1, <2>2 DEF createMission, IInv, TypeOK
      <3>2. QED
        BY <1>1, <2>1, <3>1 DEF IInv, LifeInv
    <2>3. CASE ~createMission(o)
      <3>1. o.epoch = mission.lifecycleEpoch
        BY <1>1, <2>3 DEF Execute, createBlueprintRevision, submitBlueprint, activateMission,
          pauseMission, resumeMission, operationalHaltMission, restartMission, closeMission,
          cancelMission, archiveMission, loadForMutation
      <3>2. QED
        BY <1>1, <2>1, <3>1 DEF OrderInv
    <2>4. QED
      BY <2>2, <2>3
  <1>2. IInv /\ [Next]_vars =>
          [\A o \in orders : Execute(o) /\ o.epoch # None => o.seen >= lifeBegan]_vars
    BY <1>1
  <1>3. QED
    BY <1>2, Inductive, PTL DEF Spec, FencedToItsLife

\* A mission works on what was submitted, and no command reaches it out of a
\* life that is over (MissionService, all of its commands).
THEOREM LifeIsSound == Spec => LifeHolds
  BY BlueprintIsSubmitted, EpochsFence, PTL DEF LifeHolds
=============================================================================
