----------------------- MODULE CommandPipeline_proofs -----------------------
(***************************************************************************)
(* Proofs about the command pipeline, for any sets of aggregates,          *)
(* operations, requests in flight and expectations.                        *)
(*                                                                         *)
(* Type correctness holds for both adapters.  Everything else is proved of *)
(* the SQLite adapter, from one inductive invariant: the safety properties *)
(* of the module, plus what they do not say of requests in flight, that a  *)
(* loaded copy is the aggregate as it was at the copy's version and that   *)
(* an answer is an event of the history.                                   *)
(***************************************************************************)
EXTENDS CommandPipeline, TLAPS

-----------------------------------------------------------------------------
(* Type correctness *)

\* The copy a command leaves and the event it emits are well-formed values.
LEMMA NextValuesTyped ==
  ASSUME NEW q \in InFlight
  PROVE  /\ NextSnapshot(q) \in Snapshot
         /\ NextEvent(q) \in Event
  BY DEF InFlight, NextSnapshot, NextEvent, Snapshot, Event

\* An empty store with no request in flight is well typed.
LEMMA TypeInit == Init => TypeOK
  BY DEF Init, TypeOK, NoAggregates, Absent, Snapshot

\* Every step of a request, a fault and a crash keep the types.
LEMMA TypeStep == TypeOK /\ [Next]_vars => TypeOK'
<1> SUFFICES ASSUME TypeOK, [Next]_vars PROVE TypeOK'
  OBVIOUS
<1> USE DEF TypeOK
<1>1. CASE Receive
  BY <1>1 DEF Receive, store, InFlight, Snapshot, Absent
<1>2. ASSUME NEW q \in requests, ReplayPrior(q) PROVE TypeOK'
  <2>1. q \in InFlight
    OBVIOUS
  <2>2. PICK rec \in findOperation(q.operation) :
          Becomes(q, [q EXCEPT !.step = "respond", !.answer = {rec.event}])
    BY <1>2 DEF ReplayPrior
  <2>3. rec.event \in Event
    BY <2>2 DEF findOperation, OperationRecord
  <2>4. [q EXCEPT !.step = "respond", !.answer = {rec.event}] \in InFlight
    BY <2>1, <2>3 DEF InFlight
  <2> QED
    BY <1>2, <2>2, <2>4 DEF ReplayPrior, Becomes, store
<1>3. ASSUME NEW q \in requests, ReplayNone(q) PROVE TypeOK'
  <2>1. [q EXCEPT !.step = "load"] \in InFlight
    BY DEF InFlight
  <2> QED
    BY <1>3, <2>1 DEF ReplayNone, Becomes, store
<1>4. ASSUME NEW q \in requests, Load(q) PROVE TypeOK'
  <2>1. find(q) \in Snapshot
    BY DEF find, InFlight, Command
  <2>2. [q EXCEPT !.step = "commit", !.copy = find(q)] \in InFlight
    BY <2>1 DEF InFlight
  <2> QED
    BY <1>4, <2>2 DEF Load, Becomes, store
<1>5. ASSUME NEW q \in requests, Commit(q) PROVE TypeOK'
  <2>1. q \in InFlight
    OBVIOUS
  <2>2. NextSnapshot(q) \in Snapshot /\ NextEvent(q) \in Event
    BY <2>1, NextValuesTyped
  <2>3. [q EXCEPT !.step = "respond", !.answer = {NextEvent(q)}] \in InFlight
    BY <2>1, <2>2 DEF InFlight
  <2>4. [operation |-> q.operation, fingerprint |-> q.command, event |-> NextEvent(q)]
          \in OperationRecord
    BY <2>1, <2>2 DEF InFlight, OperationRecord
  <2>5. aggregates' \in [Aggregate -> Snapshot]
    BY <1>5, <2>2 DEF Commit, Write
  <2> QED
    BY <1>5, <2>2, <2>3, <2>4, <2>5 DEF Commit, Write, Becomes
<1>6. ASSUME NEW q \in requests, Respond(q) PROVE TypeOK'
  <2>1. q.command \in Command /\ q.answer \subseteq Event
    BY DEF InFlight
  <2>2. [fingerprint: {q.command}, event: q.answer] \subseteq [fingerprint: Command, event: Event]
    BY <2>1
  <2> QED
    BY <1>6, <2>2 DEF Respond, store
<1>7. ASSUME NEW q \in requests, Refuse(q) \/ StorageFault(q) PROVE TypeOK'
  BY <1>7 DEF Refuse, StorageFault, store
<1>8. CASE Crash
  <2>1. NoAggregates \in [Aggregate -> Snapshot]
    BY DEF NoAggregates, Absent, Snapshot
  <2> QED
    BY <1>8, <2>1 DEF Crash, Surviving
<1>9. CASE UNCHANGED vars
  BY <1>9 DEF vars, store
<1> QED
  BY <1>1, <1>2, <1>3, <1>4, <1>5, <1>6, <1>7, <1>8, <1>9 DEF Next

\* Every variable keeps its type, whichever adapter is in use: in particular
\* rows, copies and answers are always whole values, never a mixture.
THEOREM TypeCorrect == Spec => []TypeOK
<1>1. TypeOK /\ [Next]_vars => TypeOK'
  BY TypeStep
<1> QED
  BY <1>1, TypeInit, PTL DEF Spec

-----------------------------------------------------------------------------
(* The inductive invariant *)

\* What a request about to commit knows: its copy is the aggregate as its
\* history up to the copy's version made it, and the checks made when it was
\* loaded hold of that version.
Faithful(q) ==
  /\ q.copy.version <= find(q).version
  /\ q.copy.applied =
       OperationsOf({e \in History(q.command.aggregate) : e.version <= q.copy.version})
  /\ q.command.create <=> q.copy.version = 0
  /\ q.command.expected \in {NoExpectation, q.copy.version}

CopyFaithful == \A q \in requests : q.step = "commit" => Faithful(q)

\* An answer under way is an event of the history that the same command made.
AnswerInHistory ==
  \A q \in requests : q.step = "respond" =>
    \E e \in events : e.command = q.command /\ q.answer = {e}

\* So is one that was received.
RepliesInHistory ==
  \A p \in replies : p.event \in events /\ p.event.command = p.fingerprint

StoreInv ==
  /\ HistoryGapless
  /\ NoLostUpdate
  /\ DecidedOnLatest
  /\ OperationAppliedOnce
  /\ ExpectationHonoured

IInv ==
  /\ TypeOK
  /\ StoreInv
  /\ CopyFaithful
  /\ AnswerInHistory
  /\ RepliesInHistory

-----------------------------------------------------------------------------
(* Sets of operations *)

\* Adding an event adds its operation to the operations of a history.
LEMMA OperationsGrow ==
  ASSUME NEW E, NEW e
  PROVE  OperationsOf(E \cup {e}) = OperationsOf(E) \cup {e.operation}
  BY DEF OperationsOf

-----------------------------------------------------------------------------
(* The steps of the pipeline over SQLite, as the store sees them *)

\* Over SQLite nothing but an accepted commit changes the store: not a replay,
\* a refusal, a fault, an answer or the death of the process.
LEMMA OnlyCommitsWrite ==
  ASSUME Adapter = "sqlite", [Next]_vars
  PROVE  UNCHANGED store \/ \E q \in requests : Commit(q)
  BY DEF Next, vars, store, Receive, ReplayPrior, ReplayNone, Load, Respond, Refuse,
         StorageFault, Crash, Surviving

\* The version condition of the update decides: when a commit is accepted the
\* aggregate still is what the request loaded.
LEMMA AcceptedCopyIsCurrent ==
  ASSUME Adapter = "sqlite", IInv, NEW q \in requests, q.step = "commit", Accepts(q)
  PROVE  /\ find(q).version = q.copy.version
         /\ q.copy.applied = OperationsOf(History(q.command.aggregate))
         /\ \A e \in History(q.command.aggregate) : e.version \in 1 .. q.copy.version
         /\ \A e \in events : e.operation # q.operation
<1> DEFINE a == q.command.aggregate
<1>1. /\ q \in InFlight
      /\ a \in Aggregate
      /\ q.copy.version \in Nat
      /\ aggregates[a].version \in Nat
  BY DEF IInv, TypeOK, InFlight, Command, Snapshot
<1>2. /\ q.copy.version <= find(q).version
      /\ q.copy.applied = OperationsOf({e \in History(a) : e.version <= q.copy.version})
      /\ q.command.create <=> q.copy.version = 0
  BY DEF IInv, CopyFaithful, Faithful
<1>3. find(q).version = q.copy.version
  <2>1. SqliteAccepts(q)
    BY DEF Accepts
  <2>2. CASE q.command.create
    BY <1>1, <1>2, <2>1, <2>2 DEF SqliteAccepts, Exists, find
  <2>3. CASE ~q.command.create
    BY <1>1, <2>1, <2>3 DEF SqliteAccepts, NextSnapshot, find
  <2> QED
    BY <2>2, <2>3
<1>4. \A e \in History(a) : e.version \in 1 .. q.copy.version
  <2>1. {e.version : e \in History(a)} = 1 .. aggregates[a].version
    BY <1>1 DEF IInv, StoreInv, HistoryGapless
  <2> QED
    BY <1>3, <2>1 DEF find
<1>5. {e \in History(a) : e.version <= q.copy.version} = History(a)
  BY <1>1, <1>4
<1>6. \A e \in events : e.operation # q.operation
  <2>1. findOperation(q.operation) = {}
    BY DEF Accepts, SqliteAccepts
  <2>2. operations = {[operation |-> e.operation, fingerprint |-> e.command, event |-> e] :
                        e \in events}
    BY DEF IInv, StoreInv, OperationAppliedOnce
  <2> SUFFICES ASSUME NEW e \in events PROVE e.operation # q.operation
    OBVIOUS
  <2> DEFINE rec == [operation |-> e.operation, fingerprint |-> e.command, event |-> e]
  <2>3. rec \in operations
    BY <2>2
  <2>4. rec.operation # q.operation
    BY <2>1, <2>3 DEF findOperation
  <2> QED
    BY <2>4
<1> QED
  BY <1>2, <1>3, <1>4, <1>5, <1>6

\* What an accepted commit does to the store.
LEMMA CommitEffect ==
  ASSUME Adapter = "sqlite", NEW q \in requests, Commit(q)
  PROVE  /\ q.step = "commit"
         /\ Accepts(q)
         /\ aggregates' = [aggregates EXCEPT ![q.command.aggregate] = NextSnapshot(q)]
         /\ events' = events \cup {NextEvent(q)}
         /\ operations' = operations \cup
              {[operation |-> q.operation, fingerprint |-> q.command, event |-> NextEvent(q)]}
         /\ outbox' = outbox \cup {NextEvent(q)}
  BY DEF Commit, Write

\* History(a) is a definition over a variable; its next value is this.
LEMMA HistoryAfterCommit ==
  ASSUME Adapter = "sqlite", IInv, NEW q \in requests, Commit(q), NEW a \in Aggregate
  PROVE  /\ a = q.command.aggregate =>
              /\ HistoryIn(events', a) = HistoryIn(events, a) \cup {NextEvent(q)}
              /\ aggregates'[a] = NextSnapshot(q)
         /\ a # q.command.aggregate =>
              /\ HistoryIn(events', a) = HistoryIn(events, a)
              /\ aggregates'[a] = aggregates[a]
<1>1. NextEvent(q).command.aggregate = q.command.aggregate
  BY DEF NextEvent
<1>2. aggregates \in [Aggregate -> Snapshot]
  BY DEF IInv, TypeOK
<1>3. events' = events \cup {NextEvent(q)}
  BY CommitEffect
<1>4. HistoryIn(events', a) = IF a = q.command.aggregate
                             THEN HistoryIn(events, a) \cup {NextEvent(q)}
                             ELSE HistoryIn(events, a)
  BY <1>1, <1>3 DEF HistoryIn
<1>5. aggregates' = [aggregates EXCEPT ![q.command.aggregate] = NextSnapshot(q)]
  BY CommitEffect
<1>6. aggregates'[a] = IF a = q.command.aggregate THEN NextSnapshot(q) ELSE aggregates[a]
  BY <1>2, <1>5
<1> QED
  BY <1>4, <1>6

-----------------------------------------------------------------------------
(* A commit preserves the invariants of the store *)

\* The event of an accepted commit has the next version number.
LEMMA CommitKeepsHistoryGapless ==
  ASSUME Adapter = "sqlite", IInv, NEW q \in requests, Commit(q)
  PROVE  HistoryGapless'
<1> DEFINE b == q.command.aggregate
           ev == NextEvent(q)
<1>1. Accepts(q) /\ q.step = "commit" /\ events' = events \cup {ev}
  BY CommitEffect
<1>2. /\ aggregates[b].version = q.copy.version
      /\ \A e \in HistoryIn(events, b) : e.version \in 1 .. q.copy.version
  BY <1>1, AcceptedCopyIsCurrent DEF find, History
<1>3. q.copy.version \in Nat /\ b \in Aggregate /\ ev.version = q.copy.version + 1
  BY DEF IInv, TypeOK, InFlight, Command, Snapshot, NextEvent
<1>4. ASSUME NEW a \in Aggregate
      PROVE  {e.version : e \in HistoryIn(events', a)} = 1 .. aggregates'[a].version
  <2>1. {e.version : e \in HistoryIn(events, a)} = 1 .. aggregates[a].version
    BY DEF IInv, StoreInv, HistoryGapless, History
  <2>2. CASE a = b
    <3>1. HistoryIn(events', a) = HistoryIn(events, a) \cup {ev}
      BY <2>2, HistoryAfterCommit
    <3>2. aggregates'[a] = NextSnapshot(q) /\ NextSnapshot(q).version = q.copy.version + 1
      BY <2>2, HistoryAfterCommit DEF NextSnapshot
    <3>3. {e.version : e \in HistoryIn(events', a)} =
            {e.version : e \in HistoryIn(events, a)} \cup {ev.version}
      BY <3>1
    <3>4. {e.version : e \in HistoryIn(events', a)} =
            (1 .. q.copy.version) \cup {q.copy.version + 1}
      BY <1>2, <1>3, <2>1, <2>2, <3>3
    <3>5. (1 .. q.copy.version) \cup {q.copy.version + 1} = 1 .. (q.copy.version + 1)
      BY <1>3
    <3> QED
      BY <3>2, <3>4, <3>5
  <2>3. CASE a # b
    BY <2>1, <2>3, HistoryAfterCommit
  <2> QED
    BY <2>2, <2>3
<1>5. ASSUME NEW e \in events', NEW f \in events',
             e.command.aggregate = f.command.aggregate, e.version = f.version
      PROVE  e = f
  <2>1. CASE e \in events /\ f \in events
    BY <1>5, <2>1 DEF IInv, StoreInv, HistoryGapless
  <2>2. ev.command.aggregate = b
    BY DEF NextEvent
  <2>3. ASSUME NEW g \in events, g.command.aggregate = b
        PROVE  g.version # ev.version
    BY <1>2, <1>3, <2>3 DEF HistoryIn
  <2> QED
    BY <1>1, <1>5, <2>1, <2>2, <2>3
<1> QED
  BY <1>4, <1>5 DEF HistoryGapless, History

\* The snapshot an accepted commit writes adds its operation to all others.
LEMMA CommitKeepsNoLostUpdate ==
  ASSUME Adapter = "sqlite", IInv, NEW q \in requests, Commit(q)
  PROVE  NoLostUpdate'
<1> DEFINE b == q.command.aggregate
           ev == NextEvent(q)
<1> SUFFICES ASSUME NEW a \in Aggregate
             PROVE  aggregates'[a].applied = OperationsOf(HistoryIn(events', a))
  BY DEF NoLostUpdate, History
<1>1. aggregates[a].applied = OperationsOf(HistoryIn(events, a))
  BY DEF IInv, StoreInv, NoLostUpdate, History
<1>2. CASE a = b
  <2>1. HistoryIn(events', a) = HistoryIn(events, a) \cup {ev} /\ aggregates'[a] = NextSnapshot(q)
    BY <1>2, HistoryAfterCommit
  <2>2. OperationsOf(HistoryIn(events, a) \cup {ev}) =
          OperationsOf(HistoryIn(events, a)) \cup {ev.operation}
    BY OperationsGrow
  <2>3. ev.operation = q.operation /\ NextSnapshot(q).applied = q.copy.applied \cup {q.operation}
    BY DEF NextEvent, NextSnapshot
  <2>4. q.copy.applied = OperationsOf(HistoryIn(events, a))
    BY <1>2, CommitEffect, AcceptedCopyIsCurrent DEF History
  <2> QED
    BY <2>1, <2>2, <2>3, <2>4
<1>3. CASE a # b
  BY <1>1, <1>3, HistoryAfterCommit
<1> QED
  BY <1>2, <1>3

\* The event of an accepted commit saw all events before it, and is before none.
LEMMA CommitKeepsDecidedOnLatest ==
  ASSUME Adapter = "sqlite", IInv, NEW q \in requests, Commit(q)
  PROVE  DecidedOnLatest'
<1> DEFINE b == q.command.aggregate
           ev == NextEvent(q)
           Before(E, e) == {f \in HistoryIn(E, e.command.aggregate) : f.version < e.version}
<1>1. events' = events \cup {ev}
  BY CommitEffect
<1>2. /\ ev.command.aggregate = b
      /\ ev.version = q.copy.version + 1
      /\ ev.seen = q.copy.applied
      /\ q.copy.version \in Nat
  BY DEF NextEvent, IInv, TypeOK, InFlight, Snapshot
<1>3. /\ q.copy.applied = OperationsOf(HistoryIn(events, b))
      /\ \A e \in HistoryIn(events, b) : e.version \in 1 .. q.copy.version
  BY CommitEffect, AcceptedCopyIsCurrent DEF History
<1>4. ASSUME NEW e \in events'
      PROVE  e.seen = OperationsOf(Before(events', e))
  <2>1. CASE e = ev
    <3>1. Before(events', ev) = HistoryIn(events, b)
      BY <1>1, <1>2, <1>3 DEF HistoryIn
    <3> QED
      BY <1>2, <1>3, <2>1, <3>1
  <2>2. CASE e \in events
    <3>1. e.seen = OperationsOf(Before(events, e))
      BY <2>2 DEF IInv, StoreInv, DecidedOnLatest, History
    <3>2. Before(events', e) = Before(events, e)
      BY <1>1, <1>2, <1>3, <2>2 DEF HistoryIn
    <3> QED
      BY <3>1, <3>2
  <2> QED
    BY <1>1, <2>1, <2>2
<1> QED
  BY <1>4 DEF DecidedOnLatest, History

\* A commit is accepted for new operations only, and writes its event, record
\* and outbox row together.
LEMMA CommitKeepsOperationAppliedOnce ==
  ASSUME Adapter = "sqlite", IInv, NEW q \in requests, Commit(q)
  PROVE  OperationAppliedOnce'
<1> DEFINE ev == NextEvent(q)
           Record(e) == [operation |-> e.operation, fingerprint |-> e.command, event |-> e]
<1>1. /\ events' = events \cup {ev}
      /\ outbox' = outbox \cup {ev}
      /\ operations' = operations \cup {Record(ev)}
  BY CommitEffect DEF NextEvent
<1>2. \A e \in events : e.operation # ev.operation
  BY CommitEffect, AcceptedCopyIsCurrent DEF NextEvent
<1>3. /\ \A e, f \in events : e.operation = f.operation => e = f
      /\ operations = {Record(e) : e \in events}
      /\ outbox = events
  BY DEF IInv, StoreInv, OperationAppliedOnce
<1>4. \A e, f \in events' : e.operation = f.operation => e = f
  BY <1>1, <1>2, <1>3
<1>5. operations' = {Record(e) : e \in events'}
  <2> HIDE DEF Record
  <2> QED
    BY <1>1, <1>3
<1> QED
  BY <1>1, <1>3, <1>4, <1>5 DEF OperationAppliedOnce

\* The version a command expected is still the stored one when it is committed.
LEMMA CommitKeepsExpectationHonoured ==
  ASSUME Adapter = "sqlite", IInv, NEW q \in requests, Commit(q)
  PROVE  ExpectationHonoured'
<1> DEFINE ev == NextEvent(q)
<1>1. events' = events \cup {ev}
  BY CommitEffect
<1>2. /\ ev.command = q.command
      /\ ev.version = q.copy.version + 1
      /\ q.copy.version \in Nat
  BY DEF NextEvent, IInv, TypeOK, InFlight, Snapshot
<1>3. /\ q.command.create <=> q.copy.version = 0
      /\ q.command.expected \in {NoExpectation, q.copy.version}
  BY CommitEffect DEF IInv, CopyFaithful, Faithful
<1>4. /\ ev.command.expected \in {NoExpectation, ev.version - 1}
      /\ ev.command.create <=> ev.version = 1
  BY <1>2, <1>3
<1> QED
  BY <1>1, <1>4 DEF IInv, StoreInv, ExpectationHonoured

\* Whatever step is taken, the invariants of the store go on holding.
LEMMA StoreStep ==
  ASSUME Adapter = "sqlite", IInv, [Next]_vars
  PROVE  StoreInv'
<1>1. CASE UNCHANGED store
  BY <1>1 DEF store, IInv, StoreInv, HistoryGapless, NoLostUpdate, DecidedOnLatest,
              OperationAppliedOnce, ExpectationHonoured, History
<1>2. CASE \E q \in requests : Commit(q)
  BY <1>2, CommitKeepsHistoryGapless, CommitKeepsNoLostUpdate, CommitKeepsDecidedOnLatest,
     CommitKeepsOperationAppliedOnce, CommitKeepsExpectationHonoured DEF StoreInv
<1> QED
  BY <1>1, <1>2, OnlyCommitsWrite

-----------------------------------------------------------------------------
(* A step preserves what requests in flight know *)

\* Only loading makes a request one that is about to commit.
LEMMA CommittersOnlyFromLoad ==
  ASSUME Adapter = "sqlite", [Next]_vars, NEW r \in requests', r.step = "commit",
         r \notin requests, requests \subseteq InFlight
  PROVE  UNCHANGED store /\ \E q \in requests :
           Load(q) /\ r = [q EXCEPT !.step = "commit", !.copy = find(q)]
<1>1. ASSUME Receive PROVE FALSE
  <2>1. PICK i \in Request, o \in Operation, c \in Command :
          requests' = requests \cup
            {[id |-> i, step |-> "replay", operation |-> o, command |-> c,
              copy |-> Absent, answer |-> {}]}
    BY <1>1 DEF Receive
  <2> QED
    BY <2>1
<1>2. ASSUME NEW q \in requests, ReplayPrior(q) PROVE FALSE
  BY <1>2 DEF ReplayPrior, Becomes, InFlight
<1>3. ASSUME NEW q \in requests, ReplayNone(q) PROVE FALSE
  BY <1>3 DEF ReplayNone, Becomes, InFlight
<1>4. ASSUME NEW q \in requests, Load(q)
      PROVE  UNCHANGED store /\ r = [q EXCEPT !.step = "commit", !.copy = find(q)]
  BY <1>4 DEF Load, Becomes
<1>5. ASSUME NEW q \in requests, Commit(q) PROVE FALSE
  BY <1>5 DEF Commit, Becomes, InFlight
<1>6. ASSUME NEW q \in requests, Respond(q) \/ Refuse(q) \/ StorageFault(q) PROVE FALSE
  BY <1>6 DEF Respond, Refuse, StorageFault
<1>7. CASE Crash
  BY <1>7 DEF Crash
<1>8. CASE UNCHANGED vars
  BY <1>8 DEF vars
<1> QED
  BY <1>1, <1>2, <1>3, <1>4, <1>5, <1>6, <1>7, <1>8 DEF Next

\* What a request loads is the effect of the history as it is at that moment.
LEMMA LoadedCopyFaithful ==
  ASSUME IInv, NEW q \in requests, Loadable(q)
  PROVE  /\ find(q).applied =
              OperationsOf({e \in History(q.command.aggregate) : e.version <= find(q).version})
         /\ q.command.create <=> find(q).version = 0
         /\ q.command.expected \in {NoExpectation, find(q).version}
<1> DEFINE a == q.command.aggregate
<1>1. a \in Aggregate /\ find(q).version \in Nat /\ find(q) = aggregates[a]
  BY DEF IInv, TypeOK, InFlight, Command, Snapshot, find
<1>2. find(q).applied = OperationsOf(History(a))
  BY <1>1 DEF IInv, StoreInv, NoLostUpdate
<1>3. {e.version : e \in History(a)} = 1 .. find(q).version
  BY <1>1 DEF IInv, StoreInv, HistoryGapless
<1>4. {e \in History(a) : e.version <= find(q).version} = History(a)
  BY <1>1, <1>3
<1>5. /\ q.command.create <=> find(q).version = 0
      /\ q.command.expected \in {NoExpectation, find(q).version}
  BY <1>1 DEF Loadable, Exists
<1> QED
  BY <1>2, <1>4, <1>5

\* A commit leaves what other requests loaded a true picture of the past: its
\* event is newer than any copy.
LEMMA CopiesOutliveCommits ==
  ASSUME Adapter = "sqlite", IInv, NEW q \in requests, Commit(q),
         NEW r \in requests, r.step = "commit"
  PROVE  Faithful(r)'
<1> DEFINE a == r.command.aggregate
           ev == NextEvent(q)
           UpTo(E) == {e \in HistoryIn(E, a) : e.version <= r.copy.version}
<1>1. Faithful(r)
  BY DEF IInv, CopyFaithful
<1>2. /\ a \in Aggregate /\ r.copy.version \in Nat /\ q.copy.version \in Nat
      /\ aggregates[a].version \in Nat
  BY DEF IInv, TypeOK, InFlight, Command, Snapshot
<1>3. ev.command.aggregate = q.command.aggregate /\ ev.version = q.copy.version + 1
  BY DEF NextEvent
<1>4. find(q).version = q.copy.version /\ events' = events \cup {ev}
  BY CommitEffect, AcceptedCopyIsCurrent
<1>5. r.copy.version <= aggregates[a].version
  BY <1>1 DEF Faithful, find
<1>6. UpTo(events') = UpTo(events)
  BY <1>2, <1>3, <1>4, <1>5 DEF HistoryIn, find
<1>7. r.copy.version <= aggregates'[a].version
  <2>1. CASE a = q.command.aggregate
    <3>1. aggregates'[a] = NextSnapshot(q) /\ NextSnapshot(q).version = q.copy.version + 1
      BY <1>2, <2>1, HistoryAfterCommit DEF NextSnapshot
    <3> QED
      BY <1>2, <1>4, <1>5, <2>1, <3>1 DEF find
  <2>2. CASE a # q.command.aggregate
    BY <1>2, <1>5, <2>2, HistoryAfterCommit
  <2> QED
    BY <2>1, <2>2
<1>8. r.copy.applied = OperationsOf(UpTo(events'))
  BY <1>1, <1>6 DEF Faithful, History
<1> QED
  BY <1>1, <1>7, <1>8 DEF Faithful, find, History

\* The copies of all requests about to commit stay true pictures of a past.
LEMMA CopyFaithfulStep ==
  ASSUME Adapter = "sqlite", IInv, [Next]_vars
  PROVE  CopyFaithful'
<1> SUFFICES ASSUME NEW r \in requests', r.step = "commit" PROVE Faithful(r)'
  BY DEF CopyFaithful
<1>1. CASE r \in requests
  <2>1. Faithful(r)
    BY <1>1 DEF IInv, CopyFaithful
  <2>2. CASE UNCHANGED store
    BY <2>1, <2>2 DEF Faithful, store, find, History
  <2>3. CASE \E q \in requests : Commit(q)
    BY <1>1, <2>3, CopiesOutliveCommits
  <2> QED
    BY <2>2, <2>3, OnlyCommitsWrite
<1>2. CASE r \notin requests
  <2>1. requests \subseteq InFlight
    BY DEF IInv, TypeOK
  <2>2. PICK q \in requests : Load(q) /\ r = [q EXCEPT !.step = "commit", !.copy = find(q)]
    BY <1>2, <2>1, CommittersOnlyFromLoad
  <2>3. UNCHANGED store
    BY <1>2, <2>1, CommittersOnlyFromLoad
  <2>4. r.command = q.command /\ r.copy = find(q)
    BY <2>1, <2>2 DEF InFlight
  <2>5. find(r) = find(q) /\ find(q).version \in Nat
    BY <2>4 DEF find, IInv, TypeOK, InFlight, Command, Snapshot
  <2>6. Faithful(r)
    BY <2>2, <2>4, <2>5, LoadedCopyFaithful DEF Load, Faithful
  <2> QED
    BY <2>3, <2>6 DEF Faithful, store, find, History
<1> QED
  BY <1>1, <1>2

-----------------------------------------------------------------------------
(* A step preserves what answers are *)

\* The history over SQLite only grows.
LEMMA EventsAreKept ==
  ASSUME Adapter = "sqlite", [Next]_vars
  PROVE  events \subseteq events'
  BY OnlyCommitsWrite, CommitEffect DEF store

\* A replayed answer is the event the operation's record was written with.
LEMMA ReplayAnswersFromHistory ==
  ASSUME IInv, NEW o, NEW rec \in findOperation(o)
  PROVE  rec.event \in events /\ rec.event.command = rec.fingerprint
<1>1. operations = {[operation |-> e.operation, fingerprint |-> e.command, event |-> e] :
                      e \in events}
  BY DEF IInv, StoreInv, OperationAppliedOnce
<1>2. rec \in operations
  BY DEF findOperation
<1>3. PICK e \in events :
        rec = [operation |-> e.operation, fingerprint |-> e.command, event |-> e]
  BY <1>1, <1>2
<1> QED
  BY <1>3

\* What a request is about to answer is, and stays, an event of the history.
LEMMA AnswerInHistoryStep ==
  ASSUME Adapter = "sqlite", IInv, [Next]_vars
  PROVE  AnswerInHistory'
<1> SUFFICES ASSUME NEW r \in requests', r.step = "respond"
             PROVE  \E e \in events' : e.command = r.command /\ r.answer = {e}
  BY DEF AnswerInHistory
<1> USE EventsAreKept
<1>0. requests \subseteq InFlight
  BY DEF IInv, TypeOK
<1>1. CASE r \in requests
  BY <1>1 DEF IInv, AnswerInHistory
<1>2. CASE r \notin requests
  <2>1. ASSUME Receive PROVE FALSE
    <3>1. PICK i \in Request, o \in Operation, c \in Command :
            requests' = requests \cup
              {[id |-> i, step |-> "replay", operation |-> o, command |-> c,
                copy |-> Absent, answer |-> {}]}
      BY <2>1 DEF Receive
    <3> QED
      BY <1>2, <3>1
  <2>2. ASSUME NEW q \in requests, ReplayPrior(q)
        PROVE  \E e \in events' : e.command = r.command /\ r.answer = {e}
    <3>1. PICK rec \in findOperation(q.operation) :
            /\ rec.fingerprint = q.command
            /\ Becomes(q, [q EXCEPT !.step = "respond", !.answer = {rec.event}])
      BY <2>2 DEF ReplayPrior
    <3>2. r.command = q.command /\ r.answer = {rec.event}
      BY <1>0, <1>2, <3>1 DEF Becomes, InFlight
    <3> QED
      BY <3>1, <3>2, ReplayAnswersFromHistory
  <2>3. ASSUME NEW q \in requests, ReplayNone(q) \/ Load(q) PROVE FALSE
    BY <1>0, <1>2, <2>3 DEF ReplayNone, Load, Becomes, InFlight
  <2>4. ASSUME NEW q \in requests, Commit(q)
        PROVE  \E e \in events' : e.command = r.command /\ r.answer = {e}
    <3>1. r = [q EXCEPT !.step = "respond", !.answer = {NextEvent(q)}]
      BY <1>2, <2>4 DEF Commit, Becomes
    <3>2. r.command = q.command /\ r.answer = {NextEvent(q)}
      BY <1>0, <3>1 DEF InFlight
    <3>3. NextEvent(q) \in events' /\ NextEvent(q).command = q.command
      BY <2>4, CommitEffect DEF NextEvent
    <3> QED
      BY <3>2, <3>3
  <2>5. ASSUME NEW q \in requests, Respond(q) \/ Refuse(q) \/ StorageFault(q) PROVE FALSE
    BY <1>2, <2>5 DEF Respond, Refuse, StorageFault
  <2>6. ASSUME Crash \/ UNCHANGED vars PROVE FALSE
    BY <1>2, <2>6 DEF Crash, vars
  <2> QED
    BY <2>1, <2>2, <2>3, <2>4, <2>5, <2>6 DEF Next
<1> QED
  BY <1>1, <1>2

\* An answer is delivered as it was decided, and nothing else is delivered.
LEMMA RespondEffect ==
  ASSUME IInv, NEW q \in requests, Respond(q)
  PROVE  \E e \in events :
           /\ e.command = q.command
           /\ replies' = replies \cup {[fingerprint |-> e.command, event |-> e]}
           /\ UNCHANGED store
<1>1. PICK e \in events : e.command = q.command /\ q.answer = {e}
  BY DEF Respond, IInv, AnswerInHistory
<1>2. [fingerprint: {q.command}, event: q.answer] = {[fingerprint |-> e.command, event |-> e]}
  <2> DEFINE pairs == [fingerprint: {q.command}, event: q.answer]
             pair == [fingerprint |-> e.command, event |-> e]
  <2>1. pair \in pairs
    BY <1>1
  <2>2. \A p \in pairs : p = pair
    BY <1>1
  <2> QED
    BY <2>1, <2>2
<1> QED
  BY <1>1, <1>2 DEF Respond

\* Clients hear of events only through an answer.
LEMMA OnlyRespondReplies ==
  ASSUME [Next]_vars
  PROVE  UNCHANGED replies \/ \E q \in requests : Respond(q)
  BY DEF Next, vars, Receive, ReplayPrior, ReplayNone, Load, Commit, Refuse, StorageFault, Crash

\* What clients have heard of is, and stays, in the history.
LEMMA RepliesInHistoryStep ==
  ASSUME Adapter = "sqlite", IInv, [Next]_vars
  PROVE  RepliesInHistory'
<1>1. \A p \in replies : p.event \in events' /\ p.event.command = p.fingerprint
  BY EventsAreKept DEF IInv, RepliesInHistory
<1>2. CASE UNCHANGED replies
  BY <1>1, <1>2 DEF RepliesInHistory
<1>3. CASE \E q \in requests : Respond(q)
  <2>1. PICK e \in events : replies' = replies \cup {[fingerprint |-> e.command, event |-> e]}
    BY <1>3, RespondEffect
  <2> QED
    BY <1>1, <2>1, EventsAreKept DEF RepliesInHistory
<1> QED
  BY <1>2, <1>3, OnlyRespondReplies

-----------------------------------------------------------------------------
(* The theorems *)

\* The inductive invariant holds of an empty store.
LEMMA IInvInit == Init => IInv
<1> SUFFICES ASSUME Init PROVE IInv
  OBVIOUS
<1>1. TypeOK
  BY TypeInit
<1>2. \A a \in Aggregate : aggregates[a].version = 0 /\ aggregates[a].applied = {}
  BY DEF Init, NoAggregates, Absent
<1>3. \A a : History(a) = {}
  BY DEF Init, History, HistoryIn
<1>4. HistoryGapless
  BY <1>2, <1>3 DEF Init, HistoryGapless
<1>5. NoLostUpdate
  BY <1>2, <1>3 DEF NoLostUpdate, OperationsOf
<1>6. DecidedOnLatest /\ OperationAppliedOnce /\ ExpectationHonoured
  BY DEF Init, DecidedOnLatest, OperationAppliedOnce, ExpectationHonoured
<1>7. CopyFaithful /\ AnswerInHistory /\ RepliesInHistory
  BY DEF Init, CopyFaithful, AnswerInHistory, RepliesInHistory
<1> QED
  BY <1>1, <1>4, <1>5, <1>6, <1>7 DEF IInv, StoreInv

\* Every step preserves the inductive invariant.
LEMMA IInvStep ==
  ASSUME Adapter = "sqlite", IInv, [Next]_vars
  PROVE  IInv'
<1>1. TypeOK'
  BY TypeStep DEF IInv
<1> QED
  BY <1>1, StoreStep, CopyFaithfulStep, AnswerInHistoryStep, RepliesInHistoryStep DEF IInv

\* The strengthening the safety theorems follow from: besides the invariants of
\* the store, every copy about to be committed is a true picture of the history
\* up to its version, and every answer is an event of the history.
THEOREM Inductive ==
  ASSUME Adapter = "sqlite"
  PROVE  Spec => []IInv
<1>1. IInv /\ [Next]_vars => IInv'
  BY IInvStep
<1> QED
  BY <1>1, IInvInit, PTL DEF Spec

\* The history of every aggregate numbers its events 1, 2, ... up to the
\* stored version, whatever requests, processes and crashes interleave.
THEOREM HistoryIsGapless ==
  ASSUME Adapter = "sqlite"
  PROVE  Spec => []HistoryGapless
<1>1. IInv => HistoryGapless
  BY DEF IInv, StoreInv
<1> QED
  BY <1>1, Inductive, PTL

\* No interleaving of load and commit overwrites the effect of an operation.
THEOREM NoUpdateIsLost ==
  ASSUME Adapter = "sqlite"
  PROVE  Spec => []NoLostUpdate
<1>1. IInv => NoLostUpdate
  BY DEF IInv, StoreInv
<1> QED
  BY <1>1, Inductive, PTL

\* Every event was computed from the aggregate as its whole past left it,
\* although the past was read in an earlier step.
THEOREM DecisionsAreOnLatest ==
  ASSUME Adapter = "sqlite"
  PROVE  Spec => []DecidedOnLatest
<1>1. IInv => DecidedOnLatest
  BY DEF IInv, StoreInv
<1> QED
  BY <1>1, Inductive, PTL

\* An operation_id, however often it is retried and by however many clients it
\* is reused, has at most one event, one record and one outbox row.
THEOREM OperationsApplyOnce ==
  ASSUME Adapter = "sqlite"
  PROVE  Spec => []OperationAppliedOnce
<1>1. IInv => OperationAppliedOnce
  BY DEF IInv, StoreInv
<1> QED
  BY <1>1, Inductive, PTL

\* expected_version, checked against what was loaded, holds when the event is
\* written.
THEOREM ExpectationsAreHonoured ==
  ASSUME Adapter = "sqlite"
  PROVE  Spec => []ExpectationHonoured
<1>1. IInv => ExpectationHonoured
  BY DEF IInv, StoreInv
<1> QED
  BY <1>1, Inductive, PTL

\* An answer a client has is an event that stays, and all answers to one
\* operation are the same.
THEOREM AnswersAreDurable ==
  ASSUME Adapter = "sqlite"
  PROVE  Spec => []AnswersDurable
<1>1. IInv => AnswersDurable
  <2> SUFFICES ASSUME IInv PROVE AnswersDurable
    OBVIOUS
  <2>1. \A p \in replies : p.event \in events /\ p.event.command = p.fingerprint
    BY DEF IInv, RepliesInHistory
  <2>2. \A e, f \in events : e.operation = f.operation => e = f
    BY DEF IInv, StoreInv, OperationAppliedOnce
  <2>3. ASSUME NEW p \in replies, NEW q \in replies, p.event.operation = q.event.operation
        PROVE  p = q
    <3>1. p.event = q.event
      BY <2>1, <2>2, <2>3
    <3>2. p.fingerprint = q.fingerprint
      BY <2>1, <3>1
    <3>3. /\ p \in [fingerprint: Command, event: Event]
          /\ q \in [fingerprint: Command, event: Event]
      BY DEF IInv, TypeOK
    <3> QED
      BY <3>1, <3>2, <3>3
  <2> QED
    BY <2>1, <2>3 DEF AnswersDurable
<1> QED
  BY <1>1, Inductive, PTL

-----------------------------------------------------------------------------
(* The pipeline implements the ledger *)

\* The instance's copies of the shared vocabulary are that vocabulary.
LEMMA SameVocabulary ==
  /\ Ledger!Command = Command
  /\ \A E : Ledger!OperationsOf(E) = OperationsOf(E)
  /\ \A E, a : Ledger!HistoryIn(E, a) = HistoryIn(E, a)
  BY DEF Ledger!Command, Command, Ledger!OperationsOf, OperationsOf, Ledger!HistoryIn, HistoryIn

\* The pipeline starts as an empty ledger.
LEMMA LedgerInit == Init => Ledger!Init
  BY DEF Init, Ledger!Init, NoAggregates, Absent

\* A commit is the step in which the operation takes effect.
LEMMA CommitApplies ==
  ASSUME Adapter = "sqlite", IInv, NEW q \in requests, Commit(q)
  PROVE  Ledger!Apply(q.operation, q.command, q.id)
<1> DEFINE a == q.command.aggregate
           version(b) == aggregates[b].version
           ev == NextEvent(q)
<1>1. a \in Aggregate /\ q.copy.version \in Nat /\ aggregates \in [Aggregate -> Snapshot]
  BY DEF IInv, TypeOK, InFlight, Command, Snapshot
<1>2. /\ aggregates[a].version = q.copy.version
      /\ q.copy.applied = OperationsOf(HistoryIn(events, a))
      /\ \A e \in events : e.operation # q.operation
  BY CommitEffect, AcceptedCopyIsCurrent DEF find, History
<1>3. /\ q.command.create <=> q.copy.version = 0
      /\ q.command.expected \in {NoExpectation, q.copy.version}
  BY CommitEffect DEF IInv, CopyFaithful, Faithful
<1>4. /\ aggregates' = [aggregates EXCEPT ![a] = NextSnapshot(q)]
      /\ events' = events \cup {ev}
      /\ NextSnapshot(q).version = q.copy.version + 1
      /\ UNCHANGED replies
  BY CommitEffect DEF NextSnapshot, Commit
<1>5. [b \in Aggregate |-> aggregates'[b].version] =
        [[b \in Aggregate |-> aggregates[b].version] EXCEPT ![a] = q.copy.version + 1]
  BY <1>1, <1>4
<1>6. q.operation \notin OperationsOf(events)
  BY <1>2 DEF OperationsOf
<1>7. ev = [operation |-> q.operation, command |-> q.command, version |-> q.copy.version + 1,
            seen |-> OperationsOf(HistoryIn(events, a)), request |-> q.id]
  BY <1>2 DEF NextEvent
<1>8. [b \in Aggregate |-> aggregates[b].version][a] = q.copy.version
  BY <1>1, <1>2
<1> QED
  BY <1>1, <1>3, <1>4, <1>5, <1>6, <1>7, <1>8, SameVocabulary DEF Ledger!Apply

\* Every step of the pipeline is a step of the ledger or invisible to it.
LEMMA LedgerStep ==
  ASSUME Adapter = "sqlite", IInv, [Next]_vars
  PROVE  [Ledger!Next]_(Ledger!vars)
<1>1. ASSUME NEW q \in requests, Commit(q) PROVE Ledger!Next
  <2>1. q.operation \in Operation /\ q.command \in Command /\ q.id \in Request
    BY DEF IInv, TypeOK, InFlight
  <2> QED
    BY <1>1, <2>1, CommitApplies, SameVocabulary DEF Ledger!Next
<1>2. ASSUME NEW q \in requests, Respond(q) PROVE Ledger!Next
  <2>1. PICK e \in events :
          /\ replies' = replies \cup {[fingerprint |-> e.command, event |-> e]}
          /\ UNCHANGED store
    BY <1>2, RespondEffect
  <2>2. Ledger!Reply(e)
    BY <2>1 DEF Ledger!Reply, store
  <2> QED
    BY <2>2 DEF Ledger!Next
<1>3. CASE UNCHANGED store /\ UNCHANGED replies
  BY <1>3 DEF store, Ledger!vars
<1> QED
  BY <1>1, <1>2, <1>3, OnlyCommitsWrite, OnlyRespondReplies

\* Over SQLite every context is linearizable to the ledger: commands take
\* effect one at a time, each on the latest state, and answers are entries.
THEOREM PipelineImplementsLedger ==
  ASSUME Adapter = "sqlite"
  PROVE  Spec => LedgerSpec
<1>1. IInv /\ [Next]_vars => [Ledger!Next]_(Ledger!vars)
  BY LedgerStep
<1> QED
  BY <1>1, LedgerInit, Inductive, PTL DEF Spec, LedgerSpec, Ledger!Spec
=============================================================================
