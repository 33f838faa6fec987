--------------------------- MODULE CommandPipeline ---------------------------
(***************************************************************************)
(* How a bounded context executes commands, and what it leaves in its      *)
(* store.                                                                  *)
(*                                                                         *)
(* Every context service runs a command through the same awaits: look the  *)
(* operation_id up (replay), load the aggregate, change the loaded copy,   *)
(* commit copy, event, operation record and outbox row.  Requests, and     *)
(* processes that share one database file, interleave between any two of   *)
(* these awaits.  The module follows src/mission/service.ts, the           *)
(* SQLite transaction every context commits through                        *)
(* (src/infrastructure/sqlite/database.ts) and the in-memory               *)
(* repository that stands in for it (src/mission/repository.ts).           *)
(*                                                                         *)
(* What a command computes is abstracted to which operations the computed  *)
(* state takes into account: a snapshot is its version and that set.       *)
(* Authorisation and payload validation read no stored state, so a request *)
(* that fails them is one that never arrives.                              *)
(***************************************************************************)
EXTENDS Commands

CONSTANT Adapter  \* the repositories in use: "sqlite" or "memory"

ASSUME AdapterAssumption == Adapter \in {"sqlite", "memory"}

Snapshot == [version: Nat, applied: SUBSET Operation]

OperationRecord == [operation: Operation, fingerprint: Command, event: Event]

Absent == [version |-> 0, applied |-> {}]

\* A request between two awaits; `answer` is what it is about to reply ({} or
\* one event), `copy` the aggregate it has loaded.
InFlight == [id: Request, step: {"replay", "load", "commit", "respond"},
             operation: Operation, command: Command,
             copy: Snapshot, answer: SUBSET Event]

VARIABLES
  aggregates,  \* onyx_aggregates: the snapshot of every aggregate
  events,      \* onyx_events: rows, keyed by (aggregate, version)
  operations,  \* onyx_operations: rows, keyed by operation
  outbox,      \* onyx_outbox: the events handed to delivery
  requests,    \* the requests in flight
  replies      \* history: the (fingerprint, event) pairs clients received

store == <<aggregates, events, operations, outbox>>
vars == <<store, requests, replies>>

TypeOK ==
  /\ aggregates \in [Aggregate -> Snapshot]
  /\ events \subseteq Event
  /\ operations \subseteq OperationRecord
  /\ outbox \subseteq Event
  /\ requests \subseteq InFlight
  /\ replies \subseteq [fingerprint: Command, event: Event]

NoAggregates == [a \in Aggregate |-> Absent]

Init ==
  /\ aggregates = NoAggregates
  /\ events = {}
  /\ operations = {}
  /\ outbox = {}
  /\ requests = {}
  /\ replies = {}

-----------------------------------------------------------------------------
(* Reads of the store *)

\* Rows of the operations table that carry this operation_id.
findOperation(o) == {rec \in operations : rec.operation = o}

\* The aggregate request q addresses, as stored now.
find(q) == aggregates[q.command.aggregate]

Exists(q) == find(q).version > 0

-----------------------------------------------------------------------------
(* A request, one action between two awaits *)

Becomes(q, next) == requests' = (requests \ {q}) \cup {next}

\* A request arrives: any client, any operation_id (a retry or a reuse
\* included), any command.
Receive ==
  /\ \E r \in Request, o \in Operation, c \in Command :
       /\ \A q \in requests : q.id # r
       /\ requests' = requests \cup
            {[id |-> r, step |-> "replay", operation |-> o, command |-> c,
              copy |-> Absent, answer |-> {}]}
  /\ UNCHANGED <<store, replies>>

\* Defect: the stored fingerprint is not compared.
ReplayPriorAnyFingerprint(q) ==
  /\ q.step = "replay"
  /\ \E rec \in findOperation(q.operation) :
       Becomes(q, [q EXCEPT !.step = "respond", !.answer = {rec.event}])
  /\ UNCHANGED <<store, replies>>

\* The operation_id is known with this very command: its event is the answer.
ReplayPrior(q) ==
  /\ q.step = "replay"
  /\ \E rec \in findOperation(q.operation) :
       /\ rec.fingerprint = q.command
       /\ Becomes(q, [q EXCEPT !.step = "respond", !.answer = {rec.event}])
  /\ UNCHANGED <<store, replies>>

\* The operation_id is new.
ReplayNone(q) ==
  /\ q.step = "replay"
  /\ findOperation(q.operation) = {}
  /\ Becomes(q, [q EXCEPT !.step = "load"])
  /\ UNCHANGED <<store, replies>>

\* The checks on the loaded aggregate: absent for a creation, present
\* otherwise, and at the version the client expects if it names one.
Loadable(q) ==
  /\ q.command.create <=> ~Exists(q)
  /\ q.command.expected \in {NoExpectation, find(q).version}

\* The service keeps a private copy of what it read.
Load(q) ==
  /\ q.step = "load"
  /\ Loadable(q)
  /\ Becomes(q, [q EXCEPT !.step = "commit", !.copy = find(q)])
  /\ UNCHANGED <<store, replies>>

\* The copy with the command applied, and the event that says so.
NextSnapshot(q) ==
  [version |-> q.copy.version + 1, applied |-> q.copy.applied \cup {q.operation}]

NextEvent(q) ==
  [operation |-> q.operation, command |-> q.command,
   version |-> q.copy.version + 1, seen |-> q.copy.applied, request |-> q.id]

\* Defect: neither the update nor the event key involves the version.
SqliteAcceptsUnversioned(q) ==
  /\ q.command.create <=> ~Exists(q)
  /\ findOperation(q.operation) = {}

\* The transaction's constraints: the row is inserted, or updated at the
\* version just before; (aggregate, version) and operation_id are keys.
SqliteAccepts(q) ==
  /\ IF q.command.create
     THEN ~Exists(q)
     ELSE Exists(q) /\ find(q).version = NextSnapshot(q).version - 1
  /\ \A e \in events : ~(/\ e.command.aggregate = q.command.aggregate
                         /\ e.version = NextEvent(q).version)
  /\ findOperation(q.operation) = {}

\* The repository of maps checks that the aggregate exists (or does not) and
\* that the operation is new, and compares no version.
MemoryAccepts(q) ==
  /\ q.command.create <=> ~Exists(q)
  /\ findOperation(q.operation) = {}

Accepts(q) == IF Adapter = "sqlite" THEN SqliteAccepts(q) ELSE MemoryAccepts(q)

\* What an accepted commit writes, all of it or nothing.
Write(q) ==
  LET ev == NextEvent(q) IN
  /\ aggregates' = [aggregates EXCEPT ![q.command.aggregate] = NextSnapshot(q)]
  /\ events' = events \cup {ev}
  /\ operations' = operations \cup
       {[operation |-> q.operation, fingerprint |-> q.command, event |-> ev]}
  /\ outbox' = IF Adapter = "sqlite" THEN outbox \cup {ev} ELSE outbox

Commit(q) ==
  /\ q.step = "commit"
  /\ Accepts(q)
  /\ Write(q)
  /\ Becomes(q, [q EXCEPT !.step = "respond", !.answer = {NextEvent(q)}])
  /\ UNCHANGED replies

\* The client receives the event.
Respond(q) ==
  /\ q.step = "respond"
  /\ replies' = replies \cup [fingerprint: {q.command}, event: q.answer]
  /\ requests' = requests \ {q}
  /\ UNCHANGED store

\* Defect: a refused transaction is not rolled back and leaves its event.
RefuseWithoutRollback(q) ==
  /\ \/ /\ q.step = "replay"
        /\ \E rec \in findOperation(q.operation) : rec.fingerprint # q.command
        /\ UNCHANGED events
     \/ q.step = "load" /\ ~Loadable(q) /\ UNCHANGED events
     \/ q.step = "commit" /\ ~Accepts(q) /\ events' = events \cup {NextEvent(q)}
  /\ requests' = requests \ {q}
  /\ UNCHANGED <<aggregates, operations, outbox, replies>>

\* A refusal: IDEMPOTENCY_KEY_REUSE, NOT_FOUND or VERSION_CONFLICT, or a
\* commit that was rolled back because of what other requests wrote.
Refuse(q) ==
  /\ \/ /\ q.step = "replay"
        /\ \E rec \in findOperation(q.operation) : rec.fingerprint # q.command
     \/ q.step = "load" /\ ~Loadable(q)
     \/ q.step = "commit" /\ ~Accepts(q)
  /\ requests' = requests \ {q}
  /\ UNCHANGED <<store, replies>>

\* A read or the transaction throws for a reason of the storage's own
\* (busy, full, corrupt): rolled back, answered with an internal error.
StorageFault(q) ==
  /\ q.step \in {"replay", "load", "commit"}
  /\ requests' = requests \ {q}
  /\ UNCHANGED <<store, replies>>

\* A database file survives the process, maps do not.
Surviving(table, empty) == IF Adapter = "sqlite" THEN table ELSE empty

\* The process dies: requests and their answers are gone.
Crash ==
  /\ requests' = {}
  /\ aggregates' = Surviving(aggregates, NoAggregates)
  /\ events' = Surviving(events, {})
  /\ operations' = Surviving(operations, {})
  /\ outbox' = Surviving(outbox, {})
  /\ UNCHANGED replies

Next ==
  \/ Receive
  \/ \E q \in requests :
       \/ ReplayPrior(q)
       \/ ReplayNone(q)
       \/ Load(q)
       \/ Commit(q)
       \/ Respond(q)
       \/ Refuse(q)
       \/ StorageFault(q)
  \/ Crash

Spec == Init /\ [][Next]_vars

-----------------------------------------------------------------------------
(* Properties *)

History(a) == HistoryIn(events, a)

\* The history of an aggregate numbers its events 1, 2, ... up to the version
\* of the snapshot, each number once (the version condition of the update and
\* the key of onyx_events: gaps or repeats would break every paged reader).
HistoryGapless ==
  /\ \A a \in Aggregate :
       {e.version : e \in History(a)} = 1 .. aggregates[a].version
  /\ \A e, f \in events :
       /\ e.command.aggregate = f.command.aggregate
       /\ e.version = f.version
       => e = f

\* Persisting never alters execution: the stored snapshot holds the effect of
\* every operation in the aggregate's history and of no other, however the
\* requests that loaded it interleaved.
NoLostUpdate ==
  \A a \in Aggregate : aggregates[a].applied = OperationsOf(History(a))

\* Each event was computed from the aggregate as all earlier versions left
\* it: a check made before an await still held when the event was written.
DecidedOnLatest ==
  \A e \in events :
    e.seen = OperationsOf({f \in History(e.command.aggregate) : f.version < e.version})

\* An operation_id takes effect once, and the operation table and the outbox
\* hold exactly the events of the history, through crashes and retries.
OperationAppliedOnce ==
  /\ \A e, f \in events : e.operation = f.operation => e = f
  /\ operations = {[operation |-> e.operation, fingerprint |-> e.command, event |-> e] :
                     e \in events}
  /\ outbox = events

\* A command that names the version it expects takes effect at the next one,
\* and exactly the first event of an aggregate comes from its creation.
ExpectationHonoured ==
  \A e \in events :
    /\ e.command.expected \in {NoExpectation, e.version - 1}
    /\ e.command.create <=> e.version = 1

\* Whatever was answered is in the history for good, and every retry of the
\* operation, before or after a crash, was answered with the same event.
AnswersDurable ==
  /\ \A p \in replies : p.event \in events /\ p.event.command = p.fingerprint
  /\ \A p, q \in replies : p.event.operation = q.event.operation => p = q

\* The pipeline over SQLite implements the ledger: a command takes effect in
\* one step, its commit, and every other step is invisible or an answer.
Ledger == INSTANCE CommandLedger
            WITH version <- [a \in Aggregate |-> aggregates[a].version],
                 ledger <- events

LedgerSpec == Ledger!Spec

=============================================================================
