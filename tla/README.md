# A TLA+ development of ONYX IFEM

ONYX IFEM is an interface-first execution framework: a Node.js service with 18
bounded contexts that accept commands, append events to the histories of
aggregates, and hand every event to an outbox for delivery. This directory
models the parts of it in which interleaving, failure and time make the code
hard to test, checks the models with TLC on small instances, and proves the
main results with TLAPS for all values of the constants.

Paths below are relative to the repository root (`PROJECT.json` prefixes them
with the checkout directory, `src/`). Every definition that models
code is listed, with the lines it stands for, under `map` in `PROJECT.json`.

## The system

### Components, their state and how they interact

| component | source | state | operations |
|---|---|---|---|
| API application | `src/api/application.ts` | none of its own; owns one service and one repository per context | `handle`, `#dispatch`, `authorizeCommand`, `authorizeRead`, `close` |
| Context services (18) | `src/<context>/service.ts` | none between requests; a private copy of the aggregate during one | `execute(command)`, `get*`, `list*`, `getHistory`; Timeline also `processDueSignals` |
| Repositories | `src/<context>/repository.ts`, `sqlite-repository.ts` | maps, or tables of the store | `find`, `findOperation`, `history`, `list`, `commit` |
| SQLite store | `src/infrastructure/sqlite/database.ts` | `onyx_aggregates`, `onyx_events`, `onyx_operations`, `onyx_outbox`, `onyx_inbox` | `commit`, the reads, `claimOutbox`/`acknowledgeOutbox`/`rejectOutbox`, `claimInbox`/`completeInbox`/`releaseInbox`, migration, readiness |
| Outbox delivery | `src/infrastructure/outbox/` | the worker's loop, the batch in hand | `OutboxWorker.start/stop`, `OutboxDispatcher.runOnce`, the HTTP publisher |
| Inbox | `src/infrastructure/inbox/processor.ts` | one receipt per (consumer, event) | `InboxProcessor.process` |
| Admission | `src/infrastructure/http/admission.ts` | token buckets per client, one counter of requests in flight | `TokenBucketRateLimiter.consume`, `ConcurrencyGate.enter` and the release it returns |
| Gateway | `src/api/routes.ts`, `src/auth/`, the checks of `src/api/application.ts` | the trusted keys, fixed at the start | `allowedMethodsForPath`, `authenticate`, `#authorizeCommand`, `#authorizeRead`, `#dispatch` |
| Readers | `src/api/query.ts`, the resources of `src/api/application.ts` | none; the cursor is the client's | pages of collections, histories after a version |
| Server process | `src/mission/server.ts` | the listening socket, the worker, the shutdown timer | start-up checks, request handling, `shutdown` |
| Backup | `src/infrastructure/sqlite/recovery.ts` | files | `createVerifiedBackup`, `verifyBackup`, `restoreVerifiedBackup` |
| Validation, metrics, logging, contracts | `src/contracts`, `src/infrastructure/observability` | counters | stateless checks, observations |

A request enters through the server (admission, body, authentication), is
dispatched to a context service, and reaches the store through the context's
repository: `findOperation` (replay), `find` (load), `commit`. A commit writes
the aggregate, its event, the operation record and an outbox row in one
transaction. Outbox workers lease rows in batches and publish them to an HTTP
sink; a consumer of those events uses the inbox to suppress redeliveries. Some
commands read aggregates of other contexts first (`requireMission`,
`requireSubject`, ...).

### What is hard about it

* Every repository call is awaited, so requests interleave between replay,
  load and commit, and several processes may open one database file. The only
  locks are the constraints of the commit's transaction.
* Clients retry with the same `operation_id`, before and after crashes.
* Leases expire by time while the worker that holds them goes on; settlement
  checks the owner, never the expiry.
* Publications may succeed without the worker learning of it.
* Handlers of inbox events run for any time, fail, and race their own leases.
* Loops and shutdown must make progress over faults.
* Domain rules (lifecycles, conflicts, approvals, deadlines) depend on long
  command sequences; Timeline's read-side sweep commits from inside reads.

Each of these is listed with its line under `hazards` in `PROJECT.json`,
together with the properties that would catch it.

### What makes the parts correct

* **Pipeline**: histories are gapless; no update is lost; a decision is made on
  the state it is applied to; an operation applies once; an answer stays true.
  In one word: linearizability to a ledger.
* **Outbox**: at-least-once delivery; rows settle once, for a reason, by the
  claim that is current; nothing stays pending for ever; `stop()` completes.
* **Timeline**: each item signals once, in effect in one step, when it is due;
  marks and history agree; reads show what is due.
* **Mission**: a mission runs the blueprint that was submitted; a command meant
  for an earlier life of the mission changes nothing in a later one.
* **Work**: a task's mission and dependencies are what they were when the
  command looked them up; a command is one instant, wherever its awaits are.
* **Recovery**: a recorded schema version stands for the whole schema; what is
  published is complete; a backup once reported stays.
* **Admission**: over any stretch of time a bucket grants what it holds and
  earns, and what being forgotten gives it, and no more; the gate's counter is
  the number of handlers behind it.
* **Organization**: teams belong to active departments, and departments form a
  forest. (That parents remain active, as the document says, does not hold.)
* **Reporting**: what is reviewed is what was submitted.
* **File**: final uploads are whole; a quarantine blocks new ones.
* **Approval**: the outcome is the sum of decisions given since the gate was
  opened, through delegation, escalation and reopening.
* **Synchronization**: the status tells how far the replicas have converged.
* **Context link**: both ends exist in the link's organization.
* **Identity**: no proof given before a revocation changes the user after it.
* **Audit, Policy, Automation, Forecast**: a sealed ledger stays as it was
  exported and verified; every decision follows from the rules in force when it
  was taken; receipts of executions are kept in order (though compensation is not
  terminal, as the document says); a published forecast reflects all its scenarios.
* **Meeting, Conversation, Notification**: who is on record takes part; what was
  redacted or sent does not come back.
* **Capacity**: stored totals are those of the present allocations.
* **Gateway**: a context acts only within the token that came with the request.
* **Reading**: a walk over pages misses nothing and shows nothing twice, while
  commands go on.
* **Server**: databases are closed last, and a shutdown ends.
* **Inbox**: a receipt completes only after its content was handled, once and
  for good, by the worker that claimed it last; leases exclude other workers.

## The modules

| module | models | kind |
|---|---|---|
| `Commands` | commands, events and histories, the vocabulary of the pipeline | data |
| `CommandLedger` | what a bounded context promises its clients | abstract specification |
| `CommandPipeline` | execution of commands over both adapters | component |
| `MCCommandPipeline` | its instances | TLC |
| `CommandPipeline_proofs` | its theorems | TLAPS |
| `AtLeastOnceDelivery` | what the outbox promises | abstract specification |
| `Outbox` | table, dispatcher, worker and publisher | component |
| `Outbox_proofs` | its theorems | TLAPS |
| `DueSignals` | what a timeline promises about its signals | abstract specification |
| `Timeline` | the due-signal sweep, reads and commands of one timeline | component |
| `Timeline_proofs` | its theorems | TLAPS |
| `Mission` | the lifecycle, epochs and blueprint revisions of one mission | component |
| `Mission_proofs` | its theorems | TLAPS |
| `TaskBoard` | what the work context promises about tasks | abstract specification |
| `Work` | task commands with their reads of missions and other tasks | component |
| `MCWork`, `Work_proofs` | its instance and theorems | TLC, TLAPS |
| `Recovery` | opening and migration of a database file, its backup and restore | component |
| `Admission` | token buckets, concurrency gate and the request handler around them | component |
| `Admission_proofs` | its theorems | TLAPS |
| `MissionServer` | the three parts `Mission`, `Recovery` and `Admission` | composition |
| `Inbox` | receipts and the processor | component |
| `MCInbox` | its instances | TLC |
| `Storage_proofs` | theorems of `Inbox` and of `Recovery` | TLAPS |
| `Organization`, `Reporting`, `FileAsset`, `Approval`, `Synchronization`, `Audit`, `Policy`, `Automation`, `Forecast`, `Meeting`, `Conversation`, `Notification`, `Capacity` | one aggregate of the context each, every command a step | components |
| `Identity`, `ContextLink` | one aggregate each, with commands in flight between their checks or lookups and their commit | components |
| `Gateway` | a request from its route and token to the context that acts | component |
| `Reading` | walks over pages and histories while commands go on | component |
| `Server` | the life of the process | component |
| `Application` | the eighteen parts above | composition |
| `MCApplication`, `Application_proofs` | its instance and theorems | TLC, TLAPS |

`Outbox`, `Timeline` and `MissionServer`, and for the counterexamples `Inbox`,
`Automation` and `Organization`, are instantiated by their configurations alone
(`MCOutbox.cfg`, `MCOutboxFair.cfg`, `MCTimeline.cfg` and so on);
the other MC modules add symmetries and the sets that a configuration cannot
write.

Some modules hold definitions whose comment begins with "Defect:". They are not
used by the specifications. Each states how a plausible bug would change the
definition after it; substituting it makes TLC report the property that
`PROJECT.json` pairs with it, which shows that the property depends on the code.

### CommandPipeline

One action for each stretch of `execute()` between two awaits:

| action | code |
|---|---|
| `Receive` | `execute()` up to the first await; any client, any operation id (retry or reuse), any command |
| `ReplayPrior`, `ReplayNone` | `#replay()`: a known fingerprint answers with the stored event |
| `Load` | `#loadForMutation()`, or the existence check of a creation; the service keeps a copy |
| `Commit` | the change of the copy, `#publish()`, and `SqliteDatabase.commit()` or the map repository's |
| `Respond` | the HTTP answer |
| `Refuse` | `IDEMPOTENCY_KEY_REUSE`, `NOT_FOUND`, `VERSION_CONFLICT`, or a transaction rolled back by its constraints |
| `StorageFault` | a statement that throws for a reason of the storage's own |
| `Crash` | the process dies; a file survives it, maps do not |

The pipeline is written once per context in the code (same awaits, same
repository interface); the model follows the Mission service. What a command
computes is abstracted to *which operations the computed state takes into
account*: a snapshot is its version and the set of operations applied to it,
an event records the set its computation has seen. That is enough to tell a
lost update, a stale decision or a repeated operation apart, and needs no
domain data. Authorisation and payload validation read no stored state, so a
request that fails them never arrives. `expected_lifecycle_epoch` and
`expected_authority_epoch` are refusals of the same kind as `expected_version`
and are subsumed in it.

The inner organisation of the SQLite commit (`BEGIN IMMEDIATE` ... `COMMIT`) is
one step because `node:sqlite` is synchronous within a process and the
transaction takes the write lock of the file. Faults inside it roll back.

### Outbox

Rows of `onyx_outbox` are the functions `owner`, `lease`, `due`, `attempts` and
the sets `enqueued`, `delivered`, `dead`. A worker is a place in the loop of
`OutboxWorker.#run()` around `OutboxDispatcher.runOnce()`, the rest of its
batch, and the time its publication has taken. Times are relative to now: `Tick`
decrements leases and delays at once, so that no clock has to be bounded. What
leaves the state space finite is that attempts are counted up to the limit
(rows at the limit behave alike) and that rows overdue by more than `Horizon`
ticks are not told apart in the claim's order.

`PublishSucceeds` is a 2xx answer the worker saw. `PublishFails` is everything
else, with the sink having accepted the event or not. `Acknowledge` and
`Reject` are the transactions of the same names and everything that follows
synchronously: on to the next message, to a new pass, or out of the loop.
`AcknowledgeThrows` falls into the same `catch` as a failed publication, as in
the code; `RejectThrows` ends the pass and leaves the leases of the rest.
`Crash` may come at any point. There is one process per worker id, as in the
singleton of `docs/kubernetes.md`; two live ones that `ONYX_OUTBOX_WORKER_ID`
gives one identity are outside the model.

`Punctual = TRUE` restricts the clock: it does not pass the abort of a
publication's timer, nor does it pass while a worker has a synchronous step to
take. `Punctual = FALSE` allows a worker to be stalled at any point for any
time (a stopped process, a long garbage collection, a suspended machine).

### Timeline

No timer emits `DeadlineReached` and `CriticalMarkerReached`: every read runs
`processDueSignals()` first. `Read` is its `find`, `Sweep` the computation of
what is due once the timeline has arrived (the clock is read then), `Lookup`
the `findOperation` of one due item, `Signal` its commit, and `View` the second
`find` of `getTimeline()` after the sweep. `Refuse` is the commit that throws
because another request was faster; the read then fails as a whole. Deadlines
come before markers; within a kind the order of the items is left open (the
code uses the order in which they were defined). Commands are a load
(`Command`) and a commit (`Commit`); replay and expectations are those of
`CommandPipeline`. The id of a signal's operation is computed from timeline,
type and item, so "the operation is known" and "the history has a signal for
the item" are the same, and one variable stands for both.

A reached deadline that is moved to a later instant does not signal again:
`MoveDeadline` leaves it among the reached ones. `DueSignals` says so.

### Mission

The eleven commands on one mission. Each is one atomic step, `Execute`, which
`PipelineImplementsLedger` justifies: a command takes effect at its commit, on
the state it was decided on. What the pipeline leaves open is modelled here:
*when* a command arrives. `Send` gives a command with the expectations a client
can have (version and epoch of the mission it sees, or none); it may be
executed at once, or after any number of others. A command that is refused
changes nothing and leaves no operation record, so it may come again until its
client drops it (`GiveUp`). `seen` and `lifeBegan` are history: the version the
sender had seen, and the one that began the present life of the mission.

The blueprint is the sequence of its revisions, each with its base; contents
and names are left out. A command that is refused for its authority or for
another organization leaves nothing behind and is no step. No command leads to
`REVIEW` (nor to `READY` of a task), although the types and the sets of allowed
statuses mention them.

### Work

The twelve task commands, with each await before the commit as a place where
others interleave: `FindNone` and `requireMission` of a creation,
`FindDependency` of `AddDependency`, then the load and change of the copy (one
action per command: `StartTask`, ...), and `Commit`, which compares nothing but
the version of the task itself. `CreateMission` stands for the mission context:
missions come into being and are never removed. Owner and priority matter to no
condition, so `AssignOwner` and `ChangePriority` change the version only.

Operations and replay are those of `CommandPipeline`. A command that fails, is
refused or dies with its process leaves (`Fail`); one that is sent again is one
that took longer to arrive. `stale` is history: a new life of the task has
begun since the command was given.

`TaskBoard` states what `docs/work-context.md` promises, in terms of commands
that happen in an instant: the diagram of the lifecycle is the set `Lifecycle`,
and the conditions for creations and dependencies are the documented ones. It
forbids self-dependencies and duplicates, as the document does; two tasks may
still depend on one another, and a task may be created under a mission that is
closed: neither code nor document rules that out.

### Recovery

One database file, the processes that open it (`Server`), and the tools that
back it up or restore the backup (`Tool`). All backups have one destination and
all restores another, which is where tools can get into each other's way.

Opening: `assertNoFutureSchema`, then every statement of `#migrate()` that
changes something, each a transaction of its own (`CreateTable`,
`RecordVersion`, `AddColumn`, `RecordLastVersion`), with the look-up of the
column (`FindColumn`) outside of any. Two servers may both find it missing; the
slower one's `ALTER TABLE` throws, and its constructor with it (`Close`). An
image keeps the tables, the recorded versions, whether the rows of the outbox
have their aggregate version, and a count of commits that tells images apart.

Tools: one action for each await that another process can notice. Copies are
made under temporary names of the tool's own, so that copying and verifying the
copy are one step; `publishExclusive()` is one step whose second half, the
removal of the temporary name, may fail. `Throw` stands for every failure,
`Die` for the end of the process. `verifyDatabase` reads tables and versions as
the code does; that this says anything about the columns is what
`PublishedIsComplete` is about. Integrity and foreign keys are SQLite's.

What the model shows besides its properties: a tool that dies between the two
links leaves a database without manifest, one that cannot remove the temporary
manifest, and then removes the database, a manifest without database. Either
blocks the destination for later backups (nothing is overwritten), and neither
passes `verifyBackup()`. A restore opens the backup again after verifying it;
the file could in principle be another one by then, of a backup that takes the
place of one being undone. It would be complete as well, and once a backup has
been reported this cannot happen any more (`ReportedBackupStays`).

### Admission

Tokens are fractions in the code; `Capacity`, `Refill` and `Cost` count them in
units of which a request costs a whole number and an instant earns one. `seenAt`
of a bucket always equals `updatedAt` (both are the maximum of the old value and
now), so that one variable stands for both. `Kept` is the map after
`#removeExpired()`, and `consume` is `consume()` with the tokens it takes.

A handler runs without await up to the decision, so `RateLimited` (429) and
`Overloaded` (503, after the token has been spent) are whole requests, while
`Accept` and `Exempt` begin one that awaits its body (`body`) or the application
(`application`). `ReadBody` is the body that has arrived; `Finish` every other
end: an answer, or the error of either await. Whether an accepted request has a
body is left open. A target that `new URL` cannot parse ends the handler before
the decision and before its `try` block, with the gauge counted up
(`BadTarget`): nobody handles the rejection, so the process ends, and the next
one begins with no buckets and no handlers. That is why the gauge is never left
too high by one.

The clock is `Date.now()`, which `SetBack` may set back to anything. `watched`,
`granted` and `advanced` are history: an observer that chooses a bucket at any
time and adds up what it grants and by how much the clock goes on from then.
The model's `Observe` begins anew, which also keeps these counters finite.

A bucket that is forgotten is full when its client returns, whether or not it
would have been full by then. With the defaults it would, by far (600 s at 20
tokens per second against 120); the configuration takes any three numbers. What
forgetting may give is `Windfall`, and `BudgetKept` grants it once for each idle
time that fits in the stretch that is observed. `NoWindfall` draws the
conclusion for configurations like the default one: capacity and refill alone
bound what is granted. A client may draw on the overflow bucket and, once there
is room, on one of its own: the budget is one of buckets, not of clients.

### MissionServer

`src/mission/server.ts` puts admission, the database file and the contexts
together. Three parts that share no variable are composed as `Application`
composes its own: `focus` picks the part a behaviour is about, the others rest
in one of their initial states. One run checks the three, each in its whole
state space.

### Inbox

Receipts of one consumer, and calls of `process()` between two awaits: the
handler runs (`handle`), its completion (`complete`) or its release
(`release`) is next. "duplicate", "busy" and the fingerprint conflict change
nothing and are therefore no steps. A call's `remaining` and the variables
`handled`, `holder` and `undercut` are history: they let the properties speak of
the lease that a call itself obtained, of the claim that is the latest, and of
calls whose event a sibling gave back.

`CallsPerWorker` is how many calls a processor has under way at most. Calls of
one processor share its worker id, and the owner check compares worker ids: a
call whose lease ran out can complete or give back what the next call of the
same worker is still handling (`src/infrastructure/inbox/processor.ts:42`). `CompletedByHolder` and
`ExclusiveWhileLeased` say how far that goes, for any number of calls per
worker: between workers the check suffices, within one only a call that was
overtaken, or whose sibling gave the event back, is concerned, and
`CompletedOnlyIfHandled` holds regardless. Users of `InboxProcessor` who need
more have to give concurrent calls worker ids of their own; with
`CallsPerWorker = 1` nobody is overtaken but by expiry, and the two properties
say that the latest claim completes and that leases exclude.

### The contexts of one step

In `Organization`, `Reporting`, `FileAsset`, `Approval`, `Synchronization`,
`Audit`, `Policy`, `Automation`, `Forecast`, `Meeting`, `Conversation`,
`Notification` and `Capacity` a command is one action: what
`PipelineImplementsLedger` shows of the common pipeline (a command takes effect
at its commit, on the state it was decided on) makes that the right grain. Each
module has an action for every command of its service, with the service's
guards and the whole of what it stores; versions, operation records, events
and texts are left out. Lookups of other aggregates (`requireUser`,
`requireSubject`) read what is never removed and are left open.

* `Organization`: departments with parents and statuses, teams, groups and
  workspaces of one tenant. `HierarchySound` holds of teams and of the shape of
  the hierarchy. That parents remain active (`ParentsRemainActive`) does not:
  `CreateDepartment` asks only that the parent exists, and `ArchiveDepartment`
  looks at teams alone (see Findings).
* `Reporting`: a report with its evidence, submitted, sent back and submitted
  again. `submissions` is history, what each submission consisted of.
  `normalized` is what the service makes of snapshots an earlier release left.
* `FileAsset`: chunks of uploads, final uploads, versions, access, quarantine.
  `FinalizeUpload` makes an asset available also from quarantine, if the upload
  was under way when that was imposed; `UploadsComplete` says exactly that.
* `Approval`: approvers who decide, delegate, escalate. Escalation to somebody
  who approves already only records it. `openedIn` and `decidedIn` are history:
  in which life of the gate a decision was given.
* `Synchronization`: batches, conflicts and acknowledgements of two replicas.
  `SYNCHRONIZED` stays when a new batch is offered or merged without conflict,
  an acknowledgement may be overwritten with a lower clock, and a conflict may
  be reported again under another batch: all of that is in the model, and
  `ConvergenceSound` claims no more than what remains true.
* `Audit`: a chain of digests, of which a root stands for the sequence of
  entries that went into it. A verification replaces one of the same id.
* `Policy`: versions with rules that match actions, decisions under the version
  in force, violations, legal holds, rate limits (whose signals change no
  decision). Without a matching rule the code allows. `under` is history.
* `Automation`: evaluations, executions, their failures, retries and
  compensation. `ReceiptsInOrder` is about the order of late and repeated
  attempts. That a compensated receipt stays so (`CompensationIsTerminal`) does
  not hold: `RetryExecution` does not look at it (see Findings).
* `Forecast`: scenarios with probabilities in whole parts; a projection is the
  weighted sum and the weight it is to be divided by, as rounding is left out.
  Baselines and adjustments may be negative.
* `Meeting`: participants before the start, decisions and action items after it.
  That removal ends with the start is what keeps records and participants
  together (`RecordsOfParticipants`). Clients give instants to the microsecond
  and the service compares milliseconds, so a meeting may end up to one before
  it began; instants are counted in halves of a millisecond.
* `Conversation`: members, and messages that are edited, redacted and reacted
  to. Any member may redact, only the author edits; nobody ever leaves. Of a
  body it is kept whose words it holds, not which, so that an edit changes the
  count alone.
* `Notification`: resolution, one sending, retries, escalation, acknowledgement.
  A draft may be escalated before its recipients are resolved, and loses that
  recipient then; `late` is history, who was escalated to since. A
  `RetryDelivery` always records a failure, and no command takes it back.
* `Capacity`: availability by period, allocations, totals, snapshots. Periods
  that overlap count twice, and more may be allocated than is available: the
  service sums what it has. As every command that touches either calculates the
  totals at once, `RecalculateCapacity` changes none (`TotalsFollow`); units are
  whole numbers here and floating point in the code. `captured` is history.

`Application` states some of these promises together: `EvidenceHolds` those of
`Reporting` and `Audit`, `FiguresFollow` those of `Forecast` and `Capacity`,
`CommunicationHolds` those of `Meeting`, `Conversation` and `Notification`.

### Identity and ContextLink

Both contexts are of interest between two awaits. In `Identity` a command has
passed its checks (its proof is of the authority epoch of the user it loaded)
and a revocation is committed before it commits. The epoch alone would not stop
it; the version the store compares does, and `RevocationIsFinal` needs both. In
`ContextLink` each lookup of an end is an action (`requireObject`), between
which the link changes and objects come into being. Objects never move or
disappear, which `owner` shows; that is why a lookup stays true.

### Gateway

One request at a time, since requests share nothing here but the configuration.
`Admit` is `OnyxApplication.#dispatch()` up to its first await: method, token
and what binds command or read to the token. `Act` is the context's own check
of the proof, before which time may have passed. Mission, work, timeline,
reporting and organization look for an earlier answer first, so that a replay
needs no proof there; the other contexts look for it after the check. `Respond` may follow at any point (a replay, a refusal). `Restart`
loads keys anew; a JWKS with an unsound key or a repeated `kid` is refused as a
whole. Tokens are well-formed and meant for this issuer and audience: how a
signature is computed and JSON decoded is not modelled.

### Reading

`Create` and `Change` are commits of any context; ids of new aggregates come
anywhere in the order, as clients choose them. `NextPage` fetches one row more
than it shows and hands out the last id as the cursor; `NextEvents` is a client
that follows a history by `after_version`. `start` is history.

### Server

`createOutboxRuntime` reads the settings of the worker and may refuse them;
from there to the handlers of the signals nothing awaits. A handler of a
request is seen only while it waits for its body: storage is synchronous, so
everything after the body runs in microtasks, and no handler meets a closed
database. `Signal` is `shutdown()` up to its return: idle connections are
dropped, the worker is asked to stop, the timer runs. Then `Closed`, `Complete`,
`Abort` and `DeadlineFires` are the ways out; `SignalUnhandled` is the second
Ctrl-C, which kills the process, as `process.once` has removed the handler.

### Application

The eighteen parts share no variable: contexts write their own aggregates, and
what the gateway or the readers know of them is in their modules. `focus` picks
the part that a behaviour is about, so that one run checks them all, each in
its whole state space, and nothing is spent on interleavings that no property
could tell from those of one part.

## The runs

| run | instance | shows |
|---|---|---|
| `command_pipeline` | 2 aggregates, 3 operation ids, 2 requests in flight, commands with and without `expected_version`, SQLite | updates are not lost, answers last; every behaviour is one of `CommandLedger`: histories are gapless, operations apply once, expectations hold |
| `command_pipeline_memory` | the same over the map repositories | `NoLostUpdate` is violated (see Findings) |
| `outbox` | 2 events, 2 workers, batches of 2, 3 attempts, stalls, crashes, storage faults | rows are settled honestly and by their claim; at-least-once delivery is implemented |
| `outbox_fair` | the same, punctual workers, 2 attempts, fairness | leases outlast batches; every event is eventually settled; `stop()` completes |
| `timeline` | a deadline and a marker, 2 requests at a time, instants 1 and 2, commands up to version 5, crashes, fairness | `DueSignals` is implemented: signals come once, when due, never after the archive; reads show what they found due; due items are signalled |
| `work` | 2 organizations, 2 missions, 2 tasks, 2 commands in flight, versions up to a sum of 4 | references stay sound although they were read before the commit; epochs fence; every behaviour is one of `TaskBoard` |
| `mission_server`, mission | 2 blueprint revisions, 2 commands on their way at a time, commands given up to version 7 | a mission runs what was submitted, never what was revised since; a command that expects an epoch changes no life but the one its sender saw |
| `mission_server`, database file | a new, an old, a half migrated or a future file; 2 servers, 3 tools, 2 commits | versions tell the schema during concurrent migrations that die; published files are complete; a reported backup stays, whatever other tools do at its destination |
| `mission_server`, admission | 2 clients of which one gets a bucket of its own, which is forgotten before it is full, 2 handlers, a gate for 1, instants 0 to 4 | buckets keep to their budgets through refill, overflow, forgetting, a clock set back and the end of the process; gate and gauge count the handlers |
| `inbox` | 2 events with 2 bodies each, 2 workers with 2 calls each, leases of 2 ticks | completion follows handling of the same body, is final and by the worker of the latest claim; leases exclude other workers, and within a worker give way to an overtaken call alone |
| `inbox_concurrent` | 1 event, 2 workers | `NoConcurrentHandling` is violated (see Findings) |
| `automation` | 1 rule, 1 evaluation, 1 execution, 2 attempts | `CompensationIsTerminal` is violated (see Findings) |
| `organization` | 3 departments, 1 team | `ParentsRemainActive` is violated (see Findings) |
| `application` | a small instance of each of the eighteen parts, named in `MCApplication.cfg` | each part keeps what it promises (see What makes the parts correct); a shutdown ends |

### Why the bounds are enough

* *Pipeline.* A lost update, a stale decision and a double application each
  need two requests in flight; more requests in flight than two can be
  replaced by requests one after the other, since a request that was refused
  leaves nothing behind. Three operations allow a creation, a change and a
  third command that conflicts with it, retries, and reuse of an id for
  another command or aggregate. Versions grow with the operations, so the
  instance needs no bound on a counter.
* *Outbox.* Two workers are what a stale worker and its successor are; two
  events make a batch that has a rest; three attempts reach the limit after an
  acknowledged, a failed and an expired claim. A lease of three ticks is the
  shortest that the start-up check admits for two publications of one tick.
  `Horizon` = 1 tells one overdue row from another; it is 0 where only leases
  and liveness matter.
* *Timeline.* Two items make a sweep with a rest; two requests make a sweep
  and whatever overtakes it; two instants allow a deadline to be moved away
  from now. The version bound limits commands only, not signals. Commands have
  to come to rest for the liveness property: a stream of them that never ends
  could make every sweep fail.
* *Mission.* Two commands on their way are a delayed one and the one that
  overtakes it; seven versions admit a mission that is created, given a
  revision, submitted, activated, closed or halted, and restarted, with a
  command of any of its lives still to come. Orders stop at the bound, hence no
  deadlock check.
* *Work.* Two organizations and two missions allow every mismatch, two tasks a
  dependency, two requests a read that another commit overtakes. The bound on
  the sum of the versions stops the sending of commands, not their execution;
  when it is reached and all commands are gone nothing is left to do, which is
  why deadlock is not checked there. Requests, tasks, missions and
  organizations are interchangeable and declared symmetric (no liveness is
  checked in this run).
* *Recovery.* Two servers make a race of migrations; three tools a backup that
  is being undone, one that succeeds, and a restore that reads in between; two
  commits make the copies of two tools differ.
* *Admission.* Two clients are one with a bucket and one in the overflow. A
  bucket of 4 earns 2 in the two instants after which it may be forgotten, so
  that forgetting gives it something, up to twice while it is observed.
  Two handlers fill a gate for one and find it full.
* *Inbox.* Two workers with two calls each allow a stale call, and a successor
  of the same worker or of the other, and one more beside it; two bodies are
  enough for a conflict of fingerprints.
* *Automation, Organization.* The least that the counterexamples need, and a
  third department that does not matter.

* *Application.* Three departments make a chain or a cycle, two teams one to
  move and one that stays; two uploads of two chunks one that is final and one
  that a quarantine finds under way; four users an approver, a delegate, the
  delegate's delegate and somebody who escalates; two replicas, batches and
  conflicts every disagreement; two commands in flight (`Identity`,
  `ContextLink`) one that the other overtakes; two keys, two signers and a token
  that differs in each field once from the right one every way to be refused;
  three ids and pages of one or two a page that something is created before,
  in and after; three connections one between requests, one with a body and one
  to come; three ledger entries, two policy versions with one rule each that
  denies or allows, two executions, two scenarios; three people of whom one
  organizes, creates or sends, one takes part and one does not; two messages,
  periods, allocations and delivery batches. `MaxVersion`, `MaxEpoch`,
  `MaxClock`, `MaxAttempt`, `MaxTime`, `MaxSize`, `MaxPart`, `MaxValue`,
  `MaxLimit`, `MaxRequired`, `MaxEdits` and `MaxUnits` bound what counts
  up; parts come to rest there, or in their last status, and a process that has
  exited stays so: deadlock is not checked. No part has more than
  120 000 states.

The theorems below remove the bounds for everything but liveness.

### Fairness

`Outbox!FairSpec` assumes strong fairness of `Tick` (time passes: with
`Punctual` the clock is disabled again and again, for the duration of a
worker's synchronous step, never for good), and weak fairness of `start` and of
the steps of each worker: promises settle because the publisher has a timeout,
timers fire, and the supervisor starts a stopped process again (the
StatefulSet of `docs/kubernetes.md`). No fairness is assumed of failures or of
`stop`. Crashes and storage faults may happen any number of times, until
`calm`: nothing can be delivered by a system that never stops failing.
Publications may still fail after that; attempts then run out, and the event is
dead-lettered. A message that kills its worker at every claim is outside
`EventuallySettled`: a claim does not look at the attempt limit, so the code
would retry it for ever.

`Application!Spec` assumes weak fairness of `DeadlineFires` alone: the timer that
`shutdown()` sets is due some time. Peers need not answer, batches need not
end, and no second signal need come.

`Timeline!FairSpec` assumes that the timeline goes on being read and that
requests go on when their awaits are settled (weak fairness of `Read` and of
the steps of a request); nothing else makes a signal happen in this code.

## What is proved

All theorems hold for arbitrary sets and numbers that satisfy the named
assumptions of the modules.

### CommandPipeline_proofs

`TypeCorrect` holds for both adapters. The rest is proved under
`Adapter = "sqlite"`, from the inductive invariant `IInv`:

    TypeOK /\ StoreInv /\ CopyFaithful /\ AnswerInHistory /\ RepliesInHistory

`StoreInv` is the conjunction of the safety properties, which speak of the
store only and are not inductive: what a commit writes depends on the copy.
`CopyFaithful` supplies that. A request about to commit holds the aggregate
exactly *as its history up to the copy's version made it*, which later commits
do not change, and has checked its expectation against that version. The
version condition of the update then makes "the version of the copy" and "the
current version" one, so the event is computed from the latest state.
`AnswerInHistory` carries the fact that an answer is an event of the history
across the await before the client receives it.

`HistoryIsGapless`, `NoUpdateIsLost`, `DecisionsAreOnLatest`,
`OperationsApplyOnce`, `ExpectationsAreHonoured` and `AnswersAreDurable` follow.
`PipelineImplementsLedger` shows that every step is a step of the ledger or
leaves it unchanged: contexts over SQLite are linearizable, with the commit as
the linearization point. This is what lets the models of single contexts take
a command as one atomic step.

### Outbox_proofs

`IInv` adds four facts to the properties: events in a batch have a row
(`BatchesEnqueued`); a lease counts an attempt (`LeasedWasClaimed`), which
bounds the retry delay; settled rows have no lease (`SettledRowsReleased`); a
worker about to acknowledge had its publication accepted, and still under the
current claim if it still owns the row (`AcknowledgesReceived`). From it:
`RowsAreSettledHonestly`, `OnlyTheClaimAcknowledges`, `SettledRowsStaySettled`,
`OutboxImplementsDelivery`.

`LeasesOutlastBatches` needs `Punctual` and the last conjunct of
`OutboxAssumption`, the check `ONYX_OUTBOX_LEASE_MS > batch * timeout` of
`src/mission/server.ts`. Its invariant `BatchesLeased` says that the lease of
*every* message of a batch exceeds the time that all remaining publications
may still take, less what the current one has taken; each tick lowers both
sides, each finished publication lowers the right-hand side only.

### Storage_proofs

*Receipts.* `IInv` adds that a call works on the content its receipt was made for
(`CallsMatchReceipts`), that the owner is the worker that claimed last
(`OwnerIsHolder`), and that a call that has not been overtaken is that of the
latest claim and owns its row (`CallsOwnTheirRows`): its lease runs, so no claim
can take the row, and a sibling that completes it or gives it back overtakes
the call. From it, for any number of calls per worker:
`CompletionFollowsHandling`, `CompletionIsFinal`, `LeasesExclude` and
`HolderCompletes`.

*The file.* `RecoveryIInv` says of servers that what they have found of the
file still holds when they go on (`MigrationInv`): tables, versions and the
column are only ever added. Of tools it says that one at a time has something to undo at the
backup's destination, that this is what is there, and that no backup has been
reported then; and that no restore gets past the manifest before there is one
(`BackupInv`). `CopiesInv` says that every copy is complete, which follows at
the moment of copying from the recorded version 4 and `MigrationInv`. From it:
`VersionsAreTrue`, `PublishedCopiesAreComplete`, `ReportedBackupsStay`.

### Timeline_proofs

The properties of the store depend on the copies that sweeps and commands
hold. `IInv` says of a sweep's copy that it is the timeline at some version,
the present one if the versions agree, with everything left to signal due on
it (`SweepFaithful`); of a command's copy that it is the outcome of a command on
such a version (`ChangeFaithful`); and of what a sweep found due that it is
still to be dealt with or marked (`SweepAccounted`). A commit that is accepted
has the present version, so its decision holds now (`SignalIsDue`,
`ChangeIsCurrent`). From it: `SignalsComeOnce`, `MarksAreKept`, `ArchiveIsFinal`,
`ViewsShowDue`, and `SweepsImplementSignals`, the refinement of `DueSignals`.

### Mission_proofs

`IInv` adds to the properties that a mission at work has a submitted revision
of its own blueprint, the active one, and a timeline (`BlueprintInv`), that its
life began at a version it has reached, and that the epoch a command expects is
not of the future, and of the past if its sender looked before that life began
(`LifeInv`). From it:
`BasesAreFirst`, `BlueprintIsSubmitted`, `EpochsFence`, and `LifeIsSound`, which
says the last two together, as the run `mission_server` checks them.

### Work_proofs

`ReferencesSound` is not inductive: what a commit writes depends on reads that
are several awaits old. `IInv` says of each command in flight that

* what it found in other aggregates still holds (`DependencyInv`, and the
  mission in `CopyInv`): tasks and missions are never removed and never change
  their organization or mission;
* its copy was made of an old version of the task, or follows the task as it is
  now (`CopyInv`, `Follows`), so that the comparison of versions at the commit
  decides between the two;
* the epoch it expects is the present one or, if it is stale, a smaller one
  (`EpochInv`).

`CommitContinues` draws the conclusion: a commit creates the task or continues
from the task as it is. From it: `ReferencesAreSound`, `EpochsFence`, and
`WorkImplementsBoard`, the refinement of `TaskBoard`.

### Admission_proofs

`BudgetKept` alone is not inductive. `BudgetInv` balances what the watched
bucket was granted *and what it has earned by now* against capacity, refill and
the windfalls so far (`Balanced`); what a forgotten bucket has earned is its
capacity. A request moves units from one to the other, `Tick` adds as much as
the right-hand side gains at most, and `SetBack` can only take from what is
earned. Forgetting adds a windfall at most, and the idle times that make room
for it have gone by (`IdleTimesFit`): between two of them the bucket was used,
and the clock has gone on by a whole idle time since (`OneMoreIdleTime`,
`SweepKeepsBudget`). From it: `BudgetsAreKept`, for every capacity, rate and
idle time; `NoWindfall` adds `Refill * IdleTtl >= Capacity`, as of the defaults,
and finds capacity and refill enough. `CountersAreTrue` needs cardinalities only.

### Application_proofs

A step of the application is a step of one part, while the others rest
(`OrganizationSteps` and its like), so each part has an inductive invariant of
its own, and `IInv` is their conjunction. All thirteen invariants of the run
`application` follow from it (`PartsAreTyped` to `RecordsArePartakers`), and so do
its two action properties (`RevocationsAreFinal`, `ReceiptsStayInOrder`). What the
parts had to say beyond their promises:

* *Commands in flight.* `IdentityIInv` says of a command that is about to commit
  that its copy has a version the user has had or the next one, and that in the
  latter case nothing revoked comes back with it (`Succeeds`): the comparison of
  versions decides between the two. `ContextLinkIInv` says that each end of a
  copy is the tenant's own or yet to be looked up (`Joins`).
* *A call that waits.* `GatewayIInv` says that a pending call has what its token
  covers (`Covered`), and that a command which has come to act had a proof that
  was valid then. Keys change only with a restart, which leaves no call behind.
* *Epochs and statuses.* Most promises about the past rest on the order in which
  a life goes: nothing is on record before it begins (`MeetingIInv`, `AuditIInv`,
  `NotificationIInv`), submissions have epochs of their own (`ReportingIInv`),
  the epoch a gate was opened in is not of the future (`ApprovalIInv`), a
  conflict has a batch (`SynchronizationIInv`).
* *Sums.* The code adds up chunks, scenarios, periods and allocations; the
  modules do so with folds, which take one element after the other, and the
  library's induction cannot be applied to them. `SubsetsAreReached` replaces it
  with sets: a set of subsets that has {} and, with what a fold leaves of a
  subset, that subset, has them all. From it: there is one such sum and no
  other (`SumsExist`, `SumsAreOne`), it grows by what a term grows by
  (`SumOfOneChange`) and with its terms (`SumMonotone`). The bytes accepted of an
  upload, the totals of a profile and both figures of a projection are sums
  (`AcceptedIsSum`, `TotalsAreSums`, `WeightIsSum`, `ValueIsSum`); that a published
  average lies between the least and the greatest value is
  `AverageBetweenBounds`.
* *Orders.* `RowsOrdered` says that a query returns every id once, in order.
  `ReadingIInv` says of a walk that up to its cursor nothing was left out
  (`Shown`), and `PageComplete` of a page that, if it is cut off, it ends where
  the next one begins, which is what the row that is fetched beyond it decides.

The assumptions say, besides what separates constants, that finitely many ids,
chunks, scenarios, periods and allocations can be used, as all of these come
from requests of bounded size; that there is an action and a strength of links to
choose from; and that versions start at 1. The bounds on
versions, epochs, units and attempts are any numbers.

### Model-checked only

`EventuallySettled`, `StopCompletes`, `DueIsSignalled` and `ShutdownEnds`:
liveness under fairness is beyond the proof system. The four violated properties
are counterexamples found by TLC. Every other property of a run is proved as
well, for all values of the constants.

### Proved only

Some safety properties have no run of their own, since a refinement or another
property that the runs check says nearly the same. Of the pipeline,
`HistoryGapless`, `OperationAppliedOnce`, `ExpectationHonoured` and
`DecidedOnLatest` are what steps of `LedgerSpec` are made of. Of the outbox,
`SettledRowsAreFinal` adds to `DeliverySpec` that lease and attempts of a settled
row stay; of the inbox, `CompletedIsFinal` says that a completed row is neither
claimed nor released. Of timelines, `SignalledOnce` and `ReachedAsSignalled` are in
`SignalsSpec`, and `NothingAfterArchive` adds that commands without effect on
signals stop as well. Of missions, `BasesComeFirst`. The type invariants of the
modules with proofs are proved as well. All of these
are parts of the inductive invariants, or follow from them, and hold for all
values of the constants.

## Findings

1. *The in-memory repositories do not compare versions*
   (`src/mission/repository.ts:46`). Two commands on one aggregate that are in
   flight together are both accepted, the second one overwrites the first, and
   both events carry the same version. `docs/persistence.md:3` says that
   selecting persistence does not alter contract execution. Run
   `command_pipeline_memory`.
2. *An inbox handler may outlive its lease* (`src/infrastructure/inbox/processor.ts:54`).
   Another worker then handles the same event at the same time.
   `docs/persistence.md:66` says that the lease prevents this. What holds is
   `ExclusiveWhileLeased` and `CompletedByHolder`. Run `inbox_concurrent`.
3. *Compensation is not terminal* (`src/automation/service.ts:4`). A failed retry
   that comes later takes a receipt out of COMPENSATED, and it may be
   compensated again. `docs/automation-context.md:5` says that compensation is
   "explicit and terminal for that execution receipt". Run `automation`.
4. *Parents of departments need not be active* (`src/organization/service.ts:15`).
   A department can be created below an archived one, and one that has others
   below it can be archived. `docs/organization-context.md:20` says that
   referenced parent departments "must exist and remain active". Run
   `organization`.

### Where documents say more than the code

Findings 2 to 4 are sentences that the code does not keep; the models follow
the code. `docs/file-context.md:5` says of a quarantine only that it blocks new
uploads, which holds; it ends, though, with an upload that was under way
(`FileAsset`), and `UploadsComplete` says so.

## What is not modelled

* Metrics beyond the gauge, logging, readiness (which counts rows), the OpenAPI
  document, the response headers: they keep no state the parts depend on.
* Validation, canonical JSON, digests and signatures: functions of one input
  that read nothing stored. The models take requests that pass them.
* Strings, locales and rounding; the columns and indexes of SQLite; its
  integrity checks.
* The web client, generated types, tools, integration and deployment files.

## The plan

1. Outbox and inbox composed: each event handled at least once and completed
   once. `DeliverySpec` and `CompletedByHolder` are its two halves.
2. Liveness of the inbox, under fairness of its callers.
