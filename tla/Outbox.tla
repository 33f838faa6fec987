------------------------------- MODULE Outbox -------------------------------
(***************************************************************************)
(* The transactional outbox: rows of onyx_outbox leased in batches by      *)
(* workers that publish them to a sink and settle them.                    *)
(*                                                                         *)
(* The table operations are those of                                       *)
(* src/infrastructure/sqlite/database.ts, one transaction each; a          *)
(* worker is an OutboxWorker (outbox/worker.ts) that runs an               *)
(* OutboxDispatcher (outbox/dispatcher.ts) with the HTTP publisher         *)
(* (outbox/http-publisher.ts).  Steps of workers interleave at every await *)
(* and, since workers may be processes sharing one file, between any two   *)
(* transactions.                                                           *)
(*                                                                         *)
(* Times are kept relative to now, so that the clock needs no bound: Tick  *)
(* lets one unit pass for every row and publication at once.               *)
(***************************************************************************)
EXTENDS Integers, Sequences, FiniteSets

CONSTANTS
  Event,          \* event ids: numbers in the order of (context, aggregate_id,
                  \* aggregate_version, event_id), which breaks ties
  Worker,         \* worker ids
  NoWorker,       \* lease_owner IS NULL
  BatchSize,      \* the LIMIT of a claim
  LeaseDuration,  \* leaseDurationMs, in ticks
  MaxAttempts,    \* the attempt limit
  MaxDelay,       \* the cap of the retry delay, in ticks
  PublishTimeout, \* timeoutMs of the publisher, in ticks
  Horizon,        \* how many ticks overdue rows are told apart
  Punctual        \* whether workers keep to their timers (no stalled process)

\* The last conjunct is the configuration check of the server's start-up.
ASSUME OutboxAssumption ==
  /\ Event \subseteq Nat
  /\ NoWorker \notin Worker
  /\ BatchSize \in Nat \ {0}
  /\ LeaseDuration \in Nat \ {0}
  /\ MaxAttempts \in Nat \ {0}
  /\ MaxDelay \in Nat \ {0}
  /\ PublishTimeout \in Nat \ {0}
  /\ Horizon \in Nat
  /\ Punctual \in BOOLEAN
  /\ LeaseDuration > BatchSize * PublishTimeout

VARIABLES
  \* the rows of onyx_outbox
  enqueued,   \* events that have a row
  delivered,  \* delivered_at IS NOT NULL
  dead,       \* dead_lettered_at IS NOT NULL
  attempts,   \* attempt_count, counted up to MaxAttempts
  owner,      \* lease_owner
  lease,      \* lease_expires_at - now, 0 once it has passed or is NULL
  due,        \* available_at - now
  \* the workers
  at,         \* where each worker is
  stopping,   \* whether stop() has been called
  batch,      \* the claimed messages it has not settled, current one first
  elapsed,    \* ticks since the current publication began
  \* the sink, and history
  received,   \* events the sink has accepted
  confirmed,  \* events whose latest claim saw its publication succeed
  calm        \* crashes and storage faults are over

rows == <<enqueued, delivered, dead, attempts, owner, lease, due>>
workers == <<at, stopping, batch, elapsed>>
vars == <<rows, workers, received, confirmed, calm>>

Minimum(x, y) == IF x < y THEN x ELSE y
Maximum(x, y) == IF x < y THEN y ELSE x

\* "pass" is just before a claim; "publish" awaits the publisher;
\* "acknowledge" and "reject" follow its outcome; "wait" is the idle delay.
Place == {"stopped", "pass", "publish", "acknowledge", "reject", "wait"}

TypeOK ==
  /\ enqueued \subseteq Event
  /\ delivered \subseteq enqueued
  /\ dead \subseteq enqueued
  /\ received \subseteq enqueued
  /\ confirmed \subseteq enqueued
  /\ attempts \in [Event -> 0 .. MaxAttempts]
  /\ owner \in [Event -> Worker \cup {NoWorker}]
  /\ lease \in [Event -> 0 .. LeaseDuration]
  /\ due \in [Event -> Int] /\ \A e \in Event : due[e] <= MaxDelay
  /\ at \in [Worker -> Place]
  /\ stopping \in [Worker -> BOOLEAN]
  /\ batch \in [Worker -> Seq(Event)] /\ \A w \in Worker : Len(batch[w]) <= BatchSize
  /\ elapsed \in [Worker -> 0 .. PublishTimeout]
  /\ calm \in BOOLEAN
  /\ \A w \in Worker :
       at[w] \in {"publish", "acknowledge", "reject"} <=> batch[w] # <<>>

Init ==
  /\ enqueued = {}
  /\ delivered = {}
  /\ dead = {}
  /\ attempts = [e \in Event |-> 0]
  /\ owner = [e \in Event |-> NoWorker]
  /\ lease = [e \in Event |-> 0]
  /\ due = [e \in Event |-> 0]
  /\ at = [w \in Worker |-> "stopped"]
  /\ stopping = [w \in Worker |-> FALSE]
  /\ batch = [w \in Worker |-> <<>>]
  /\ elapsed = [w \in Worker |-> 0]
  /\ received = {}
  /\ confirmed = {}
  /\ calm = FALSE

-----------------------------------------------------------------------------
(* The table *)

Open(e) == e \in enqueued \ (delivered \cup dead)

\* Defect: a leased row can be claimed.
ClaimableWhileLeased(e) == Open(e) /\ due[e] <= 0

\* Defect: leases do not expire.
ClaimableWhenUnowned(e) == Open(e) /\ due[e] <= 0 /\ owner[e] = NoWorker

Claimable(e) == Open(e) /\ due[e] <= 0 /\ lease[e] = 0

\* ORDER BY available_at, then the order of the event numbers.
Before(e, f) == due[e] < due[f] \/ (due[e] = due[f] /\ e < f)

Batches == UNION {[1 .. n -> Event] : n \in 0 .. BatchSize}

\* b is what the claim's SELECT returns: the first rows, LIMIT at most.
Selected(b) ==
  /\ \A i, j \in DOMAIN b : i < j => Before(b[i], b[j])
  /\ \A i \in DOMAIN b : Claimable(b[i])
  /\ \A e \in Event :
       Claimable(e) /\ (\A i \in DOMAIN b : b[i] # e)
       => Len(b) = BatchSize /\ \A i \in DOMAIN b : Before(b[i], e)

\* The rows of b are leased to w; a claim counts as an attempt.
claimOutbox(w, b) ==
  LET claimed == {b[i] : i \in DOMAIN b} IN
  /\ Selected(b)
  /\ owner' = [e \in Event |-> IF e \in claimed THEN w ELSE owner[e]]
  /\ lease' = [e \in Event |-> IF e \in claimed THEN LeaseDuration ELSE lease[e]]
  /\ attempts' = [e \in Event |->
       IF e \in claimed THEN Minimum(attempts[e] + 1, MaxAttempts) ELSE attempts[e]]
  /\ confirmed' = confirmed \ claimed
  /\ UNCHANGED <<enqueued, delivered, dead, due>>

\* Defect: any worker may settle a leased row.
LeasedByAnyone(e, w) == owner[e] # NoWorker /\ Open(e)

\* The WHERE clause of acknowledgement and rejection.  It does not ask
\* whether the lease has expired.
LeasedBy(e, w) == owner[e] = w /\ Open(e)

clearLease(e) ==
  /\ owner' = [owner EXCEPT ![e] = NoWorker]
  /\ lease' = [lease EXCEPT ![e] = 0]

acknowledgeOutbox(e, w) ==
  /\ LeasedBy(e, w)
  /\ delivered' = delivered \cup {e}
  /\ clearLease(e)
  /\ UNCHANGED <<enqueued, dead, attempts, due>>

\* min(60 s, 1 s * 2^(attempt - 1)), one tick being a second.
RetryDelay(attempt) == Minimum(MaxDelay, 2 ^ (attempt - 1))

\* Defect: the limit is compared with the number of the next attempt.
ExhaustedEarly(e) == attempts[e] + 1 >= MaxAttempts

Exhausted(e) == attempts[e] >= MaxAttempts

rejectOutbox(e, w) ==
  /\ LeasedBy(e, w)
  /\ IF Exhausted(e)
     THEN dead' = dead \cup {e} /\ UNCHANGED due
     ELSE due' = [due EXCEPT ![e] = RetryDelay(attempts[e])] /\ UNCHANGED dead
  /\ clearLease(e)
  /\ UNCHANGED <<enqueued, delivered, attempts>>

\* A command's commit inserts the row, available at once.
Enqueue(e) ==
  /\ e \notin enqueued
  /\ enqueued' = enqueued \cup {e}
  /\ UNCHANGED <<delivered, dead, attempts, owner, lease, due, workers,
                 received, confirmed, calm>>

-----------------------------------------------------------------------------
(* A worker: OutboxWorker's loop around OutboxDispatcher.runOnce() *)

Current(w) == Head(batch[w])

start(w) ==
  /\ at[w] = "stopped"
  /\ at' = [at EXCEPT ![w] = "pass"]
  /\ UNCHANGED <<rows, stopping, batch, elapsed, received, confirmed, calm>>

stop(w) ==
  /\ at[w] # "stopped"
  /\ ~stopping[w]
  /\ stopping' = [stopping EXCEPT ![w] = TRUE]
  /\ UNCHANGED <<rows, at, batch, elapsed, received, confirmed, calm>>

\* Defect: the loop does not test the stop flag.
LoopGoesOn(w, next) ==
  /\ at' = [at EXCEPT ![w] = next]
  /\ UNCHANGED stopping

\* The loop's test, after a pass or a wait: it ends when stop() was called,
\* which also cuts the delay short, and goes on to `next` otherwise.
Loop(w, next) ==
  /\ at' = [at EXCEPT ![w] = IF stopping[w] THEN "stopped" ELSE next]
  /\ stopping' = [stopping EXCEPT ![w] = FALSE]

\* runOnce() throws: the rest of the batch is dropped, its leases stay.
Abort(w) ==
  /\ batch' = [batch EXCEPT ![w] = <<>>]
  /\ elapsed' = [elapsed EXCEPT ![w] = 0]
  /\ Loop(w, "wait")

\* The current message is done with: on to the next, or to a new pass.
Advance(w) ==
  /\ batch' = [batch EXCEPT ![w] = Tail(@)]
  /\ elapsed' = [elapsed EXCEPT ![w] = 0]
  /\ IF Len(batch[w]) > 1
     THEN at' = [at EXCEPT ![w] = "publish"] /\ UNCHANGED stopping
     ELSE Loop(w, "pass")

Claim(w) ==
  /\ at[w] = "pass"
  /\ \E b \in Batches :
       /\ claimOutbox(w, b)
       /\ batch' = [batch EXCEPT ![w] = b]
       /\ IF b # <<>>
          THEN at' = [at EXCEPT ![w] = "publish"] /\ UNCHANGED stopping
          ELSE Loop(w, "wait")
  /\ UNCHANGED <<elapsed, received, calm>>

WaitOver(w) ==
  /\ at[w] = "wait"
  /\ Loop(w, "pass")
  /\ UNCHANGED <<rows, batch, elapsed, received, confirmed, calm>>

\* The sink accepts the event and the worker learns of it.
PublishSucceeds(w) ==
  /\ at[w] = "publish"
  /\ received' = received \cup {Current(w)}
  /\ confirmed' = IF owner[Current(w)] = w THEN confirmed \cup {Current(w)} ELSE confirmed
  /\ at' = [at EXCEPT ![w] = "acknowledge"]
  /\ UNCHANGED <<rows, stopping, batch, elapsed, calm>>

\* Defect: the status of the response is not looked at.
PublishFailsUnnoticed(w) ==
  /\ at[w] = "publish"
  /\ received' \in {received, received \cup {Current(w)}}
  /\ at' = [at EXCEPT ![w] = "acknowledge"]
  /\ UNCHANGED <<rows, stopping, batch, elapsed, confirmed, calm>>

\* The request fails or times out; the sink may have accepted the event.
PublishFails(w) ==
  /\ at[w] = "publish"
  /\ received' \in {received, received \cup {Current(w)}}
  /\ at' = [at EXCEPT ![w] = "reject"]
  /\ UNCHANGED <<rows, stopping, batch, elapsed, confirmed, calm>>

Acknowledge(w) ==
  /\ at[w] = "acknowledge"
  /\ acknowledgeOutbox(Current(w), w)
  /\ Advance(w)
  /\ UNCHANGED <<received, confirmed, calm>>

\* An acknowledgement that throws is handled like a failed publication.
AcknowledgeThrows(w) ==
  /\ at[w] = "acknowledge"
  /\ ~LeasedBy(Current(w), w)
  /\ at' = [at EXCEPT ![w] = "reject"]
  /\ UNCHANGED <<rows, stopping, batch, elapsed, received, confirmed, calm>>

Reject(w) ==
  /\ at[w] = "reject"
  /\ rejectOutbox(Current(w), w)
  /\ Advance(w)
  /\ UNCHANGED <<received, confirmed, calm>>

RejectThrows(w) ==
  /\ at[w] = "reject"
  /\ ~LeasedBy(Current(w), w)
  /\ Abort(w)
  /\ UNCHANGED <<rows, received, confirmed, calm>>

\* The database throws for a reason of its own (busy, full, a damaged row).
StorageFault(w) ==
  /\ \/ at[w] \in {"pass", "reject"} /\ Abort(w)
     \/ /\ at[w] = "acknowledge"
        /\ at' = [at EXCEPT ![w] = "reject"]
        /\ UNCHANGED <<stopping, batch, elapsed>>
  /\ UNCHANGED <<rows, received, confirmed, calm>>

\* The process dies; one with the same worker id may be started later.
Crash(w) ==
  /\ at[w] # "stopped"
  /\ at' = [at EXCEPT ![w] = "stopped"]
  /\ stopping' = [stopping EXCEPT ![w] = FALSE]
  /\ batch' = [batch EXCEPT ![w] = <<>>]
  /\ elapsed' = [elapsed EXCEPT ![w] = 0]
  /\ UNCHANGED <<rows, received, confirmed, calm>>

\* A punctual worker aborts a publication when its timer runs out, and does
\* what follows it without delay.
OnTime(w) ==
  /\ at[w] \notin {"acknowledge", "reject"}
  /\ at[w] = "publish" => elapsed[w] < PublishTimeout

Tick ==
  /\ Punctual => \A w \in Worker : OnTime(w)
  /\ lease' = [e \in Event |-> Maximum(lease[e] - 1, 0)]
  /\ due' = [e \in Event |-> IF Open(e) THEN Maximum(due[e] - 1, -Horizon) ELSE due[e]]
  /\ elapsed' = [w \in Worker |->
       IF Punctual /\ at[w] = "publish" THEN elapsed[w] + 1 ELSE elapsed[w]]
  /\ UNCHANGED <<enqueued, delivered, dead, attempts, owner, at, stopping,
                 batch, received, confirmed, calm>>

-----------------------------------------------------------------------------

Work(w) ==
  \/ Claim(w)
  \/ WaitOver(w)
  \/ PublishSucceeds(w)
  \/ PublishFails(w)
  \/ Acknowledge(w)
  \/ AcknowledgeThrows(w)
  \/ Reject(w)
  \/ RejectThrows(w)

Fault(w) == ~calm /\ (StorageFault(w) \/ Crash(w))

\* From here on nothing fails any more (for what must eventually happen).
CalmDown ==
  /\ ~calm
  /\ calm' = TRUE
  /\ UNCHANGED <<rows, workers, received, confirmed>>

Next ==
  \/ \E e \in Event : Enqueue(e)
  \/ \E w \in Worker : start(w) \/ stop(w) \/ Work(w) \/ Fault(w)
  \/ Tick
  \/ CalmDown

Spec == Init /\ [][Next]_vars

\* Time passes, a stopped process is started again, and a worker that has a
\* step to take takes it: its promises resolve, its timers fire.
Fairness ==
  /\ SF_vars(Tick)
  /\ \A w \in Worker : WF_vars(start(w)) /\ WF_vars(Work(w))

FairSpec == Spec /\ Fairness

-----------------------------------------------------------------------------
(* Properties *)

\* A row is settled for a reason: as delivered only when the sink has the
\* event, as dead only when its attempts are used up, and never as both,
\* whoever held it in between.
SettledHonestly ==
  /\ delivered \subseteq received
  /\ \A e \in dead : attempts[e] = MaxAttempts
  /\ delivered \cap dead = {}

\* "Owner-checked acknowledgement prevents a stale worker from completing a
\* newer worker's lease": a row becomes delivered only through a publication
\* that succeeded under its latest claim.
AcknowledgedByItsClaim ==
  [][\A e \in delivered' \ delivered : e \in confirmed]_vars

\* A settled row is never touched again: not claimed, not settled another way.
SettledRowsAreFinal ==
  [][\A e \in delivered \cup dead :
       /\ e \in delivered' \cup dead'
       /\ e \in delivered <=> e \in delivered'
       /\ <<attempts[e], owner[e], lease[e], due[e]>>' = <<attempts[e], owner[e], lease[e], due[e]>>]_vars

\* The outbox implements at-least-once delivery.
Delivery == INSTANCE AtLeastOnceDelivery

DeliverySpec == Delivery!Spec

\* What the start-up check on the lease is for: a worker that keeps to its
\* timers holds an unexpired lease on every message of its batch until it has
\* settled it, so no two workers have the same event in hand.
LeaseOutlastsBatch ==
  \A w \in Worker : \A i \in DOMAIN batch[w] :
    LeasedBy(batch[w][i], w) /\ lease[batch[w][i]] > 0

\* Once crashes and storage faults are over, no event stays pending: leases
\* of dead workers expire, retries come due, and poison messages run out of
\* attempts.
EventuallySettled ==
  \A e \in Event : (calm /\ e \in enqueued) ~> (e \in delivered \cup dead)

\* stop() completes: the loop finishes the batch in hand and ends, whatever
\* fails on the way.
StopCompletes ==
  \A w \in Worker : stopping[w] ~> at[w] = "stopped"
=============================================================================
