--------------------------- MODULE Outbox_proofs ---------------------------
(***************************************************************************)
(* Proofs about the outbox, for any events, any workers and any values of  *)
(* its settings that OutboxAssumption admits.                              *)
(***************************************************************************)
EXTENDS Outbox, SequenceTheorems, TLAPS

-----------------------------------------------------------------------------
(* The inductive invariant *)

\* Only events that have a row are ever in a batch.
BatchesEnqueued ==
  \A w \in Worker : \A i \in DOMAIN batch[w] : batch[w][i] \in enqueued

\* A lease is the mark of a claim, which counted an attempt.
LeasedWasClaimed ==
  \A e \in Event : owner[e] # NoWorker => attempts[e] >= 1

\* Settling a row ends its lease.
SettledRowsReleased ==
  \A e \in delivered \cup dead : lease[e] = 0

\* A worker about to acknowledge had its publication accepted; and if it still
\* owns the row, then it did so under the latest claim.
AcknowledgesReceived ==
  \A w \in Worker : at[w] = "acknowledge" =>
    /\ Current(w) \in received
    /\ owner[Current(w)] = w => Current(w) \in confirmed

IInv ==
  /\ TypeOK
  /\ SettledHonestly
  /\ BatchesEnqueued
  /\ LeasedWasClaimed
  /\ SettledRowsReleased
  /\ AcknowledgesReceived

-----------------------------------------------------------------------------
(* Arithmetic and sequences *)

\* The assumption on the constants, without the name of its module.
LEMMA ConstantsTyped ==
  /\ NoWorker \notin Worker
  /\ BatchSize \in Nat \ {0}
  /\ LeaseDuration \in Nat \ {0}
  /\ MaxAttempts \in Nat \ {0}
  /\ MaxDelay \in Nat \ {0}
  /\ PublishTimeout \in Nat \ {0}
  /\ Horizon \in Nat
  BY OutboxAssumption

\* A batch is a sequence of at most BatchSize events.
LEMMA BatchesAreSequences ==
  ASSUME NEW b \in Batches
  PROVE  /\ b \in Seq(Event)
         /\ Len(b) <= BatchSize
         /\ DOMAIN b = 1 .. Len(b)
<1>1. PICK n \in 0 .. BatchSize : b \in [1 .. n -> Event]
  BY DEF Batches
<1>2. n \in Nat /\ n <= BatchSize
  BY ConstantsTyped
<1>3. b \in Seq(Event) /\ Len(b) = n
  BY <1>1, <1>2
<1> QED
  BY <1>1, <1>2, <1>3

\* The exponential retry delay never exceeds its cap.
LEMMA RetryDelayBounded ==
  ASSUME NEW n \in Nat, n >= 1
  PROVE  RetryDelay(n) \in Int /\ RetryDelay(n) <= MaxDelay
<1>1. n - 1 \in Nat
  OBVIOUS
<1>2. 2 ^ (n - 1) \in Int
  BY <1>1
<1>3. MaxDelay \in Int
  BY ConstantsTyped
<1> QED
  BY <1>2, <1>3 DEF RetryDelay, Minimum

\* What is left of a non-empty sequence after its head.
LEMMA TailOfSequence ==
  ASSUME NEW S, NEW s \in Seq(S), s # <<>>
  PROVE  /\ Len(s) \in Nat \ {0}
         /\ Tail(s) \in Seq(S)
         /\ Len(Tail(s)) = Len(s) - 1
         /\ Len(s) > 1 <=> Tail(s) # <<>>
<1>1. Len(s) \in Nat \ {0}
  BY EmptySeq
<1>2. Tail(s) \in Seq(S) /\ Len(Tail(s)) = Len(s) - 1
  BY HeadTailProperties
<1>3. Tail(s) = <<>> => Len(Tail(s)) = 0
  BY EmptySeq
<1>4. Tail(s) # <<>> => Len(Tail(s)) \in Nat \ {0}
  BY <1>2, EmptySeq
<1> QED
  BY <1>1, <1>2, <1>3, <1>4

\* The message in hand, and what is left of the batch after it.
LEMMA HeadOfBatch ==
  ASSUME TypeOK, NEW w \in Worker, batch[w] # <<>>
  PROVE  /\ Current(w) \in Event
         /\ Current(w) = batch[w][1]
         /\ 1 \in DOMAIN batch[w]
         /\ Tail(batch[w]) \in Seq(Event)
         /\ Len(batch[w]) \in Nat \ {0}
         /\ Len(batch[w]) <= BatchSize
         /\ Len(Tail(batch[w])) = Len(batch[w]) - 1
         /\ \A i \in DOMAIN Tail(batch[w]) :
              /\ i + 1 \in DOMAIN batch[w]
              /\ i + 1 # 1
              /\ Tail(batch[w])[i] = batch[w][i + 1]
<1>1. batch[w] \in Seq(Event) /\ Len(batch[w]) <= BatchSize
  BY DEF TypeOK
<1>2. Len(batch[w]) \in Nat \ {0}
  BY <1>1
<1>3. Current(w) = batch[w][1] /\ Current(w) \in Event
  BY <1>1, <1>2 DEF Current
<1>4. /\ Tail(batch[w]) \in Seq(Event)
      /\ Len(Tail(batch[w])) = Len(batch[w]) - 1
  BY <1>1, <1>2
<1>5. \A i \in DOMAIN Tail(batch[w]) :
        i + 1 \in DOMAIN batch[w] /\ i + 1 # 1 /\ Tail(batch[w])[i] = batch[w][i + 1]
  BY <1>1, <1>2, <1>4
<1> QED
  BY <1>1, <1>2, <1>3, <1>4, <1>5

-----------------------------------------------------------------------------
(* Type correctness *)

\* An empty table with stopped workers is well typed.
LEMMA TypeInit == Init => TypeOK
<1> SUFFICES ASSUME Init PROVE TypeOK
  OBVIOUS
<1> USE ConstantsTyped DEF Init
<1>1. /\ <<>> \in Seq(Event)
      /\ Len(<<>>) = 0
  OBVIOUS
<1>2. /\ attempts \in [Event -> 0 .. MaxAttempts]
      /\ owner \in [Event -> Worker \cup {NoWorker}]
      /\ lease \in [Event -> 0 .. LeaseDuration]
      /\ due \in [Event -> Int] /\ \A e \in Event : due[e] <= MaxDelay
  OBVIOUS
<1>3. /\ at \in [Worker -> Place]
      /\ stopping \in [Worker -> BOOLEAN]
      /\ elapsed \in [Worker -> 0 .. PublishTimeout]
  BY DEF Place
<1>4. batch \in [Worker -> Seq(Event)] /\ \A w \in Worker : Len(batch[w]) <= BatchSize
  BY <1>1
<1> QED
  BY <1>2, <1>3, <1>4 DEF TypeOK

\* Ending a pass or a wait, with an empty batch.
LEMMA LoopTyped ==
  ASSUME TypeOK, NEW w \in Worker, NEW next \in {"pass", "wait"}, Loop(w, next),
         batch' = [batch EXCEPT ![w] = <<>>]
  PROVE  /\ at' \in [Worker -> Place]
         /\ stopping' \in [Worker -> BOOLEAN]
         /\ batch' \in [Worker -> Seq(Event)]
         /\ \A v \in Worker :
              /\ Len(batch'[v]) <= BatchSize
              /\ at'[v] \in {"publish", "acknowledge", "reject"} <=> batch'[v] # <<>>
<1>1. <<>> \in Seq(Event) /\ Len(<<>>) = 0 /\ BatchSize \in Nat
  BY ConstantsTyped
<1> QED
  BY <1>1 DEF Loop, TypeOK, Place

\* What follows a message that is done with.
LEMMA AdvanceTyped ==
  ASSUME TypeOK, NEW w \in Worker, batch[w] # <<>>, Advance(w)
  PROVE  /\ at' \in [Worker -> Place]
         /\ stopping' \in [Worker -> BOOLEAN]
         /\ elapsed' \in [Worker -> 0 .. PublishTimeout]
         /\ batch' \in [Worker -> Seq(Event)]
         /\ \A v \in Worker :
              /\ Len(batch'[v]) <= BatchSize
              /\ at'[v] \in {"publish", "acknowledge", "reject"} <=> batch'[v] # <<>>
<1>1. /\ Tail(batch[w]) \in Seq(Event)
      /\ Len(Tail(batch[w])) = Len(batch[w]) - 1
      /\ Len(batch[w]) \in Nat \ {0}
      /\ Len(batch[w]) <= BatchSize
  BY HeadOfBatch
<1>2. BatchSize \in Nat /\ PublishTimeout \in Nat
  BY ConstantsTyped
<1>3. batch' = [batch EXCEPT ![w] = Tail(batch[w])] /\ elapsed' = [elapsed EXCEPT ![w] = 0]
  BY DEF Advance
<1>4. elapsed' \in [Worker -> 0 .. PublishTimeout]
  BY <1>2, <1>3 DEF TypeOK
<1>5. batch' \in [Worker -> Seq(Event)] /\ \A v \in Worker : Len(batch'[v]) <= BatchSize
  BY <1>1, <1>2, <1>3 DEF TypeOK
<1>6. CASE Len(batch[w]) > 1
  <2>1. Tail(batch[w]) # <<>>
    BY <1>6, TailOfSequence DEF TypeOK
  <2>2. at' = [at EXCEPT ![w] = "publish"] /\ UNCHANGED stopping
    BY <1>6 DEF Advance
  <2> QED
    BY <1>3, <1>4, <1>5, <2>1, <2>2 DEF TypeOK, Place
<1>7. CASE ~(Len(batch[w]) > 1)
  <2>2. Tail(batch[w]) = <<>>
    BY <1>7, TailOfSequence DEF TypeOK
  <2>3. Loop(w, "pass")
    BY <1>7 DEF Advance
  <2> QED
    BY <1>3, <1>4, <2>2, <2>3, LoopTyped
<1> QED
  BY <1>6, <1>7

\* A pass that throws leaves its worker without a batch.
LEMMA AbortTyped ==
  ASSUME TypeOK, NEW w \in Worker, Abort(w)
  PROVE  /\ at' \in [Worker -> Place]
         /\ stopping' \in [Worker -> BOOLEAN]
         /\ elapsed' \in [Worker -> 0 .. PublishTimeout]
         /\ batch' \in [Worker -> Seq(Event)]
         /\ \A v \in Worker :
              /\ Len(batch'[v]) <= BatchSize
              /\ at'[v] \in {"publish", "acknowledge", "reject"} <=> batch'[v] # <<>>
<1>1. batch' = [batch EXCEPT ![w] = <<>>] /\ elapsed' = [elapsed EXCEPT ![w] = 0] /\ Loop(w, "wait")
  BY DEF Abort
<1>2. elapsed' \in [Worker -> 0 .. PublishTimeout]
  BY <1>1, ConstantsTyped DEF TypeOK
<1> QED
  BY <1>1, <1>2, LoopTyped

\* The types of the rows and of the history, and those of the workers.
RowTypes ==
  /\ enqueued \subseteq Event
  /\ delivered \subseteq enqueued
  /\ dead \subseteq enqueued
  /\ received \subseteq enqueued
  /\ confirmed \subseteq enqueued
  /\ attempts \in [Event -> 0 .. MaxAttempts]
  /\ owner \in [Event -> Worker \cup {NoWorker}]
  /\ lease \in [Event -> 0 .. LeaseDuration]
  /\ due \in [Event -> Int]
  /\ \A e \in Event : due[e] <= MaxDelay
  /\ calm \in BOOLEAN

WorkerTypes ==
  /\ at \in [Worker -> Place]
  /\ stopping \in [Worker -> BOOLEAN]
  /\ elapsed \in [Worker -> 0 .. PublishTimeout]
  /\ batch \in [Worker -> Seq(Event)]
  /\ \A w \in Worker :
       /\ Len(batch[w]) <= BatchSize
       /\ at[w] \in {"publish", "acknowledge", "reject"} <=> batch[w] # <<>>

\* Type correctness is that of the rows and that of the workers.
LEMMA TypesApart == TypeOK <=> RowTypes /\ WorkerTypes
  BY DEF TypeOK, RowTypes, WorkerTypes

\* The same after a step.
LEMMA TypesApartNext == RowTypes' /\ WorkerTypes' => TypeOK'
  BY DEF TypeOK, RowTypes, WorkerTypes

\* A step that touches no row keeps the rows typed.
LEMMA RowTypesKept ==
  ASSUME RowTypes, UNCHANGED <<rows, received, confirmed>>, calm' \in BOOLEAN
  PROVE  RowTypes'
  BY DEF RowTypes, rows

\* Claimed rows are well typed: their attempts do not exceed the limit.
LEMMA ClaimRows ==
  ASSUME TypeOK, NEW w \in Worker, NEW b \in Batches, claimOutbox(w, b),
         UNCHANGED <<received, calm>>
  PROVE  RowTypes'
<1>1. RowTypes
  BY TypesApart
<1>2. \A e \in Event : Minimum(attempts[e] + 1, MaxAttempts) \in 0 .. MaxAttempts
  BY <1>1, ConstantsTyped DEF RowTypes, Minimum
<1> QED
  BY <1>1, <1>2, ConstantsTyped DEF claimOutbox, RowTypes

\* Acknowledged rows are well typed.
LEMMA AcknowledgeRows ==
  ASSUME TypeOK, NEW w \in Worker, NEW e \in Event, acknowledgeOutbox(e, w),
         UNCHANGED <<received, confirmed, calm>>
  PROVE  RowTypes'
  BY TypesApart, ConstantsTyped DEF acknowledgeOutbox, LeasedBy, Open, clearLease, RowTypes

\* Rejected rows are well typed: their retry delay does not exceed the cap.
LEMMA RejectRows ==
  ASSUME TypeOK, LeasedWasClaimed, NEW w \in Worker, NEW e \in Event, rejectOutbox(e, w),
         UNCHANGED <<received, confirmed, calm>>
  PROVE  RowTypes'
<1>1. RowTypes
  BY TypesApart
<1>2. attempts[e] \in Nat /\ attempts[e] >= 1
  BY <1>1, ConstantsTyped DEF RowTypes, LeasedWasClaimed, rejectOutbox, LeasedBy
<1>3. RetryDelay(attempts[e]) \in Int /\ RetryDelay(attempts[e]) <= MaxDelay
  BY <1>2, RetryDelayBounded
<1>4. /\ owner' \in [Event -> Worker \cup {NoWorker}]
      /\ lease' \in [Event -> 0 .. LeaseDuration]
  BY <1>1, ConstantsTyped DEF rejectOutbox, clearLease, RowTypes
<1>5. /\ due' \in [Event -> Int]
      /\ \A f \in Event : due'[f] <= MaxDelay
      /\ dead' \subseteq enqueued
  BY <1>1, <1>3 DEF rejectOutbox, LeasedBy, Open, RowTypes
<1> QED
  BY <1>1, <1>4, <1>5 DEF rejectOutbox, RowTypes

\* Every step of a worker, a fault and the clock keep the types.
LEMMA TypeStep ==
  ASSUME TypeOK, BatchesEnqueued, LeasedWasClaimed, [Next]_vars
  PROVE  TypeOK'
<1>0. RowTypes /\ WorkerTypes
  BY TypesApart
<1> SUFFICES RowTypes' /\ WorkerTypes'
  BY TypesApartNext
<1>1. ASSUME NEW e \in Event, Enqueue(e) PROVE RowTypes' /\ WorkerTypes'
  BY <1>0, <1>1 DEF Enqueue, RowTypes, WorkerTypes, workers
<1>2. ASSUME NEW w \in Worker, start(w) \/ stop(w) PROVE RowTypes' /\ WorkerTypes'
  <2>1. RowTypes'
    BY <1>0, <1>2, RowTypesKept DEF start, stop, RowTypes
  <2>2. WorkerTypes'
    BY <1>0, <1>2 DEF start, stop, WorkerTypes, Place
  <2> QED
    BY <2>1, <2>2
<1>3. ASSUME NEW w \in Worker, Claim(w) PROVE RowTypes' /\ WorkerTypes'
  <2>1. PICK b \in Batches :
          /\ claimOutbox(w, b)
          /\ batch' = [batch EXCEPT ![w] = b]
          /\ IF b # <<>>
             THEN at' = [at EXCEPT ![w] = "publish"] /\ UNCHANGED stopping
             ELSE Loop(w, "wait")
    BY <1>3 DEF Claim
  <2>2. RowTypes'
    BY <1>3, <2>1, ClaimRows DEF Claim
  <2>3. b \in Seq(Event) /\ Len(b) <= BatchSize
    BY BatchesAreSequences
  <2>4. UNCHANGED elapsed
    BY <1>3 DEF Claim
  <2>5. WorkerTypes'
    <3>1. CASE b # <<>>
      BY <1>0, <2>1, <2>3, <2>4, <3>1 DEF WorkerTypes, Place
    <3>2. CASE b = <<>>
      BY <1>0, <2>1, <2>4, <3>2, LoopTyped DEF WorkerTypes
    <3> QED
      BY <3>1, <3>2
  <2> QED
    BY <2>2, <2>5
<1>4. ASSUME NEW w \in Worker, WaitOver(w) PROVE RowTypes' /\ WorkerTypes'
  <2>1. RowTypes'
    BY <1>0, <1>4, RowTypesKept DEF WaitOver, RowTypes
  <2>2. WorkerTypes'
    BY <1>0, <1>4 DEF WaitOver, Loop, WorkerTypes, Place
  <2> QED
    BY <2>1, <2>2
<1>5. ASSUME NEW w \in Worker, PublishSucceeds(w) \/ PublishFails(w)
      PROVE  RowTypes' /\ WorkerTypes'
  <2>1. batch[w] # <<>> /\ Current(w) \in enqueued
    BY <1>0, <1>5, HeadOfBatch DEF WorkerTypes, PublishSucceeds, PublishFails, BatchesEnqueued
  <2>2. WorkerTypes'
    BY <1>0, <1>5 DEF PublishSucceeds, PublishFails, WorkerTypes, Place
  <2> QED
    BY <1>0, <1>5, <2>1, <2>2 DEF PublishSucceeds, PublishFails, RowTypes, rows
<1>6. ASSUME NEW w \in Worker, Acknowledge(w) PROVE RowTypes' /\ WorkerTypes'
  <2>1. batch[w] # <<>> /\ Current(w) \in Event
    BY <1>0, <1>6, HeadOfBatch DEF WorkerTypes, Acknowledge
  <2>2. RowTypes'
    BY <1>6, <2>1, AcknowledgeRows DEF Acknowledge
  <2>3. WorkerTypes'
    BY <1>6, <2>1, AdvanceTyped DEF Acknowledge, WorkerTypes
  <2> QED
    BY <2>2, <2>3
<1>7. ASSUME NEW w \in Worker, Reject(w) PROVE RowTypes' /\ WorkerTypes'
  <2>1. batch[w] # <<>> /\ Current(w) \in Event
    BY <1>0, <1>7, HeadOfBatch DEF WorkerTypes, Reject
  <2>2. RowTypes'
    BY <1>7, <2>1, RejectRows DEF Reject
  <2>3. WorkerTypes'
    BY <1>7, <2>1, AdvanceTyped DEF Reject, WorkerTypes
  <2> QED
    BY <2>2, <2>3
<1>8. ASSUME NEW w \in Worker, AcknowledgeThrows(w) PROVE RowTypes' /\ WorkerTypes'
  <2>1. RowTypes'
    BY <1>0, <1>8, RowTypesKept DEF AcknowledgeThrows, RowTypes
  <2>2. WorkerTypes'
    BY <1>0, <1>8 DEF AcknowledgeThrows, WorkerTypes, Place
  <2> QED
    BY <2>1, <2>2
<1>9. ASSUME NEW w \in Worker, RejectThrows(w) \/ StorageFault(w)
      PROVE  RowTypes' /\ WorkerTypes'
  <2>1. RowTypes'
    BY <1>0, <1>9, RowTypesKept DEF RejectThrows, StorageFault, RowTypes
  <2>2. CASE Abort(w)
    BY <2>1, <2>2, AbortTyped DEF WorkerTypes
  <2>3. CASE /\ at[w] = "acknowledge"
             /\ at' = [at EXCEPT ![w] = "reject"]
             /\ UNCHANGED <<stopping, batch, elapsed>>
    BY <1>0, <2>1, <2>3 DEF WorkerTypes, Place
  <2> QED
    BY <1>9, <2>2, <2>3 DEF RejectThrows, StorageFault
<1>10. ASSUME NEW w \in Worker, Crash(w) PROVE RowTypes' /\ WorkerTypes'
  <2>1. RowTypes'
    BY <1>0, <1>10, RowTypesKept DEF Crash, RowTypes
  <2>2. <<>> \in Seq(Event) /\ Len(<<>>) = 0
    BY EmptySeq
  <2>3. elapsed' \in [Worker -> 0 .. PublishTimeout]
    BY <1>0, <1>10, ConstantsTyped DEF Crash, WorkerTypes
  <2>4. batch' \in [Worker -> Seq(Event)] /\ \A v \in Worker : Len(batch'[v]) <= BatchSize
    BY <1>0, <1>10, <2>2, ConstantsTyped DEF Crash, WorkerTypes
  <2>5. WorkerTypes'
    BY <1>0, <1>10, <2>3, <2>4 DEF Crash, WorkerTypes, Place
  <2> QED
    BY <2>1, <2>5
<1>11. CASE Tick
  <2>1. lease' \in [Event -> 0 .. LeaseDuration]
    BY <1>0, <1>11, ConstantsTyped DEF Tick, RowTypes, Maximum
  <2>2. due' \in [Event -> Int] /\ \A e \in Event : due'[e] <= MaxDelay
    BY <1>0, <1>11, ConstantsTyped DEF Tick, RowTypes, Maximum
  <2>3. elapsed' \in [Worker -> 0 .. PublishTimeout]
    BY <1>0, <1>11, ConstantsTyped DEF Tick, OnTime, WorkerTypes
  <2> QED
    BY <1>0, <1>11, <2>1, <2>2, <2>3 DEF Tick, RowTypes, WorkerTypes
<1>12. CASE CalmDown \/ UNCHANGED vars
  BY <1>0, <1>12 DEF CalmDown, vars, rows, workers, RowTypes, WorkerTypes
<1> QED
  BY <1>1, <1>2, <1>3, <1>4, <1>5, <1>6, <1>7, <1>8, <1>9, <1>10, <1>11, <1>12
     DEF Next, Work, Fault

-----------------------------------------------------------------------------
(* The other parts of the invariant *)

\* How a step changes the batch of a worker.
LEMMA BatchStep ==
  ASSUME TypeOK, [Next]_vars, NEW v \in Worker
  PROVE  \/ batch'[v] = batch[v]
         \/ batch'[v] = <<>>
         \/ batch[v] # <<>> /\ batch'[v] = Tail(batch[v])
         \/ \E b \in Batches : claimOutbox(v, b) /\ batch'[v] = b
<1> DEFINE Goal == \/ batch'[v] = batch[v]
                   \/ batch'[v] = <<>>
                   \/ batch[v] # <<>> /\ batch'[v] = Tail(batch[v])
                   \/ \E b \in Batches : claimOutbox(v, b) /\ batch'[v] = b
<1>0. batch \in [Worker -> Seq(Event)]
  BY DEF TypeOK
<1>1. CASE UNCHANGED batch
  BY <1>1
<1>2. ASSUME NEW w \in Worker, Claim(w) PROVE Goal
  BY <1>0, <1>2 DEF Claim
<1>3. ASSUME NEW w \in Worker, Acknowledge(w) \/ Reject(w) PROVE Goal
  <2>1. batch[w] # <<>> /\ batch' = [batch EXCEPT ![w] = Tail(batch[w])]
    BY <1>3 DEF Acknowledge, Reject, Advance, TypeOK
  <2> QED
    BY <1>0, <2>1
<1>4. ASSUME NEW w \in Worker, Abort(w) \/ Crash(w) PROVE Goal
  BY <1>0, <1>4 DEF Abort, Crash
<1>5. \/ UNCHANGED batch
      \/ \E w \in Worker : Claim(w)
      \/ \E w \in Worker : Acknowledge(w) \/ Reject(w)
      \/ \E w \in Worker : Abort(w) \/ Crash(w)
  BY DEF Next, Work, Fault, vars, workers, Enqueue, start, stop, WaitOver, PublishSucceeds,
         PublishFails, AcknowledgeThrows, RejectThrows, StorageFault, Tick, CalmDown
<1> QED
  BY <1>1, <1>2, <1>3, <1>4, <1>5

\* No row is ever deleted.
LEMMA EnqueuedGrows == ASSUME [Next]_vars PROVE enqueued \subseteq enqueued'
  BY DEF Next, Work, Fault, vars, rows, Enqueue, start, stop, Claim, claimOutbox, WaitOver,
         PublishSucceeds, PublishFails, Acknowledge, acknowledgeOutbox, AcknowledgeThrows,
         Reject, rejectOutbox, RejectThrows, StorageFault, Crash, Tick, CalmDown

\* Workers only hold events that have a row.
LEMMA BatchesEnqueuedStep ==
  ASSUME TypeOK, BatchesEnqueued, [Next]_vars
  PROVE  BatchesEnqueued'
<1> SUFFICES ASSUME NEW v \in Worker, NEW i \in DOMAIN batch'[v]
             PROVE  batch'[v][i] \in enqueued'
  BY DEF BatchesEnqueued
<1> USE EnqueuedGrows
<1>1. CASE batch'[v] = batch[v]
  BY <1>1 DEF BatchesEnqueued
<1>2. CASE batch'[v] = <<>>
  BY <1>2
<1>3. CASE batch[v] # <<>> /\ batch'[v] = Tail(batch[v])
  BY <1>3, HeadOfBatch DEF BatchesEnqueued
<1>4. CASE \E b \in Batches : claimOutbox(v, b) /\ batch'[v] = b
  BY <1>4 DEF claimOutbox, Selected, Claimable, Open
<1> QED
  BY <1>1, <1>2, <1>3, <1>4, BatchStep

\* How a step changes the rows.
LEMMA RowStep ==
  ASSUME [Next]_vars
  PROVE  \/ \E e \in Event : Enqueue(e)
         \/ \E w \in Worker : \E b \in Batches : claimOutbox(w, b) /\ Claim(w)
         \/ \E w \in Worker : Acknowledge(w)
         \/ \E w \in Worker : Reject(w)
         \/ Tick
         \/ UNCHANGED rows
  BY DEF Next, Work, Fault, vars, start, stop, Claim, WaitOver, PublishSucceeds, PublishFails,
         AcknowledgeThrows, RejectThrows, StorageFault, Crash, CalmDown

\* A row that has an owner has at least one attempt.
LEMMA LeasedWasClaimedStep ==
  ASSUME TypeOK, LeasedWasClaimed, [Next]_vars
  PROVE  LeasedWasClaimed'
<1>0. /\ attempts \in [Event -> 0 .. MaxAttempts]
      /\ owner \in [Event -> Worker \cup {NoWorker}]
      /\ MaxAttempts \in Nat \ {0}
  BY ConstantsTyped DEF TypeOK
<1>1. ASSUME NEW w \in Worker, NEW b \in Batches, claimOutbox(w, b) PROVE LeasedWasClaimed'
  BY <1>0, <1>1 DEF LeasedWasClaimed, claimOutbox, Minimum
<1>2. ASSUME NEW w \in Worker, Acknowledge(w) \/ Reject(w) PROVE LeasedWasClaimed'
  BY <1>0, <1>2 DEF LeasedWasClaimed, Acknowledge, acknowledgeOutbox, Reject, rejectOutbox,
                    clearLease
<1>3. CASE UNCHANGED <<owner, attempts>>
  BY <1>3 DEF LeasedWasClaimed
<1> QED
  BY <1>1, <1>2, <1>3, RowStep DEF Enqueue, Tick, rows

\* A settled row has no lease, and does not get one.
LEMMA SettledRowsReleasedStep ==
  ASSUME TypeOK, SettledRowsReleased, [Next]_vars
  PROVE  SettledRowsReleased'
<1>0. /\ lease \in [Event -> 0 .. LeaseDuration]
      /\ delivered \cup dead \subseteq Event
      /\ \A e \in delivered \cup dead : lease[e] = 0
  BY DEF TypeOK, SettledRowsReleased
<1>1. ASSUME NEW w \in Worker, NEW b \in Batches, claimOutbox(w, b) PROVE SettledRowsReleased'
  <2>1. \A i \in DOMAIN b : b[i] \notin delivered \cup dead
    BY <1>1 DEF claimOutbox, Selected, Claimable, Open
  <2> QED
    BY <1>0, <1>1, <2>1 DEF claimOutbox, SettledRowsReleased
<1>2. ASSUME NEW w \in Worker, Acknowledge(w) PROVE SettledRowsReleased'
  BY <1>0, <1>2, ConstantsTyped
     DEF Acknowledge, acknowledgeOutbox, LeasedBy, Open, clearLease, TypeOK, SettledRowsReleased
<1>3. ASSUME NEW w \in Worker, Reject(w) PROVE SettledRowsReleased'
  BY <1>0, <1>3, ConstantsTyped
     DEF Reject, rejectOutbox, LeasedBy, Open, clearLease, TypeOK, SettledRowsReleased
<1>4. CASE Tick
  BY <1>0, <1>4 DEF Tick, Maximum, SettledRowsReleased
<1>5. CASE UNCHANGED <<delivered, dead, lease>>
  BY <1>0, <1>5 DEF SettledRowsReleased
<1> QED
  BY <1>1, <1>2, <1>3, <1>4, <1>5, RowStep DEF Enqueue, rows

\* The sink forgets nothing.
LEMMA ReceivedGrows == ASSUME [Next]_vars PROVE received \subseteq received'
  BY DEF Next, Work, Fault, vars, Enqueue, start, stop, Claim, WaitOver, PublishSucceeds,
         PublishFails, Acknowledge, AcknowledgeThrows, Reject, RejectThrows, StorageFault,
         Crash, Tick, CalmDown

\* A step settles a row only for a reason, and none a second time.
LEMMA SettledHonestlyStep ==
  ASSUME IInv, [Next]_vars
  PROVE  SettledHonestly'
<1>0. /\ TypeOK
      /\ attempts \in [Event -> 0 .. MaxAttempts]
      /\ MaxAttempts \in Nat \ {0}
      /\ delivered \subseteq enqueued /\ dead \subseteq enqueued /\ enqueued \subseteq Event
      /\ delivered \subseteq received
      /\ \A e \in dead : attempts[e] = MaxAttempts
      /\ delivered \cap dead = {}
  BY ConstantsTyped DEF IInv, TypeOK, SettledHonestly
<1> USE ReceivedGrows
<1>1. ASSUME NEW w \in Worker, NEW b \in Batches, claimOutbox(w, b) PROVE SettledHonestly'
  <2>1. \A i \in DOMAIN b : b[i] \notin dead
    BY <1>1 DEF claimOutbox, Selected, Claimable, Open
  <2>2. \A e \in dead : attempts'[e] = attempts[e]
    BY <1>0, <1>1, <2>1 DEF claimOutbox
  <2> QED
    BY <1>0, <1>1, <2>2 DEF claimOutbox, SettledHonestly
<1>2. ASSUME NEW w \in Worker, Acknowledge(w) PROVE SettledHonestly'
  <2>1. Current(w) \in received
    BY <1>2 DEF Acknowledge, IInv, AcknowledgesReceived
  <2> QED
    BY <1>0, <1>2, <2>1 DEF Acknowledge, acknowledgeOutbox, LeasedBy, Open, SettledHonestly
<1>3. ASSUME NEW w \in Worker, Reject(w) PROVE SettledHonestly'
  BY <1>0, <1>3 DEF Reject, rejectOutbox, LeasedBy, Open, Exhausted, SettledHonestly
<1>4. CASE UNCHANGED <<delivered, dead, attempts>>
  BY <1>0, <1>4 DEF SettledHonestly
<1> QED
  BY <1>1, <1>2, <1>3, <1>4, RowStep DEF Enqueue, Tick, rows

\* A worker comes to the acknowledgement by a publication that succeeded, and
\* stays there as it was.
LEMMA ComesToAcknowledge ==
  ASSUME TypeOK, [Next]_vars, NEW v \in Worker, at'[v] = "acknowledge"
  PROVE  \/ at[v] = "acknowledge" /\ batch'[v] = batch[v]
         \/ PublishSucceeds(v)
<1> DEFINE Goal == \/ at[v] = "acknowledge" /\ batch'[v] = batch[v]
                   \/ PublishSucceeds(v)
<1>0. /\ at \in [Worker -> Place]
      /\ batch \in [Worker -> Seq(Event)]
      /\ stopping \in [Worker -> BOOLEAN]
  BY DEF TypeOK
<1>1. CASE UNCHANGED <<at, batch>>
  BY <1>1
<1>2. ASSUME NEW w \in Worker, start(w) \/ WaitOver(w) \/ PublishSucceeds(w) \/ PublishFails(w)
      PROVE  Goal
  BY <1>0, <1>2 DEF start, WaitOver, Loop, PublishSucceeds, PublishFails
<1>3. ASSUME NEW w \in Worker, Claim(w) PROVE Goal
  <2>1. w # v => at'[v] = at[v] /\ batch'[v] = batch[v]
    BY <1>0, <1>3 DEF Claim, Loop
  <2>2. at'[w] # "acknowledge"
    BY <1>0, <1>3 DEF Claim, Loop
  <2> QED
    BY <2>1, <2>2
<1>4. ASSUME NEW w \in Worker, Acknowledge(w) \/ Reject(w) PROVE Goal
  BY <1>0, <1>4 DEF Acknowledge, Reject, Advance, Loop
<1>5. ASSUME NEW w \in Worker, AcknowledgeThrows(w) \/ RejectThrows(w) \/ StorageFault(w) \/ Crash(w)
      PROVE  Goal
  BY <1>0, <1>5 DEF AcknowledgeThrows, RejectThrows, StorageFault, Crash, Abort, Loop
<1>6. \/ UNCHANGED <<at, batch>>
      \/ \E w \in Worker : start(w) \/ Work(w) \/ StorageFault(w) \/ Crash(w)
  BY DEF Next, Fault, vars, workers, Enqueue, stop, Tick, CalmDown
<1> QED
  BY <1>1, <1>2, <1>3, <1>4, <1>5, <1>6 DEF Work

\* A worker never holds a row it did not claim, and keeps the confirmation of
\* one it does hold.
LEMMA HeldRowsKeepConfirmation ==
  ASSUME TypeOK, [Next]_vars, NEW v \in Worker, at[v] # "pass",
         NEW e \in Event, owner'[e] = v, owner[e] = v => e \in confirmed
  PROVE  e \in confirmed'
<1>0. owner \in [Event -> Worker \cup {NoWorker}] /\ v # NoWorker
  BY ConstantsTyped DEF TypeOK
<1>1. ASSUME NEW w \in Worker, NEW b \in Batches, claimOutbox(w, b), Claim(w)
      PROVE  e \in confirmed'
  BY <1>0, <1>1 DEF claimOutbox, Claim
<1>2. ASSUME NEW w \in Worker, Acknowledge(w) \/ Reject(w) PROVE e \in confirmed'
  BY <1>0, <1>2 DEF Acknowledge, acknowledgeOutbox, Reject, rejectOutbox, clearLease
<1>3. CASE UNCHANGED owner /\ confirmed \subseteq confirmed'
  BY <1>3
<1>4. \/ \E w \in Worker : \E b \in Batches : claimOutbox(w, b) /\ Claim(w)
      \/ \E w \in Worker : Acknowledge(w) \/ Reject(w)
      \/ UNCHANGED owner /\ confirmed \subseteq confirmed'
  BY DEF Next, Work, Fault, vars, rows, Enqueue, start, stop, Claim, WaitOver, PublishSucceeds,
         PublishFails, AcknowledgeThrows, RejectThrows, StorageFault, Crash, Tick, CalmDown
<1> QED
  BY <1>1, <1>2, <1>3, <1>4

\* A worker about to acknowledge has published what it acknowledges, and under
\* the latest claim if it still owns the row.
LEMMA AcknowledgesReceivedStep ==
  ASSUME TypeOK, AcknowledgesReceived, [Next]_vars
  PROVE  AcknowledgesReceived'
<1> SUFFICES ASSUME NEW v \in Worker, at'[v] = "acknowledge"
             PROVE  /\ Head(batch'[v]) \in received'
                    /\ owner'[Head(batch'[v])] = v => Head(batch'[v]) \in confirmed'
  BY DEF AcknowledgesReceived, Current
<1> DEFINE e == Current(v)
<1>1. CASE at[v] = "acknowledge" /\ batch'[v] = batch[v]
  <2>1. e = Head(batch'[v]) /\ e \in Event
    BY <1>1, HeadOfBatch DEF TypeOK, Current
  <2>2. e \in received /\ (owner[e] = v => e \in confirmed)
    BY <1>1 DEF AcknowledgesReceived
  <2>3. e \in received'
    BY <2>2, ReceivedGrows
  <2>4. owner'[e] = v => e \in confirmed'
    BY <1>1, <2>1, <2>2, HeldRowsKeepConfirmation
  <2> QED
    BY <2>1, <2>3, <2>4
<1>2. CASE PublishSucceeds(v)
  BY <1>2 DEF PublishSucceeds, rows, Current
<1> QED
  BY <1>1, <1>2, ComesToAcknowledge

-----------------------------------------------------------------------------
(* The theorems *)

\* The inductive invariant holds of an empty table.
LEMMA IInvInit == Init => IInv
<1> SUFFICES ASSUME Init PROVE IInv
  OBVIOUS
<1>1. TypeOK
  BY TypeInit
<1> QED
  BY <1>1 DEF Init, IInv, SettledHonestly, BatchesEnqueued, LeasedWasClaimed,
               SettledRowsReleased, AcknowledgesReceived

\* Every step preserves the inductive invariant.
LEMMA IInvStep == IInv /\ [Next]_vars => IInv'
  BY TypeStep, SettledHonestlyStep, BatchesEnqueuedStep, LeasedWasClaimedStep,
     SettledRowsReleasedStep, AcknowledgesReceivedStep DEF IInv

\* The strengthening the theorems follow from: honest settlement, with what
\* workers hold and how they came to acknowledge it.
THEOREM Inductive == Spec => []IInv
  BY IInvInit, IInvStep, PTL DEF Spec

\* Rows, leases, batches and workers keep their types, whatever fails.
THEOREM TypeCorrect == Spec => []TypeOK
<1>1. IInv => TypeOK
  BY DEF IInv
<1> QED
  BY <1>1, Inductive, PTL

\* No row is called delivered before the sink has its event, none is
\* dead-lettered with attempts left, and none is both.
THEOREM RowsAreSettledHonestly == Spec => []SettledHonestly
<1>1. IInv => SettledHonestly
  BY DEF IInv
<1> QED
  BY <1>1, Inductive, PTL

\* A row is acknowledged only after a publication under its latest claim, even
\* when leases expire while workers are about to acknowledge.
THEOREM OnlyTheClaimAcknowledges == Spec => AcknowledgedByItsClaim
<1>1. ASSUME IInv, [Next]_vars
      PROVE  [\A e \in delivered' \ delivered : e \in confirmed]_vars
  <2>1. ASSUME NEW w \in Worker, Acknowledge(w), NEW e \in delivered' \ delivered
        PROVE  e \in confirmed
    BY <1>1, <2>1 DEF Acknowledge, acknowledgeOutbox, LeasedBy, IInv, AcknowledgesReceived
  <2>2. \/ \E w \in Worker : Acknowledge(w)
        \/ UNCHANGED delivered
    BY <1>1, RowStep DEF Enqueue, claimOutbox, Reject, rejectOutbox, Tick, rows
  <2> QED
    BY <2>1, <2>2
<1> QED
  BY <1>1, Inductive, PTL DEF Spec, AcknowledgedByItsClaim

\* A settled row is neither claimed, nor retried, nor settled the other way.
THEOREM SettledRowsStaySettled == Spec => SettledRowsAreFinal
<1> DEFINE Final ==
  \A e \in delivered \cup dead :
    /\ e \in delivered' \cup dead'
    /\ e \in delivered <=> e \in delivered'
    /\ <<attempts[e], owner[e], lease[e], due[e]>>' = <<attempts[e], owner[e], lease[e], due[e]>>
<1>1. ASSUME IInv, [Next]_vars PROVE [Final]_vars
  <2> SUFFICES Final
    OBVIOUS
  <2>0. /\ attempts \in [Event -> 0 .. MaxAttempts]
        /\ owner \in [Event -> Worker \cup {NoWorker}]
        /\ lease \in [Event -> 0 .. LeaseDuration]
        /\ due \in [Event -> Int]
        /\ delivered \cup dead \subseteq Event
        /\ delivered \cap dead = {}
        /\ \A e \in delivered \cup dead : lease[e] = 0
    BY <1>1 DEF IInv, TypeOK, SettledHonestly, SettledRowsReleased
  <2>1. ASSUME NEW w \in Worker, NEW b \in Batches, claimOutbox(w, b) PROVE Final
    <3>1. \A i \in DOMAIN b : b[i] \notin delivered \cup dead
      BY <2>1 DEF claimOutbox, Selected, Claimable, Open
    <3> QED
      BY <2>0, <2>1, <3>1 DEF claimOutbox
  <2>2. ASSUME NEW w \in Worker, Acknowledge(w) PROVE Final
    BY <2>0, <2>2 DEF Acknowledge, acknowledgeOutbox, LeasedBy, Open, clearLease
  <2>3. ASSUME NEW w \in Worker, Reject(w) PROVE Final
    BY <2>0, <2>3 DEF Reject, rejectOutbox, LeasedBy, Open, clearLease
  <2>4. CASE Tick
    BY <2>0, <2>4 DEF Tick, Maximum, Open
  <2>5. CASE UNCHANGED <<delivered, dead, attempts, owner, lease, due>>
    BY <2>5
  <2> QED
    BY <1>1, <2>1, <2>2, <2>3, <2>4, <2>5, RowStep DEF Enqueue, rows
<1> QED
  BY <1>1, Inductive, PTL DEF Spec, SettledRowsAreFinal

\* The outbox starts as the abstract delivery does.
LEMMA DeliveryInit == Init => Delivery!Init
  BY DEF Init, Delivery!Init

\* A step settles at most one event, and as delivered only one the sink has.
LEMMA DeliveryStep ==
  ASSUME IInv, [Next]_vars
  PROVE  [Delivery!Next]_(Delivery!vars)
<1>0. TypeOK /\ BatchesEnqueued
  BY DEF IInv
<1>1. ASSUME NEW e \in Event, Enqueue(e) PROVE Delivery!Next
  BY <1>1 DEF Enqueue, Delivery!Next, Delivery!Enqueue
<1>2. ASSUME NEW w \in Worker, PublishSucceeds(w) \/ PublishFails(w)
      PROVE  [Delivery!Next]_(Delivery!vars)
  <2>1. Current(w) \in enqueued /\ Current(w) \in Event
    BY <1>0, <1>2, HeadOfBatch DEF PublishSucceeds, PublishFails, TypeOK, BatchesEnqueued
  <2>2. UNCHANGED <<enqueued, delivered, dead>>
    BY <1>2 DEF PublishSucceeds, PublishFails, rows
  <2>3. received' \in {received, received \cup {Current(w)}}
    BY <1>2 DEF PublishSucceeds, PublishFails
  <2> QED
    BY <2>1, <2>2, <2>3 DEF Delivery!Next, Delivery!Receive, Delivery!vars
<1>3. ASSUME NEW w \in Worker, Acknowledge(w) PROVE Delivery!Next
  <2>1. Current(w) \in Event /\ Current(w) \in received
    BY <1>0, <1>3, HeadOfBatch DEF Acknowledge, TypeOK, IInv, AcknowledgesReceived
  <2>2. Delivery!Deliver(Current(w))
    BY <1>3, <2>1 DEF Acknowledge, acknowledgeOutbox, LeasedBy, Open, Delivery!Deliver,
                      Delivery!Pending
  <2> QED
    BY <2>1, <2>2 DEF Delivery!Next
<1>4. ASSUME NEW w \in Worker, Reject(w) PROVE [Delivery!Next]_(Delivery!vars)
  <2>1. Current(w) \in Event
    BY <1>0, <1>4, HeadOfBatch DEF Reject, TypeOK
  <2>2. Delivery!GiveUp(Current(w)) \/ UNCHANGED Delivery!vars
    BY <1>4 DEF Reject, rejectOutbox, LeasedBy, Open, Delivery!GiveUp, Delivery!Pending,
                Delivery!vars
  <2> QED
    BY <2>1, <2>2 DEF Delivery!Next
<1>5. CASE UNCHANGED <<enqueued, received, delivered, dead>>
  BY <1>5 DEF Delivery!vars
<1>6. \/ \E e \in Event : Enqueue(e)
      \/ \E w \in Worker : PublishSucceeds(w) \/ PublishFails(w) \/ Acknowledge(w) \/ Reject(w)
      \/ UNCHANGED <<enqueued, received, delivered, dead>>
  BY DEF Next, Work, Fault, vars, rows, start, stop, Claim, claimOutbox, WaitOver,
         AcknowledgeThrows, RejectThrows, StorageFault, Crash, Tick, CalmDown
<1> QED
  BY <1>1, <1>2, <1>3, <1>4, <1>5, <1>6

\* Every behaviour of the outbox is one of the at-least-once delivery that its
\* abstract specification describes.
THEOREM OutboxImplementsDelivery == Spec => DeliverySpec
<1>1. IInv /\ [Next]_vars => [Delivery!Next]_(Delivery!vars)
  BY DeliveryStep
<1> QED
  BY <1>1, DeliveryInit, Inductive, PTL DEF Spec, DeliverySpec, Delivery!Spec

-----------------------------------------------------------------------------
(* Punctual workers keep their leases to the end of the batch *)

\* While a worker has n messages left, the lease of each of them outlasts n
\* publications, less what the current one has taken.
TimeLeft(w) == Len(batch[w]) * PublishTimeout - elapsed[w]

BatchOf(w) ==
  /\ \A i, j \in DOMAIN batch[w] : batch[w][i] = batch[w][j] => i = j
  /\ \A i \in DOMAIN batch[w] :
       LeasedBy(batch[w][i], w) /\ lease[batch[w][i]] > TimeLeft(w)

BatchesLeased == \A w \in Worker : BatchOf(w)

\* Multiplication by a time is monotonic.
LEMMA ProductsOrdered ==
  ASSUME NEW m \in Nat, NEW n \in Nat, n <= m, NEW t \in Nat
  PROVE  n * t \in Nat /\ m * t \in Nat /\ n * t <= m * t
  OBVIOUS

\* One message more takes one timeout more.
LEMMA ProductOfNext ==
  ASSUME NEW n \in Nat \ {0}, NEW t \in Nat
  PROVE  /\ n * t \in Nat
         /\ (n - 1) * t \in Nat
         /\ n * t = (n - 1) * t + t
  OBVIOUS

\* A worker with something left has time left, never less than none.
LEMMA TimeLeftNatural ==
  ASSUME TypeOK, NEW w \in Worker, batch[w] # <<>>
  PROVE  TimeLeft(w) \in Nat
<1>1. Len(batch[w]) \in Nat \ {0}
  BY HeadOfBatch
<1>2. elapsed[w] \in 0 .. PublishTimeout /\ PublishTimeout \in Nat
  BY ConstantsTyped DEF TypeOK
<1>3. Len(batch[w]) * PublishTimeout \in Nat /\ Len(batch[w]) * PublishTimeout >= PublishTimeout
  BY <1>1, <1>2, ProductOfNext
<1> QED
  BY <1>2, <1>3 DEF TimeLeft

\* Hence its leases have not run out, and nobody can claim what it holds.
LEMMA BatchUnexpired ==
  ASSUME TypeOK, NEW w \in Worker, BatchOf(w), NEW i \in DOMAIN batch[w]
  PROVE  lease[batch[w][i]] > 0 /\ ~Claimable(batch[w][i])
<1>1. batch[w] \in Seq(Event) /\ batch[w] # <<>> /\ batch[w][i] \in Event
  BY EmptySeq DEF TypeOK
<1>2. TimeLeft(w) \in Nat
  BY <1>1, TimeLeftNatural
<1>3. lease[batch[w][i]] \in Nat
  BY <1>1, ConstantsTyped DEF TypeOK
<1> QED
  BY <1>2, <1>3 DEF BatchOf, Claimable

\* A batch is untouched when neither it nor its rows change.
LEMMA BatchUntouched ==
  ASSUME NEW w \in Worker, BatchOf(w),
         batch'[w] = batch[w], elapsed'[w] = elapsed[w], enqueued \subseteq enqueued',
         \A i \in DOMAIN batch[w] :
           LET e == batch[w][i] IN
           /\ owner'[e] = owner[e]
           /\ lease'[e] = lease[e]
           /\ e \notin delivered' \ delivered
           /\ e \notin dead' \ dead
  PROVE  BatchOf(w)'
  BY DEF BatchOf, LeasedBy, Open, TimeLeft

\* A fresh batch is leased for longer than all its timeouts together: this is
\* where the start-up check on the lease is used.
LEMMA ClaimedBatchLeased ==
  ASSUME TypeOK, NEW w \in Worker, NEW b \in Batches, claimOutbox(w, b),
         batch' = [batch EXCEPT ![w] = b], UNCHANGED elapsed
  PROVE  BatchOf(w)'
<1>1. /\ b \in Seq(Event) /\ DOMAIN b = 1 .. Len(b)
      /\ Len(b) \in Nat /\ Len(b) <= BatchSize
      /\ batch'[w] = b
      /\ \A i \in DOMAIN b : b[i] \in Event
  BY BatchesAreSequences DEF TypeOK
<1>2. \A i, j \in DOMAIN b : b[i] = b[j] => i = j
  <2>1. \A i, j \in DOMAIN b : i < j => Before(b[i], b[j])
    BY DEF claimOutbox, Selected
  <2>2. \A e \in Event : ~Before(e, e)
    <3>1. \A e \in Event : due[e] \in Int /\ e \in Nat
      BY OutboxAssumption DEF TypeOK
    <3> QED
      BY <3>1 DEF Before
  <2>3. \A i, j \in DOMAIN b : i = j \/ i < j \/ j < i
    BY <1>1
  <2> QED
    BY <1>1, <2>1, <2>2, <2>3
<1>3. \A i \in DOMAIN b : LeasedBy(b[i], w)' /\ lease'[b[i]] = LeaseDuration
  BY <1>1 DEF claimOutbox, Selected, Claimable, LeasedBy, Open, TypeOK
<1>4. LeaseDuration > Len(b) * PublishTimeout - elapsed[w]
  <2>1. Len(b) * PublishTimeout \in Nat /\ BatchSize * PublishTimeout \in Nat
    BY <1>1, ConstantsTyped, ProductsOrdered
  <2>2. Len(b) * PublishTimeout <= BatchSize * PublishTimeout
    BY <1>1, ConstantsTyped, ProductsOrdered
  <2>3. LeaseDuration > BatchSize * PublishTimeout
    BY OutboxAssumption
  <2>4. elapsed[w] \in Nat /\ LeaseDuration \in Nat
    BY ConstantsTyped DEF TypeOK
  <2> QED
    BY <2>1, <2>2, <2>3, <2>4
<1> QED
  BY <1>1, <1>2, <1>3, <1>4 DEF BatchOf, TimeLeft

\* Settling a message, or giving it back, changes its row and no other.
RowLetGo(e, w) ==
  /\ owner[e] = w
  /\ clearLease(e)
  /\ UNCHANGED enqueued
  /\ delivered' \in {delivered, delivered \cup {e}}
  /\ dead' \in {dead, dead \cup {e}}

\* What remains after a message has the leases and the time it had.
LEMMA AdvancedBatchLeased ==
  ASSUME TypeOK, NEW w \in Worker, batch[w] # <<>>, BatchOf(w), RowLetGo(Current(w), w),
         Advance(w)
  PROVE  BatchOf(w)'
<1> DEFINE e == Current(w)
           rest == Tail(batch[w])
<1>1. /\ e = batch[w][1] /\ 1 \in DOMAIN batch[w] /\ e \in Event
      /\ Len(rest) = Len(batch[w]) - 1
      /\ Len(batch[w]) \in Nat \ {0}
      /\ \A i \in DOMAIN rest :
           i + 1 \in DOMAIN batch[w] /\ i + 1 # 1 /\ rest[i] = batch[w][i + 1]
  BY HeadOfBatch
<1>2. batch'[w] = rest /\ elapsed'[w] = 0
  BY DEF Advance, TypeOK
<1>3. DOMAIN rest \subseteq Int
  BY HeadOfBatch
<1>4. \A i, j \in DOMAIN rest : rest[i] = rest[j] => i = j
  <2> SUFFICES ASSUME NEW i \in DOMAIN rest, NEW j \in DOMAIN rest, rest[i] = rest[j]
               PROVE  i = j
    OBVIOUS
  <2>1. batch[w][i + 1] = batch[w][j + 1] /\ i + 1 \in DOMAIN batch[w] /\ j + 1 \in DOMAIN batch[w]
    BY <1>1
  <2>2. i + 1 = j + 1
    BY <2>1 DEF BatchOf
  <2> QED
    BY <1>3, <2>2
<1>5. Len(rest) * PublishTimeout <= TimeLeft(w)
  <2>1. /\ Len(batch[w]) * PublishTimeout = Len(rest) * PublishTimeout + PublishTimeout
        /\ Len(batch[w]) * PublishTimeout \in Nat
        /\ Len(rest) * PublishTimeout \in Nat
    BY <1>1, ConstantsTyped, ProductOfNext
  <2>2. elapsed[w] \in 0 .. PublishTimeout /\ PublishTimeout \in Nat
    BY ConstantsTyped DEF TypeOK
  <2> QED
    BY <2>1, <2>2 DEF TimeLeft
<1>6. ASSUME NEW i \in DOMAIN rest
      PROVE  /\ owner'[rest[i]] = w
             /\ rest[i] \in enqueued' \ (delivered' \cup dead')
             /\ lease'[rest[i]] > Len(rest) * PublishTimeout
  <2>1. rest[i] = batch[w][i + 1] /\ i + 1 \in DOMAIN batch[w] /\ rest[i] # e
    BY <1>1 DEF BatchOf
  <2>2. rest[i] \in Event
    BY <2>1 DEF TypeOK
  <2>3. LeasedBy(rest[i], w) /\ lease[rest[i]] > TimeLeft(w)
    BY <2>1 DEF BatchOf
  <2>4. owner'[rest[i]] = owner[rest[i]] /\ lease'[rest[i]] = lease[rest[i]]
    BY <2>1, <2>2 DEF RowLetGo, clearLease, TypeOK
  <2>5. owner'[rest[i]] = w /\ rest[i] \in enqueued' \ (delivered' \cup dead')
    BY <2>1, <2>3, <2>4 DEF RowLetGo, LeasedBy, Open
  <2>6. /\ lease[rest[i]] \in Int
        /\ TimeLeft(w) \in Int
        /\ Len(rest) * PublishTimeout \in Int
    <3>1. lease[rest[i]] \in 0 .. LeaseDuration
      BY <2>2 DEF TypeOK
    <3>2. TimeLeft(w) \in Nat
      BY TimeLeftNatural
    <3>3. (Len(batch[w]) - 1) * PublishTimeout \in Nat
      BY <1>1, ConstantsTyped, ProductOfNext
    <3> QED
      BY <1>1, <3>1, <3>2, <3>3, ConstantsTyped
  <2> QED
    BY <1>5, <2>3, <2>4, <2>5, <2>6
<1>7. Len(rest) * PublishTimeout - 0 = Len(rest) * PublishTimeout
  BY <1>1, ConstantsTyped, ProductOfNext
<1> HIDE DEF rest
<1> QED
  BY <1>2, <1>4, <1>6, <1>7 DEF BatchOf, TimeLeft, LeasedBy, Open

\* Settling a row a worker owns touches no batch of another worker.
LEMMA OtherBatchesUntouched ==
  ASSUME TypeOK, NEW w \in Worker, NEW v \in Worker, v # w, BatchOf(v),
         NEW e \in Event, RowLetGo(e, w), batch'[v] = batch[v], elapsed'[v] = elapsed[v]
  PROVE  BatchOf(v)'
<1>1. ASSUME NEW i \in DOMAIN batch[v]
      PROVE  LET f == batch[v][i] IN
             /\ owner'[f] = owner[f]
             /\ lease'[f] = lease[f]
             /\ f \notin delivered' \ delivered
             /\ f \notin dead' \ dead
  <2>1. batch[v][i] \in Event
    BY DEF TypeOK
  <2>2. batch[v][i] # e
    BY DEF BatchOf, LeasedBy, RowLetGo
  <2> QED
    BY <2>1, <2>2 DEF RowLetGo, clearLease, TypeOK
<1> QED
  BY <1>1, BatchUntouched DEF RowLetGo

\* Steps that leave the rows alone, and drop a batch or leave it.
LEMMA BatchesKeptOrDropped ==
  ASSUME BatchesLeased, UNCHANGED rows,
         \A v \in Worker : batch'[v] = <<>> \/ (batch'[v] = batch[v] /\ elapsed'[v] = elapsed[v])
  PROVE  BatchesLeased'
<1> SUFFICES ASSUME NEW v \in Worker PROVE BatchOf(v)'
  BY DEF BatchesLeased
<1>1. CASE batch'[v] = <<>>
  BY <1>1 DEF BatchOf
<1>2. CASE batch'[v] = batch[v] /\ elapsed'[v] = elapsed[v]
  BY <1>2, BatchUntouched DEF rows, BatchesLeased
<1> QED
  BY <1>1, <1>2

\* A claim takes nothing that is in another worker's batch.
LEMMA ClaimSparesOthers ==
  ASSUME TypeOK, BatchesLeased, NEW w \in Worker, NEW b \in Batches, claimOutbox(w, b),
         NEW v \in Worker, batch'[v] = batch[v], UNCHANGED elapsed
  PROVE  BatchOf(v)'
<1>1. BatchOf(v)
  BY DEF BatchesLeased
<1>2. ASSUME NEW i \in DOMAIN batch[v]
      PROVE  LET f == batch[v][i] IN
             /\ owner'[f] = owner[f]
             /\ lease'[f] = lease[f]
  <2>1. batch[v][i] \in Event
    BY <1>2 DEF TypeOK
  <2>2. ~Claimable(batch[v][i])
    BY <1>1, <1>2, BatchUnexpired
  <2>3. \A j \in DOMAIN b : Claimable(b[j])
    BY DEF claimOutbox, Selected
  <2> QED
    BY <2>1, <2>2, <2>3 DEF claimOutbox, TypeOK
<1> QED
  BY <1>1, <1>2, BatchUntouched DEF claimOutbox

\* A tick takes one unit from every lease and from the time left alike.
LEMMA BatchesLeasedOverTime ==
  ASSUME TypeOK, Punctual, BatchesLeased, Tick
  PROVE  BatchesLeased'
<1> SUFFICES ASSUME NEW v \in Worker PROVE BatchOf(v)'
  BY DEF BatchesLeased
<1>1. BatchOf(v) /\ UNCHANGED <<batch, enqueued, delivered, dead, owner>>
  BY DEF BatchesLeased, Tick
<1>2. ASSUME NEW i \in DOMAIN batch[v]
      PROVE  /\ LeasedBy(batch[v][i], v)'
             /\ lease'[batch[v][i]] > Len(batch[v]) * PublishTimeout - elapsed'[v]
  <2> DEFINE f == batch[v][i]
  <2>1. f \in Event /\ batch[v] # <<>>
    BY <1>2, EmptySeq DEF TypeOK
  <2>2. Len(batch[v]) * PublishTimeout \in Nat
    <3>1. Len(batch[v]) \in Nat \ {0}
      BY <2>1, HeadOfBatch
    <3> QED
      BY <3>1, ConstantsTyped, ProductOfNext
  <2>3. lease[f] > Len(batch[v]) * PublishTimeout - elapsed[v]
    BY <1>1, <1>2 DEF BatchOf, TimeLeft
  <2>4. Len(batch[v]) * PublishTimeout - elapsed[v] \in Nat
    BY <2>1, TimeLeftNatural DEF TimeLeft
  <2>5. lease[f] \in Nat /\ elapsed[v] \in Nat
    BY <2>1, ConstantsTyped DEF TypeOK
  <2>6. elapsed'[v] = elapsed[v] + 1
    BY <2>1 DEF Tick, OnTime, TypeOK
  <2>7. lease'[f] = lease[f] - 1
    BY <2>1, <2>3, <2>4, <2>5 DEF Tick, Maximum
  <2>8. lease'[f] > Len(batch[v]) * PublishTimeout - elapsed'[v]
    BY <2>2, <2>3, <2>5, <2>6, <2>7
  <2>9. LeasedBy(f, v)'
    BY <1>1, <1>2 DEF BatchOf, LeasedBy, Open
  <2> QED
    BY <2>8, <2>9
<1> QED
  BY <1>1, <1>2 DEF BatchOf, TimeLeft

\* Every step of punctual workers keeps their batches leased.
LEMMA BatchesLeasedStep ==
  ASSUME TypeOK, Punctual, BatchesLeased, [Next]_vars
  PROVE  BatchesLeased'
<1>0. /\ batch \in [Worker -> Seq(Event)]
      /\ elapsed \in [Worker -> 0 .. PublishTimeout]
  BY DEF TypeOK
<1>1. ASSUME NEW w \in Worker, Claim(w) PROVE BatchesLeased'
  <2>1. PICK b \in Batches : claimOutbox(w, b) /\ batch' = [batch EXCEPT ![w] = b]
    BY <1>1 DEF Claim
  <2>2. UNCHANGED elapsed
    BY <1>1 DEF Claim
  <2>3. BatchOf(w)'
    BY <2>1, <2>2, ClaimedBatchLeased
  <2>4. ASSUME NEW v \in Worker, v # w PROVE BatchOf(v)'
    BY <1>0, <2>1, <2>2, <2>4, ClaimSparesOthers
  <2> QED
    BY <2>3, <2>4 DEF BatchesLeased
<1>2. ASSUME NEW w \in Worker, Acknowledge(w) \/ Reject(w) PROVE BatchesLeased'
  <2>1. batch[w] # <<>> /\ Current(w) \in Event /\ BatchOf(w)
    BY <1>2, HeadOfBatch DEF TypeOK, Acknowledge, Reject, BatchesLeased
  <2>2. RowLetGo(Current(w), w) /\ Advance(w)
    BY <1>2 DEF Acknowledge, acknowledgeOutbox, Reject, rejectOutbox, LeasedBy, RowLetGo
  <2>3. BatchOf(w)'
    BY <2>1, <2>2, AdvancedBatchLeased
  <2>4. ASSUME NEW v \in Worker, v # w PROVE BatchOf(v)'
    <3>1. batch'[v] = batch[v] /\ elapsed'[v] = elapsed[v]
      BY <1>0, <2>2, <2>4 DEF Advance
    <3> QED
      BY <2>1, <2>2, <2>4, <3>1, OtherBatchesUntouched DEF BatchesLeased
  <2> QED
    BY <2>3, <2>4 DEF BatchesLeased
<1>3. ASSUME NEW w \in Worker, RejectThrows(w) \/ StorageFault(w) \/ Crash(w)
      PROVE  BatchesLeased'
  BY <1>0, <1>3, BatchesKeptOrDropped DEF RejectThrows, StorageFault, Crash, Abort, rows
<1>4. CASE Tick
  BY <1>4, BatchesLeasedOverTime
<1>5. ASSUME NEW e \in Event, Enqueue(e) PROVE BatchesLeased'
  BY <1>5, BatchUntouched DEF Enqueue, workers, BatchesLeased
<1>6. CASE UNCHANGED <<rows, batch, elapsed>>
  BY <1>6, BatchesKeptOrDropped
<1>7. \/ \E e \in Event : Enqueue(e)
      \/ \E w \in Worker : Claim(w)
      \/ \E w \in Worker : Acknowledge(w) \/ Reject(w)
      \/ \E w \in Worker : RejectThrows(w) \/ StorageFault(w) \/ Crash(w)
      \/ Tick
      \/ UNCHANGED <<rows, batch, elapsed>>
  BY DEF Next, Work, Fault, vars, workers, start, stop, WaitOver, PublishSucceeds, PublishFails,
         AcknowledgeThrows, CalmDown
<1> QED
  BY <1>1, <1>2, <1>3, <1>4, <1>5, <1>6, <1>7

\* The start-up check LeaseDuration > BatchSize * PublishTimeout does what it is
\* for: workers that keep to their timers never have a lease run out on a
\* message they still hold, for any batch size, timeout and lease it admits.
THEOREM LeasesOutlastBatches ==
  ASSUME Punctual
  PROVE  Spec => []LeaseOutlastsBatch
<1>1. Init => BatchesLeased
  BY DEF Init, BatchesLeased, BatchOf
<1>2. IInv /\ BatchesLeased /\ [Next]_vars => BatchesLeased'
  BY BatchesLeasedStep DEF IInv
<1>3. IInv /\ BatchesLeased => LeaseOutlastsBatch
  BY BatchUnexpired DEF IInv, BatchesLeased, BatchOf, LeaseOutlastsBatch
<1> QED
  BY <1>1, <1>2, <1>3, Inductive, PTL DEF Spec
=============================================================================
