-------------------------------- MODULE Inbox --------------------------------
(***************************************************************************)
(* The inbox of one consumer: receipts that suppress redelivered events,   *)
(* and the calls of InboxProcessor.process() that claim, handle and        *)
(* complete them (src/infrastructure/inbox/processor.ts over the           *)
(* onyx_inbox table of src/infrastructure/sqlite/database.ts).             *)
(*                                                                         *)
(* A call is between two awaits when it is in `calls`; calls of one worker *)
(* and of workers that share the database file interleave there.  As in    *)
(* the outbox, times are kept relative to now.                             *)
(***************************************************************************)
EXTENDS Integers, FiniteSets

CONSTANTS
  Event,            \* event ids
  Content,          \* bodies an event id may arrive with: its fingerprints
  NoContent,        \* there is no receipt
  Worker,           \* worker ids
  NoWorker,         \* lease_owner IS NULL
  LeaseDuration,    \* leaseDurationMs, in ticks
  CallsPerWorker    \* how many calls one processor may have under way

ASSUME InboxAssumption ==
  /\ NoContent \notin Content
  /\ NoWorker \notin Worker
  /\ LeaseDuration \in Nat \ {0}
  /\ CallsPerWorker \in Nat \ {0}

\* A call under way.  `remaining` is a history field: the ticks until the
\* lease that the call itself obtained runs out.
Call == [worker: Worker, slot: 1 .. CallsPerWorker, event: Event, content: Content,
         at: {"handle", "complete", "release"}, remaining: 0 .. LeaseDuration]

VARIABLES
  \* the rows of onyx_inbox, one for each event that has a fingerprint
  fingerprint,  \* the content the receipt was made for
  owner,        \* lease_owner
  lease,        \* lease_expires_at - now, 0 once it has passed or is NULL
  completed,    \* events whose completed_at is set
  \* the processors
  calls,
  \* history
  handled,      \* <<event, content>> pairs some handler ran to its end
  holder,       \* the (worker, slot) whose claim of each event is the latest
  undercut      \* callers whose event another call of their worker gave back

receipts == <<fingerprint, owner, lease, completed>>
vars == <<receipts, calls, handled, holder, undercut>>

Caller(q) == <<q.worker, q.slot>>
Callers == Worker \X (1 .. CallsPerWorker)
Nobody == <<NoWorker, 0>>

TypeOK ==
  /\ fingerprint \in [Event -> Content \cup {NoContent}]
  /\ owner \in [Event -> Worker \cup {NoWorker}]
  /\ lease \in [Event -> 0 .. LeaseDuration]
  /\ completed \subseteq {e \in Event : fingerprint[e] # NoContent}
  /\ calls \subseteq Call
  /\ \A q, r \in calls : Caller(q) = Caller(r) => q = r
  /\ handled \subseteq Event \X Content
  /\ holder \in [Event -> Callers \cup {Nobody}]
  /\ undercut \subseteq {Caller(q) : q \in calls}

Init ==
  /\ fingerprint = [e \in Event |-> NoContent]
  /\ owner = [e \in Event |-> NoWorker]
  /\ lease = [e \in Event |-> 0]
  /\ completed = {}
  /\ calls = {}
  /\ handled = {}
  /\ holder = [e \in Event |-> Nobody]
  /\ undercut = {}

-----------------------------------------------------------------------------
(* The table *)

\* Defect: the content is not compared with the receipt's.
AcquirableWithAnyContent(e, f) == e \notin completed /\ lease[e] = 0

\* Whether claimInbox() answers "acquired" for event e with content f.
\* Otherwise it answers "duplicate" or "busy", or throws because the content
\* differs from the receipt's, and in each case leaves everything as it is.
Acquirable(e, f) ==
  \/ fingerprint[e] = NoContent
  \/ /\ fingerprint[e] = f
     /\ e \notin completed
     /\ lease[e] = 0

claimInbox(e, f, w) ==
  /\ Acquirable(e, f)
  /\ fingerprint' = [fingerprint EXCEPT ![e] = IF @ = NoContent THEN f ELSE @]
  /\ owner' = [owner EXCEPT ![e] = w]
  /\ lease' = [lease EXCEPT ![e] = LeaseDuration]
  /\ UNCHANGED completed

\* Defect: completion and release do not compare the owner.
LeasedByAnyone(e, w) == owner[e] # NoWorker /\ e \notin completed

\* The WHERE clause of completion and release.  It does not ask whether the
\* lease has expired.
LeasedBy(e, w) == owner[e] = w /\ e \notin completed

clearLease(e) ==
  /\ owner' = [owner EXCEPT ![e] = NoWorker]
  /\ lease' = [lease EXCEPT ![e] = 0]

completeInbox(e, w) ==
  /\ LeasedBy(e, w)
  /\ completed' = completed \cup {e}
  /\ clearLease(e)
  /\ UNCHANGED fingerprint

releaseInbox(e, w) ==
  /\ LeasedBy(e, w)
  /\ clearLease(e)
  /\ UNCHANGED <<fingerprint, completed>>

-----------------------------------------------------------------------------
(* A call of process() *)

GoTo(q, place) == calls' = (calls \ {q}) \cup {[q EXCEPT !.at = place]}

Return(q) == calls' = calls \ {q}

\* The callers that the owner check cannot tell from that of q, on its event:
\* they have the same worker id.
SharesRow(q) == {Caller(r) : r \in {s \in calls : s.event = q.event /\ s.worker = q.worker}}

\* An event is delivered, for the first time or again, and acquired.
Process(w, i, e, f) ==
  /\ \A q \in calls : Caller(q) # <<w, i>>
  /\ claimInbox(e, f, w)
  /\ calls' = calls \cup
       {[worker |-> w, slot |-> i, event |-> e, content |-> f, at |-> "handle",
         remaining |-> LeaseDuration]}
  /\ holder' = [holder EXCEPT ![e] = <<w, i>>]
  /\ UNCHANGED <<handled, undercut>>

HandlerSucceeds(q) ==
  /\ q.at = "handle"
  /\ handled' = handled \cup {<<q.event, q.content>>}
  /\ GoTo(q, "complete")
  /\ UNCHANGED <<receipts, holder, undercut>>

HandlerFails(q) ==
  /\ q.at = "handle"
  /\ GoTo(q, "release")
  /\ UNCHANGED <<receipts, handled, holder, undercut>>

Complete(q) ==
  /\ q.at = "complete"
  /\ completeInbox(q.event, q.worker)
  /\ Return(q)
  /\ undercut' = (undercut \cup SharesRow(q)) \ {Caller(q)}
  /\ UNCHANGED <<handled, holder>>

\* A completion that throws (not leased any more, or the storage failed) is
\* handled like a handler that failed.
CompleteThrows(q) ==
  /\ q.at = "complete"
  /\ GoTo(q, "release")
  /\ UNCHANGED <<receipts, handled, holder, undercut>>

\* The lease is given back and the failure passed on.
Release(q) ==
  /\ q.at = "release"
  /\ releaseInbox(q.event, q.worker)
  /\ Return(q)
  /\ undercut' = (undercut \cup SharesRow(q)) \ {Caller(q)}
  /\ UNCHANGED <<handled, holder>>

\* The release throws in its turn: the receipt stays as it is.
ReleaseThrows(q) ==
  /\ q.at = "release"
  /\ Return(q)
  /\ undercut' = undercut \ {Caller(q)}
  /\ UNCHANGED <<receipts, handled, holder>>

\* A worker's process dies with all its calls; their leases stay.
Crash(w) ==
  /\ \E q \in calls : q.worker = w
  /\ calls' = {q \in calls : q.worker # w}
  /\ undercut' = {c \in undercut : c[1] # w}
  /\ UNCHANGED <<receipts, handled, holder>>

Earlier(n) == IF n > 0 THEN n - 1 ELSE 0

\* Time passes; a handler may outlive any lease.
Tick ==
  /\ lease' = [e \in Event |-> Earlier(lease[e])]
  /\ calls' = {[q EXCEPT !.remaining = Earlier(@)] : q \in calls}
  /\ UNCHANGED <<fingerprint, owner, completed, handled, holder, undercut>>

Next ==
  \/ \E w \in Worker, i \in 1 .. CallsPerWorker, e \in Event, f \in Content :
       Process(w, i, e, f)
  \/ \E q \in calls :
       \/ HandlerSucceeds(q)
       \/ HandlerFails(q)
       \/ Complete(q)
       \/ CompleteThrows(q)
       \/ Release(q)
       \/ ReleaseThrows(q)
  \/ \E w \in Worker : Crash(w)
  \/ Tick

Spec == Init /\ [][Next]_vars

-----------------------------------------------------------------------------
(* Properties *)

\* A receipt is completed only after a handler ran to its end on the very
\* content the receipt was made for: a changed body under a known event id
\* never completes it.
CompletedOnlyIfHandled ==
  \A e \in completed : <<e, fingerprint[e]>> \in handled

\* "Completed receipts permanently suppress redelivery": no call begins on a
\* completed event, and its row never changes.
CompletedIsFinal ==
  [][\A e \in completed :
       /\ e \in completed'
       /\ <<fingerprint[e], owner[e]>>' = <<fingerprint[e], owner[e]>>
       /\ {Caller(q) : q \in {r \in calls' : r.event = e}}
            \subseteq {Caller(q) : q \in {r \in calls : r.event = e}}]_vars

\* Whether a call has lost its event to the next claim for a reason of its own:
\* its lease ran out, or a call of the same worker gave the event back.
Overtaken(q) == q.remaining = 0 \/ Caller(q) \in undercut

\* "Completion is owner-checked so a stale worker cannot overwrite a recovered
\* receipt": an event is completed by the worker that claimed it last, and by
\* the call that claimed it last unless that worker has several under way.  The
\* check compares worker ids, so a call that was overtaken may complete what
\* the next call of the same worker is still handling.
CompletedByHolder ==
  [][\A e \in completed' \ completed :
       \E q \in calls \ calls' :
         /\ q.event = e
         /\ q.at = "complete"
         /\ \/ Caller(q) = holder[e]
            \/ q.worker = holder[e][1] /\ Overtaken(q)]_vars

\* While the lease a call obtained has not run out, nobody else obtains the
\* event, whatever other workers that outlived their leases do to the row: only
\* a call of its own worker can take it away.
ExclusiveWhileLeased ==
  \A q, r \in calls :
    q.event = r.event /\ q # r => Overtaken(q) \/ Overtaken(r)

\* "An expiring lease prevents two workers for the same consumer from
\* concurrently handling an event."  The code does not see to this: a handler
\* that outlives its lease goes on while the next worker handles the event.
NoConcurrentHandling ==
  \A q, r \in calls :
    /\ q.event = r.event
    /\ q.at = "handle"
    /\ r.at = "handle"
    => q.worker = r.worker
=============================================================================
