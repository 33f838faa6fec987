--------------------------- MODULE Storage_proofs ---------------------------
(***************************************************************************)
(* Proofs about what the database file holds beside the aggregates: the    *)
(* receipts of the inbox, for any events, contents, workers and leases,    *)
(* and the schema itself, for any servers and tools.                       *)
(*                                                                         *)
(* A processor may have any number of calls under way.  The owner check    *)
(* compares worker ids and cannot tell the calls of one worker apart, so   *)
(* what is proved of a call names the one way in which it may be overtaken *)
(* before its lease has run out.                                           *)
(***************************************************************************)
EXTENDS Inbox, Recovery, TLAPS

-----------------------------------------------------------------------------
(* The inbox: the inductive invariant *)

\* A call works on the very content its receipt was made for, and is about to
\* complete it only once its handler has run.
CallsMatchReceipts ==
  \A q \in calls :
    /\ fingerprint[q.event] = q.content
    /\ q.at = "complete" => <<q.event, q.content>> \in handled

\* The owner is the worker that claimed last.
OwnerIsHolder ==
  \A e \in Event : owner[e] # NoWorker => \E i \in 1 .. CallsPerWorker : holder[e] = <<owner[e], i>>

\* A call that was not overtaken owns its row, and its claim is the latest.
CallsOwnTheirRows ==
  \A q \in calls : ~Overtaken(q) =>
    /\ owner[q.event] = q.worker
    /\ lease[q.event] = q.remaining
    /\ holder[q.event] = Caller(q)

IInv ==
  /\ TypeOK
  /\ CallsMatchReceipts
  /\ CompletedOnlyIfHandled
  /\ OwnerIsHolder
  /\ CallsOwnTheirRows

-----------------------------------------------------------------------------

\* The assumption on the constants, without the name of its module.
LEMMA ConstantsTyped ==
  /\ NoContent \notin Content
  /\ NoWorker \notin Worker
  /\ LeaseDuration \in Nat \ {0}
  /\ CallsPerWorker \in Nat \ {0}
  BY InboxAssumption

\* The inductive invariant holds before any event is delivered.
LEMMA IInvInit == Init => IInv
<1> SUFFICES ASSUME Init PROVE IInv
  OBVIOUS
<1>1. TypeOK
  BY ConstantsTyped DEF Init, TypeOK
<1> QED
  BY <1>1 DEF Init, IInv, CallsMatchReceipts, CompletedOnlyIfHandled, OwnerIsHolder, CallsOwnTheirRows

\* A call moves on: nothing else about it changes.
LEMMA GoToTyped ==
  ASSUME TypeOK, NEW q \in calls, NEW place \in {"handle", "complete", "release"},
         GoTo(q, place)
  PROVE  /\ calls' \subseteq Call
         /\ \A r, s \in calls' : Caller(r) = Caller(s) => r = s
         /\ \A r \in calls' : r \in calls \/ r = [q EXCEPT !.at = place]
<1> DEFINE next == [q EXCEPT !.at = place]
<1>1. next \in Call /\ Caller(next) = Caller(q) /\ calls' = (calls \ {q}) \cup {next}
  BY DEF TypeOK, Call, Caller, GoTo
<1>2. \A r, s \in calls : Caller(r) = Caller(s) => r = s
  BY DEF TypeOK
<1> HIDE DEF next
<1>3. \A r, s \in calls' : Caller(r) = Caller(s) => r = s
  BY <1>1, <1>2
<1> QED
  BY <1>1, <1>3 DEF TypeOK, next

\* Callers that were undercut have a call under way.
LEMMA UndercutStep ==
  ASSUME TypeOK, [Next]_vars
  PROVE  undercut' \subseteq {Caller(q) : q \in calls'}
<1>0. /\ calls \subseteq Call
      /\ undercut \subseteq {Caller(q) : q \in calls}
  BY DEF TypeOK
<1>1. ASSUME NEW q \in calls, NEW place \in {"handle", "complete", "release"},
             GoTo(q, place), UNCHANGED undercut
      PROVE  undercut' \subseteq {Caller(r) : r \in calls'}
  <2>1. Caller([q EXCEPT !.at = place]) = Caller(q)
    BY <1>0 DEF Call, Caller
  <2> QED
    BY <1>0, <1>1, <2>1 DEF GoTo
<1>2. ASSUME NEW q \in calls, Return(q),
             undercut' \subseteq (undercut \cup SharesRow(q)) \ {Caller(q)}
      PROVE  undercut' \subseteq {Caller(r) : r \in calls'}
  <2>1. undercut' \subseteq {Caller(r) : r \in calls} \ {Caller(q)}
    BY <1>0, <1>2 DEF SharesRow
  <2> QED
    BY <1>2, <2>1 DEF Return
<1>3. ASSUME NEW w \in Worker, Crash(w)
      PROVE  undercut' \subseteq {Caller(r) : r \in calls'}
  BY <1>0, <1>3 DEF Crash, Caller
<1>4. CASE Tick
  <2> DEFINE Later(q) == [q EXCEPT !.remaining = Earlier(@)]
  <2>1. \A q \in calls : Caller(Later(q)) = Caller(q)
    BY <1>0 DEF Call, Caller
  <2>2. calls' = {Later(q) : q \in calls} /\ UNCHANGED undercut
    BY <1>4 DEF Tick
  <2> HIDE DEF Later
  <2> QED
    BY <1>0, <2>1, <2>2
<1>5. CASE UNCHANGED undercut /\ calls \subseteq calls'
  BY <1>0, <1>5
<1>6. ASSUME NEW q \in calls,
             HandlerSucceeds(q) \/ HandlerFails(q) \/ CompleteThrows(q)
      PROVE  undercut' \subseteq {Caller(r) : r \in calls'}
  BY <1>1, <1>6 DEF HandlerSucceeds, HandlerFails, CompleteThrows
<1>7. ASSUME NEW q \in calls, Complete(q) \/ Release(q) \/ ReleaseThrows(q)
      PROVE  undercut' \subseteq {Caller(r) : r \in calls'}
  BY <1>2, <1>7 DEF Complete, Release, ReleaseThrows
<1>8. ASSUME NEW w \in Worker, NEW i \in 1 .. CallsPerWorker, NEW e \in Event, NEW f \in Content,
             Process(w, i, e, f)
      PROVE  undercut' \subseteq {Caller(r) : r \in calls'}
  BY <1>5, <1>8 DEF Process
<1>9. CASE UNCHANGED vars
  BY <1>5, <1>9 DEF vars
<1> QED
  BY <1>3, <1>4, <1>6, <1>7, <1>8, <1>9 DEF Next

\* Every step of a call, a crash and the clock keep the types.
LEMMA TypeStep ==
  ASSUME TypeOK, CallsMatchReceipts, [Next]_vars
  PROVE  TypeOK'
<1>0. /\ fingerprint \in [Event -> Content \cup {NoContent}]
      /\ owner \in [Event -> Worker \cup {NoWorker}]
      /\ lease \in [Event -> 0 .. LeaseDuration]
      /\ completed \subseteq {e \in Event : fingerprint[e] # NoContent}
      /\ calls \subseteq Call
      /\ \A q, r \in calls : Caller(q) = Caller(r) => q = r
      /\ handled \subseteq Event \X Content
      /\ holder \in [Event -> Callers \cup {Nobody}]
  BY DEF TypeOK
<1>u. undercut' \subseteq {Caller(q) : q \in calls'}
  BY UndercutStep
<1>1. ASSUME NEW w \in Worker, NEW i \in 1 .. CallsPerWorker, NEW e \in Event, NEW f \in Content,
             Process(w, i, e, f)
      PROVE  TypeOK'
  <2> DEFINE new == [worker |-> w, slot |-> i, event |-> e, content |-> f, at |-> "handle",
                     remaining |-> LeaseDuration]
  <2>1. new \in Call /\ Caller(new) = <<w, i>> /\ calls' = calls \cup {new}
    BY <1>1, ConstantsTyped DEF Call, Caller, Process
  <2>2. \A q \in calls : Caller(q) # <<w, i>>
    BY <1>1 DEF Process
  <2> HIDE DEF new
  <2>3. calls' \subseteq Call /\ \A q, r \in calls' : Caller(q) = Caller(r) => q = r
    BY <1>0, <2>1, <2>2
  <2>4. fingerprint' \in [Event -> Content \cup {NoContent}] /\ UNCHANGED completed
    BY <1>0, <1>1 DEF Process, claimInbox
  <2>5. completed' \subseteq {g \in Event : fingerprint'[g] # NoContent}
    BY <1>0, <1>1, <2>4, ConstantsTyped DEF Process, claimInbox
  <2>6. /\ owner' \in [Event -> Worker \cup {NoWorker}]
        /\ lease' \in [Event -> 0 .. LeaseDuration]
        /\ holder' \in [Event -> Callers \cup {Nobody}]
        /\ UNCHANGED handled
    BY <1>0, <1>1, ConstantsTyped DEF Process, claimInbox, Callers
  <2> QED
    BY <1>0, <1>u, <2>3, <2>4, <2>5, <2>6 DEF TypeOK
<1>2. ASSUME NEW q \in calls, HandlerSucceeds(q) PROVE TypeOK'
  <2>1. <<q.event, q.content>> \in Event \X Content
    BY <1>0 DEF Call
  <2> QED
    BY <1>0, <1>u, <1>2, <2>1, GoToTyped DEF HandlerSucceeds, receipts, TypeOK
<1>3. ASSUME NEW q \in calls, HandlerFails(q) \/ CompleteThrows(q) PROVE TypeOK'
  BY <1>0, <1>u, <1>3, GoToTyped DEF HandlerFails, CompleteThrows, receipts, TypeOK
<1>4. ASSUME NEW q \in calls, Complete(q) PROVE TypeOK'
  <2>1. q.event \in Event /\ fingerprint[q.event] # NoContent
    BY <1>0, ConstantsTyped DEF Call, CallsMatchReceipts
  <2> QED
    BY <1>0, <1>u, <1>4, <2>1, ConstantsTyped DEF Complete, completeInbox, clearLease, Return, TypeOK, Call
<1>5. ASSUME NEW q \in calls, Release(q) \/ ReleaseThrows(q) PROVE TypeOK'
  BY <1>0, <1>u, <1>5, ConstantsTyped
     DEF Release, ReleaseThrows, releaseInbox, clearLease, Return, receipts, TypeOK
<1>6. ASSUME NEW w \in Worker, Crash(w) PROVE TypeOK'
  BY <1>0, <1>u, <1>6 DEF Crash, receipts, TypeOK
<1>7. CASE Tick
  <2>1. lease' \in [Event -> 0 .. LeaseDuration]
    BY <1>0, <1>7, ConstantsTyped DEF Tick, Earlier
  <2>2. \A q \in calls : /\ [q EXCEPT !.remaining = Earlier(@)] \in Call
                         /\ Caller([q EXCEPT !.remaining = Earlier(@)]) = Caller(q)
    BY <1>0, ConstantsTyped DEF Call, Caller, Earlier
  <2>3. calls' = {[q EXCEPT !.remaining = Earlier(@)] : q \in calls}
    BY <1>7 DEF Tick
  <2>4. calls' \subseteq Call /\ \A q, r \in calls' : Caller(q) = Caller(r) => q = r
    BY <1>0, <2>2, <2>3
  <2> QED
    BY <1>0, <1>u, <1>7, <2>1, <2>4 DEF Tick, TypeOK
<1>8. CASE UNCHANGED vars
  BY <1>0, <1>u, <1>8 DEF vars, receipts, TypeOK
<1> QED
  BY <1>1, <1>2, <1>3, <1>4, <1>5, <1>6, <1>7, <1>8 DEF Next

-----------------------------------------------------------------------------
(* The inbox: the other parts of the invariant *)

\* A receipt's content never changes, and handled pairs stay handled.
LEMMA ReceiptsKeepContent ==
  ASSUME TypeOK, [Next]_vars
  PROVE  /\ handled \subseteq handled'
         /\ \A e \in Event : fingerprint[e] # NoContent => fingerprint'[e] = fingerprint[e]
  BY DEF TypeOK, Next, vars, receipts, Process, claimInbox, HandlerSucceeds, HandlerFails,
         Complete, completeInbox, CompleteThrows, Release, releaseInbox, ReleaseThrows, Crash, Tick

\* What becomes of a call in a step: where each call after it comes from.
LEMMA CallStep ==
  ASSUME TypeOK, [Next]_vars, NEW r \in calls'
  PROVE  \/ r \in calls
         \/ \E w \in Worker, i \in 1 .. CallsPerWorker, e \in Event, f \in Content :
              /\ Process(w, i, e, f)
              /\ r = [worker |-> w, slot |-> i, event |-> e, content |-> f, at |-> "handle",
                      remaining |-> LeaseDuration]
         \/ \E q \in calls : HandlerSucceeds(q) /\ r = [q EXCEPT !.at = "complete"]
         \/ \E q \in calls : r = [q EXCEPT !.at = "release"] /\ UNCHANGED <<receipts, holder>>
         \/ \E q \in calls : Tick /\ r = [q EXCEPT !.remaining = Earlier(@)]
  BY DEF Next, vars, Process, HandlerSucceeds, HandlerFails, Complete, CompleteThrows, Release,
         ReleaseThrows, Crash, Tick, GoTo, Return

\* A call under way goes on working on the content its receipt was made for.
LEMMA CallsMatchReceiptsStep ==
  ASSUME TypeOK, CallsMatchReceipts, [Next]_vars
  PROVE  CallsMatchReceipts'
<1> SUFFICES ASSUME NEW r \in calls'
             PROVE  /\ fingerprint'[r.event] = r.content
                    /\ r.at = "complete" => <<r.event, r.content>> \in handled'
  BY DEF CallsMatchReceipts
<1>0. ASSUME NEW q \in calls
      PROVE  /\ q \in Call
             /\ fingerprint'[q.event] = q.content
             /\ q.at = "complete" => <<q.event, q.content>> \in handled'
  BY ReceiptsKeepContent, ConstantsTyped DEF TypeOK, Call, CallsMatchReceipts
<1>1. CASE r \in calls
  BY <1>0, <1>1
<1>2. ASSUME NEW w \in Worker, NEW i \in 1 .. CallsPerWorker, NEW e \in Event, NEW f \in Content,
             Process(w, i, e, f),
             r = [worker |-> w, slot |-> i, event |-> e, content |-> f, at |-> "handle",
                  remaining |-> LeaseDuration]
      PROVE  fingerprint'[r.event] = r.content /\ r.at # "complete"
  BY <1>2 DEF Process, claimInbox, Acquirable, TypeOK
<1>3. ASSUME NEW q \in calls, HandlerSucceeds(q), r = [q EXCEPT !.at = "complete"]
      PROVE  fingerprint'[r.event] = r.content /\ <<r.event, r.content>> \in handled'
  <2>1. r.event = q.event /\ r.content = q.content
    BY <1>0, <1>3 DEF Call
  <2>2. fingerprint'[q.event] = q.content
    BY <1>0
  <2>3. <<q.event, q.content>> \in handled'
    BY <1>3 DEF HandlerSucceeds
  <2> QED
    BY <2>1, <2>2, <2>3
<1>4. ASSUME NEW q \in calls, r = [q EXCEPT !.at = "release"]
      PROVE  fingerprint'[r.event] = r.content /\ r.at # "complete"
  BY <1>0, <1>4 DEF Call
<1>5. ASSUME NEW q \in calls, r = [q EXCEPT !.remaining = Earlier(@)]
      PROVE  /\ fingerprint'[r.event] = r.content
             /\ r.at = "complete" => <<r.event, r.content>> \in handled'
  <2>1. r.event = q.event /\ r.content = q.content /\ r.at = q.at
    BY <1>0, <1>5 DEF Call
  <2> QED
    BY <1>0, <2>1
<1> QED
  BY <1>1, <1>2, <1>3, <1>4, <1>5, CallStep

\* A completion comes after its own handler, and a receipt keeps its content.
LEMMA CompletedOnlyIfHandledStep ==
  ASSUME TypeOK, CallsMatchReceipts, CompletedOnlyIfHandled, [Next]_vars
  PROVE  CompletedOnlyIfHandled'
<1> SUFFICES ASSUME NEW e \in completed' PROVE <<e, fingerprint'[e]>> \in handled'
  BY DEF CompletedOnlyIfHandled
<1>1. CASE e \in completed
  <2>1. fingerprint'[e] = fingerprint[e] /\ handled \subseteq handled'
    BY <1>1, ReceiptsKeepContent DEF TypeOK
  <2> QED
    BY <1>1, <2>1 DEF CompletedOnlyIfHandled
<1>2. ASSUME NEW q \in calls, Complete(q), e = q.event PROVE <<e, fingerprint'[e]>> \in handled'
  BY <1>2 DEF Complete, completeInbox, CallsMatchReceipts
<1>3. completed' = completed \/ \E q \in calls : Complete(q) /\ completed' = completed \cup {q.event}
  BY DEF Next, vars, receipts, Process, claimInbox, HandlerSucceeds, HandlerFails, Complete,
         completeInbox, CompleteThrows, Release, releaseInbox, ReleaseThrows, Crash, Tick
<1> QED
  BY <1>1, <1>2, <1>3

\* The owner of a lease stays the worker of the latest claim.
LEMMA OwnerIsHolderStep ==
  ASSUME TypeOK, OwnerIsHolder, [Next]_vars
  PROVE  OwnerIsHolder'
<1>0. /\ owner \in [Event -> Worker \cup {NoWorker}]
      /\ holder \in [Event -> Callers \cup {Nobody}]
  BY DEF TypeOK
<1>1. ASSUME NEW w \in Worker, NEW i \in 1 .. CallsPerWorker, NEW e \in Event, NEW f \in Content,
             Process(w, i, e, f)
      PROVE  OwnerIsHolder'
  BY <1>0, <1>1 DEF OwnerIsHolder, Process, claimInbox
<1>2. ASSUME NEW q \in calls, Complete(q) \/ Release(q) PROVE OwnerIsHolder'
  BY <1>0, <1>2 DEF OwnerIsHolder, Complete, completeInbox, Release, releaseInbox, clearLease
<1>3. CASE UNCHANGED <<owner, holder>>
  BY <1>3 DEF OwnerIsHolder
<1> QED
  BY <1>1, <1>2, <1>3 DEF Next, vars, receipts, HandlerSucceeds, HandlerFails, CompleteThrows,
     ReleaseThrows, Crash, Tick

\* A call keeps its row, or is overtaken by another of its worker.
LEMMA CallsOwnTheirRowsStep ==
  ASSUME TypeOK, CallsMatchReceipts, CallsOwnTheirRows, [Next]_vars
  PROVE  CallsOwnTheirRows'
<1>0. /\ owner \in [Event -> Worker \cup {NoWorker}]
      /\ lease \in [Event -> 0 .. LeaseDuration]
      /\ holder \in [Event -> Callers \cup {Nobody}]
      /\ LeaseDuration \in Nat \ {0}
      /\ calls \subseteq Call
      /\ \A q, r \in calls : Caller(q) = Caller(r) => q = r
  BY ConstantsTyped DEF TypeOK
<1>1. ASSUME NEW w \in Worker, NEW i \in 1 .. CallsPerWorker, NEW e \in Event, NEW f \in Content,
             Process(w, i, e, f)
      PROVE  CallsOwnTheirRows'
  <2> DEFINE new == [worker |-> w, slot |-> i, event |-> e, content |-> f, at |-> "handle",
                     remaining |-> LeaseDuration]
  <2>1. /\ owner' = [owner EXCEPT ![e] = w]
        /\ lease' = [lease EXCEPT ![e] = LeaseDuration]
        /\ holder' = [holder EXCEPT ![e] = <<w, i>>]
        /\ calls' = calls \cup {new}
        /\ UNCHANGED undercut
    BY <1>1 DEF Process, claimInbox
  <2>2. \A q \in calls : q.event = e => Overtaken(q)
    <3> SUFFICES ASSUME NEW q \in calls, q.event = e, ~Overtaken(q) PROVE FALSE
      OBVIOUS
    <3>1. lease[e] = q.remaining
      BY DEF CallsOwnTheirRows
    <3>2. lease[e] = 0
      <4>1. fingerprint[e] = q.content /\ q.content \in Content
        BY <1>0 DEF CallsMatchReceipts, Call
      <4> QED
        BY <1>1, <4>1, ConstantsTyped DEF Process, claimInbox, Acquirable
    <3> QED
      BY <3>1, <3>2 DEF Overtaken
  <2>3. /\ new.event = e /\ new.worker = w /\ new.remaining = LeaseDuration
        /\ Caller(new) = <<w, i>>
    BY DEF Caller
  <2> HIDE DEF new
  <2> QED
    BY <1>0, <2>1, <2>2, <2>3 DEF CallsOwnTheirRows, Overtaken, Call
<1>2. ASSUME NEW q \in calls, Complete(q) \/ Release(q) PROVE CallsOwnTheirRows'
  <2>1. /\ owner[q.event] = q.worker /\ q.event \in Event
        /\ owner' = [owner EXCEPT ![q.event] = NoWorker]
        /\ lease' = [lease EXCEPT ![q.event] = 0]
        /\ calls' = calls \ {q}
        /\ undercut' = (undercut \cup SharesRow(q)) \ {Caller(q)}
        /\ UNCHANGED holder
    BY <1>0, <1>2 DEF Complete, completeInbox, Release, releaseInbox, LeasedBy, clearLease, Return, Call
  <2> SUFFICES ASSUME NEW r \in calls', ~Overtaken(r)'
               PROVE  /\ owner'[r.event] = r.worker
                      /\ lease'[r.event] = r.remaining
                      /\ holder'[r.event] = Caller(r)
    BY DEF CallsOwnTheirRows
  <2>2. r \in calls /\ Caller(r) # Caller(q) /\ r.event \in Event
    BY <1>0, <2>1 DEF Call
  <2>3. ~Overtaken(r) /\ Caller(r) \notin SharesRow(q)
    BY <2>1, <2>2 DEF Overtaken
  <2>4. owner[r.event] = r.worker /\ lease[r.event] = r.remaining /\ holder[r.event] = Caller(r)
    BY <2>2, <2>3 DEF CallsOwnTheirRows
  <2>5. r.event # q.event
    BY <2>1, <2>2, <2>3, <2>4 DEF SharesRow
  <2> QED
    BY <1>0, <2>1, <2>2, <2>4, <2>5
<1>3. ASSUME NEW q \in calls, NEW place \in {"complete", "release"}, GoTo(q, place),
             UNCHANGED <<owner, lease, holder, undercut>>
      PROVE  CallsOwnTheirRows'
  <2> DEFINE next == [q EXCEPT !.at = place]
  <2>1. /\ next.event = q.event /\ next.worker = q.worker /\ next.remaining = q.remaining
        /\ Caller(next) = Caller(q) /\ calls' = (calls \ {q}) \cup {next}
    BY <1>0, <1>3 DEF GoTo, Call, Caller
  <2> HIDE DEF next
  <2> QED
    BY <1>3, <2>1 DEF CallsOwnTheirRows, Overtaken
<1>4. CASE /\ UNCHANGED <<owner, lease, holder>> /\ calls' \subseteq calls
           /\ \A q \in calls' : Caller(q) \in undercut => Caller(q) \in undercut'
  BY <1>4 DEF CallsOwnTheirRows, Overtaken
<1>5. ASSUME NEW q \in calls, ReleaseThrows(q) PROVE CallsOwnTheirRows'
  <2>1. \A r \in calls' : Caller(r) # Caller(q)
    BY <1>0, <1>5 DEF ReleaseThrows, Return
  <2> QED
    BY <1>4, <1>5, <2>1 DEF ReleaseThrows, Return, receipts
<1>6. ASSUME NEW w \in Worker, Crash(w) PROVE CallsOwnTheirRows'
  BY <1>4, <1>6 DEF Crash, receipts, Caller
<1>7. CASE Tick
  <2> SUFFICES ASSUME NEW q \in calls, Earlier(q.remaining) # 0, Caller(q) \notin undercut
               PROVE  /\ owner[q.event] = q.worker
                      /\ lease'[q.event] = Earlier(q.remaining)
                      /\ holder[q.event] = Caller(q)
    <3> DEFINE Later(r) == [r EXCEPT !.remaining = Earlier(@)]
    <3>1. \A r \in calls :
            /\ Later(r).event = r.event /\ Later(r).worker = r.worker
            /\ Caller(Later(r)) = Caller(r) /\ Later(r).remaining = Earlier(r.remaining)
      BY <1>0 DEF Call, Caller
    <3>2. calls' = {Later(r) : r \in calls} /\ UNCHANGED <<owner, holder, undercut>>
      BY <1>7 DEF Tick
    <3> HIDE DEF Later
    <3> QED
      BY <3>1, <3>2 DEF CallsOwnTheirRows, Overtaken
  <2>1. q.remaining \in Nat /\ q.event \in Event /\ lease[q.event] \in Nat
    BY <1>0 DEF Call
  <2>2. lease'[q.event] = Earlier(lease[q.event]) /\ q.remaining # 0
    BY <1>7, <2>1 DEF Tick, Earlier
  <2> QED
    BY <2>1, <2>2 DEF CallsOwnTheirRows, Overtaken
<1>8. ASSUME NEW q \in calls,
             HandlerSucceeds(q) \/ HandlerFails(q) \/ CompleteThrows(q)
      PROVE  CallsOwnTheirRows'
  BY <1>3, <1>8 DEF HandlerSucceeds, HandlerFails, CompleteThrows, receipts
<1>9. CASE UNCHANGED vars
  BY <1>4, <1>9 DEF vars, receipts
<1> QED
  BY <1>1, <1>2, <1>5, <1>6, <1>7, <1>8, <1>9 DEF Next

-----------------------------------------------------------------------------
(* The inbox: the theorems *)

\* Every step preserves the inductive invariant.
LEMMA IInvStep == IInv /\ [Next]_vars => IInv'
  BY TypeStep, CallsMatchReceiptsStep, CompletedOnlyIfHandledStep, OwnerIsHolderStep,
     CallsOwnTheirRowsStep DEF IInv

\* The strengthening the theorems follow from: calls match the receipts they
\* claimed, owners are the latest claimants, and a call that was not overtaken
\* owns its row.
THEOREM Inductive == Spec => []IInv
  BY IInvInit, IInvStep, PTL DEF Spec

\* Receipts and calls keep their types; no call completes a receipt that is
\* not there.
THEOREM TypeCorrect == Spec => []TypeOK
<1>1. IInv => TypeOK
  BY DEF IInv
<1> QED
  BY <1>1, Inductive, PTL

\* A completed receipt is one whose own content some handler ran to its end,
\* whichever workers claimed, lost and reclaimed it on the way.
THEOREM CompletionFollowsHandling == Spec => []CompletedOnlyIfHandled
<1>1. IInv => CompletedOnlyIfHandled
  BY DEF IInv
<1> QED
  BY <1>1, Inductive, PTL

\* Before the lease a call obtained runs out, the event goes to another call
\* only through a call of the same worker: for any number of workers, and of
\* calls that each has under way.
THEOREM LeasesExclude == Spec => []ExclusiveWhileLeased
<1>1. IInv => ExclusiveWhileLeased
  <2> SUFFICES ASSUME IInv, NEW q \in calls, NEW r \in calls,
                      q.event = r.event, ~Overtaken(q), ~Overtaken(r)
               PROVE  q = r
    BY DEF ExclusiveWhileLeased
  <2>1. Caller(q) = Caller(r)
    BY DEF IInv, CallsOwnTheirRows
  <2> QED
    BY <2>1 DEF IInv, TypeOK
<1> QED
  BY <1>1, Inductive, PTL

\* A stale worker's completion throws: an event is completed by the worker that
\* claimed it last, and by another call of it than the last only if the last
\* could overtake that call.
THEOREM HolderCompletes == Spec => CompletedByHolder
<1> DEFINE ByHolder ==
  \A e \in completed' \ completed :
    \E q \in calls \ calls' :
      /\ q.event = e
      /\ q.at = "complete"
      /\ \/ Caller(q) = holder[e]
         \/ q.worker = holder[e][1] /\ Overtaken(q)
<1>1. ASSUME IInv, [Next]_vars PROVE [ByHolder]_vars
  <2>1. ASSUME NEW q \in calls, Complete(q) PROVE ByHolder
    <3>1. /\ completed' = completed \cup {q.event} /\ calls' = calls \ {q}
          /\ q.at = "complete" /\ owner[q.event] = q.worker
      BY <2>1 DEF Complete, completeInbox, LeasedBy, Return
    <3>2. q \in Call
      BY <1>1 DEF IInv, TypeOK
    <3>3. q.event \in Event /\ q.worker # NoWorker
      BY <3>2, ConstantsTyped DEF Call
    <3>4. PICK i \in 1 .. CallsPerWorker : holder[q.event] = <<q.worker, i>>
      BY <1>1, <3>1, <3>3 DEF IInv, OwnerIsHolder
    <3>5. ~Overtaken(q) => Caller(q) = holder[q.event]
      BY <1>1 DEF IInv, CallsOwnTheirRows
    <3> QED
      BY <3>1, <3>4, <3>5
  <2>2. CASE UNCHANGED completed
    BY <2>2
  <2>3. UNCHANGED completed \/ \E q \in calls : Complete(q)
    BY <1>1 DEF Next, vars, receipts, Process, claimInbox, HandlerSucceeds, HandlerFails,
       CompleteThrows, Release, releaseInbox, ReleaseThrows, Crash, Tick
  <2> QED
    BY <2>1, <2>2, <2>3
<1> QED
  BY <1>1, Inductive, PTL DEF Spec, CompletedByHolder

\* A completed receipt is never claimed, completed or released again, and its
\* event is in no new call.
THEOREM CompletionIsFinal == Spec => CompletedIsFinal
<1> DEFINE On(e, C) == {Caller(q) : q \in {r \in C : r.event = e}}
           Final ==
  \A e \in completed :
    /\ e \in completed'
    /\ <<fingerprint[e], owner[e]>>' = <<fingerprint[e], owner[e]>>
    /\ On(e, calls') \subseteq On(e, calls)
<1>1. ASSUME IInv, [Next]_vars PROVE [Final]_vars
  <2> SUFFICES ASSUME NEW e \in completed
               PROVE  /\ e \in completed'
                      /\ fingerprint'[e] = fingerprint[e]
                      /\ owner'[e] = owner[e]
                      /\ On(e, calls') \subseteq On(e, calls)
    OBVIOUS
  <2>0. TypeOK /\ e \in Event /\ fingerprint[e] # NoContent
    BY <1>1 DEF IInv, TypeOK
  <2>1. \A w \in Worker, i \in 1 .. CallsPerWorker, g \in Event, f \in Content :
          Process(w, i, g, f) => g # e
    BY <2>0 DEF Process, claimInbox, Acquirable
  <2>2. e \in completed' /\ owner'[e] = owner[e]
    BY <1>1, <2>0, <2>1
       DEF TypeOK, Next, vars, receipts, Process, claimInbox, HandlerSucceeds, HandlerFails, Complete,
           completeInbox, LeasedBy, clearLease, CompleteThrows, Release, releaseInbox,
           ReleaseThrows, Crash, Tick
  <2>3. fingerprint'[e] = fingerprint[e]
    BY <1>1, <2>0, ReceiptsKeepContent
  <2>4. ASSUME NEW r \in calls', r.event = e
        PROVE  \E q \in calls : q.event = e /\ Caller(q) = Caller(r)
    <3>1. \A q \in calls : q \in Call
      BY <2>0 DEF TypeOK
    <3> QED
      BY <1>1, <2>0, <2>1, <2>4, <3>1, CallStep DEF Call, Caller
  <2> QED
    BY <2>2, <2>3, <2>4
<1> QED
  BY <1>1, Inductive, PTL DEF Spec, CompletedIsFinal

-----------------------------------------------------------------------------
(* The file: the inductive invariant *)

\* What a server has found of the file still holds when it goes on.
MigrationInv ==
  /\ file.aggregateVersion # "unfilled"
  /\ \A s \in Server :
       /\ server[s] \in {"altering", "recording", "open"} =>
            REQUIRED_TABLES \subseteq file.tables /\ 1 .. 3 \subseteq file.versions
       /\ server[s] \in {"recording", "open"} => file.aggregateVersion = "filled"
       /\ server[s] = "open" => SQLITE_SCHEMA_VERSION \in file.versions
  /\ SQLITE_SCHEMA_VERSION \in file.versions => CompleteSchema(file)

\* At the destination of the backup one tool at a time has something to undo,
\* and without a manifest no restore gets beyond reading it.
BackupInv ==
  /\ \A t \in Tool :
       tool[t].at \in {"link manifest", "undo"} =>
         /\ database = tool[t].copy
         /\ succeeded = NoFile
         /\ \A u \in Tool \ {t} : tool[u].at \notin {"link manifest", "undo"}
  /\ manifest = NoFile =>
       /\ restored = NoFile
       /\ \A t \in Tool : tool[t].at \notin {"identify", "verify", "restore", "link restored"}
  /\ \A t \in Tool : tool[t].at = "link restored" /\ succeeded # NoFile => tool[t].copy = succeeded

\* Whatever is copied or published is complete.
CopiesInv ==
  /\ PublishedIsComplete
  /\ \A t \in Tool : tool[t].copy # NoFile => CompleteSchema(tool[t].copy)

RecoveryIInv ==
  /\ RecoveryTypeOK
  /\ MigrationInv
  /\ BackupInv
  /\ CopiesInv
  /\ ReportedBackupStays

-----------------------------------------------------------------------------
(* The file: images *)

LEMMA ImageFields ==
  ASSUME NEW image \in Image
  PROVE  /\ image.versions \in SUBSET (1 .. SQLITE_SCHEMA_VERSION + 1)
         /\ image.commits \in 0 .. MaxCommits
BY DEF Image

LEMMA VersionsFit ==
  ASSUME NEW vs \in SUBSET (1 .. SQLITE_SCHEMA_VERSION + 1), NEW v \in 1 .. SQLITE_SCHEMA_VERSION
  PROVE  vs \cup {v} \in SUBSET (1 .. SQLITE_SCHEMA_VERSION + 1)
BY DEF SQLITE_SCHEMA_VERSION

-----------------------------------------------------------------------------
(* The file: servers; what is in the file only grows *)

ServerKept ==
  /\ file' \in Image
  /\ server' \in [Server -> {"closed", "migrating", "altering", "recording", "open"}]
  /\ MigrationInv'
  /\ UNCHANGED <<database, manifest, restored, tool, succeeded>>

LEMMA OpeningKeeps ==
  ASSUME RecoveryTypeOK, MigrationInv, NEW s \in Server,
         assertNoFutureSchema(s) \/ FindColumn(s) \/ Close(s)
  PROVE  ServerKept
BY DEF RecoveryTypeOK, MigrationInv, assertNoFutureSchema, FindColumn, Close, Moves, ServerKept,
       CompleteSchema, Image

LEMMA CreateTableKeeps ==
  ASSUME RecoveryTypeOK, MigrationInv, NEW s \in Server, CreateTable(s)
  PROVE  ServerKept
<1>1. PICK i \in DOMAIN Tables :
        /\ Tables[i] \notin file.tables
        /\ file' = [file EXCEPT !.tables = @ \cup {Tables[i]},
                                !.aggregateVersion = IF Tables[i] = "outbox" THEN "filled" ELSE @]
  BY DEF CreateTable
<1>2. Tables[i] \in REQUIRED_TABLES
  BY DEF REQUIRED_TABLES
<1>3. SQLITE_SCHEMA_VERSION \notin file.versions
  BY <1>1, <1>2 DEF MigrationInv, CompleteSchema
<1>4. \A u \in Server : server[u] \notin {"altering", "recording", "open"}
  BY <1>1, <1>2 DEF MigrationInv
<1>5. /\ file' \in Image
      /\ file'.versions = file.versions
      /\ file'.aggregateVersion # "unfilled"
  BY <1>1, <1>2 DEF RecoveryTypeOK, Image, MigrationInv
<1>6. /\ server' = [server EXCEPT ![s] = "migrating"]
      /\ UNCHANGED <<database, manifest, restored, tool, succeeded>>
  BY DEF CreateTable, Moves
<1> QED
  BY <1>3, <1>4, <1>5, <1>6 DEF RecoveryTypeOK, ServerKept, MigrationInv

LEMMA RecordVersionKeeps ==
  ASSUME RecoveryTypeOK, MigrationInv, NEW s \in Server, RecordVersion(s)
  PROVE  ServerKept
<1>1. PICK v \in 1 .. 3 : file' = [file EXCEPT !.versions = @ \cup {v}]
  BY DEF RecordVersion
<1>a. v \in 1 .. SQLITE_SCHEMA_VERSION
  BY DEF SQLITE_SCHEMA_VERSION
<1>0. file.versions \cup {v} \in SUBSET (1 .. SQLITE_SCHEMA_VERSION + 1)
  BY <1>a, ImageFields, VersionsFit DEF RecoveryTypeOK
<1>2. /\ file' \in Image
      /\ file'.tables = file.tables
      /\ file'.aggregateVersion = file.aggregateVersion
      /\ file'.versions = file.versions \cup {v}
  BY <1>1, <1>0 DEF RecoveryTypeOK, Image
<1>3. /\ server' = [server EXCEPT ![s] = "migrating"]
      /\ UNCHANGED <<database, manifest, restored, tool, succeeded>>
  BY DEF RecordVersion, Moves
<1>4. SQLITE_SCHEMA_VERSION \in file'.versions => SQLITE_SCHEMA_VERSION \in file.versions
  BY <1>2 DEF SQLITE_SCHEMA_VERSION
<1> QED
  BY <1>2, <1>3, <1>4 DEF RecoveryTypeOK, ServerKept, MigrationInv, CompleteSchema

LEMMA AddColumnKeeps ==
  ASSUME RecoveryTypeOK, MigrationInv, NEW s \in Server, AddColumn(s)
  PROVE  ServerKept
<1>1. /\ file' \in Image
      /\ file'.tables = file.tables
      /\ file'.aggregateVersion = "filled"
      /\ file'.versions = file.versions
  BY DEF AddColumn, RecoveryTypeOK, Image
<1>2. /\ server[s] = "altering"
      /\ server' = [server EXCEPT ![s] = "recording"]
      /\ UNCHANGED <<database, manifest, restored, tool, succeeded>>
  BY DEF AddColumn, Moves
<1> QED
  BY <1>1, <1>2 DEF RecoveryTypeOK, ServerKept, MigrationInv, CompleteSchema

LEMMA RecordLastVersionKeeps ==
  ASSUME RecoveryTypeOK, MigrationInv, NEW s \in Server, RecordLastVersion(s)
  PROVE  ServerKept
<1>a. SQLITE_SCHEMA_VERSION \in 1 .. SQLITE_SCHEMA_VERSION
  BY DEF SQLITE_SCHEMA_VERSION
<1>0. file.versions \cup {SQLITE_SCHEMA_VERSION} \in SUBSET (1 .. SQLITE_SCHEMA_VERSION + 1)
  BY <1>a, ImageFields, VersionsFit DEF RecoveryTypeOK
<1>1. /\ file' \in Image
      /\ file'.tables = file.tables
      /\ file'.aggregateVersion = file.aggregateVersion
      /\ file'.versions = file.versions \cup {SQLITE_SCHEMA_VERSION}
  BY <1>0 DEF RecordLastVersion, RecoveryTypeOK, Image
<1>2. /\ server[s] = "recording"
      /\ server' = [server EXCEPT ![s] = "open"]
      /\ UNCHANGED <<database, manifest, restored, tool, succeeded>>
  BY DEF RecordLastVersion, Moves
<1>3. CompleteSchema(file')
  BY <1>1, <1>2 DEF MigrationInv, CompleteSchema, SQLITE_SCHEMA_VERSION
<1> QED
  BY <1>1, <1>2, <1>3 DEF RecoveryTypeOK, ServerKept, MigrationInv, SQLITE_SCHEMA_VERSION

LEMMA commitKeeps ==
  ASSUME RecoveryTypeOK, MigrationInv, NEW s \in Server, commit(s)
  PROVE  ServerKept
<1>a. file.commits \in 0 .. MaxCommits
  BY ImageFields DEF RecoveryTypeOK
<1>b. file.commits < MaxCommits
  BY DEF commit
<1>0. file.commits + 1 \in 0 .. MaxCommits
  BY <1>a, <1>b, RecoveryAssumption
<1>1. /\ file' \in Image
      /\ file'.tables = file.tables
      /\ file'.aggregateVersion = file.aggregateVersion
      /\ file'.versions = file.versions
  BY <1>0 DEF commit, RecoveryTypeOK, Image
<1>2. /\ server[s] = "open"
      /\ server' = [server EXCEPT ![s] = "open"]
      /\ UNCHANGED <<database, manifest, restored, tool, succeeded>>
  BY DEF commit, Moves
<1> QED
  BY <1>1, <1>2 DEF RecoveryTypeOK, ServerKept, MigrationInv, CompleteSchema

\* Nothing of a tool depends on the database in use once it has its copy.
LEMMA ServersKeep ==
  ASSUME RecoveryIInv, ServerKept
  PROVE  RecoveryIInv'
BY DEF RecoveryIInv, ServerKept, RecoveryTypeOK, BackupInv, CopiesInv, PublishedIsComplete, ReportedBackupStays

-----------------------------------------------------------------------------
(* Tools: one lemma per step, under what all of them leave alone *)

LEMMA ToolMoves ==
  ASSUME RecoveryTypeOK, NEW t \in Tool, NEW next \in ToolState, Step(t, next)
  PROVE  /\ tool' \in [Tool -> ToolState]
         /\ tool'[t] = next
         /\ \A u \in Tool \ {t} : tool'[u] = tool[u]
         /\ file' \in Image
         /\ UNCHANGED <<file, server>>
BY DEF RecoveryTypeOK, Step

LEMMA IdleIsAState ==
  /\ Idle \in ToolState
  /\ Idle.at = "idle" /\ Idle.copy = NoFile /\ Idle.manifest = NoFile
BY DEF Idle, ToolState, File

\* A tool without a copy goes on without one, and needs a manifest only
\* when it has read one.
LEMMA SearchingKeeps ==
  ASSUME RecoveryIInv, NEW t \in Tool, NEW next \in ToolState, Step(t, next),
         UNCHANGED <<database, manifest, restored, succeeded>>,
         next.copy = NoFile,
         next.at \notin {"link database", "link manifest", "undo", "link restored"},
         next.at \in {"identify", "verify", "restore"} => next.manifest # NoFile /\ manifest # NoFile
  PROVE  RecoveryIInv'
<1>1. /\ tool' \in [Tool -> ToolState]
      /\ tool'[t] = next
      /\ \A u \in Tool \ {t} : tool'[u] = tool[u]
      /\ UNCHANGED <<file, server>>
  BY ToolMoves DEF RecoveryIInv
<1>2. RecoveryTypeOK'
  BY <1>1 DEF RecoveryIInv, RecoveryTypeOK
<1>3. MigrationInv'
  BY <1>1 DEF RecoveryIInv, MigrationInv
<1>4. BackupInv'
  BY <1>1 DEF RecoveryIInv, BackupInv
<1>5. CopiesInv' /\ ReportedBackupStays'
  BY <1>1 DEF RecoveryIInv, CopiesInv, PublishedIsComplete, ReportedBackupStays
<1> QED
  BY <1>2, <1>3, <1>4, <1>5 DEF RecoveryIInv

\* What is copied, or was, is complete; it replaces nothing.
LEMMA CopyingKeeps ==
  ASSUME RecoveryIInv, NEW t \in Tool, NEW next \in ToolState, Step(t, next),
         UNCHANGED <<database, manifest, restored, succeeded>>,
         next.copy # NoFile, CompleteSchema(next.copy),
         \/ next.at = "link database"
         \/ next.at = "undo" /\ tool[t].at = "link manifest" /\ next.copy = tool[t].copy
         \/ next.at = "link restored" /\ next.copy = database /\ manifest # NoFile
  PROVE  RecoveryIInv'
<1>1. /\ tool' \in [Tool -> ToolState]
      /\ tool'[t] = next
      /\ \A u \in Tool \ {t} : tool'[u] = tool[u]
      /\ UNCHANGED <<file, server>>
  BY ToolMoves DEF RecoveryIInv
<1>2. RecoveryTypeOK'
  BY <1>1 DEF RecoveryIInv, RecoveryTypeOK
<1>3. MigrationInv'
  BY <1>1 DEF RecoveryIInv, MigrationInv
<1>4. BackupInv'
  BY <1>1 DEF RecoveryIInv, BackupInv, ReportedBackupStays
<1>5. CopiesInv' /\ ReportedBackupStays'
  BY <1>1 DEF RecoveryIInv, CopiesInv, PublishedIsComplete, ReportedBackupStays
<1> QED
  BY <1>2, <1>3, <1>4, <1>5 DEF RecoveryIInv

LEMMA VerifiedIsComplete ==
  ASSUME RecoveryIInv, verifyDatabase(file)
  PROVE  CompleteSchema(file)
BY DEF RecoveryIInv, MigrationInv, verifyDatabase, SQLITE_SCHEMA_VERSION

LEMMA AtAType ==
  ASSUME RecoveryTypeOK, NEW t \in Tool
  PROVE  /\ tool[t] \in ToolState
         /\ tool[t].copy \in File /\ tool[t].manifest \in File
BY DEF RecoveryTypeOK, ToolState

\* Steps that look for something, or give up.
LEMMA SearchSteps ==
  ASSUME RecoveryIInv, NEW t \in Tool,
         \/ createVerifiedBackup(t) \/ requireAbsent(t) \/ Die(t)
         \/ restoreVerifiedBackup(t) \/ requireExistingFile(t) \/ readManifest(t)
         \/ fileIdentity(t) \/ verifyBackup(t)
  PROVE  RecoveryIInv'
<1> USE IdleIsAState
<1>1. CASE createVerifiedBackup(t)
  BY <1>1, SearchingKeeps DEF createVerifiedBackup, Idle, ToolState
<1>2. CASE requireAbsent(t)
  BY <1>2, SearchingKeeps DEF requireAbsent, Idle, ToolState
<1>3. CASE Die(t)
  BY <1>3, SearchingKeeps DEF Die, Idle, ToolState
<1>4. CASE restoreVerifiedBackup(t)
  BY <1>4, SearchingKeeps DEF restoreVerifiedBackup, Reads, Idle, ToolState
<1>5. CASE requireExistingFile(t)
  BY <1>5, SearchingKeeps DEF requireExistingFile, Reads, Idle, ToolState
<1>6. CASE readManifest(t)
  <2>1. manifest \in File
    BY DEF RecoveryIInv, RecoveryTypeOK
  <2> QED
    BY <1>6, <2>1, SearchingKeeps DEF readManifest, Reads, Idle, ToolState
<1>7. CASE fileIdentity(t)
  <2>1. /\ tool[t] \in ToolState
        /\ tool[t].copy = NoFile /\ tool[t].manifest # NoFile /\ manifest # NoFile
    BY <1>7, AtAType DEF RecoveryIInv, RecoveryTypeOK, BackupInv, fileIdentity
  <2> QED
    BY <1>7, <2>1, SearchingKeeps DEF fileIdentity, Reads, ToolState
<1>8. CASE verifyBackup(t)
  <2>1. /\ tool[t] \in ToolState
        /\ tool[t].copy = NoFile /\ tool[t].manifest # NoFile /\ manifest # NoFile
    BY <1>8, AtAType DEF RecoveryIInv, RecoveryTypeOK, BackupInv, verifyBackup
  <2> QED
    BY <1>8, <2>1, SearchingKeeps DEF verifyBackup, Reads, ToolState
<1> QED
  BY <1>1, <1>2, <1>3, <1>4, <1>5, <1>6, <1>7, <1>8

LEMMA backupKeeps ==
  ASSUME RecoveryIInv, NEW t \in Tool, backup(t)
  PROVE  RecoveryIInv'
<1> DEFINE next == [Idle EXCEPT !.at = "link database", !.copy = file]
<1>1. /\ file \in File /\ file # NoFile
      /\ CompleteSchema(file)
  BY RecoveryAssumption, VerifiedIsComplete DEF RecoveryIInv, RecoveryTypeOK, File, backup
<1>2. next \in ToolState /\ next.at = "link database" /\ next.copy = file
  BY <1>1, IdleIsAState DEF Idle, ToolState
<1> QED
  BY <1>1, <1>2, CopyingKeeps DEF backup

LEMMA restoreKeeps ==
  ASSUME RecoveryIInv, NEW t \in Tool, restore(t)
  PROVE  RecoveryIInv'
<1>1. /\ database \in File /\ database # NoFile /\ manifest # NoFile
      /\ CompleteSchema(database)
  BY DEF RecoveryIInv, RecoveryTypeOK, BackupInv, CopiesInv, PublishedIsComplete, restore
<1>2. PICK next \in ToolState :
        /\ Step(t, next)
        /\ next.at = "link restored" /\ next.copy = database
  <2>1. [tool[t] EXCEPT !.at = "link restored", !.copy = database] \in ToolState
    BY <1>1, AtAType DEF RecoveryIInv, ToolState
  <2> QED
    BY <2>1, AtAType DEF RecoveryIInv, ToolState, restore, Reads
<1>3. UNCHANGED <<database, manifest, restored, succeeded>>
  BY DEF restore, Reads
<1> QED
  BY <1>1, <1>2, <1>3, CopyingKeeps

LEMMA ThrowKeeps ==
  ASSUME RecoveryIInv, NEW t \in Tool, Throw(t)
  PROVE  RecoveryIInv'
<1>1. CASE tool[t].at = "link manifest"
  <2> DEFINE next == [tool[t] EXCEPT !.at = "undo"]
  <2>1. /\ next \in ToolState /\ next.at = "undo" /\ next.copy = tool[t].copy
        /\ tool[t].copy # NoFile /\ CompleteSchema(tool[t].copy)
    BY <1>1, AtAType DEF RecoveryIInv, RecoveryTypeOK, CopiesInv, ToolState
  <2> QED
    BY <1>1, <2>1, CopyingKeeps DEF Throw
<1>2. CASE tool[t].at # "link manifest"
  BY <1>2, IdleIsAState, SearchingKeeps DEF Throw
<1> QED
  BY <1>1, <1>2

-----------------------------------------------------------------------------
(* Tools: what they publish and take back *)

LEMMA publishDatabaseKeeps ==
  ASSUME RecoveryIInv, NEW t \in Tool, publishDatabase(t)
  PROVE  RecoveryIInv'
<1>1. PICK next \in {[tool[t] EXCEPT !.at = "link manifest"], Idle} : Step(t, next)
  BY DEF publishDatabase
<1>2. /\ tool[t].copy # NoFile /\ CompleteSchema(tool[t].copy) /\ tool[t].copy \in File
      /\ tool[t] \in ToolState /\ tool[t].at = "link database"
  BY AtAType DEF RecoveryIInv, RecoveryTypeOK, CopiesInv, publishDatabase
<1>3. /\ next \in ToolState
      /\ \/ next.at = "link manifest" /\ next.copy = tool[t].copy
         \/ next.at = "idle" /\ next.copy = NoFile
  BY <1>1, <1>2, IdleIsAState DEF ToolState
<1>4. /\ tool' \in [Tool -> ToolState]
      /\ tool'[t] = next
      /\ \A u \in Tool \ {t} : tool'[u] = tool[u]
      /\ UNCHANGED <<file, server>>
  BY <1>1, <1>3, ToolMoves DEF RecoveryIInv
<1>5. /\ database = NoFile /\ database' = tool[t].copy
      /\ UNCHANGED <<manifest, restored, succeeded>>
  BY DEF publishDatabase
\* The destination was free: nobody has anything to undo there.
<1>6. /\ succeeded = NoFile
      /\ \A u \in Tool : tool[u].at \notin {"link manifest", "undo"}
  BY <1>5 DEF RecoveryIInv, BackupInv, RecoveryTypeOK, ReportedBackupStays
<1>7. RecoveryTypeOK'
  BY <1>2, <1>3, <1>4, <1>5 DEF RecoveryIInv, RecoveryTypeOK
<1>8. MigrationInv'
  BY <1>4 DEF RecoveryIInv, MigrationInv
<1>9. BackupInv'
  BY <1>3, <1>4, <1>5, <1>6 DEF RecoveryIInv, BackupInv
<1>10. CopiesInv' /\ ReportedBackupStays'
  BY <1>2, <1>3, <1>4, <1>5, <1>6 DEF RecoveryIInv, CopiesInv, PublishedIsComplete, ReportedBackupStays
<1> QED
  BY <1>7, <1>8, <1>9, <1>10 DEF RecoveryIInv

LEMMA publishManifestKeeps ==
  ASSUME RecoveryIInv, NEW t \in Tool, publishManifest(t)
  PROVE  RecoveryIInv'
<1>1. PICK next \in {[tool[t] EXCEPT !.at = "undo"], Idle} :
        /\ Step(t, next)
        /\ \/ next = Idle /\ succeeded' = tool[t].copy
           \/ next = [tool[t] EXCEPT !.at = "undo"] /\ UNCHANGED succeeded
  BY DEF publishManifest
<1>2. /\ tool[t].copy # NoFile /\ CompleteSchema(tool[t].copy) /\ tool[t].copy \in File
      /\ tool[t] \in ToolState /\ tool[t].at = "link manifest"
  BY AtAType DEF RecoveryIInv, RecoveryTypeOK, CopiesInv, publishManifest
<1>3. /\ next \in ToolState
      /\ \/ next.at = "undo" /\ next.copy = tool[t].copy /\ succeeded' = succeeded
         \/ next.at = "idle" /\ next.copy = NoFile /\ succeeded' = tool[t].copy
  BY <1>1, <1>2, IdleIsAState DEF ToolState
<1>4. /\ tool' \in [Tool -> ToolState]
      /\ tool'[t] = next
      /\ \A u \in Tool \ {t} : tool'[u] = tool[u]
      /\ UNCHANGED <<file, server>>
  BY <1>1, <1>3, ToolMoves DEF RecoveryIInv
<1>5. /\ manifest = NoFile /\ manifest' = tool[t].copy
      /\ UNCHANGED <<database, restored>>
  BY DEF publishManifest
<1>6. /\ succeeded = NoFile /\ database = tool[t].copy /\ restored = NoFile
      /\ \A u \in Tool \ {t} :
           tool[u].at \notin {"link manifest", "undo", "identify", "verify", "restore", "link restored"}
  BY <1>2, <1>5 DEF RecoveryIInv, BackupInv
<1>7. RecoveryTypeOK'
  BY <1>2, <1>3, <1>4, <1>5 DEF RecoveryIInv, RecoveryTypeOK
<1>8. MigrationInv'
  BY <1>4 DEF RecoveryIInv, MigrationInv
<1>9. BackupInv'
  BY <1>2, <1>3, <1>4, <1>5, <1>6 DEF RecoveryIInv, BackupInv
<1>10. CopiesInv' /\ ReportedBackupStays'
  BY <1>2, <1>3, <1>4, <1>5, <1>6 DEF RecoveryIInv, CopiesInv, PublishedIsComplete, ReportedBackupStays
<1> QED
  BY <1>7, <1>8, <1>9, <1>10 DEF RecoveryIInv

LEMMA undoKeeps ==
  ASSUME RecoveryIInv, NEW t \in Tool, undo(t)
  PROVE  RecoveryIInv'
<1>1. /\ tool' \in [Tool -> ToolState]
      /\ tool'[t] = Idle
      /\ \A u \in Tool \ {t} : tool'[u] = tool[u]
      /\ UNCHANGED <<file, server>>
  BY ToolMoves, IdleIsAState DEF RecoveryIInv, undo
<1>2. /\ tool[t].at = "undo"
      /\ database' \in {database, NoFile}
      /\ UNCHANGED <<manifest, restored, succeeded>>
  BY DEF undo
<1>3. /\ succeeded = NoFile
      /\ \A u \in Tool \ {t} : tool[u].at \notin {"link manifest", "undo"}
  BY <1>2 DEF RecoveryIInv, BackupInv
<1>4. RecoveryTypeOK'
  BY <1>1, <1>2, IdleIsAState DEF RecoveryIInv, RecoveryTypeOK, File
<1>5. MigrationInv'
  BY <1>1 DEF RecoveryIInv, MigrationInv
<1>6. BackupInv'
  BY <1>1, <1>2, <1>3, IdleIsAState DEF RecoveryIInv, BackupInv
<1>7. CopiesInv' /\ ReportedBackupStays'
  BY <1>1, <1>2, <1>3, IdleIsAState DEF RecoveryIInv, CopiesInv, PublishedIsComplete, ReportedBackupStays
<1> QED
  BY <1>4, <1>5, <1>6, <1>7 DEF RecoveryIInv

LEMMA publishRestoredKeeps ==
  ASSUME RecoveryIInv, NEW t \in Tool, publishRestored(t)
  PROVE  RecoveryIInv'
<1>1. /\ tool' \in [Tool -> ToolState]
      /\ tool'[t] = Idle
      /\ \A u \in Tool \ {t} : tool'[u] = tool[u]
      /\ UNCHANGED <<file, server>>
  BY ToolMoves, IdleIsAState DEF RecoveryIInv, publishRestored
<1>2. /\ tool[t].at = "link restored"
      /\ restored' = tool[t].copy
      /\ UNCHANGED <<database, manifest, succeeded>>
  BY DEF publishRestored
<1>3. /\ tool[t].copy # NoFile /\ CompleteSchema(tool[t].copy) /\ tool[t].copy \in File
      /\ manifest # NoFile
      /\ succeeded # NoFile => tool[t].copy = succeeded
  BY <1>2, AtAType DEF RecoveryIInv, RecoveryTypeOK, BackupInv, CopiesInv
<1>4. RecoveryTypeOK'
  BY <1>1, <1>2, <1>3, IdleIsAState DEF RecoveryIInv, RecoveryTypeOK
<1>5. MigrationInv'
  BY <1>1 DEF RecoveryIInv, MigrationInv
<1>6. BackupInv'
  BY <1>1, <1>2, <1>3, IdleIsAState DEF RecoveryIInv, BackupInv
<1>7. CopiesInv' /\ ReportedBackupStays'
  BY <1>1, <1>2, <1>3, IdleIsAState DEF RecoveryIInv, CopiesInv, PublishedIsComplete, ReportedBackupStays
<1> QED
  BY <1>4, <1>5, <1>6, <1>7 DEF RecoveryIInv

-----------------------------------------------------------------------------
(* The file: the theorems *)

LEMMA TablesRequired == {"aggregates", "events", "outbox"} \subseteq REQUIRED_TABLES
<1>1. /\ 2 \in DOMAIN Tables /\ 3 \in DOMAIN Tables /\ 5 \in DOMAIN Tables
      /\ Tables[2] = "aggregates" /\ Tables[3] = "events" /\ Tables[5] = "outbox"
  BY DEF Tables
<1> QED
  BY <1>1 DEF REQUIRED_TABLES

LEMMA InitEstablishes == RecoveryInit => RecoveryIInv
<1> SUFFICES ASSUME RecoveryInit PROVE RecoveryIInv
  OBVIOUS
<1>1. /\ file \in Image
      /\ file.aggregateVersion # "unfilled"
      /\ SQLITE_SCHEMA_VERSION \in file.versions => CompleteSchema(file)
  <2>1. /\ {} \in SUBSET REQUIRED_TABLES
        /\ {"aggregates", "events", "outbox"} \in SUBSET REQUIRED_TABLES
        /\ REQUIRED_TABLES \in SUBSET REQUIRED_TABLES
    BY TablesRequired
  <2>2. /\ {} \in SUBSET (1 .. SQLITE_SCHEMA_VERSION + 1)
        /\ 1 .. 3 \in SUBSET (1 .. SQLITE_SCHEMA_VERSION + 1)
        /\ 1 .. SQLITE_SCHEMA_VERSION + 1 \in SUBSET (1 .. SQLITE_SCHEMA_VERSION + 1)
        /\ SQLITE_SCHEMA_VERSION \notin {} /\ SQLITE_SCHEMA_VERSION \notin 1 .. 3
        /\ 1 .. SQLITE_SCHEMA_VERSION \subseteq 1 .. SQLITE_SCHEMA_VERSION + 1
    BY DEF SQLITE_SCHEMA_VERSION
  <2>3. 0 \in 0 .. MaxCommits
    BY RecoveryAssumption
  <2>4. CASE file = Empty
    BY <2>1, <2>2, <2>3, <2>4 DEF Empty, Image
  <2>5. CASE file = [Empty EXCEPT !.tables = {"aggregates", "events", "outbox"}]
    BY <2>1, <2>2, <2>3, <2>5 DEF Empty, Image
  <2>6. CASE file = [Empty EXCEPT !.tables = REQUIRED_TABLES, !.versions = 1 .. 3]
    BY <2>1, <2>2, <2>3, <2>6 DEF Empty, Image
  <2>7. CASE file = [Empty EXCEPT !.tables = REQUIRED_TABLES, !.aggregateVersion = "filled",
                                  !.versions = 1 .. SQLITE_SCHEMA_VERSION + 1]
    BY <2>1, <2>2, <2>3, <2>7 DEF Empty, Image, CompleteSchema
  <2> QED
    BY <2>4, <2>5, <2>6, <2>7 DEF RecoveryInit, InitialFiles
<1>2. RecoveryTypeOK
  BY <1>1, IdleIsAState DEF RecoveryInit, RecoveryTypeOK, File
<1>3. MigrationInv
  BY <1>1 DEF RecoveryInit, MigrationInv
<1>4. BackupInv /\ CopiesInv /\ ReportedBackupStays
  BY IdleIsAState DEF RecoveryInit, BackupInv, CopiesInv, PublishedIsComplete, ReportedBackupStays
<1> QED
  BY <1>2, <1>3, <1>4 DEF RecoveryIInv

LEMMA NextKeeps == RecoveryIInv /\ [RecoveryNext]_recoveryVars => RecoveryIInv'
<1> SUFFICES ASSUME RecoveryIInv, [RecoveryNext]_recoveryVars PROVE RecoveryIInv'
  OBVIOUS
<1>1. ASSUME NEW s \in Server,
             \/ assertNoFutureSchema(s) \/ FindColumn(s) \/ Close(s)
             \/ CreateTable(s) \/ RecordVersion(s) \/ AddColumn(s)
             \/ RecordLastVersion(s) \/ commit(s)
      PROVE  RecoveryIInv'
  <2>1. ServerKept
    BY <1>1, OpeningKeeps, CreateTableKeeps, RecordVersionKeeps, AddColumnKeeps,
       RecordLastVersionKeeps, commitKeeps DEF RecoveryIInv
  <2> QED
    BY <2>1, ServersKeep
<1>2. ASSUME NEW t \in Tool,
             \/ createVerifiedBackup(t) \/ requireAbsent(t) \/ Die(t)
             \/ restoreVerifiedBackup(t) \/ requireExistingFile(t) \/ readManifest(t)
             \/ fileIdentity(t) \/ verifyBackup(t)
      PROVE  RecoveryIInv'
  BY <1>2, SearchSteps
<1>3. ASSUME NEW t \in Tool,
             \/ backup(t) \/ publishDatabase(t) \/ publishManifest(t) \/ undo(t)
             \/ restore(t) \/ publishRestored(t) \/ Throw(t)
      PROVE  RecoveryIInv'
  BY <1>3, backupKeeps, publishDatabaseKeeps, publishManifestKeeps, undoKeeps, restoreKeeps,
     publishRestoredKeeps, ThrowKeeps
<1>4. CASE UNCHANGED recoveryVars
  BY <1>4 DEF recoveryVars, RecoveryIInv, RecoveryTypeOK, MigrationInv, BackupInv, CopiesInv, PublishedIsComplete,
     ReportedBackupStays
<1> QED
  BY <1>1, <1>2, <1>3, <1>4 DEF RecoveryNext

\* What servers know of the file they migrate, and tools of the destinations
\* they share, is true at every instant: about the constructor and migration
\* in database.ts and the tools of recovery.ts.
THEOREM RecoveryInductive == RecoverySpec => []RecoveryIInv
<1> QED
  BY InitEstablishes, NextKeeps, PTL DEF RecoverySpec

\* Files, servers and tools keep their types; a tool has a copy exactly
\* between making it and publishing or removing it.
THEOREM RecoveryTypeCorrect == RecoverySpec => []RecoveryTypeOK
<1>1. RecoveryIInv => RecoveryTypeOK
  BY DEF RecoveryIInv
<1> QED
  BY <1>1, RecoveryInductive, PTL

\* A recorded version 4 stands for the whole schema, and an open server works
\* on it, however many servers migrate one file at a time or die in it.
THEOREM VersionsAreTrue == RecoverySpec => []VersionsTellTheSchema
<1>1. RecoveryIInv => VersionsTellTheSchema
  BY DEF RecoveryIInv, MigrationInv, VersionsTellTheSchema
<1> QED
  BY <1>1, RecoveryInductive, PTL

\* verifyDatabase() lets only complete databases through, though it looks
\* at the recorded versions and not at the columns.
THEOREM PublishedCopiesAreComplete == RecoverySpec => []PublishedIsComplete
<1>1. RecoveryIInv => PublishedIsComplete
  BY DEF RecoveryIInv, CopiesInv
<1> QED
  BY <1>1, RecoveryInductive, PTL

\* A backup reported by createVerifiedBackup() stays at its destination with
\* its manifest and is what restores produce, for any number of tools.
THEOREM ReportedBackupsStay == RecoverySpec => []ReportedBackupStays
<1>1. RecoveryIInv => ReportedBackupStays
  BY DEF RecoveryIInv
<1> QED
  BY <1>1, RecoveryInductive, PTL
=============================================================================
