--------------------------- MODULE Timeline_proofs ---------------------------
(***************************************************************************)
(* Proofs about a timeline's signals, for any deadlines, markers, instants *)
(* and number of requests under way.                                       *)
(***************************************************************************)
EXTENDS Timeline, TLAPS

-----------------------------------------------------------------------------
(* The inductive invariant *)

\* A sweep's copy is an old version of the timeline or the present one, and
\* what it is about to signal is due on that copy.
SweepFaithful(q) ==
  /\ q.copy.version <= timeline.version
  /\ q.copy.version = timeline.version => q.copy = timeline
  /\ q.due \subseteq DueItems(q.copy)

\* A command's changed copy follows an old version or the present one.
ChangeFaithful(q) ==
  /\ q.copy.version <= timeline.version + 1
  /\ q.copy.version = timeline.version + 1 =>
       \E next \in Outcomes(timeline, q.kind) : q.copy = [next EXCEPT !.version = @ + 1]

\* Whatever a sweep found due it still has to deal with, or has its mark.
SweepAccounted(q) == q.swept \subseteq q.due \cup timeline.reached

RequestInv(q) ==
  /\ q.at \in {"due", "lookup", "signal"} => SweepFaithful(q)
  /\ q.at = "commit" => ChangeFaithful(q)
  /\ q.at \in {"lookup", "signal", "view"} => SweepAccounted(q)

RequestsInv == \A q \in requests : RequestInv(q)

\* A signal is about one item; no event has a version that is yet to come; and
\* the archive is the end of the history.
EventsOrdered ==
  \A e \in events :
    /\ e.kind = "signal" => \E i \in Item : e.about = {i}
    /\ e.version <= timeline.version
    /\ e.kind = "archive" => timeline.status = "ARCHIVED"

StoreInv ==
  /\ ReachedAsSignalled
  /\ SignalledOnce
  /\ NothingAfterArchive
  /\ EventsOrdered

IInv ==
  /\ TypeOK
  /\ StoreInv
  /\ RequestsInv

-----------------------------------------------------------------------------
(* Types *)

\* A timeline changed by a command is a timeline.
LEMMA OutcomesTyped ==
  ASSUME NEW t \in Snapshot, NEW kind, NEW next \in Outcomes(t, kind)
  PROVE  /\ next \in Snapshot
         /\ next.version = t.version
         /\ next.reached = t.reached
         /\ t.status # "ARCHIVED"
  BY DEF Outcomes, CreateTimeline, SetDeadline, MoveDeadline, DefineCriticalMarker, Annotate,
         ArchiveTimeline, Undefined, Set, Snapshot, Item, Absent

\* The next version of a snapshot is a snapshot.
LEMMA VersionedTyped ==
  ASSUME NEW t \in Snapshot
  PROVE  /\ [t EXCEPT !.version = @ + 1] \in Snapshot
         /\ [t EXCEPT !.version = @ + 1].version = t.version + 1
         /\ [t EXCEPT !.version = @ + 1].reached = t.reached
         /\ [t EXCEPT !.version = @ + 1].status = t.status
         /\ [t EXCEPT !.version = @ + 1].instants = t.instants
  BY DEF Snapshot

\* What is due on a copy are items.
LEMMA DueItemsTyped ==
  ASSUME NEW copy
  PROVE  DueItems(copy) \subseteq Item
  BY DEF DueItems

\* Going on with the items that are left, to the place that their number asks for.
LEMMA OnwardTyped ==
  ASSUME NEW q \in InFlight, NEW rest \in SUBSET Item
  PROVE  /\ Onward(q, rest) \in InFlight
         /\ Onward(q, rest).id = q.id
         /\ Onward(q, rest).copy = q.copy
         /\ Onward(q, rest).due = rest
         /\ Onward(q, rest).swept = q.swept
         /\ Onward(q, rest).kind = q.kind
         /\ Onward(q, rest).at = IF rest = {} THEN "view" ELSE "lookup"
  BY DEF Onward, InFlight

\* The marked copy of a sweep is the next version of it.
LEMMA MarkedTyped ==
  ASSUME NEW q \in InFlight
  PROVE  /\ Marked(q) \in Snapshot
         /\ Marked(q).version = q.copy.version + 1
         /\ Marked(q).reached = q.copy.reached \cup q.current
         /\ Marked(q).status = q.copy.status
         /\ Marked(q).instants = q.copy.instants
<1>1. q.copy \in Snapshot /\ q.current \subseteq Item
  BY DEF InFlight
<1> DEFINE marks == q.copy.reached \cup q.current
<1>2. marks \in SUBSET Item
  BY <1>1 DEF Snapshot
<1>3. Marked(q) = [q.copy EXCEPT !.version = q.copy.version + 1, !.reached = marks]
  BY DEF Marked
<1> HIDE DEF marks
<1>4. Marked(q) = [version |-> q.copy.version + 1, status |-> q.copy.status,
                   instants |-> q.copy.instants, reached |-> marks]
  BY <1>1, <1>3 DEF Snapshot
<1>5. /\ q.copy.version + 1 \in Nat
      /\ q.copy.status \in {"ABSENT", "ACTIVE", "ARCHIVED"}
      /\ q.copy.instants \in [Item -> Instant \cup {Unset}]
  BY <1>1 DEF Snapshot
<1> QED
  BY <1>2, <1>4, <1>5 DEF Snapshot, marks

\* The empty timeline is a snapshot.
LEMMA AbsentTyped == Absent \in Snapshot
  BY DEF Absent, Snapshot

\* The initial state is well typed.
LEMMA TypeInit == Init => TypeOK
<1> SUFFICES ASSUME Init PROVE TypeOK
  OBVIOUS
<1>1. timeline \in Snapshot
  BY AbsentTyped DEF Init
<1>2. now \in 0 .. LastInstant
  BY TimelineAssumption DEF Init
<1> QED
  BY <1>1, <1>2 DEF Init, TypeOK

\* Where a request is fits what it has to do (as TypeOK says).
WellPlaced(q) ==
  /\ q.at = "lookup" => q.due # {}
  /\ q.at = "signal" => \E i \in q.due : q.current = {i}
  /\ q.at = "view" => q.due = {}
  /\ q.at = "commit" <=> q.kind # "read"

\* Replacing a request by one with the same id, which is well placed, keeps
\* the types of the requests.
LEMMA RequestsTyped ==
  ASSUME TypeOK, NEW q \in requests, NEW next \in InFlight, Becomes(q, next), next.id = q.id,
         WellPlaced(next)
  PROVE  /\ requests' \subseteq InFlight
         /\ \A p, r \in requests' : p.id = r.id => p = r
         /\ \A r \in requests' : WellPlaced(r)
  BY DEF TypeOK, Becomes, WellPlaced

\* So does a new request that is well placed.
LEMMA ArrivalsTyped ==
  ASSUME TypeOK, NEW r \in Request, Free(r), NEW new \in InFlight, new.id = r,
         requests' = requests \cup {new}, WellPlaced(new)
  PROVE  /\ requests' \subseteq InFlight
         /\ \A p, q \in requests' : p.id = q.id => p = q
         /\ \A q \in requests' : WellPlaced(q)
  BY DEF TypeOK, Free, WellPlaced

\* Every step keeps the types.
LEMMA TypeStep == TypeOK /\ [Next]_vars => TypeOK'
<1> SUFFICES ASSUME TypeOK, [Next]_vars PROVE TypeOK'
  OBVIOUS
<1>0. /\ timeline \in Snapshot /\ events \subseteq Event
      /\ requests \subseteq InFlight
      /\ now \in 0 .. LastInstant /\ calm \in BOOLEAN
  BY DEF TypeOK
<1>1. ASSUME NEW r \in Request, Read(r) PROVE TypeOK'
  <2> DEFINE new == [id |-> r, at |-> "due", copy |-> timeline, due |-> {}, current |-> {},
                     swept |-> {}, kind |-> "read"]
  <2>1. new \in InFlight
    BY <1>0 DEF InFlight
  <2>2. requests' = requests \cup {new} /\ Free(r) /\ UNCHANGED <<timeline, events, now, calm>>
    BY <1>1 DEF Read
  <2> HIDE DEF new
  <2>3. new.id = r /\ new.at = "due" /\ new.kind = "read"
    BY DEF new
  <2> QED
    BY <1>0, <2>1, <2>2, <2>3, ArrivalsTyped DEF TypeOK, WellPlaced
<1>2. ASSUME NEW r \in Request, Command(r) PROVE TypeOK'
  <2>1. PICK kind \in {"command", "archive"} : \E next \in Outcomes(timeline, kind) :
          requests' = requests \cup
            {[id |-> r, at |-> "commit", copy |-> [next EXCEPT !.version = @ + 1],
              due |-> {}, current |-> {}, swept |-> {}, kind |-> kind]}
    BY <1>2 DEF Command
  <2>2. PICK next \in Outcomes(timeline, kind) :
          requests' = requests \cup
            {[id |-> r, at |-> "commit", copy |-> [next EXCEPT !.version = @ + 1],
              due |-> {}, current |-> {}, swept |-> {}, kind |-> kind]}
    BY <2>1
  <2> DEFINE copy == [next EXCEPT !.version = @ + 1]
             new == [id |-> r, at |-> "commit", copy |-> copy,
                     due |-> {}, current |-> {}, swept |-> {}, kind |-> kind]
  <2>3. copy \in Snapshot
    BY <1>0, OutcomesTyped, VersionedTyped
  <2>4. requests' = requests \cup {new}
    BY <2>2
  <2> HIDE DEF copy
  <2>5. new \in InFlight /\ new.id = r /\ new.at = "commit" /\ new.kind # "read"
    BY <2>1, <2>3 DEF InFlight
  <2>6. Free(r) /\ UNCHANGED <<timeline, events, now, calm>>
    BY <1>2 DEF Command
  <2> HIDE DEF new
  <2> QED
    BY <1>0, <2>4, <2>5, <2>6, ArrivalsTyped DEF TypeOK, WellPlaced
<1>3. ASSUME NEW q \in requests, Sweep(q) PROVE TypeOK'
  <2> DEFINE items == DueItems(q.copy)
             next == [Onward(q, items) EXCEPT !.swept = items]
  <2>1. q \in InFlight /\ items \in SUBSET Item
    BY <1>0, DueItemsTyped
  <2>0. q.kind = "read"
    BY <1>3 DEF Sweep, TypeOK
  <2>2. Becomes(q, next) /\ UNCHANGED <<timeline, events, now, calm>>
    BY <1>3 DEF Sweep
  <2> HIDE DEF items
  <2>3. /\ Onward(q, items) \in InFlight
        /\ Onward(q, items).id = q.id
        /\ Onward(q, items).due = items
        /\ Onward(q, items).kind = "read"
        /\ Onward(q, items).at = IF items = {} THEN "view" ELSE "lookup"
    BY <2>0, <2>1, OnwardTyped
  <2>4. /\ next \in InFlight
        /\ next.id = q.id
        /\ next.kind = "read"
        /\ next.due = items
        /\ next.at = IF items = {} THEN "view" ELSE "lookup"
    BY <2>1, <2>3 DEF InFlight
  <2> HIDE DEF next
  <2>5. WellPlaced(next)
    BY <2>4 DEF WellPlaced
  <2> QED
    BY <1>0, <2>2, <2>4, <2>5, RequestsTyped DEF TypeOK, WellPlaced
<1>4. ASSUME NEW q \in requests, Lookup(q) PROVE TypeOK'
  <2>1. PICK i \in NextDue(q) :
          Becomes(q, IF i \in Signalled
                     THEN Onward(q, q.due \ {i})
                     ELSE [q EXCEPT !.at = "signal", !.current = {i}])
    BY <1>4 DEF Lookup
  <2>2. UNCHANGED <<timeline, events, now, calm>>
    BY <1>4 DEF Lookup
  <2>3. q \in InFlight /\ i \in q.due /\ i \in Item /\ q.due \ {i} \in SUBSET Item
    BY <1>0 DEF NextDue, InFlight
  <2>0. q.kind = "read"
    BY <1>4 DEF Lookup, TypeOK
  <2>4. CASE i \in Signalled
    <3>1. Onward(q, q.due \ {i}) \in InFlight /\ Onward(q, q.due \ {i}).id = q.id
      BY <2>3, OnwardTyped
    <3>2. /\ Onward(q, q.due \ {i}).due = q.due \ {i}
          /\ Onward(q, q.due \ {i}).at = IF q.due \ {i} = {} THEN "view" ELSE "lookup"
          /\ Onward(q, q.due \ {i}).kind = "read"
      BY <2>0, <2>3, OnwardTyped
    <3>3. WellPlaced(Onward(q, q.due \ {i}))
      BY <3>2 DEF WellPlaced
    <3> QED
      BY <1>0, <2>1, <2>2, <2>4, <3>1, <3>3, RequestsTyped DEF TypeOK, WellPlaced
  <2>5. CASE i \notin Signalled
    <3> DEFINE next == [q EXCEPT !.at = "signal", !.current = {i}]
    <3>1. next \in InFlight /\ next.id = q.id /\ next.at = "signal" /\ i \in next.due
          /\ next.current = {i} /\ next.kind = "read"
      BY <2>0, <2>3 DEF InFlight
    <3>2. Becomes(q, next)
      BY <2>1, <2>5
    <3> HIDE DEF next
    <3>3. WellPlaced(next)
      BY <3>1 DEF WellPlaced
    <3> QED
      BY <1>0, <2>2, <3>1, <3>2, <3>3, RequestsTyped DEF TypeOK, WellPlaced
  <2> QED
    BY <2>4, <2>5
<1>5. ASSUME NEW q \in requests, Signal(q) PROVE TypeOK'
  <2> DEFINE rest == q.due \ q.current
             next == [Onward(q, rest) EXCEPT !.copy = Marked(q)]
             ev == [version |-> Marked(q).version, kind |-> "signal", about |-> q.current]
  <2>1. q \in InFlight /\ rest \in SUBSET Item /\ q.current \in SUBSET Item
    BY <1>0 DEF InFlight
  <2>0. q.kind = "read"
    BY <1>5 DEF Signal, TypeOK
  <2>2. /\ timeline' = Marked(q) /\ events' = events \cup {ev}
        /\ Becomes(q, next) /\ UNCHANGED <<now, calm>>
    BY <1>5 DEF Signal, commit
  <2>3. Marked(q) \in Snapshot /\ ev \in Event
    <3>1. Marked(q) \in Snapshot
      BY <2>1, MarkedTyped
    <3>2. Marked(q).version \in Nat
      BY <3>1 DEF Snapshot
    <3> QED
      BY <2>1, <3>1, <3>2 DEF Event
  <2> HIDE DEF rest, ev
  <2>4. /\ Onward(q, rest) \in InFlight
        /\ Onward(q, rest).id = q.id
        /\ Onward(q, rest).due = rest
        /\ Onward(q, rest).kind = "read"
        /\ Onward(q, rest).at = IF rest = {} THEN "view" ELSE "lookup"
    BY <2>0, <2>1, OnwardTyped
  <2>5. /\ next \in InFlight
        /\ next.id = q.id
        /\ next.kind = "read"
        /\ next.due = rest
        /\ next.at = IF rest = {} THEN "view" ELSE "lookup"
    BY <2>3, <2>4 DEF InFlight
  <2> HIDE DEF next
  <2>6. WellPlaced(next)
    BY <2>5 DEF WellPlaced
  <2> QED
    BY <1>0, <2>2, <2>3, <2>5, <2>6, RequestsTyped DEF TypeOK, WellPlaced
<1>6. ASSUME NEW q \in requests, Commit(q) PROVE TypeOK'
  <2>1. q.copy \in Snapshot /\ q.at = "commit"
    BY <1>0, <1>6 DEF InFlight, Commit
  <2>2. [version |-> q.copy.version, kind |-> q.kind, about |-> {}] \in Event
    <3>1. q.copy.version \in Nat
      BY <2>1 DEF Snapshot
    <3>2. q.kind \in {"command", "archive"}
      BY <1>0, <2>1 DEF TypeOK, InFlight
    <3> QED
      BY <3>1, <3>2 DEF Event
  <2> QED
    BY <1>0, <1>6, <2>1, <2>2 DEF Commit, commit, Ends, TypeOK
<1>7. ASSUME NEW q \in requests, View(q) \/ Refuse(q) \/ StorageFault(q) PROVE TypeOK'
  BY <1>7 DEF View, Refuse, StorageFault, Ends, TypeOK
<1>8. CASE Crash \/ CalmDown \/ UNCHANGED vars
  BY <1>8 DEF Crash, CalmDown, vars, TypeOK
<1>9. CASE Tick
  BY <1>9, TimelineAssumption DEF Tick, TypeOK
<1> QED
  BY <1>1, <1>2, <1>3, <1>4, <1>5, <1>6, <1>7, <1>8, <1>9 DEF Next, Proceed

\* Every variable keeps its type, and every request is where it has something
\* to do: a sweep never looks an item up that it does not have.
THEOREM TypeCorrect == Spec => []TypeOK
<1>1. TypeOK /\ [Next]_vars => TypeOK'
  BY TypeStep
<1> QED
  BY <1>1, TypeInit, PTL DEF Spec

-----------------------------------------------------------------------------
(* What a commit does to the store *)

\* Signals of the history after one more event.
LEMMA SignalledGrows ==
  ASSUME NEW ev, events' = events \cup {ev}
  PROVE  Signalled' = IF ev.kind = "signal" THEN Signalled \cup ev.about ELSE Signalled
  BY DEF Signalled

\* The next version, with its event, keeps what is true of the store, if the
\* timeline was not archived and the event's mark is new.
LEMMA NextVersionKeepsStore ==
  ASSUME TypeOK, StoreInv,
         timeline.status # "ARCHIVED",
         timeline'.version = timeline.version + 1,
         NEW ev, events' = events \cup {ev},
         ev.version = timeline.version + 1,
         ev.kind = "archive" => timeline'.status = "ARCHIVED",
         ev.kind = "signal" => \E i \in Item \ Signalled : ev.about = {i},
         timeline'.reached = IF ev.kind = "signal" THEN timeline.reached \cup ev.about
                                                   ELSE timeline.reached
  PROVE  StoreInv'
<1>0. timeline.version \in Nat
  BY DEF TypeOK, Snapshot
<1>1. ReachedAsSignalled'
  BY SignalledGrows DEF StoreInv, ReachedAsSignalled
<1>2. SignalledOnce'
  <2>1. ASSUME NEW e \in events, e.kind = "signal", ev.kind = "signal", e.about = ev.about
        PROVE  FALSE
    BY <2>1 DEF Signalled
  <2> QED
    BY <2>1 DEF StoreInv, SignalledOnce
<1>3. EventsOrdered'
  <2>1. \A e \in events : e.kind # "archive"
    BY DEF StoreInv, EventsOrdered
  <2>2. \A e \in events : e.version \in Nat /\ e.version <= timeline.version
    BY DEF StoreInv, EventsOrdered, TypeOK, Event
  <2> QED
    BY <1>0, <2>1, <2>2 DEF StoreInv, EventsOrdered
<1>4. NothingAfterArchive'
  <2>1. \A e \in events : e.kind # "archive"
    BY DEF StoreInv, EventsOrdered
  <2>2. \A e \in events : e.version \in Nat /\ e.version <= timeline.version
    BY DEF StoreInv, EventsOrdered, TypeOK, Event
  <2> QED
    BY <1>0, <2>1, <2>2 DEF NothingAfterArchive
<1> QED
  BY <1>1, <1>2, <1>3, <1>4 DEF StoreInv

\* To the requests it leaves in flight, a new version only makes copies old and
\* adds marks.
LEMMA NextVersionKeepsRequest ==
  ASSUME TypeOK, NEW q \in requests, RequestInv(q),
         timeline'.version = timeline.version + 1,
         timeline.reached \subseteq timeline'.reached, UNCHANGED now
  PROVE  RequestInv(q)'
<1>0. timeline.version \in Nat /\ q.copy.version \in Nat
  BY DEF TypeOK, InFlight, Snapshot
<1>1. SweepFaithful(q) => SweepFaithful(q)'
  BY <1>0 DEF SweepFaithful, DueItems
<1>2. ChangeFaithful(q) => ChangeFaithful(q)'
  BY <1>0 DEF ChangeFaithful
<1>3. SweepAccounted(q) => SweepAccounted(q)'
  BY DEF SweepAccounted
<1> QED
  BY <1>1, <1>2, <1>3 DEF RequestInv

\* As long as the store is as it was, time only adds to what is due.
LEMMA TimeKeepsRequest ==
  ASSUME TypeOK, NEW q \in requests, RequestInv(q), UNCHANGED timeline, now' \in Int, now' >= now
  PROVE  RequestInv(q)'
<1>1. DueItems(q.copy) \subseteq DueItems(q.copy)'
  <2>1. q.copy.instants \in [Item -> Instant \cup {Unset}] /\ now \in Int
    BY DEF TypeOK, InFlight, Snapshot
  <2>2. \A i \in Item : q.copy.instants[i] # Unset => q.copy.instants[i] \in Int
    BY <2>1 DEF Instant
  <2> QED
    BY <2>1, <2>2 DEF DueItems
<1>2. SweepFaithful(q) => SweepFaithful(q)'
  BY <1>1 DEF SweepFaithful
<1>3. (ChangeFaithful(q) => ChangeFaithful(q)') /\ (SweepAccounted(q) => SweepAccounted(q)')
  BY DEF ChangeFaithful, SweepAccounted
<1> QED
  BY <1>2, <1>3 DEF RequestInv

\* A sweep that may commit a signal holds the present timeline, which is active,
\* and the item is due now and has no signal.
LEMMA SignalIsDue ==
  ASSUME IInv, NEW q \in requests, Signal(q)
  PROVE  /\ q.copy = timeline
         /\ timeline.status = "ACTIVE"
         /\ \E i \in q.due : /\ q.current = {i}
                             /\ i \in DueItems(timeline)
                             /\ i \notin Signalled
<1>1. q.at = "signal" /\ Accepts(Marked(q), q.current) /\ q \in InFlight
  BY DEF Signal, commit, IInv, TypeOK
<1>2. SweepFaithful(q)
  BY <1>1 DEF IInv, RequestsInv, RequestInv
<1>3. Marked(q).version = q.copy.version + 1 /\ q.copy.version \in Nat /\ timeline.version \in Nat
  BY <1>1, MarkedTyped DEF IInv, TypeOK, InFlight, Snapshot
<1>4. q.copy = timeline
  BY <1>1, <1>2, <1>3 DEF Accepts, SweepFaithful
<1>5. PICK i \in q.due : q.current = {i}
  BY <1>1 DEF IInv, TypeOK
<1>6. i \in DueItems(timeline)
  BY <1>2, <1>4 DEF SweepFaithful
<1>7. i \notin Signalled
  BY <1>1, <1>5 DEF Accepts
<1> QED
  BY <1>4, <1>5, <1>6, <1>7 DEF DueItems

\* A command that may commit made its change from the present timeline.
LEMMA ChangeIsCurrent ==
  ASSUME IInv, NEW q \in requests, Commit(q)
  PROVE  /\ q.kind \in {"command", "archive"}
         /\ \E next \in Outcomes(timeline, q.kind) : q.copy = [next EXCEPT !.version = @ + 1]
<1>1. q.at = "commit" /\ Accepts(q.copy, {}) /\ q \in InFlight
  BY DEF Commit, commit, IInv, TypeOK
<1>2. ChangeFaithful(q)
  BY <1>1 DEF IInv, RequestsInv, RequestInv
<1>3. q.copy.version \in Nat /\ timeline.version \in Nat
  BY <1>1 DEF IInv, TypeOK, InFlight, Snapshot
<1>4. q.copy.version = timeline.version + 1
  BY <1>1, <1>3 DEF Accepts
<1> QED
  BY <1>1, <1>2, <1>4 DEF ChangeFaithful, IInv, TypeOK, InFlight

-----------------------------------------------------------------------------
(* The invariant is inductive *)

\* A step that leaves the store alone keeps what is true of it.
LEMMA StoreUntouched ==
  ASSUME StoreInv, UNCHANGED <<timeline, events>>
  PROVE  StoreInv'
  BY DEF StoreInv, ReachedAsSignalled, SignalledOnce, NothingAfterArchive, EventsOrdered, Signalled

\* A step of the requests alone keeps the invariant if it does so for the
\* requests that are new.
LEMMA RequestsMove ==
  ASSUME IInv, TypeOK', UNCHANGED <<timeline, events>>, now' \in Int, now' >= now,
         \A q \in requests' \ requests : RequestInv(q)'
  PROVE  IInv'
<1>1. \A q \in requests : RequestInv(q)'
  BY TimeKeepsRequest DEF IInv, RequestsInv
<1> QED
  BY <1>1, StoreUntouched DEF IInv, RequestsInv

\* The invariant holds of the empty timeline.
LEMMA InvariantInit == Init => IInv
<1> SUFFICES ASSUME Init PROVE IInv
  OBVIOUS
<1>1. TypeOK
  BY TypeInit
<1>2. StoreInv
  BY DEF Init, Absent, StoreInv, ReachedAsSignalled, SignalledOnce, NothingAfterArchive,
         EventsOrdered, Signalled
<1> QED
  BY <1>1, <1>2 DEF Init, IInv, RequestsInv

\* A read that arrives holds the present timeline.
LEMMA ReadKeeps ==
  ASSUME IInv, TypeOK', NEW r \in Request, Read(r)
  PROVE  IInv'
<1>1. UNCHANGED <<timeline, events, now>> /\ now \in Int
  BY DEF Read, IInv, TypeOK
<1>2. timeline.version \in Nat
  BY DEF IInv, TypeOK, Snapshot
<1>3. ASSUME NEW q \in requests' \ requests PROVE RequestInv(q)'
  <2>1. q.at = "due" /\ q.copy = timeline /\ q.due = {}
    BY DEF Read
  <2> QED
    BY <1>1, <1>2, <2>1 DEF RequestInv, SweepFaithful
<1> QED
  BY <1>1, <1>3, RequestsMove

\* A command that arrives has changed the present timeline.
LEMMA CommandKeeps ==
  ASSUME IInv, TypeOK', NEW r \in Request, Command(r)
  PROVE  IInv'
<1>1. UNCHANGED <<timeline, events, now>> /\ now \in Int
  BY DEF Command, IInv, TypeOK
<1>2. timeline \in Snapshot /\ timeline.version \in Nat
  BY DEF IInv, TypeOK, Snapshot
<1>3. ASSUME NEW q \in requests' \ requests PROVE RequestInv(q)'
  <2>0. PICK kind \in {"command", "archive"} : \E next \in Outcomes(timeline, kind) :
          q = [id |-> r, at |-> "commit", copy |-> [next EXCEPT !.version = @ + 1],
               due |-> {}, current |-> {}, swept |-> {}, kind |-> kind]
    BY DEF Command
  <2>1. PICK next \in Outcomes(timeline, kind) :
          q = [id |-> r, at |-> "commit", copy |-> [next EXCEPT !.version = @ + 1],
               due |-> {}, current |-> {}, swept |-> {}, kind |-> kind]
    BY <2>0
  <2>2. q.at = "commit" /\ q.copy = [next EXCEPT !.version = @ + 1] /\ q.kind = kind
    BY <2>1
  <2>3. q.copy.version = timeline.version + 1
    BY <1>2, <2>2, OutcomesTyped, VersionedTyped
  <2>4. ChangeFaithful(q)'
    <3>1. Outcomes(timeline, q.kind)' = Outcomes(timeline, q.kind)
      BY <1>1 DEF Outcomes, CreateTimeline, SetDeadline, MoveDeadline, DefineCriticalMarker,
                  Annotate, ArchiveTimeline, Undefined, Set
    <3> QED
      BY <1>1, <1>2, <2>2, <2>3, <3>1 DEF ChangeFaithful
  <2> QED
    BY <2>2, <2>4 DEF RequestInv
<1> QED
  BY <1>1, <1>3, RequestsMove

\* What a sweep works out is due on its copy, and all of it is accounted for.
LEMMA SweepKeeps ==
  ASSUME IInv, TypeOK', NEW q \in requests, Sweep(q)
  PROVE  IInv'
<1> DEFINE items == DueItems(q.copy)
           next == [Onward(q, items) EXCEPT !.swept = items]
<1>1. /\ UNCHANGED <<timeline, events, now>> /\ now \in Int
      /\ requests' = (requests \ {q}) \cup {next}
  BY DEF Sweep, Becomes, IInv, TypeOK
<1>2. q \in InFlight /\ SweepFaithful(q)
  BY DEF Sweep, IInv, TypeOK, RequestsInv, RequestInv
<1>3. ASSUME NEW r \in requests' \ requests PROVE RequestInv(r)'
  <2>1. items \in SUBSET Item
    BY DueItemsTyped
  <2>2. DueItems(q.copy)' = items
    BY <1>1 DEF DueItems
  <2>3. r = next
    BY <1>1, <1>3
  <2> HIDE DEF items
  <2>4. /\ Onward(q, items) \in InFlight
        /\ Onward(q, items).copy = q.copy
        /\ Onward(q, items).due = items
        /\ Onward(q, items).at \in {"view", "lookup"}
    BY <1>2, <2>1, OnwardTyped
  <2>5. /\ r.copy = q.copy
        /\ r.due = items
        /\ r.swept = items
        /\ r.at \in {"view", "lookup"}
    BY <2>3, <2>4 DEF InFlight
  <2>6. SweepFaithful(r)'
    BY <1>1, <1>2, <2>2, <2>5 DEF SweepFaithful
  <2>7. SweepAccounted(r)'
    BY <2>5 DEF SweepAccounted
  <2> QED
    BY <2>5, <2>6, <2>7 DEF RequestInv
<1> QED
  BY <1>1, <1>3, RequestsMove

\* An item that is passed over has its mark already.
LEMMA LookupKeeps ==
  ASSUME IInv, TypeOK', NEW q \in requests, Lookup(q)
  PROVE  IInv'
<1>1. PICK i \in NextDue(q) :
        requests' = (requests \ {q}) \cup {IF i \in Signalled
                                           THEN Onward(q, q.due \ {i})
                                           ELSE [q EXCEPT !.at = "signal", !.current = {i}]}
  BY DEF Lookup, Becomes
<1>2. UNCHANGED <<timeline, events, now>> /\ now \in Int
  BY DEF Lookup, IInv, TypeOK
<1>3. q \in InFlight /\ SweepFaithful(q) /\ SweepAccounted(q) /\ q.due \in SUBSET Item
  BY DEF Lookup, IInv, TypeOK, RequestsInv, RequestInv, InFlight
<1>4. ASSUME NEW next, next.copy = q.copy, next.swept = q.swept, next.due \subseteq q.due,
             next.at \in {"lookup", "signal", "view"},
             q.due \ next.due \subseteq timeline.reached
      PROVE  RequestInv(next)'
  <2>1. DueItems(next.copy)' = DueItems(q.copy)
    BY <1>2, <1>4 DEF DueItems
  <2>2. SweepFaithful(next)'
    BY <1>2, <1>3, <1>4, <2>1 DEF SweepFaithful
  <2>3. SweepAccounted(next)'
    BY <1>2, <1>3, <1>4 DEF SweepAccounted
  <2> QED
    BY <1>4, <2>2, <2>3 DEF RequestInv
<1>5. CASE i \in Signalled
  <2> DEFINE next == Onward(q, q.due \ {i})
  <2>1. q.due \ {i} \in SUBSET Item
    BY <1>3
  <2>2. /\ next.copy = q.copy
        /\ next.swept = q.swept
        /\ next.due = q.due \ {i}
        /\ next.at \in {"view", "lookup"}
    BY <1>3, <2>1, OnwardTyped
  <2>3. i \in timeline.reached
    BY <1>5 DEF IInv, StoreInv, ReachedAsSignalled
  <2> HIDE DEF next
  <2>4. RequestInv(next)'
    BY <1>4, <2>2, <2>3
  <2>5. requests' = (requests \ {q}) \cup {next}
    BY <1>1, <1>5 DEF next
  <2> QED
    BY <1>2, <2>4, <2>5, RequestsMove
<1>6. CASE i \notin Signalled
  <2> DEFINE next == [q EXCEPT !.at = "signal", !.current = {i}]
  <2>1. /\ next.copy = q.copy
        /\ next.swept = q.swept
        /\ next.due = q.due
        /\ next.at = "signal"
    BY <1>3 DEF InFlight
  <2>2. requests' = (requests \ {q}) \cup {next}
    BY <1>1, <1>6
  <2> HIDE DEF next
  <2>3. RequestInv(next)'
    BY <1>4, <2>1
  <2> QED
    BY <1>2, <2>2, <2>3, RequestsMove
<1> QED
  BY <1>5, <1>6

\* A committed signal is the next version, and the sweep goes on from it.
LEMMA SignalKeeps ==
  ASSUME IInv, TypeOK', NEW q \in requests, Signal(q)
  PROVE  IInv'
<1> DEFINE rest == q.due \ q.current
           next == [Onward(q, rest) EXCEPT !.copy = Marked(q)]
           ev == [version |-> Marked(q).version, kind |-> "signal", about |-> q.current]
<1>1. /\ timeline' = Marked(q) /\ events' = events \cup {ev} /\ UNCHANGED now
      /\ requests' = (requests \ {q}) \cup {next}
      /\ q.at = "signal"
  BY DEF Signal, commit, Becomes
<1>2. /\ q \in InFlight /\ rest \in SUBSET Item /\ timeline.version \in Nat
      /\ SweepFaithful(q) /\ SweepAccounted(q)
  BY <1>1 DEF IInv, TypeOK, InFlight, Snapshot, RequestsInv, RequestInv
<1>3. /\ q.copy = timeline
      /\ timeline.status = "ACTIVE"
      /\ \E i \in q.due : q.current = {i} /\ i \in DueItems(timeline) /\ i \notin Signalled
  BY SignalIsDue
<1>4. /\ Marked(q) \in Snapshot
      /\ Marked(q).version = timeline.version + 1
      /\ Marked(q).reached = timeline.reached \cup q.current
      /\ Marked(q).status = timeline.status
      /\ Marked(q).instants = timeline.instants
  BY <1>2, <1>3, MarkedTyped
<1>5. StoreInv'
  <2>1. \E i \in Item \ Signalled : ev.about = {i}
    BY <1>3 DEF DueItems
  <2>2. ev.version = timeline.version + 1 /\ ev.kind = "signal" /\ ev.about = q.current
    BY <1>4
  <2> HIDE DEF ev
  <2> QED
    BY <1>1, <1>3, <1>4, <2>1, <2>2, NextVersionKeepsStore DEF IInv
<1>6. ASSUME NEW r \in requests PROVE RequestInv(r)'
  BY <1>1, <1>4, NextVersionKeepsRequest DEF IInv, RequestsInv
<1>7. RequestInv(next)'
  <2> HIDE DEF rest
  <2>1. /\ Onward(q, rest) \in InFlight
        /\ Onward(q, rest).due = rest
        /\ Onward(q, rest).swept = q.swept
        /\ Onward(q, rest).at \in {"view", "lookup"}
    BY <1>2, OnwardTyped
  <2>2. /\ next.copy = Marked(q)
        /\ next.due = rest
        /\ next.swept = q.swept
        /\ next.at \in {"view", "lookup"}
    BY <2>1 DEF InFlight
  <2> HIDE DEF next
  <2>3. rest \subseteq DueItems(Marked(q))'
    BY <1>1, <1>2, <1>3, <1>4 DEF SweepFaithful, DueItems, rest
  <2>4. SweepFaithful(next)'
    BY <1>1, <1>2, <1>4, <2>2, <2>3 DEF SweepFaithful
  <2>5. SweepAccounted(next)'
    BY <1>1, <1>2, <1>4, <2>2 DEF SweepAccounted, rest
  <2> QED
    BY <2>2, <2>4, <2>5 DEF RequestInv
<1> HIDE DEF next
<1> QED
  BY <1>1, <1>5, <1>6, <1>7 DEF IInv, RequestsInv

\* A committed command is the next version, made from the present one.
LEMMA CommitKeeps ==
  ASSUME IInv, TypeOK', NEW q \in requests, Commit(q)
  PROVE  IInv'
<1> DEFINE ev == [version |-> q.copy.version, kind |-> q.kind, about |-> {}]
<1>1. /\ timeline' = q.copy /\ events' = events \cup {ev} /\ UNCHANGED now
      /\ requests' = requests \ {q}
  BY DEF Commit, commit, Ends
<1>2. timeline \in Snapshot /\ q.kind \in {"command", "archive"}
  BY ChangeIsCurrent DEF IInv, TypeOK
<1>3. PICK next \in Outcomes(timeline, q.kind) : q.copy = [next EXCEPT !.version = @ + 1]
  BY ChangeIsCurrent
<1>4. /\ q.copy.version = timeline.version + 1
      /\ q.copy.reached = timeline.reached
      /\ timeline.status # "ARCHIVED"
  BY <1>2, <1>3, OutcomesTyped, VersionedTyped
<1>5. q.kind = "archive" => q.copy.status = "ARCHIVED"
  <2>1. q.kind = "archive" => next \in ArchiveTimeline(timeline)
    BY <1>2, <1>3 DEF Outcomes, Snapshot
  <2>2. q.kind = "archive" => next.status = "ARCHIVED"
    BY <1>2, <2>1 DEF ArchiveTimeline, Snapshot
  <2> QED
    BY <1>2, <1>3, <2>2, OutcomesTyped, VersionedTyped
<1>6. StoreInv'
  <2>1. ev.version = timeline.version + 1 /\ ev.kind = q.kind
    BY <1>4
  <2> HIDE DEF ev
  <2> QED
    BY <1>1, <1>2, <1>4, <1>5, <2>1, NextVersionKeepsStore DEF IInv
<1>7. ASSUME NEW r \in requests PROVE RequestInv(r)'
  BY <1>1, <1>4, NextVersionKeepsRequest DEF IInv, RequestsInv
<1> QED
  BY <1>1, <1>6, <1>7 DEF IInv, RequestsInv

\* The invariant is preserved by every step.
LEMMA InvariantStep == IInv /\ [Next]_vars => IInv'
<1> SUFFICES ASSUME IInv, [Next]_vars PROVE IInv'
  OBVIOUS
<1>0. TypeOK' /\ now \in Int
  BY TypeStep DEF IInv, TypeOK
<1>1. ASSUME NEW r \in Request, Read(r) \/ Command(r) PROVE IInv'
  BY <1>0, <1>1, ReadKeeps, CommandKeeps
<1>2. ASSUME NEW q \in requests, Sweep(q) \/ Lookup(q) PROVE IInv'
  BY <1>0, <1>2, SweepKeeps, LookupKeeps
<1>3. ASSUME NEW q \in requests, Signal(q) \/ Commit(q) PROVE IInv'
  BY <1>0, <1>3, SignalKeeps, CommitKeeps
<1>4. ASSUME requests' \subseteq requests, UNCHANGED <<timeline, events>>, now' \in {now, now + 1}
      PROVE  IInv'
  BY <1>0, <1>4, RequestsMove
<1>5. ASSUME NEW q \in requests, View(q) \/ Refuse(q) \/ StorageFault(q) PROVE IInv'
  BY <1>4, <1>5 DEF View, Refuse, StorageFault, Ends
<1>6. CASE Crash \/ CalmDown \/ Tick \/ UNCHANGED vars
  BY <1>4, <1>6 DEF Crash, CalmDown, Tick, vars
<1> QED
  BY <1>1, <1>2, <1>3, <1>5, <1>6 DEF Next, Proceed

\* Copies are true pictures of the versions they were made from, so that the
\* version condition of a commit makes them pictures of the present; and what
\* a sweep found due is accounted for throughout.
THEOREM Inductive == Spec => []IInv
  BY InvariantInit, InvariantStep, PTL DEF Spec

\* However many sweeps find an item due on copies of their own, it has at most
\* one signal event.
THEOREM SignalsComeOnce == Spec => []SignalledOnce
<1>1. IInv => SignalledOnce
  BY DEF IInv, StoreInv
<1> QED
  BY <1>1, Inductive, PTL

\* No commit takes a mark back: the stored marks are the signals of the history.
THEOREM MarksAreKept == Spec => []ReachedAsSignalled
<1>1. IInv => ReachedAsSignalled
  BY DEF IInv, StoreInv
<1> QED
  BY <1>1, Inductive, PTL

\* Nothing, and no sweep that was under way, adds to an archived timeline.
THEOREM ArchiveIsFinal == Spec => []NothingAfterArchive
<1>1. IInv => NothingAfterArchive
  BY DEF IInv, StoreInv
<1> QED
  BY <1>1, Inductive, PTL

\* A read that reaches its view shows all it found due, whoever signalled it.
THEOREM ViewsShowDue == Spec => []ViewShowsDue
<1>1. IInv => ViewShowsDue
  BY DEF IInv, TypeOK, RequestsInv, RequestInv, SweepAccounted, ViewShowsDue
<1> QED
  BY <1>1, Inductive, PTL

-----------------------------------------------------------------------------
(* Sweeps implement signals that happen in one step *)

\* What a step does that changes neither the store's signals nor the clock.
LEMMA StutterStep ==
  ASSUME UNCHANGED <<timeline, events, now>>
  PROVE  UNCHANGED Signals!vars
  BY DEF Signals!vars, Signalled

\* A committed signal is a signal: its item is due, at this moment, on the
\* timeline as it is.
LEMMA SignalStep ==
  ASSUME IInv, NEW q \in requests, Signal(q)
  PROVE  \E i \in Item : Signals!Signal(i)
<1> DEFINE ev == [version |-> Marked(q).version, kind |-> "signal", about |-> q.current]
<1>1. timeline' = Marked(q) /\ events' = events \cup {ev} /\ UNCHANGED now
  BY DEF Signal, commit
<1>2. q \in InFlight /\ timeline \in Snapshot
  BY DEF IInv, TypeOK
<1>3. q.copy = timeline /\ timeline.status = "ACTIVE"
  BY SignalIsDue
<1>4. PICK i \in q.due : q.current = {i} /\ i \in DueItems(timeline) /\ i \notin Signalled
  BY SignalIsDue
<1>5. i \in Item /\ timeline.instants[i] \in Instant /\ timeline.instants[i] <= now
  BY <1>2, <1>4 DEF DueItems, Snapshot
<1>6. Marked(q).status = timeline.status /\ Marked(q).instants = timeline.instants
  BY <1>2, <1>3, MarkedTyped
<1>7. Signalled' = Signalled \cup {i}
  <2>1. ev.kind = "signal" /\ ev.about = {i}
    BY <1>4
  <2> HIDE DEF ev
  <2> QED
    BY <1>1, <2>1, SignalledGrows
<1> QED
  BY <1>1, <1>3, <1>4, <1>5, <1>6, <1>7 DEF Signals!Signal

\* A committed command creates, schedules, archives or changes nothing that
\* matters to signals.
LEMMA CommitStep ==
  ASSUME IInv, NEW q \in requests, Commit(q)
  PROVE  [Signals!Next]_(Signals!vars)
<1> DEFINE ev == [version |-> q.copy.version, kind |-> q.kind, about |-> {}]
<1>1. timeline' = q.copy /\ events' = events \cup {ev} /\ UNCHANGED now
  BY DEF Commit, commit
<1>2. timeline \in Snapshot /\ q.kind \in {"command", "archive"}
  BY ChangeIsCurrent DEF IInv, TypeOK
<1>3. PICK next \in Outcomes(timeline, q.kind) : q.copy = [next EXCEPT !.version = @ + 1]
  BY ChangeIsCurrent
<1>4. timeline'.status = next.status /\ timeline'.instants = next.instants
  BY <1>1, <1>2, <1>3, OutcomesTyped, VersionedTyped
<1>5. UNCHANGED <<Signalled, now>>
  <2>1. ev.kind # "signal"
    BY <1>2
  <2> HIDE DEF ev
  <2> QED
    BY <1>1, <2>1, SignalledGrows
<1>6. CASE timeline.status = "ABSENT"
  <2>1. next \in CreateTimeline(timeline)
    BY <1>3, <1>6 DEF Outcomes
  <2>2. next.status = "ACTIVE" /\ next.instants = timeline.instants
    BY <1>2, <2>1 DEF CreateTimeline, Snapshot
  <2>3. Signals!Become("ABSENT", "ACTIVE")
    BY <1>4, <1>5, <1>6, <2>2 DEF Signals!Become
  <2> QED
    BY <2>3 DEF Signals!Next
<1>7. CASE timeline.status = "ACTIVE" /\ q.kind = "archive"
  <2>1. next \in ArchiveTimeline(timeline)
    BY <1>3, <1>7 DEF Outcomes
  <2>2. next.status = "ARCHIVED" /\ next.instants = timeline.instants
    BY <1>2, <2>1 DEF ArchiveTimeline, Snapshot
  <2>3. Signals!Become("ACTIVE", "ARCHIVED")
    BY <1>4, <1>5, <1>7, <2>2 DEF Signals!Become
  <2> QED
    BY <2>3 DEF Signals!Next
<1>8. CASE timeline.status = "ACTIVE" /\ q.kind = "command"
  <2>1. next \in UNION {SetDeadline(timeline), MoveDeadline(timeline),
                        DefineCriticalMarker(timeline), Annotate(timeline)}
    BY <1>3, <1>8 DEF Outcomes
  <2>2. CASE next \in Annotate(timeline)
    BY <1>4, <1>5, <2>2 DEF Annotate, Signals!vars
  <2>3. ASSUME NEW i \in Item, NEW t \in Instant, next = Set(timeline, i, t),
               i \in Marker => timeline.instants[i] = Unset
        PROVE  Signals!Next
    <3>1. next.status = timeline.status /\ next.instants = [timeline.instants EXCEPT ![i] = t]
      BY <1>2, <2>3 DEF Set, Snapshot
    <3>2. Signals!Schedule(i, t)
      BY <1>4, <1>5, <1>8, <2>3, <3>1 DEF Signals!Schedule
    <3> QED
      BY <3>2 DEF Signals!Next, Signals!Item, Item
  <2>4. CASE next \in SetDeadline(timeline) \cup MoveDeadline(timeline)
    <3>1. PICK i \in Deadline, t \in Instant : next = Set(timeline, i, t)
      BY <2>4 DEF SetDeadline, MoveDeadline, Undefined
    <3>2. i \in Item /\ i \notin Marker
      BY TimelineAssumption DEF Item
    <3> QED
      BY <2>3, <3>1, <3>2
  <2>5. CASE next \in DefineCriticalMarker(timeline)
    <3>1. PICK i \in Marker, t \in Instant :
            next = Set(timeline, i, t) /\ timeline.instants[i] = Unset
      BY <2>5 DEF DefineCriticalMarker, Undefined
    <3> QED
      BY <2>3, <3>1 DEF Item
  <2> QED
    BY <2>1, <2>2, <2>4, <2>5
<1>9. timeline.status # "ARCHIVED"
  BY <1>2, <1>3, OutcomesTyped
<1> QED
  BY <1>2, <1>6, <1>7, <1>8, <1>9 DEF Snapshot

\* Every step is a step of the abstract specification, or invisible.
LEMMA SignalsStep == IInv /\ [Next]_vars => [Signals!Next]_(Signals!vars)
<1> SUFFICES ASSUME IInv, [Next]_vars PROVE [Signals!Next]_(Signals!vars)
  OBVIOUS
<1>1. ASSUME NEW q \in requests, Signal(q) PROVE Signals!Next
  BY <1>1, SignalStep DEF Signals!Next, Signals!Item, Item
<1>2. ASSUME NEW q \in requests, Commit(q) PROVE [Signals!Next]_(Signals!vars)
  BY <1>2, CommitStep
<1>3. CASE Tick
  <2>1. now' > now /\ UNCHANGED <<timeline.status, timeline.instants, Signalled>>
    BY <1>3 DEF Tick, Signalled, IInv, TypeOK
  <2> QED
    BY <2>1 DEF Signals!Next, Signals!Tick
<1>4. CASE UNCHANGED <<timeline, events, now>>
  BY <1>4, StutterStep
<1>5. \/ \E q \in requests : Signal(q)
      \/ \E q \in requests : Commit(q)
      \/ Tick
      \/ UNCHANGED <<timeline, events, now>>
  BY DEF Next, Proceed, Read, Command, Sweep, Lookup, View, Refuse, StorageFault, Crash,
         CalmDown, vars
<1> QED
  BY <1>1, <1>2, <1>3, <1>4, <1>5

\* To whoever reads its history a timeline signals each item in one step, at a
\* moment at which the item is due and the timeline active, although sweeps
\* load, decide and commit in steps of their own.
THEOREM SweepsImplementSignals == Spec => SignalsSpec
<1>1. Init => Signals!Init
  BY DEF Init, Absent, Signals!Init, Signalled, Signals!Item, Item
<1>2. IInv /\ [Next]_vars => [Signals!Next]_(Signals!vars)
  BY SignalsStep
<1> QED
  BY <1>1, <1>2, Inductive, PTL DEF Spec, SignalsSpec, Signals!Spec
=============================================================================
