------------------------------ MODULE Timeline ------------------------------
(***************************************************************************)
(* A timeline and the signals of its deadlines and critical markers        *)
(* (src/timeline/service.ts over the SQLite store).                        *)
(*                                                                         *)
(* No timer emits a signal.  Every read first runs a sweep, which loads    *)
(* the timeline, works out what is due and commits one event for each due  *)
(* item, all from the one copy it loaded, with an await before each lookup *)
(* and each commit.  Other reads and commands interleave at the awaits.    *)
(*                                                                         *)
(* A command's own replay and expectations are those of CommandPipeline;   *)
(* here it is a load and a commit.                                         *)
(***************************************************************************)
EXTENDS Integers, FiniteSets

CONSTANTS
  Deadline,     \* deadline ids
  Marker,       \* critical marker ids
  Unset,        \* an item that is not defined
  Request,      \* requests that may be under way at the same time
  LastInstant,  \* how far the clock goes
  LastVersion   \* up to which version commands are given

ASSUME TimelineAssumption ==
  /\ Deadline \cap Marker = {}
  /\ LastInstant \in Nat
  /\ LastVersion \in Nat
  /\ Unset \notin 1 .. LastInstant

Item == Deadline \cup Marker
Instant == 1 .. LastInstant

Snapshot == [version: Nat, status: {"ABSENT", "ACTIVE", "ARCHIVED"},
             instants: [Item -> Instant \cup {Unset}], reached: SUBSET Item]

\* `about` is {} or the one item a signal is about.
Event == [version: Nat, kind: {"command", "signal", "archive"}, about: SUBSET Item]

\* A request between two awaits: a read (sweeping, or past its sweep), or a
\* command about to commit (`copy` then is the changed timeline).
InFlight == [id: Request, at: {"due", "lookup", "signal", "view", "commit"},
             copy: Snapshot,
             due: SUBSET Item,     \* due items it has not dealt with
             current: SUBSET Item, \* {} or the item it is about to signal
             swept: SUBSET Item,   \* history: all it found due
             kind: {"read", "command", "archive"}]

VARIABLES
  timeline,  \* the stored snapshot
  events,    \* its history; signals are also keyed by their operation_id
  requests,  \* the requests in flight
  now,       \* the clock
  calm       \* crashes and storage faults are over

vars == <<timeline, events, requests, now, calm>>

TypeOK ==
  /\ timeline \in Snapshot
  /\ events \subseteq Event
  /\ requests \subseteq InFlight
  /\ now \in 0 .. LastInstant
  /\ calm \in BOOLEAN
  /\ \A q, r \in requests : q.id = r.id => q = r
  /\ \A q \in requests :
       /\ q.at = "lookup" => q.due # {}
       /\ q.at = "signal" => \E i \in q.due : q.current = {i}
       /\ q.at = "view" => q.due = {}
       /\ q.at = "commit" <=> q.kind # "read"

Absent == [version |-> 0, status |-> "ABSENT",
           instants |-> [i \in Item |-> Unset], reached |-> {}]

Init ==
  /\ timeline = Absent
  /\ events = {}
  /\ requests = {}
  /\ now = 0
  /\ calm = FALSE

-----------------------------------------------------------------------------
(* The store *)

\* The items that have a signal in the history: the operation_id of a signal
\* is computed from the timeline and the item, so this is also the lookup.
Signalled == UNION {e.about : e \in {f \in events : f.kind = "signal"}}

\* Defect: the update does not compare the version.
AcceptsUnversioned(next, about) == about \cap Signalled = {}

\* The constraints of the transaction that writes `next` and an event that
\* is about `about`.
Accepts(next, about) ==
  /\ timeline.version = next.version - 1
  /\ \A e \in events : e.version # next.version
  /\ about \cap Signalled = {}

commit(next, kind, about) ==
  /\ Accepts(next, about)
  /\ timeline' = next
  /\ events' = events \cup {[version |-> next.version, kind |-> kind, about |-> about]}

-----------------------------------------------------------------------------
(* A read: the sweep, then the view *)

Free(r) == \A q \in requests : q.id # r

Becomes(q, next) == requests' = (requests \ {q}) \cup {next}

Ends(q) == requests' = requests \ {q}

\* getTimeline() begins: processDueSignals() asks for the timeline.
Read(r) ==
  /\ Free(r)
  /\ timeline.version > 0
  /\ requests' = requests \cup
       {[id |-> r, at |-> "due", copy |-> timeline, due |-> {}, current |-> {},
         swept |-> {}, kind |-> "read"]}
  /\ UNCHANGED <<timeline, events, now, calm>>

\* What is due on a copy, at the present moment.
DueItems(copy) ==
  {i \in Item \ copy.reached :
     /\ copy.status = "ACTIVE"
     /\ copy.instants[i] # Unset
     /\ copy.instants[i] <= now}

\* On to the items that are left, or to the view.
Onward(q, rest) ==
  [q EXCEPT !.at = IF rest = {} THEN "view" ELSE "lookup", !.due = rest, !.current = {}]

\* The timeline has arrived; the clock is read now.
Sweep(q) ==
  /\ q.at = "due"
  /\ Becomes(q, [Onward(q, DueItems(q.copy)) EXCEPT !.swept = DueItems(q.copy)])
  /\ UNCHANGED <<timeline, events, now, calm>>

\* Deadlines come before markers.
NextDue(q) == IF q.due \cap Deadline # {} THEN q.due \cap Deadline ELSE q.due

\* Defect: the sweep ends at the first item that has its signal already.
LookupEnds(q) ==
  /\ q.at = "lookup"
  /\ \E i \in NextDue(q) :
       Becomes(q, IF i \in Signalled
                  THEN Onward(q, {})
                  ELSE [q EXCEPT !.at = "signal", !.current = {i}])
  /\ UNCHANGED <<timeline, events, now, calm>>

\* An item that has its signal already is passed over.
Lookup(q) ==
  /\ q.at = "lookup"
  /\ \E i \in NextDue(q) :
       Becomes(q, IF i \in Signalled
                  THEN Onward(q, q.due \ {i})
                  ELSE [q EXCEPT !.at = "signal", !.current = {i}])
  /\ UNCHANGED <<timeline, events, now, calm>>

\* Defect: the first commit marks everything that was due.
MarkedAll(q) ==
  [q.copy EXCEPT !.version = @ + 1, !.reached = @ \cup q.due]

\* The copy with the mark of the current item.
Marked(q) ==
  [q.copy EXCEPT !.version = @ + 1, !.reached = @ \cup q.current]

\* A signal is committed; the sweep goes on with the marked copy.
Signal(q) ==
  /\ q.at = "signal"
  /\ commit(Marked(q), "signal", q.current)
  /\ Becomes(q, [Onward(q, q.due \ q.current) EXCEPT !.copy = Marked(q)])
  /\ UNCHANGED <<now, calm>>

\* getTimeline() loads the timeline once more and shows it.
View(q) ==
  /\ q.at = "view"
  /\ Ends(q)
  /\ UNCHANGED <<timeline, events, now, calm>>

-----------------------------------------------------------------------------
(* Commands: what they make of the timeline, as they found it *)

Set(t, i, at) == [t EXCEPT !.instants[i] = at]

Undefined(t, items) == {i \in items : t.instants[i] = Unset}

CreateTimeline(t) == {[u EXCEPT !.status = "ACTIVE"] : u \in {t} \cap {Absent}}

SetDeadline(t) == {Set(t, i, at) : i \in Undefined(t, Deadline), at \in Instant}

\* The mark of a deadline that was reached stays when the deadline is moved.
MoveDeadline(t) == {Set(t, i, at) : i \in Deadline \ Undefined(t, Deadline), at \in Instant}

DefineCriticalMarker(t) == {Set(t, i, at) : i \in Undefined(t, Marker), at \in Instant}

\* AddMilestone, ActivatePenaltyZone, ResolveScheduleException: nothing that
\* signals depends on what they add.
Annotate(t) == {t}

ArchiveTimeline(t) == {[t EXCEPT !.status = "ARCHIVED"]}

Outcomes(t, kind) ==
  CASE t.status = "ABSENT" -> IF kind = "command" THEN CreateTimeline(t) ELSE {}
    [] t.status = "ARCHIVED" -> {}
    [] OTHER -> IF kind = "archive"
                THEN ArchiveTimeline(t)
                ELSE UNION {SetDeadline(t), MoveDeadline(t), DefineCriticalMarker(t), Annotate(t)}

\* A command loads the timeline and changes its copy.
Command(r) ==
  /\ Free(r)
  /\ timeline.version < LastVersion
  /\ \E kind \in {"command", "archive"} : \E next \in Outcomes(timeline, kind) :
       requests' = requests \cup
         {[id |-> r, at |-> "commit", copy |-> [next EXCEPT !.version = @ + 1],
           due |-> {}, current |-> {}, swept |-> {}, kind |-> kind]}
  /\ UNCHANGED <<timeline, events, now, calm>>

Commit(q) ==
  /\ q.at = "commit"
  /\ commit(q.copy, q.kind, {})
  /\ Ends(q)
  /\ UNCHANGED <<now, calm>>

-----------------------------------------------------------------------------
(* Failures and time *)

\* The transaction is refused for what others wrote: the request fails, a
\* read too.
Refuse(q) ==
  /\ \/ q.at = "signal" /\ ~Accepts(Marked(q), q.current)
     \/ q.at = "commit" /\ ~Accepts(q.copy, {})
  /\ Ends(q)
  /\ UNCHANGED <<timeline, events, now, calm>>

\* The storage throws for a reason of its own.
StorageFault(q) ==
  /\ ~calm
  /\ Ends(q)
  /\ UNCHANGED <<timeline, events, now, calm>>

Crash ==
  /\ ~calm
  /\ requests # {}
  /\ requests' = {}
  /\ UNCHANGED <<timeline, events, now, calm>>

CalmDown ==
  /\ ~calm
  /\ calm' = TRUE
  /\ UNCHANGED <<timeline, events, requests, now>>

Tick ==
  /\ now < LastInstant
  /\ now' = now + 1
  /\ UNCHANGED <<timeline, events, requests, calm>>

-----------------------------------------------------------------------------

Proceed(q) ==
  \/ Sweep(q)
  \/ Lookup(q)
  \/ Signal(q)
  \/ View(q)
  \/ Commit(q)
  \/ Refuse(q)

Next ==
  \/ \E r \in Request : Read(r) \/ Command(r)
  \/ \E q \in requests : Proceed(q) \/ StorageFault(q)
  \/ Crash
  \/ CalmDown
  \/ Tick

Spec == Init /\ [][Next]_vars

\* The timeline goes on being read, and a request goes on once its await is
\* settled.
Fairness ==
  \A r \in Request :
    /\ WF_vars(Read(r))
    /\ WF_vars(\E q \in requests : q.id = r /\ Proceed(q))

FairSpec == Spec /\ Fairness

-----------------------------------------------------------------------------
(* Properties *)

\* "A read-side due-signal sweep emits DeadlineReached and
\* CriticalMarkerReached exactly once": at most one signal event for an item,
\* however many sweeps found it due on copies of their own.
SignalledOnce ==
  \A e, f \in events :
    e.kind = "signal" /\ f.kind = "signal" /\ e.about = f.about => e = f

\* "Reached identifiers are persisted with each event": the marks in the
\* stored timeline are those of the signals in its history, so that no sweep
\* or command that worked on an older copy takes a mark back.
ReachedAsSignalled == timeline.reached = Signalled

\* A read that comes to its view shows every item it found due as reached,
\* those included that another sweep signalled meanwhile.
ViewShowsDue ==
  \A q \in requests : q.at = "view" => q.swept \subseteq timeline.reached

\* "ArchiveTimeline ... makes the aggregate immutable": not even a sweep that
\* loaded the timeline before adds an event after the archive.
NothingAfterArchive ==
  \A e, f \in events : e.kind = "archive" => f.version <= e.version

\* The sweeps and commands implement signals that happen in one step, at a
\* moment when they are due: a deadline that was moved away, or a timeline
\* that was archived, between load and commit does not signal.
Signals == INSTANCE DueSignals
             WITH status <- timeline.status,
                  instants <- timeline.instants,
                  signalled <- Signalled

SignalsSpec == Signals!Spec

\* While the timeline is read, an item that is due is signalled, unless the
\* timeline is archived or the item moved away: conflicting sweeps fail, but
\* not all of them, and what one has left undone the next one finds.
DueIsSignalled ==
  \A i \in Item :
    (calm /\ i \in DueItems([timeline EXCEPT !.reached = {}]))
      ~> (i \in Signalled \/ i \notin DueItems([timeline EXCEPT !.reached = {}]))
=============================================================================
