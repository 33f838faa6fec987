------------------------------ MODULE Reading -------------------------------
(***************************************************************************)
(* Walks over a collection, page by page with a cursor, and over the       *)
(* history of an aggregate, with after_version, while commands go on       *)
(* (src/api/query.ts, the resources of src/api/application.ts, and the     *)
(* queries of src/infrastructure/sqlite/database.ts).                      *)
(*                                                                         *)
(* Of the store only the versions matter: CommandPipeline shows that the   *)
(* history of an aggregate is 1, 2, ... without a gap.  Clients choose the *)
(* ids, so new aggregates come anywhere in their order.                    *)
(***************************************************************************)
EXTENDS Integers, Sequences, SequencesExt, FiniteSetsExt

CONSTANTS
  Id,          \* of aggregates: numbers in the order of their UUIDs
  Tenant, NoOrganization,
  MaxVersion,  \* bound on versions
  MaxLimit     \* bound on the limit of a query

ReadingAssumption ==
  /\ IsFiniteSet(Id) /\ Id \subseteq Nat \ {0} /\ NoOrganization \notin Tenant
  /\ MaxVersion \in Nat \ {0} /\ MaxLimit \in Nat \ {0}

VARIABLES
  holder,    \* the organization of each aggregate
  version,  \* its version, 0 before it is created
  walk      \* what a client has read so far, and what there was when it began

Idle == [kind |-> "none"]

\* The limits that a query may carry; others are refused.
Limit == 1 .. MaxLimit

TypeOK ==
  /\ holder \in [Id -> Tenant \cup {NoOrganization}]
  /\ version \in [Id -> 0 .. MaxVersion]
  /\ walk.kind \in {"none", "collection", "history"}
  /\ walk.kind # "none" =>
       /\ walk.tenant \in Tenant /\ walk.limit \in Limit /\ walk.done \in BOOLEAN
       /\ walk.items \in Seq(Nat)

Init ==
  /\ holder = [i \in Id |-> NoOrganization]
  /\ version = [i \in Id |-> 0]
  /\ walk = Idle

-----------------------------------------------------------------------------

\* Commands of any context.
Create(i, tenant) ==
  /\ version[i] = 0
  /\ holder' = [holder EXCEPT ![i] = tenant]
  /\ version' = [version EXCEPT ![i] = 1]
  /\ UNCHANGED walk

Change(i) ==
  /\ version[i] \in 1 .. MaxVersion - 1
  /\ version' = [version EXCEPT ![i] = @ + 1]
  /\ UNCHANGED <<holder, walk>>

\* ORDER BY id.
Ordered(ids) ==
  CHOOSE rows \in [1 .. Cardinality(ids) -> ids] : \A j, k \in DOMAIN rows : j < k => rows[j] < rows[k]

\* Ids start at 1: 0 is before all of them, as no cursor is.
listStates(tenant, afterId, limit) ==
  LET rows == Ordered({i \in Id : version[i] > 0 /\ holder[i] = tenant /\ i > afterId})
  IN SubSeq(rows, 1, IF Len(rows) < limit THEN Len(rows) ELSE limit)

getEvents(i, afterVersion, limit) ==
  [k \in 1 .. Min({limit, version[i] - afterVersion}) |-> afterVersion + k]

\* Defect: as many rows are fetched as a page shows.
FetchedPage(tenant, afterId, limit) == listStates(tenant, afterId, limit)

\* One more than a page shows, to know whether there is another page.
Fetched(tenant, afterId, limit) == listStates(tenant, afterId, limit + 1)

BeginCollection(tenant, limit) ==
  /\ walk = Idle
  /\ walk' = [kind |-> "collection", tenant |-> tenant, limit |-> limit, after |-> 0,
              items |-> <<>>, done |-> FALSE,
              start |-> {i \in Id : version[i] > 0 /\ holder[i] = tenant}]
  /\ UNCHANGED <<holder, version>>

\* The histories of other organizations are not found.
BeginHistory(tenant, i, limit) ==
  /\ walk = Idle
  /\ version[i] > 0 /\ holder[i] = tenant
  /\ walk' = [kind |-> "history", tenant |-> tenant, limit |-> limit, after |-> 0,
              items |-> <<>>, done |-> FALSE, id |-> i, start |-> version[i]]
  /\ UNCHANGED <<holder, version>>

\* page(): the cursor of the next one is the last id that is shown.
NextPage ==
  /\ walk.kind = "collection" /\ ~walk.done
  /\ LET items   == Fetched(walk.tenant, walk.after, walk.limit)
         hasMore == Len(items) > walk.limit
         visible == IF hasMore THEN SubSeq(items, 1, walk.limit) ELSE items
     IN walk' = [walk EXCEPT !.items = @ \o visible, !.done = ~hasMore,
                             !.after = IF hasMore THEN Last(visible) ELSE @]
  /\ UNCHANGED <<holder, version>>

\* A client goes on from the last version it got, until a page is not full.
NextEvents ==
  /\ walk.kind = "history" /\ ~walk.done
  /\ LET items == getEvents(walk.id, walk.after, walk.limit)
     IN walk' = [walk EXCEPT !.items = @ \o items, !.done = Len(items) < walk.limit,
                             !.after = IF items = <<>> THEN @ ELSE Last(items)]
  /\ UNCHANGED <<holder, version>>

Finish ==
  /\ walk # Idle
  /\ walk' = Idle
  /\ UNCHANGED <<holder, version>>

Next ==
  \/ \E i \in Id : Change(i) \/ \E t \in Tenant : Create(i, t)
  \/ \E t \in Tenant, limit \in Limit :
       BeginCollection(t, limit) \/ \E i \in Id : BeginHistory(t, i, limit)
  \/ NextPage \/ NextEvents \/ Finish

-----------------------------------------------------------------------------
(* Properties *)

\* A walk that came to its end has shown every aggregate that its organization
\* had when it began, each once, in order, and none of another organization,
\* whatever was created meanwhile; and the walk over a history has shown every
\* version from the first one at least to the one there was when it began.
ReadsComplete ==
  /\ walk.kind = "collection" =>
       /\ \A j, k \in DOMAIN walk.items : j < k => walk.items[j] < walk.items[k]
       /\ \A j \in DOMAIN walk.items : holder[walk.items[j]] = walk.tenant
       /\ walk.done => walk.start \subseteq ToSet(walk.items)
  /\ walk.kind = "history" =>
       /\ \A j \in DOMAIN walk.items : walk.items[j] = j
       /\ walk.done => Len(walk.items) >= walk.start
=============================================================================
