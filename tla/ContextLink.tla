----------------------------- MODULE ContextLink -----------------------------
(***************************************************************************)
(* The Context Link context: a link between objects that other contexts    *)
(* own (src/context-link/service.ts), with the lookups of those objects    *)
(* that the API wires to it (src/api/application.ts:149).                  *)
(*                                                                         *)
(* Each lookup is an await of its own: other commands on the link, and     *)
(* creations in the other contexts, come between it and the commit.        *)
(***************************************************************************)
EXTENDS Integers

CONSTANTS
  Object,         \* ids of missions, tasks, timelines, reports and users
  Tenant,         \* ids of organizations
  NoOrganization, \* that of an object that does not exist yet
  Strength,       \* of a link
  Request,        \* commands that can be in flight
  NoCommand,      \* in place of one that is not
  MaxVersion      \* bound on the link's version

ContextLinkAssumption == NoOrganization \notin Tenant /\ Strength # {} /\ MaxVersion \in Nat

Link ==
  [status: {"ABSENT", "ACTIVE", "ARCHIVED"}, version: 0 .. MaxVersion, lifecycleEpoch: 0 .. MaxVersion,
   organization: Tenant \cup {NoOrganization}, ends: SUBSET Object, strength: Strength]

VARIABLES
  owner,    \* the organization of every object
  link,     \* the snapshot of ContextLink
  request   \* commands in flight: what they store if nothing else was stored
            \* meanwhile, and the objects they have yet to look up

TypeOK ==
  /\ owner \in [Object -> Tenant \cup {NoOrganization}]
  /\ link \in Link
  /\ request \in [Request -> [copy: Link, lookups: SUBSET Object] \cup {NoCommand}]

Init ==
  /\ owner = [o \in Object |-> NoOrganization]
  /\ link = [status |-> "ABSENT", version |-> 0, lifecycleEpoch |-> 0,
             organization |-> NoOrganization, ends |-> {}, strength |-> CHOOSE s \in Strength : TRUE]
  /\ request = [q \in Request |-> NoCommand]

-----------------------------------------------------------------------------

\* Another context creates an object; none ever deletes one or moves it.
CreateObject(o, org) ==
  /\ owner[o] = NoOrganization
  /\ owner' = [owner EXCEPT ![o] = org]
  /\ UNCHANGED <<link, request>>

\* Command q has loaded the link and goes on to store `next`.
Loaded(q, next, lookups) ==
  /\ request[q] = NoCommand
  /\ link.version < MaxVersion
  /\ request' = [request EXCEPT ![q] =
       [copy |-> [next EXCEPT !.version = @ + 1], lookups |-> lookups]]
  /\ UNCHANGED <<owner, link>>

\* The ends differ.
CreateContextLink(q, org, source, target, strength) ==
  /\ link.status = "ABSENT" /\ source # target
  /\ Loaded(q, [link EXCEPT !.status = "ACTIVE", !.organization = org,
                            !.ends = {source, target}, !.strength = strength],
            {source, target})

\* Stores the same apart from the metadata, which are left out.
UpdateContextMetadata(q) ==
  /\ link.status = "ACTIVE"
  /\ Loaded(q, link, {})

ChangeContextStrength(q, strength) ==
  /\ link.status = "ACTIVE" /\ link.strength # strength
  /\ Loaded(q, [link EXCEPT !.strength = strength], {})

ArchiveContextLink(q) ==
  /\ link.status = "ACTIVE"
  /\ Loaded(q, [link EXCEPT !.status = "ARCHIVED", !.lifecycleEpoch = @ + 1], {})

RestoreContextLink(q) ==
  /\ link.status = "ARCHIVED"
  /\ Loaded(q, [link EXCEPT !.status = "ACTIVE", !.lifecycleEpoch = @ + 1], link.ends)

\* requireObject(): the owning context finds it in the link's organization.
requireObject(q, o) ==
  /\ request[q] # NoCommand /\ o \in request[q].lookups
  /\ owner[o] = request[q].copy.organization
  /\ request' = [request EXCEPT ![q].lookups = @ \ {o}]
  /\ UNCHANGED <<owner, link>>

\* Defect: the lookups are started and not waited for.
CommitUnchecked(q) ==
  /\ request[q] # NoCommand
  /\ link.version = request[q].copy.version - 1
  /\ link' = request[q].copy
  /\ request' = [request EXCEPT ![q] = NoCommand]
  /\ UNCHANGED owner

\* The store accepts the version after the one it holds.
Commit(q) ==
  /\ request[q] # NoCommand /\ request[q].lookups = {}
  /\ link.version = request[q].copy.version - 1
  /\ link' = request[q].copy
  /\ request' = [request EXCEPT ![q] = NoCommand]
  /\ UNCHANGED owner

\* A lookup fails, another command was faster, or the store fails.
Refuse(q) ==
  /\ request[q] # NoCommand
  /\ request' = [request EXCEPT ![q] = NoCommand]
  /\ UNCHANGED <<owner, link>>

Next ==
  \/ \E o \in Object, org \in Tenant : CreateObject(o, org)
  \/ \E q \in Request :
       \/ \E org \in Tenant, source, target \in Object, strength \in Strength :
            CreateContextLink(q, org, source, target, strength)
       \/ UpdateContextMetadata(q)
       \/ \E strength \in Strength : ChangeContextStrength(q, strength)
       \/ ArchiveContextLink(q)
       \/ RestoreContextLink(q)
       \/ \E o \in Object : requireObject(q, o)
       \/ Commit(q)
       \/ Refuse(q)

-----------------------------------------------------------------------------
(* Properties *)

\* A link joins two objects of its own organization, at every moment of its
\* life, although the objects were looked up before the link was stored.
LinksResolve ==
  link.status # "ABSENT" =>
    /\ \E o, p \in Object : o # p /\ link.ends = {o, p}
    /\ \A o \in link.ends : owner[o] = link.organization
=============================================================================
