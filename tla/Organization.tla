---------------------------- MODULE Organization ----------------------------
(***************************************************************************)
(* The Organization context: the hierarchy of one tenant                   *)
(* (src/organization/service.ts).                                          *)
(*                                                                         *)
(* A command is one step here: it takes effect when it is committed, on    *)
(* the snapshot it has loaded or not at all (CommandPipeline).  Versions,  *)
(* operation records and events are that module's; names and slugs are     *)
(* left out.                                                               *)
(***************************************************************************)
EXTENDS Integers

CONSTANTS
  Workspace, Department, Team, Group,  \* ids of the parts
  NoDepartment  \* the parent of a root; the department of a team that is not there

OrganizationAssumption == NoDepartment \notin Department

VARIABLE organization  \* the snapshot of OrganizationStructure

OrganizationStructure ==
  [status: {"ABSENT", "ACTIVE", "ARCHIVED"}, lifecycleEpoch: 0 .. 1,
   workspaces: SUBSET Workspace, groups: SUBSET Group,
   departments: [Department -> [status: {"ABSENT", "ACTIVE", "ARCHIVED"},
                                parent: Department \cup {NoDepartment}]],
   teams: [Team -> Department \cup {NoDepartment}]]

TypeOK == organization \in OrganizationStructure

Init ==
  organization =
    [status |-> "ABSENT", lifecycleEpoch |-> 0, workspaces |-> {}, groups |-> {},
     departments |-> [d \in Department |-> [status |-> "ABSENT", parent |-> NoDepartment]],
     teams |-> [t \in Team |-> NoDepartment]]

-----------------------------------------------------------------------------
(* Commands.  All but the first load an organization that is not archived. *)

Loadable == organization.status = "ACTIVE"

Exists(d) == organization.departments[d].status # "ABSENT"

activeDepartment(d) == organization.departments[d].status = "ACTIVE"

CreateOrganization ==
  /\ organization.status = "ABSENT"
  /\ organization' = [organization EXCEPT !.status = "ACTIVE"]

CreateWorkspace(w) ==
  /\ Loadable /\ w \notin organization.workspaces
  /\ organization' = [organization EXCEPT !.workspaces = @ \cup {w}]

\* The parent has to be there; it may be archived.
CreateDepartment(d, parent) ==
  /\ Loadable /\ ~Exists(d)
  /\ parent \in {NoDepartment} \cup {p \in Department : Exists(p)}
  /\ organization' =
       [organization EXCEPT !.departments[d] = [status |-> "ACTIVE", parent |-> parent]]

CreateTeam(t, d) ==
  /\ Loadable /\ organization.teams[t] = NoDepartment
  /\ activeDepartment(d)
  /\ organization' = [organization EXCEPT !.teams[t] = d]

CreateGroup(g) ==
  /\ Loadable /\ g \notin organization.groups
  /\ organization' = [organization EXCEPT !.groups = @ \cup {g}]

\* Defect: the destination has to be there, no more.
MoveTeamAnywhere(t, d) ==
  /\ Loadable /\ organization.teams[t] # NoDepartment
  /\ Exists(d)
  /\ organization' = [organization EXCEPT !.teams[t] = d]

MoveTeam(t, d) ==
  /\ Loadable /\ organization.teams[t] # NoDepartment
  /\ activeDepartment(d)
  /\ organization' = [organization EXCEPT !.teams[t] = d]

\* Not while a team belongs to it; departments below it do not matter.
ArchiveDepartment(d) ==
  /\ Loadable /\ activeDepartment(d)
  /\ \A t \in Team : organization.teams[t] # d
  /\ organization' = [organization EXCEPT !.departments[d].status = "ARCHIVED"]

ArchiveOrganization ==
  /\ Loadable
  /\ organization' = [organization EXCEPT !.status = "ARCHIVED", !.lifecycleEpoch = @ + 1]

Next ==
  \/ CreateOrganization
  \/ \E w \in Workspace : CreateWorkspace(w)
  \/ \E d \in Department, p \in Department \cup {NoDepartment} : CreateDepartment(d, p)
  \/ \E t \in Team, d \in Department : CreateTeam(t, d) \/ MoveTeam(t, d)
  \/ \E g \in Group : CreateGroup(g)
  \/ \E d \in Department : ArchiveDepartment(d)
  \/ ArchiveOrganization

Spec == Init /\ [][Next]_organization

-----------------------------------------------------------------------------
(* Properties *)

\* Each team belongs to an active department, whatever is archived and moved
\* and in whichever order; and departments hang together as a forest: parents
\* are there and no department is below itself.
HierarchySound ==
  /\ \A t \in Team :
       organization.teams[t] # NoDepartment => activeDepartment(organization.teams[t])
  /\ \A S \in SUBSET {d \in Department : Exists(d)} :
       S # {} => \E d \in S : organization.departments[d].parent \notin S
  /\ \A d \in Department :
       organization.departments[d].parent \in {NoDepartment} \cup {p \in Department : Exists(p)}

\* "Referenced parent departments and destination departments must exist and
\* remain active." (docs/organization-context.md:20), of parents.  The code asks
\* of a parent only that it is there, and archives departments that have others
\* below them.
ParentsRemainActive ==
  \A d \in Department :
    LET parent == organization.departments[d].parent IN
    activeDepartment(d) /\ parent # NoDepartment => activeDepartment(parent)
=============================================================================
