------------------------------ MODULE TaskBoard ------------------------------
(***************************************************************************)
(* What the work context promises about tasks (docs/work-context.md):      *)
(* every command looks at the missions and the tasks and takes effect in   *)
(* the same instant, along the documented lifecycle.                       *)
(***************************************************************************)
CONSTANTS
  Organization,
  MissionId,
  Task,
  Nobody,     \* in place of the organization of what does not exist
  NoMission   \* in place of the mission of a task that does not exist

VARIABLES
  owner,      \* the organization each mission belongs to
  board       \* each task: its status, owner, mission and dependencies

vars == <<owner, board>>

NoTask == [status |-> "ABSENT", organization |-> Nobody, mission |-> NoMission,
           dependencies |-> {}]

Init ==
  /\ owner = [m \in MissionId |-> Nobody]
  /\ board = [t \in Task |-> NoTask]

MissionCreated(m, o) ==
  /\ owner[m] = Nobody
  /\ owner' = [owner EXCEPT ![m] = o]
  /\ UNCHANGED board

\* "Creation is rejected when the referenced Mission does not exist; the
\* Mission belongs to another organization; the Task identifier already
\* exists".
TaskCreated(t, m) ==
  /\ owner[m] # Nobody
  /\ board[t] = NoTask
  /\ board' = [board EXCEPT ![t] = [status |-> "DRAFT", organization |-> owner[m],
                                    mission |-> m, dependencies |-> {}]]
  /\ UNCHANGED owner

\* "Dependencies must exist in the same organization and Mission, cannot
\* reference the task itself, and cannot be duplicated."
DependencyAdded(t, d) ==
  /\ board[t].status = "DRAFT"
  /\ d # t
  /\ board[d].status # "ABSENT"
  /\ board[d].organization = board[t].organization
  /\ board[d].mission = board[t].mission
  /\ d \notin board[t].dependencies
  /\ board' = [board EXCEPT ![t].dependencies = @ \cup {d}]
  /\ UNCHANGED owner

\* The lifecycle diagram; "non-terminal states can be cancelled".
Lifecycle ==
  {<<"DRAFT", "ACTIVE">>, <<"ACTIVE", "PAUSED">>, <<"PAUSED", "ACTIVE">>,
   <<"ACTIVE", "BLOCKED">>, <<"PAUSED", "BLOCKED">>, <<"BLOCKED", "ACTIVE">>,
   <<"ACTIVE", "SUBMITTED">>, <<"SUBMITTED", "APPROVED">>, <<"APPROVED", "CLOSED">>,
   <<"SUBMITTED", "ACTIVE">>, <<"APPROVED", "ACTIVE">>, <<"CLOSED", "ACTIVE">>}
  \cup {"DRAFT", "ACTIVE", "PAUSED", "BLOCKED", "SUBMITTED", "APPROVED"} \X {"CANCELLED"}

Moved(t) ==
  /\ \E step \in Lifecycle :
       /\ board[t].status = step[1]
       /\ board' = [board EXCEPT ![t].status = step[2]]
  /\ UNCHANGED owner

Next ==
  \/ \E m \in MissionId, o \in Organization : MissionCreated(m, o)
  \/ \E t \in Task : \/ \E m \in MissionId : TaskCreated(t, m)
                     \/ \E d \in Task : DependencyAdded(t, d)
                     \/ Moved(t)

Spec == Init /\ [][Next]_vars
=============================================================================
