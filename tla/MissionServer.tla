---------------------------- MODULE MissionServer ----------------------------
(***************************************************************************)
(* The mission server (src/mission/server.ts) and three parts of it that   *)
(* have no state in common: the admission of requests (Admission), the     *)
(* database file it opens, with its migrations and its recovery tools      *)
(* (Recovery), and the life of a mission (Mission).                        *)
(*                                                                         *)
(* As in Application, the interleavings of the parts tell nothing that a   *)
(* behaviour of one part alone does not: a behaviour here is one of the    *)
(* part in focus, while the others rest.                                   *)
(***************************************************************************)
EXTENDS Mission, Recovery, Admission

VARIABLE focus  \* the part that moves

serverVars == <<focus, vars, recoveryVars, admissionVars>>

\* A part that rests does so in one of its initial states.
ServerInit ==
  /\ focus \in {"mission", "recovery", "admission"}
  /\ Init
  /\ RecoveryInit /\ (focus # "recovery" => file = Empty)
  /\ AdmissionInit /\ (focus # "admission" => now = 0 /\ watched = Overflow)

KeepMission ==
  /\ focus = "mission" /\ Next
  /\ UNCHANGED <<focus, recoveryVars, admissionVars>>

KeepFile ==
  /\ focus = "recovery" /\ RecoveryNext
  /\ UNCHANGED <<focus, vars, admissionVars>>

Admit ==
  /\ focus = "admission" /\ AdmissionNext
  /\ UNCHANGED <<focus, vars, recoveryVars>>

ServerNext == KeepMission \/ KeepFile \/ Admit

ServerSpec == ServerInit /\ [][ServerNext]_serverVars
=============================================================================
