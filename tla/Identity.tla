------------------------------ MODULE Identity ------------------------------
(***************************************************************************)
(* The Identity and authority context: a user, what the user may do, and   *)
(* how revocations fence off whoever still holds an older authority        *)
(* (src/identity-authority/service.ts).                                    *)
(*                                                                         *)
(* A command carries the authority epoch of its proof, which Gateway has   *)
(* found in the bearer's token.  It loads the user, checks, and commits:   *)
(* other commands come between the two.  The checks on scope and expiry    *)
(* read nothing that is stored; names, e-mails, scopes of delegations and  *)
(* replays (CommandPipeline) are left out.                                 *)
(***************************************************************************)
EXTENDS Integers

CONSTANTS
  Role, Device, Delegation,  \* ids of what a user is given
  Request,                   \* commands that can be in flight
  NoCommand,                 \* in place of one that is not
  MaxEpoch,                  \* bound on the epochs of proofs and users
  MaxVersion                 \* bound on the user's version

IdentityAssumption == MaxEpoch \in Nat /\ MaxVersion \in Nat

UserIdentity ==
  [status: {"ABSENT", "ACTIVE", "DISABLED"}, version: 0 .. MaxVersion,
   lifecycleEpoch: 0 .. MaxVersion, authorityEpoch: 0 .. MaxEpoch, roles: SUBSET Role,
   devices: [Device -> {"ABSENT", "ACTIVE", "REVOKED"}],
   delegations: [Delegation -> {"ABSENT", "ACTIVE", "REVOKED"}]]

VARIABLES
  user,    \* the snapshot of UserIdentity
  command  \* in flight: what it stores, and the authority epoch of its proof

TypeOK ==
  /\ user \in UserIdentity
  /\ command \in [Request -> [copy: UserIdentity, epoch: 0 .. MaxEpoch] \cup {NoCommand}]

Init ==
  /\ user = [status |-> "ABSENT", version |-> 0, lifecycleEpoch |-> 0, authorityEpoch |-> 0,
             roles |-> {}, devices |-> [d \in Device |-> "ABSENT"],
             delegations |-> [d \in Delegation |-> "ABSENT"]]
  /\ command = [q \in Request |-> NoCommand]

-----------------------------------------------------------------------------

\* Command q has passed its checks and goes on to store `next`.
Proceeds(q, epoch, next) ==
  /\ command[q] = NoCommand
  /\ user.version < MaxVersion
  /\ command' = [command EXCEPT ![q] = [copy |-> [next EXCEPT !.version = @ + 1], epoch |-> epoch]]
  /\ UNCHANGED user

\* #load(): the proof is of the epoch the user is in.
Loadable(epoch) == user.status = "ACTIVE" /\ epoch = user.authorityEpoch

\* Withdrawing authority makes every proof given before worthless.
Advanced(next) == [next EXCEPT !.authorityEpoch = @ + 1]

\* Bound.
CanAdvance == user.authorityEpoch < MaxEpoch

CreateUser(q, epoch) ==
  /\ user.status = "ABSENT"
  /\ Proceeds(q, epoch, [user EXCEPT !.status = "ACTIVE", !.authorityEpoch = epoch])

AssignRole(q, epoch, r) ==
  /\ Loadable(epoch) /\ r \notin user.roles
  /\ Proceeds(q, epoch, [user EXCEPT !.roles = @ \cup {r}])

RevokeRole(q, epoch, r) ==
  /\ Loadable(epoch) /\ r \in user.roles /\ CanAdvance
  /\ Proceeds(q, epoch, Advanced([user EXCEPT !.roles = @ \ {r}]))

RegisterDevice(q, epoch, d) ==
  /\ Loadable(epoch) /\ user.devices[d] = "ABSENT"
  /\ Proceeds(q, epoch, [user EXCEPT !.devices[d] = "ACTIVE"])

RevokeDevice(q, epoch, d) ==
  /\ Loadable(epoch) /\ user.devices[d] = "ACTIVE" /\ CanAdvance
  /\ Proceeds(q, epoch, Advanced([user EXCEPT !.devices[d] = "REVOKED"]))

\* To another user, and for a time that is not over.
DelegateAuthority(q, epoch, d) ==
  /\ Loadable(epoch) /\ user.delegations[d] = "ABSENT"
  /\ Proceeds(q, epoch, [user EXCEPT !.delegations[d] = "ACTIVE"])

RevokeDelegation(q, epoch, d) ==
  /\ Loadable(epoch) /\ user.delegations[d] = "ACTIVE" /\ CanAdvance
  /\ Proceeds(q, epoch, Advanced([user EXCEPT !.delegations[d] = "REVOKED"]))

DisableUser(q, epoch) ==
  /\ Loadable(epoch) /\ CanAdvance
  /\ Proceeds(q, epoch, Advanced([user EXCEPT !.status = "DISABLED", !.lifecycleEpoch = @ + 1]))

EnableUser(q, epoch) ==
  /\ user.status = "DISABLED" /\ epoch = user.authorityEpoch /\ CanAdvance
  /\ Proceeds(q, epoch, Advanced([user EXCEPT !.status = "ACTIVE", !.lifecycleEpoch = @ + 1]))

\* Defect: the store takes whatever comes last.
CommitUnversioned(q) ==
  /\ command[q] # NoCommand
  /\ user' = command[q].copy
  /\ command' = [command EXCEPT ![q] = NoCommand]

\* #publish(): the store accepts the version after the one it holds.
Commit(q) ==
  /\ command[q] # NoCommand
  /\ user.version = command[q].copy.version - 1
  /\ user' = command[q].copy
  /\ command' = [command EXCEPT ![q] = NoCommand]

\* Another command was faster, or the store fails.
Refuse(q) ==
  /\ command[q] # NoCommand
  /\ command' = [command EXCEPT ![q] = NoCommand]
  /\ UNCHANGED user

Next ==
  \E q \in Request :
    \/ \E epoch \in 0 .. MaxEpoch :
         \/ CreateUser(q, epoch)
         \/ \E r \in Role : AssignRole(q, epoch, r) \/ RevokeRole(q, epoch, r)
         \/ \E d \in Device : RegisterDevice(q, epoch, d) \/ RevokeDevice(q, epoch, d)
         \/ \E d \in Delegation : DelegateAuthority(q, epoch, d) \/ RevokeDelegation(q, epoch, d)
         \/ DisableUser(q, epoch)
         \/ EnableUser(q, epoch)
    \/ Commit(q)
    \/ Refuse(q)

-----------------------------------------------------------------------------
(* Properties *)

\* Revocation is final: from the commit of a revocation on, no command whose
\* proof dates from before it changes the user, not even one that had passed
\* every check by then; what was revoked stays revoked, and the epoch never
\* goes back ("preventing stale control surfaces from restoring revoked
\* access", docs/identity-authority-context.md).
RevocationIsFinal ==
  [][/\ user.status # "ABSENT" /\ user' # user =>
          \E q \in Request : command[q] # NoCommand /\ command'[q] = NoCommand
                              /\ command[q].epoch = user.authorityEpoch
     /\ user'.authorityEpoch >= user.authorityEpoch
     /\ \A d \in Device : user.devices[d] = "REVOKED" => user'.devices[d] = "REVOKED"
     /\ \A d \in Delegation : user.delegations[d] = "REVOKED" => user'.delegations[d] = "REVOKED"
     /\ user.roles \ user'.roles # {} => user'.authorityEpoch > user.authorityEpoch]_<<user, command>>
=============================================================================
