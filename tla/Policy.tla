------------------------------- MODULE Policy -------------------------------
(***************************************************************************)
(* The Policy context: one policy, its versions, the decisions taken under *)
(* it and the legal holds that keep it (src/policy/service.ts).            *)
(*                                                                         *)
(* A command is one step, as in Organization.  Subjects, resources and     *)
(* users are looked up and not kept; a rule matches an action or it does   *)
(* not; of what a rate limit observes only the signal counts.              *)
(***************************************************************************)
EXTENDS Integers

CONSTANTS
  PolicyVersion, Evaluation, Violation, Hold, RateLimit,  \* ids
  Rule,
  Denying,    \* the rules whose effect is DENY
  Action,
  Matching,   \* the rules that match an action
  NoVersion   \* no version is active

PolicyAssumption ==
  /\ Denying \subseteq Rule /\ Matching \in [Action -> SUBSET Rule]
  /\ NoVersion \notin PolicyVersion /\ Action # {}

Signal == {"NONE", "QUOTA_THRESHOLD", "QUOTA_EXCEEDED", "RATE_LIMIT"}

VARIABLES
  policy,  \* the snapshot of Policy
  under    \* history: the version each decision was taken under

TypeOK ==
  /\ policy \in
       [status: {"ABSENT", "DRAFT", "ACTIVE", "RETIRED"}, rateLimited: BOOLEAN, lifecycleEpoch: Nat,
        versions: [PolicyVersion -> [status: {"ABSENT", "DRAFT", "PUBLISHED"}, rules: SUBSET Rule]],
        activeVersion: PolicyVersion \cup {NoVersion},
        evaluations: [Evaluation -> [decision: {"NONE", "ALLOW", "DENY"}, matched: SUBSET Rule,
                                     action: Action, signal: Signal]],
        violations: SUBSET (Violation \X Evaluation),
        holds: [Hold -> {"ABSENT", "ACTIVE", "RELEASED"}], rateLimits: SUBSET RateLimit]
  /\ under \in [Evaluation -> PolicyVersion \cup {NoVersion}]

Init ==
  /\ policy =
       [status |-> "ABSENT", rateLimited |-> FALSE, lifecycleEpoch |-> 0,
        versions |-> [v \in PolicyVersion |-> [status |-> "ABSENT", rules |-> {}]],
        activeVersion |-> NoVersion,
        evaluations |-> [e \in Evaluation |-> [decision |-> "NONE", matched |-> {},
                                               action |-> CHOOSE a \in Action : TRUE,
                                               signal |-> "NONE"]],
        violations |-> {}, holds |-> [h \in Hold |-> "ABSENT"], rateLimits |-> {}]
  /\ under = [e \in Evaluation |-> NoVersion]

-----------------------------------------------------------------------------

Loadable == policy.status \in {"DRAFT", "ACTIVE"}

\* Only evaluations are taken under a version.
Stores(next) == Loadable /\ policy' = next /\ UNCHANGED under

CreatePolicy(rateLimited) ==
  /\ policy.status = "ABSENT"
  /\ policy' = [policy EXCEPT !.status = "DRAFT", !.rateLimited = rateLimited]
  /\ UNCHANGED under

CreatePolicyVersion(v, rules) ==
  /\ policy.versions[v].status = "ABSENT"
  /\ Stores([policy EXCEPT !.versions[v] = [status |-> "DRAFT", rules |-> rules]])

PublishPolicyVersion(v) ==
  /\ policy.versions[v].status = "DRAFT"
  /\ Stores([policy EXCEPT !.versions[v].status = "PUBLISHED", !.activeVersion = v,
                           !.status = "ACTIVE", !.lifecycleEpoch = @ + 1])

\* Defect: a rule that allows is enough.
DecisionOfAny(matched) == IF matched \subseteq Denying /\ matched # {} THEN "DENY" ELSE "ALLOW"

\* One rule that denies is enough; no rule at all allows.
Decision(matched) == IF matched \cap Denying # {} THEN "DENY" ELSE "ALLOW"

\* A signal of a rate limit comes with the decision and does not change it.
EvaluatePolicy(e, action, signal) ==
  /\ policy.status = "ACTIVE"
  /\ policy.evaluations[e].decision = "NONE"
  /\ signal # "NONE" => policy.rateLimits # {}
  /\ LET matched == policy.versions[policy.activeVersion].rules \cap Matching[action] IN
     policy' = [policy EXCEPT !.evaluations[e] =
       [decision |-> Decision(matched), matched |-> matched, action |-> action, signal |-> signal]]
  /\ under' = [under EXCEPT ![e] = policy.activeVersion]

RegisterViolation(i, e) ==
  /\ policy.evaluations[e].decision # "NONE"
  /\ \A violation \in policy.violations : violation[1] # i
  /\ Stores([policy EXCEPT !.violations = @ \cup {<<i, e>>}])

ApplyLegalHold(h) ==
  /\ policy.holds[h] = "ABSENT"
  /\ Stores([policy EXCEPT !.holds[h] = "ACTIVE"])

ReleaseLegalHold(h) ==
  /\ policy.holds[h] = "ACTIVE"
  /\ Stores([policy EXCEPT !.holds[h] = "RELEASED"])

RetirePolicy ==
  /\ \A h \in Hold : policy.holds[h] # "ACTIVE"
  /\ Stores([policy EXCEPT !.status = "RETIRED", !.lifecycleEpoch = @ + 1])

DefineRateLimitPolicy(limit) ==
  /\ policy.rateLimited /\ limit \notin policy.rateLimits
  /\ Stores([policy EXCEPT !.rateLimits = @ \cup {limit}])

Next ==
  \/ \E rateLimited \in BOOLEAN : CreatePolicy(rateLimited)
  \/ \E v \in PolicyVersion :
       \/ \E rules \in (SUBSET Rule) \ {{}} : CreatePolicyVersion(v, rules)
       \/ PublishPolicyVersion(v)
  \/ \E e \in Evaluation :
       \/ \E a \in Action, signal \in Signal : EvaluatePolicy(e, a, signal)
       \/ \E i \in Violation : RegisterViolation(i, e)
  \/ \E h \in Hold : ApplyLegalHold(h) \/ ReleaseLegalHold(h)
  \/ RetirePolicy
  \/ \E limit \in RateLimit : DefineRateLimitPolicy(limit)

-----------------------------------------------------------------------------
(* Properties *)

\* Decisions can be accounted for, whatever was published since: each was taken
\* under a published version, lists the rules of that version that match, denies
\* if one of them does and allows otherwise, and violations refer to one.  The
\* version in force is a published one, every publication has an epoch, and
\* nothing retires while a hold is on it ("a policy cannot retire while any hold
\* remains active", docs/policy-context.md).
DecisionsAccountedFor ==
  /\ \A e \in Evaluation :
       LET taken == policy.evaluations[e]
           rules == policy.versions[under[e]].rules IN
       taken.decision # "NONE" =>
         /\ policy.versions[under[e]].status = "PUBLISHED"
         /\ taken.matched = rules \cap Matching[taken.action]
         /\ taken.decision = "DENY" <=> \E r \in Denying : r \in rules /\ r \in Matching[taken.action]
  /\ \A violation \in policy.violations : policy.evaluations[violation[2]].decision # "NONE"
  /\ policy.status = "ACTIVE" => policy.versions[policy.activeVersion].status = "PUBLISHED"
  /\ policy.status = "RETIRED" => \A h \in Hold : policy.holds[h] # "ACTIVE"
=============================================================================
