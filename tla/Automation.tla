----------------------------- MODULE Automation -----------------------------
(***************************************************************************)
(* The Automation context: one rule, its evaluations, and the receipts of  *)
(* what was executed, failed again and was compensated                     *)
(* (src/automation/service.ts).                                            *)
(*                                                                         *)
(* A command is one step, as in Organization.  Triggers, inputs, results   *)
(* and reasons are left out.                                               *)
(***************************************************************************)
EXTENDS Integers

CONSTANTS
  Evaluation, Execution,  \* ids
  NoEvaluation,           \* that of an execution that is not there
  MaxAttempt,             \* bound on the number of a retry
  MaxEpoch                \* bound on the lifecycle epoch

AutomationAssumption ==
  /\ NoEvaluation \notin Evaluation /\ MaxAttempt \in Nat /\ MaxEpoch \in Nat

VARIABLE rule  \* the snapshot of AutomationRule

TypeOK ==
  rule \in [status: {"ABSENT", "DISABLED", "ENABLED", "ARCHIVED"},
            lifecycleEpoch: 0 .. MaxEpoch + 1, evaluations: SUBSET Evaluation,
            executions: [Execution -> [status: {"ABSENT", "EXECUTED", "FAILED", "COMPENSATED"},
                                       evaluation: Evaluation \cup {NoEvaluation},
                                       retryAttempt: 0 .. MaxAttempt]]]

Init ==
  rule = [status |-> "ABSENT", lifecycleEpoch |-> 0, evaluations |-> {},
          executions |-> [x \in Execution |->
            [status |-> "ABSENT", evaluation |-> NoEvaluation, retryAttempt |-> 0]]]

-----------------------------------------------------------------------------

Loadable == rule.status \in {"DISABLED", "ENABLED"}

enabled == rule.status = "ENABLED"

execution(x) == rule.executions[x]

\* A command in the other life of the rule begins a new epoch.
Turns(from, to) ==
  /\ rule.status = from /\ rule.lifecycleEpoch < MaxEpoch
  /\ rule' = [rule EXCEPT !.status = to, !.lifecycleEpoch = @ + 1]

CreateAutomationRule ==
  /\ rule.status = "ABSENT"
  /\ rule' = [rule EXCEPT !.status = "DISABLED"]

EnableRule == Turns("DISABLED", "ENABLED")

DisableRule == Turns("ENABLED", "DISABLED")

EvaluateRule(e) ==
  /\ enabled /\ e \notin rule.evaluations
  /\ rule' = [rule EXCEPT !.evaluations = @ \cup {e}]

ExecuteAction(x, e) ==
  /\ enabled /\ e \in rule.evaluations
  /\ execution(x).status = "ABSENT"
  /\ rule' = [rule EXCEPT !.executions[x] =
       [status |-> "EXECUTED", evaluation |-> e, retryAttempt |-> 0]]

\* Defect: an attempt that comes late takes the place of a later one.
RetryExecutionAnew(x, attempt) ==
  /\ enabled /\ execution(x).status # "ABSENT"
  /\ attempt # execution(x).retryAttempt
  /\ rule' = [rule EXCEPT !.executions[x] = [@ EXCEPT !.status = "FAILED", !.retryAttempt = attempt]]

\* A failed retry, also of an execution that was compensated, which may then be
\* compensated once more.
RetryExecution(x, attempt) ==
  /\ enabled /\ execution(x).status # "ABSENT"
  /\ attempt > execution(x).retryAttempt
  /\ rule' = [rule EXCEPT !.executions[x] = [@ EXCEPT !.status = "FAILED", !.retryAttempt = attempt]]

\* Also when the rule is disabled.
CompensateExecution(x) ==
  /\ Loadable /\ execution(x).status \in {"EXECUTED", "FAILED"}
  /\ rule' = [rule EXCEPT !.executions[x].status = "COMPENSATED"]

ArchiveRule ==
  /\ Loadable
  /\ rule' = [rule EXCEPT !.status = "ARCHIVED", !.lifecycleEpoch = @ + 1]

Next ==
  \/ CreateAutomationRule \/ EnableRule \/ DisableRule
  \/ \E e \in Evaluation : EvaluateRule(e) \/ \E x \in Execution : ExecuteAction(x, e)
  \/ \E x \in Execution :
       (\E attempt \in 1 .. MaxAttempt : RetryExecution(x, attempt)) \/ CompensateExecution(x)
  \/ ArchiveRule

Spec == Init /\ [][Next]_rule

-----------------------------------------------------------------------------
(* Properties *)

\* Receipts are kept in order: an execution stays with the evaluation it came
\* from, its attempts only grow, and it fails only at an attempt of its own;
\* while the rule is disabled or archived nothing is executed or retried, and all
\* that can still happen to a receipt is that it is compensated ("Retry attempts
\* are monotonic", docs/automation-context.md).
ReceiptsInOrder ==
  [][\A x \in Execution :
       LET before == rule.executions[x]
           after  == rule'.executions[x] IN
       /\ after.status # "ABSENT" => after.evaluation \in rule'.evaluations
       /\ before.status # "ABSENT" => after.evaluation = before.evaluation
       /\ after.retryAttempt >= before.retryAttempt
       /\ after.status = "FAILED" /\ before # after => after.retryAttempt > before.retryAttempt
       /\ rule.status # "ENABLED" /\ before # after =>
            rule.status = "DISABLED" /\ after.status = "COMPENSATED"]_rule

\* "Compensation is explicit and terminal for that execution receipt."
\* (docs/automation-context.md:5).  The code refuses a second compensation, but a
\* later failed retry takes the receipt out of COMPENSATED again.
CompensationIsTerminal ==
  [][\A x \in Execution : rule.executions[x].status = "COMPENSATED" =>
       rule'.executions[x] = rule.executions[x]]_rule
=============================================================================
