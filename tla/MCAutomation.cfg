\* One rule, one evaluation of it and one execution: what its receipt goes
\* through when it is compensated and retried.
CONSTANTS
  Evaluation = {ev1}
  Execution = {xe1}
  NoEvaluation = NoEvaluation
  MaxAttempt = 2
  MaxEpoch = 2
SPECIFICATION Spec
PROPERTY CompensationIsTerminal
CHECK_DEADLOCK FALSE
