SPECIFICATION Spec
CONSTANTS
  Event = {e1, e2}
  Content = {f1, f2}
  NoContent = NoContent
  Worker = {w1, w2}
  NoWorker = NoWorker
  LeaseDuration = 2
  CallsPerWorker = 2
SYMMETRY Symmetry
INVARIANTS
  CompletedOnlyIfHandled
  ExclusiveWhileLeased
PROPERTIES
  CompletedByHolder
