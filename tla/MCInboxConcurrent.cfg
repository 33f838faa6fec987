SPECIFICATION Spec
CONSTANTS
  Event = {e1}
  Content = {f1}
  NoContent = NoContent
  Worker = {w1, w2}
  NoWorker = NoWorker
  LeaseDuration = 2
  CallsPerWorker = 1
INVARIANT
  NoConcurrentHandling
