SPECIFICATION FairSpec
CONSTANTS
  Event = {1, 2}
  Worker = {w1, w2}
  NoWorker = NoWorker
  BatchSize = 2
  LeaseDuration = 3
  MaxAttempts = 2
  MaxDelay = 1
  PublishTimeout = 1
  Horizon = 0
  Punctual = TRUE
INVARIANTS
  LeaseOutlastsBatch
PROPERTIES
  EventuallySettled
  StopCompletes
