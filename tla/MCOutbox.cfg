SPECIFICATION Spec
CONSTANTS
  Event = {1, 2}
  Worker = {w1, w2}
  NoWorker = NoWorker
  BatchSize = 2
  LeaseDuration = 3
  MaxAttempts = 3
  MaxDelay = 2
  PublishTimeout = 1
  Horizon = 1
  Punctual = FALSE
INVARIANTS
  SettledHonestly
PROPERTIES
  AcknowledgedByItsClaim
  DeliverySpec
