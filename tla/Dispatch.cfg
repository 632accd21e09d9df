SPECIFICATION HarnessSpec
CONSTANTS
  r1 = r1
  k1 = k1
  None = None
  Parts = {"dispatch"}
  RunIds = {r1}
  ExternalIds = {x1}
  DeliveryIds = {}
  Workers = {w1, w2}
  Requests <- OneRequest
  Payloads <- TwoPayloads
  Malformed <- MalformedBodies
  RetentionDays <- OneDay
  MaxQuarantined = 2
  MaxActive = 2
  MaxCost = 3
  MaxTime = 5
  Lag = 0
  LeaseTime = 2
  MaxAttempts = 2
  RetryDelay = 1
  RetryFloor <- DoublingFloor
INVARIANTS AtMostOnceInvocation InvokerIsFenced
PROPERTY ImplementsDispatchOnce
CHECK_DEADLOCK FALSE
