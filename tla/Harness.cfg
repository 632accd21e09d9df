SPECIFICATION HarnessSpec
CONSTANTS
  r1 = r1
  k1 = k1
  None = None
  Parts = {"ingress", "dispatch"}
  RunIds = {r1}
  ExternalIds = {x1}
  DeliveryIds = {d1, d2, d3}
  Workers = {w1, w2}
  Requests <- OneRequest
  Payloads <- ReceiptPayloads
  Malformed <- MalformedBodies
  RetentionDays <- OneDay
  MaxQuarantined = 2
  MaxActive = 2
  MaxCost = 3
  MaxTime = 5
  Lag = 1
  LeaseTime = 2
  MaxAttempts = 2
  RetryDelay = 1
  RetryFloor <- DoublingFloor
INVARIANTS HarnessTypeOK ReceiptsAgree OutcomeIsEvidenced AuditExplains EveryCallMarked NewestInvokerHolds LeaseWithinDeadline
PROPERTIES SettledIsFinal CancelSticks VerdictsStand ImplementsDispatchMarked
CHECK_DEADLOCK FALSE
