SPECIFICATION ControlsSpec
CONSTANTS
  a1 = a1
  a2 = a2
  r1 = r1
  r2 = r2
  r3 = r3
  k1 = k1
  k2 = k2
  k3 = k3
  None = None
  RunIds = {r1, r2, r3}
  ExternalIds = {x1}
  DeliveryIds = {}
  Requests <- QuotaRequests
  Payloads <- QuotaPayloads
  MaxActive = 2
  MaxCost = 4
  MaxTime = 3
  Lag = 1
  MaxVersion = 3
  KeyAdmins = {a1, a2}
  Verifiers = {c1}
  Horizon = 3
  Lifetimes = {2}
  Antedates = {1}
  Graces = {0, 1}
  Securers = {a1, a2}
  Lookups = {u1}
  Targets = {t1, t2}
  MaxConfigRevision = 5
  NoTarget = NoTarget
  Resolvers = {a1, a2}
  Authorizers = {z1}
  OAuthStates = {o1}
  MaxTokens = 2
  MaxGitMishaps = 1
INVARIANTS ControlsTypeOK QuotaHeld BarredNeverVerifies ActiveWasChecked TokensUsedOnce
SYMMETRY TwoCalls
CHECK_DEADLOCK FALSE
