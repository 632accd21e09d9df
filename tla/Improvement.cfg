SPECIFICATION PartsSpec
CONSTANTS
  Nil = Nil
  v1 = v1
  v2 = v2
  w1 = w1
  w2 = w2
  r1 = r1
  r2 = r2
  j1 = j1
  j2 = j2
  cA = cA
  cB = cB
  Reviewers = {v1, v2}
  Workers = {w1, w2}
  Recommendations = {r1, r2}
  OptimizationJobs = {j1, j2}
  Contents = {cA, cB}
  RequiredApprovals = 2
  MaxSlips = 1
  MaxAsks = 4
  BenchDefinitions = {d1, d2}
  Approvals = {a1, a2}
  Executors = {e1, e2}
  MaxRevision = 3
  MaxRows = 1
  NoApproval = NoApproval
INVARIANTS PartsTypeOK ApprovedIsValidated ReleasedWasApproved DefinitionsReadable MaintenanceRunsOnce
SYMMETRY Interchangeable
CHECK_DEADLOCK FALSE
