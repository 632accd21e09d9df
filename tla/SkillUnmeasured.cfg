SPECIFICATION ImprovementSpec
CONSTANTS
  Nil = Nil
  Reviewers = {v1, v2}
  Workers = {w1}
  Recommendations = {r1}
  OptimizationJobs = {j1, j2}
  Contents = {cA, cB}
  RequiredApprovals = 1
  MaxSlips = 1
  MaxAsks = 4
INVARIANT ApprovedWasMeasured
CHECK_DEADLOCK FALSE
