SPECIFICATION EvalSpec
CONSTANTS
  None = None
  Jobs = {j1, j2}
  Keys = {k1}
  Payloads = {run1, run2}
  Workers = {w1, w2}
  Callers = {c1, c2}
  Stages = {"working", "loaded", "generating", "caught", "retrying"}
  MaxAttempts = 2
  RetryBelow = 2
  MaxMishaps = 3
INVARIANT FailedJobFailsRun
CHECK_DEADLOCK FALSE
