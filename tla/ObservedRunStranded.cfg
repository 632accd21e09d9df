SPECIFICATION ObservedSpec
CONSTANTS
  None = None
  Jobs = {j1, j2}
  Keys = {run1, run2}
  Payloads = {run1, run2}
  Workers = {w1, w2}
  Definitions = {d1}
  Stages = {"working", "beginning", "retiring", "abandoning", "checking", "intending",
            "calling", "waiting", "acknowledging", "recording", "completing"}
  MaxAttempts = 2
  MaxMishaps = 2
  Cases = 1
  Capacity = 2
INVARIANT FailedJobEndsRun
CHECK_DEADLOCK FALSE
