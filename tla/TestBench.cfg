SPECIFICATION BenchSpec
CONSTANTS
  None = None
  Jobs = {j1, j2}
  Keys = {k1}
  Payloads = {k1}
  Workers = {w1, w2}
  Definitions = {d1}
  Stages <- ObservedStages
  MaxAttempts = 2
  MaxMishaps = 3
  Cases = 2
  Capacity = 2
  Tenants = {t1, t2}
  Requests = {q1, q2}
  Admitters = {a1, a2}
  LastDay = 1
  ActiveLimit = 1
  Cap <- Caps
  Cost <- Costs
  SourceOf <- SourcesOf
  q1 = q1
  q2 = q2
INVARIANTS BenchTypeOK OneHolder SpendIsRecorded CompletedJobEndsRun LedgersAgree CapsHeld
PROPERTIES CompletedStays FailedOnlyWhenLost JobsEnd ImplementsOnce CallsEnd
CHECK_DEADLOCK FALSE
