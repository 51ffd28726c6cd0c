CONSTANTS
  n = n
  e = e
  j1 = j1
  j2 = j2
  Builder = {n}
  Native = {n}
  Job = {j1}
  MaxJobs <- MCMaxJobs
  Capable <- MCCapable
  Grace = TRUE
  MaxConn = 1
  MaxSilence = 0
  Permits = 1
  BuilderWait = FALSE
  MayCancel = FALSE
SPECIFICATION PoolFairSpec
PROPERTY ExhaustionEnds
CHECK_DEADLOCK FALSE
