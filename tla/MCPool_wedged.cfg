CONSTANTS
  n = n
  e = e
  j1 = j1
  j2 = j2
  Builder = {n}
  Native = {n}
  Job = {j1}
  MaxJobs <- MCMaxJobs
  Capable <- MCCapable
  Grace = FALSE
  MaxConn = 1
  MaxSilence = 0
  Permits = 1
  BuilderWait = FALSE
  MayCancel = TRUE
SPECIFICATION PoolFairSpec
PROPERTY CancelEnds
CHECK_DEADLOCK FALSE
