CONSTANTS
  n = n
  e = e
  j1 = j1
  j2 = j2
  Builder = {n, e}
  Native = {n}
  Job = {j1, j2}
  MaxJobs <- MCMaxJobs
  Capable <- MCCapable
  Grace = TRUE
  MaxConn = 2
  MaxSilence = 0
  Permits = 1
  BuilderWait = FALSE
  MayCancel = FALSE
SPECIFICATION DuelSpec
INVARIANTS PoolTypeOK GaugeNeverLeaks PermitOnlyForTransfers
PROPERTY DispatchEnds
CHECK_DEADLOCK FALSE
