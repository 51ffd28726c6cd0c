CONSTANTS
  n = n
  e = e
  j1 = j1
  j2 = j2
  Builder = {n}
  Native = {n}
  Job = {j1}
  MaxJobs <- MCMaxJobs
  Capable <- MCCapable
  Grace = TRUE
  MaxConn = 2
  MaxSilence = 2
  Permits = 1
  BuilderWait = TRUE
  MayCancel = TRUE
SPECIFICATION PoolSpec
INVARIANTS ListedIsLive LiveIsListed EntriesHaveOwners
PROPERTIES VerdictIsGenuine ImplementsRegistry
CHECK_DEADLOCK FALSE
