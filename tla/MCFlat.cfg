SPECIFICATION FlatSpec
CONSTANTS
  r1 = r1
  r2 = r2
  t1 = t1
  t2 = t2
  t3 = t3
  t4 = t4
  e1 = e1
  e2 = e2
  Repo = {r1, r2}
  Tag = {t1, t2, t3, t4}
  RepoOf <- MCRepoOf
  EvalOf <- MCEvalOf
  Cap = 2
  Weights = {0, 2}
  Unit = 2
INVARIANTS TypeOK FairWhileBusy TurnUnique FifoPerRepo PoppedHasEntry ClosedOnce
PROPERTY RefinesPool
CHECK_DEADLOCK FALSE
