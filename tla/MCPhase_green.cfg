SPECIFICATION PhaseSpec
CONSTANTS
  a = a
  b = b
  j1 = j1
  j2 = j2
  j3 = j3
  e1 = e1
  Drv <- MCDrv
  Job <- MCJob
  Inputs <- MCInputs
  HeadDrv <- MCHeadDrv
  Eval = {e1}
  EvalOf <- MCEvalOf
  Closures <- MCClosures
  Cap <- MCNoCap
  LoadFirst = TRUE
  ErrJob = {}
  Permits = 1
  MaxOther = 0
  MaxCrashes = 0
  MayCancel = TRUE
CHECK_DEADLOCK FALSE
INVARIANT GreenMeansBuilt
