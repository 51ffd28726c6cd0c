SPECIFICATION PhaseSpec
CONSTANTS
  a = a
  b = b
  j1 = j1
  j2 = j2
  j3 = j3
  e1 = e1
  Drv <- MCDrv
  Job <- MCJob
  Inputs <- MCInputs
  HeadDrv <- MCHeadDrv
  Eval = {e1}
  EvalOf <- MCEvalOf
  Closures <- MCClosures
  Cap <- MCNoCap
  LoadFirst = TRUE
  ErrJob = {j3}
  Permits = 1
  MaxOther = 1
  MaxCrashes = 1
  MayCancel = TRUE
INVARIANTS PhaseTypeOK TasksAreRunning NeverWedged EveryRowDecided
           TallyIsRows GreenMeansBuiltUndisturbed
PROPERTIES VerdictStands PhaseEnds
CHECK_DEADLOCK FALSE
