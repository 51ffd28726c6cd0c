SPECIFICATION Spec
CONSTANTS
  a = a
  b = b
  c = c
  j1 = j1
  j2 = j2
  j3 = j3
  j4 = j4
  e1 = e1
  e2 = e2
  Drv <- MCDrv
  Job <- MCJob
  Inputs <- MCInputs
  HeadDrv <- MCHeadDrv
  Eval = {e1}
  EvalOf <- MCOneEval
  Closures <- MCNoClosure
  Cap <- MCNoCap
  LoadFirst = TRUE
CHECK_DEADLOCK FALSE
INVARIANT TypeOK
INVARIANT Gated
INVARIANT CountExact
INVARIANT FailurePropagates
INVARIANT DrainedMeansDone
INVARIANT VerdictExactlyOnce
PROPERTY RealisedOnce
