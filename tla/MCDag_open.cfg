SPECIFICATION Spec
CONSTANTS
  a = a
  b = b
  c = c
  j1 = j1
  j2 = j2
  j3 = j3
  j4 = j4
  e1 = e1
  e2 = e2
  Drv <- MCDrv
  Job <- MCJob
  Inputs <- MCInputs
  HeadDrv <- MCHeadDrv
  Eval = {e1, e2}
  EvalOf <- MCTwoEvals
  Closures <- MCFullClosure
  Cap = 1
  LoadFirst = FALSE
INVARIANTS CountExact GatedOnGraph
CHECK_DEADLOCK FALSE
