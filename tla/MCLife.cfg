SPECIFICATION Spec
CONSTANTS
  s1 = s1
  s2 = s2
  pr = pr
  h1 = h1
  h2 = h2
  Sha = {s1, s2}
  Branch = {pr}
  Handler = {h1, h2}
  Attrs = 1
  MaxPushes = 2
  MaxCrashes = 1
CHECK_DEADLOCK FALSE
SYMMETRY Symmetry
INVARIANTS TypeOK NobodyForgotten SupersededIsSignalled OneShaPerBranch
PROPERTIES VerdictStands RowStands
