SPECIFICATION Spec
CONSTANTS
  s1 = s1
  s2 = s2
  pr = pr
  h1 = h1
  h2 = h2
  Sha = {s1}
  Branch = {pr}
  Handler = {h1}
  Attrs = 2
  MaxPushes = 1
  MaxCrashes = 1
CHECK_DEADLOCK FALSE
INVARIANT DoneHasAllJobs
