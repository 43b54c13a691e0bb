\* One command.
CONSTANTS
  p1 = p1
  p2 = p2
  p3 = p3
  p4 = p4
  NoPid = NoPid
  Pids = {p1, p2}
  MaxBg = 2
  MaxProcs = 1
  MaxJobs = 1
  PidsReused = FALSE
SPECIFICATION Spec
INVARIANTS ListedAreChildren
CHECK_DEADLOCK FALSE
