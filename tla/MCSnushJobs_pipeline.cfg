\* One pipeline.
CONSTANTS
  p1 = p1
  p2 = p2
  p3 = p3
  p4 = p4
  NoPid = NoPid
  Pids = {p1, p2}
  MaxBg = 2
  MaxProcs = 2
  MaxJobs = 1
  PidsReused = FALSE
SPECIFICATION Spec
INVARIANTS AllAwaited
CHECK_DEADLOCK FALSE
