\* Two commands of up to two processes, four pids that are reused, room for two background
\* processes; signals may be coalesced.
CONSTANTS
  p1 = p1
  p2 = p2
  p3 = p3
  p4 = p4
  NoPid = NoPid
  Pids = {p1, p2, p3, p4}
  MaxBg = 2
  MaxProcs = 2
  MaxJobs = 2
  PidsReused = TRUE
  EarlierPids = {p1, p2, p3}
SPECIFICATION VersionsSpec
INVARIANTS TableFits LiveAreListed FirstAwaited EarlierShellSound
PROPERTIES ZombiesReaped ForegroundReturns GroupReported
CHECK_DEADLOCK FALSE
