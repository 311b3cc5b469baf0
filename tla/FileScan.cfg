SPECIFICATION FairSpec
CONSTANTS
  f1 = f1
  f2 = f2
  p1 = p1
  p2 = p2
  w1 = w1
  w2 = w2
  Files = {f1, f2}
  Hooks = {p1, p2}
  Workers = {w1, w2}
  Attempts = 2
  MaxStalls = 1
  MaxFaults = 1
INVARIANTS InfectedContained CleanDownloadable
PROPERTIES ScanSettles
CHECK_DEADLOCK FALSE
