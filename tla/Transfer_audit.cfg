SPECIFICATION FairSpec
CONSTANTS
  f1 = f1
  f2 = f2
  w1 = w1
  w2 = w2
  Files = {f1, f2}
  Workers = {w1, w2}
  Attempts = 3
  MaxStalls = 1
  MaxFaults = 0
  AuditRefuses = TRUE
PROPERTIES FilesArrive
CHECK_DEADLOCK FALSE
