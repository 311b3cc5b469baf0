SPECIFICATION Spec
CONSTANTS
  s1 = s1
  s2 = s2
  v1 = v1
  v2 = v2
  r1 = r1
  r2 = r2
  NoVersion = NoVersion
  FileVersions = {v1, v2}
  ResubmitVias = {"api", "embed"}
  Cascades = {}
  CrashAllowed = TRUE
  Submissions <- One
  Versions = {v1, v2}
  Requests = {r1, r2}
  Batches <- Single
  MaxHistory = 8
SYMMETRY RequestSymmetry
INVARIANTS HistoryLinks
PROPERTIES VersionFrozen InfectedDraftBlocked ImplementsLedger
CHECK_DEADLOCK FALSE
