SPECIFICATION FairSpec
CONSTANTS
  s1 = s1
  s2 = s2
  v1 = v1
  v2 = v2
  r1 = r1
  r2 = r2
  NoVersion = NoVersion
  FileVersions = {}
  ResubmitVias = {"api"}
  Cascades = {r1, r2}
  CrashAllowed = FALSE
  Submissions <- Two
  Versions = {v1}
  Requests = {r1, r2}
  Batches <- Distinct
  MaxHistory = 5
INVARIANTS OneDecision NothingAnnouncedUnrecorded
PROPERTIES TerminalFinal WithdrawalAnnounced
CHECK_DEADLOCK FALSE
