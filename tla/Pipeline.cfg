SPECIFICATION FairSpec
CONSTANTS
  e1 = e1
  Editors = {e1}
  Retries = 1
  Timeouts = TRUE
  MaxFaults = 1
  MaxHistory = 6
INVARIANTS MovesLegal ProofreadNeedsApproval
PROPERTIES AssignmentAdvances
CHECK_DEADLOCK FALSE
