SPECIFICATION FairSpec
CONSTANTS
  h1 = h1
  h2 = h2
  Handlers = {h1, h2}
  Retries = 1
  MaxFaults = 2
  Editing = TRUE
INVARIANTS AppliedOnce NoGhostEvents SignedInDocumenso
PROPERTIES CompletedReopened SignatureArrives
CHECK_DEADLOCK FALSE
