SPECIFICATION IdentitySpec
CONSTANTS
  MaxEvents = 4
  MaxTime = 4
INVARIANTS ReplayOfApplied InOrderExact DroppedForNewer
PROPERTIES RemovalSticks
CHECK_DEADLOCK FALSE
