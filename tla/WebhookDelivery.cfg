SPECIFICATION FairSpec
CONSTANTS
  e1 = e1
  d1 = d1
  d2 = d2
  d3 = d3
  w1 = w1
  w2 = w2

  Endpoints = {e1}
  Deliveries = {d1, d2, d3}
  Slots = {w1, w2}
  Attempts = 2
  Threshold = 2
  FanRetries = 1
  MaxStalls = 1
  MaxRequests = 2
  MaxFaults = 2
  MaxTogether = 2
INVARIANTS LateBounded DisableJustified OutcomeHonest
PROPERTIES DeliverySettles
CHECK_DEADLOCK FALSE
