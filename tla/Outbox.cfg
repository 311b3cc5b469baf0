\* Two overlapping pollers with a poison event at the head of the queue, a
\* crash and an error.
SPECIFICATION FairSpec
CONSTANTS
  p1 = p1
  p2 = p2
  Pollers <- TwoPollers
  NumEvents = 3
  BatchSize = 2
  Poison <- FirstIsPoison
  MaxCrashes = 1
  MaxFailures = 1
INVARIANTS
  YoungExclusive
  YoungSentOnce
  DoneWasSent
PROPERTIES
  YoungDoneStays
  EventuallyProcessed
