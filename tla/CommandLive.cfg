SPECIFICATION FairSpec
CONSTANTS
  p1 = p1
  p2 = p2
  Proposal = {p1}
  Nobody = nobody
  Guarded = {p1}
  Advisory = {}
  Raising <- NeverRaises
  TargetOf <- TwoTargets
  RecOf <- OwnRec
  Loops = {"shared", "deferring", "dedicated"}
  MaxResults = 1
  MaxInFlight = 2
  MaxFaults = 2
PROPERTIES
  Settles
