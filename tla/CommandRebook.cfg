SPECIFICATION FairSpec
CONSTANTS
  p1 = p1
  p2 = p2
  Proposal = {p1, p2}
  Nobody = nobody
  Guarded = {}
  Advisory = {}
  Raising <- Rebooking
  TargetOf <- TwoTargets
  RecOf <- OwnRec
  Loops = {"dedicated"}
  MaxResults = 1
  MaxInFlight = 1
  MaxFaults = 0
PROPERTIES
  Settles
