SPECIFICATION Spec
CONSTANTS
  p1 = p1
  p2 = p2
  Proposal = {p1, p2}
  Nobody = nobody
  Guarded = {p1}
  Advisory = {}
  Raising <- GroundDelay
  TargetOf <- OneTarget
  RecOf <- OwnRec
  Loops = {"shared", "deferring", "dedicated"}
  MaxResults = 1
  MaxInFlight = 2
  MaxFaults = 1
INVARIANTS
  Authorised
  SettledByReceipt
  AtMostOnce
PROPERTIES
  NoLateEffect
  ImplementsActionLifecycle
