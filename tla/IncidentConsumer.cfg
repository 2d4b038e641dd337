SPECIFICATION Spec
CONSTANTS
  NoTtr = NoTtr
  MaxIncidents = 12
  MaxRoots = 2
  MaxFaults = 0
  CASCADE_MAX_DEPTH = 5
  Consumer = consumer
  Rest = {}
  RestOps = {}
  CommandOps = {"contain", "resolve"}
  Injected <- IncursionBreach
  Detected <- CongestionOnly
  Drawn <- FailureOnly
  Actions = {}
  WeatherChanges = TRUE
  Deltas = {10}
  TtrSample <- ShortestTtr
CONSTRAINT OneInput
INVARIANTS
  TypeOK
  ProtocolsMatchIncidents
  EventsMatchStatus
  OrphansAreDelayed
  OneOpenPerPlace
PROPERTIES
  StatusMovesForward
