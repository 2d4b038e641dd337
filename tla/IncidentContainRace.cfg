SPECIFICATION Spec
CONSTANTS
  NoTtr = NoTtr
  MaxIncidents = 6
  MaxRoots = 1
  MaxFaults = 0
  CASCADE_MAX_DEPTH = 5
  Consumer = consumer
  Rest = {r1}
  RestOps = {"contain", "resolve"}
  CommandOps = {}
  Injected <- FireOnly
  Detected <- NoKinds
  Drawn <- NoKinds
  Actions = {}
  WeatherChanges = FALSE
  Deltas = {10}
  TtrSample <- ShortestTtr
PROPERTIES
  ResolvedIsFinal
