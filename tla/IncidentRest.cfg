SPECIFICATION Spec
CONSTANTS
  NoTtr = NoTtr
  MaxIncidents = 4
  MaxRoots = 1
  MaxFaults = 1
  CASCADE_MAX_DEPTH = 2
  Consumer = consumer
  Rest = {r1}
  RestOps = {"inject", "resolve"}
  CommandOps = {}
  Injected <- IncursionOnly
  Detected <- NoKinds
  Drawn <- NoKinds
  Actions = {}
  WeatherChanges = FALSE
  Deltas = {10}
  TtrSample <- ShortestTtr
INVARIANTS
  CascadeForest
  CascadesOnce
  ResolutionsAnnounced
