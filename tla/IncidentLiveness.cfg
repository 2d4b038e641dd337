SPECIFICATION FairSpec
CONSTANTS
  NoTtr = NoTtr
  MaxIncidents = 4
  MaxRoots = 1
  MaxFaults = 0
  CASCADE_MAX_DEPTH = 3
  Consumer = consumer
  Rest = {}
  RestOps = {}
  CommandOps = {}
  Injected <- IncursionOnly
  Detected <- NoKinds
  Drawn <- NoKinds
  Actions = {"ground_delay_program"}
  WeatherChanges = FALSE
  Deltas = {1}
  TtrSample <- ShortestTtr
PROPERTIES
  CountdownElapses
  PendingFires
