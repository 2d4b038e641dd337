SPECIFICATION AirportSpec
CONSTANTS
  Parts = {"failure", "redirection"}
  Bag <- TwoBags
  Departing <- Departs
  Arriving <- Arrives
  FlightOf <- OneOfEachWay
  Terminals <- OneTerminal
  TerminalOf <- GateInA
  Induction <- InductionA
  TERMINAL_SCREENING <- ScreeningA
  TERMINAL_MAKEUP <- MakeUpA
  ZONE_THROUGHPUT <- SlowZones
  BeltsOf <- BeltsOfA
  Incident <- TwoIncidents
  MaxDecisions = 2
  MaxLosses = 1
  FAILURE_IMPACT <- Power
  Deltas = {1}
  MaxBagFaults = 1
  MaxRedirects = 1
  Pax <- FourPax
  Assisted = {"p1", "p2"}
  Leaving <- Departs
  Landing <- Arrives
  ON_FLIGHT <- OneLands
  Checkpoints <- OneTerminal
  CheckpointOf <- CheckpointA
  BreachAt <- BothAtA
  Chairs <- OneChair
  MaxPaxFaults = 1
  Event <- Events
  Topic <- ClockAndFlights
  Log <- Logs
  Envelope <- Envelopes
  Flight <- OneFlight
  Direction <- OnlyDeparts
  NoEvent = "rates"
  StartTime = 0
  DayLength = 4
  HourLength = 60
  KeptDays = 1
  PageSize = 2
  MaxFaults = 1
  MaxRates = 1
  ClockRest <- TwoRequests
  SIM_START_TIME = 1
  DayMinutes = 4
  SeedingMinute = 3
  ClockSteps = {1, 2}
  Offsets = {0, 2}
  RunMinutes = 2
  SNAPSHOT_INTERVAL = 2
  Nothing = Nothing
  LastTime = 6
  MaxRequests = 2
  MaxClockFaults = 1
PROPERTIES
  FlaggedStaysOff
CHECK_DEADLOCK FALSE
