SPECIFICATION FlightServiceSpec
CONSTANTS
  Flight <- BothFlights
  Direction <- ArrivesDeparts
  Scheduled <- AtOnce
  Duration <- HalfAnHour
  Pair <- SameAircraft
  NoFlight = "none"
  NominalMin = 35
  BufferMin = 30
  Steps = {30}
  HoldMinutes = {180}
  NoiseMinutes = {30}
  BoardedPct = {0, 100}
  TaxiMinutes = {2}
  FlightRest = {r1}
  HoldConsumer = consumer
  LastMinute = 120
  MaxCalls = 2
  Arrivals <- TwoArrivals
  Departures <- OneDeparture
  AircraftType <- LargeAndSmall
  Times = {1}
  Category <- Extremes
  Rate <- Rates
  StepMinutes = {1}
  PanPanMinutes = 2
  Aircraft <- TwoAircraft
  Body <- Bodies
  Vehicle <- OneOfEach
  TypeOf <- ItsType
  TransitMinutes = 3
  FailureMinutes = {8}
  TickMinutes = {2, 9}
  ArrivalMinutes = {2, 4, 9}
  LastTurnMinute = 58
  MaxExtensions = 1
  Landings <- OneLanding
  Takeoffs <- OneTakeoff
  Gate = {1, 2}
  TerminalOf <- Terminals
  NoGate = 0
  Compatible <- Fitting
  Seeded <- BothAtGate1
  OutboundOf <- ThenDeparts
  NoOutbound = "none"
  GateRest = {r1}
  MaxGateCalls = 3
  Incident <- TwoIncidents
  MaxDecisions = 2
  MaxLosses = 1
  LocationOf <- SameRunway
  Runway <- BothRunways
  ClosedBy <- Closures
  MaxSize = 2
  MaxFaults = 1
  MaxImpacts = 1
PROPERTIES
  EndedForGood
CHECK_DEADLOCK FALSE
