SPECIFICATION FairLedgerSpec
CONSTANTS
  Event <- Events
  Topic <- ClockAndFlights
  Log <- NeverBack
  Envelope <- Envelopes
  Flight <- OneFlight
  Direction <- OnlyDeparts
  NoEvent = "rates"
  StartTime = 0
  DayLength = 4
  HourLength = 60
  KeptDays = 1
  PageSize = 2
  MaxFaults = 1
  MaxRates = 1
PROPERTIES
  FactsArrive
CHECK_DEADLOCK FALSE
