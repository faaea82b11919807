SPECIFICATION Spec
CONSTANTS
  Scripts <- AllScripts
  MaxTick = 5
  MaxDrain = 1
  MaxGuest = 5
INVARIANTS
  ReportOfRegion
  DetailedPeriodsDumped
  ApuStopsAtMaxTick
  RequestsAnswered
PROPERTIES
  EveryRunEnds
CHECK_DEADLOCK FALSE
