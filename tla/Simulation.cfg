SPECIFICATION FairSpec
CONSTANTS
  MaxTick = 7
  MaxDrain = 1
  MaxGuest = 2
  SwitchTicks = 2
  Options <- MCOptions
  Archives <- MCArchives
INVARIANTS
  HandoverIsLegal
  MeasuredOnRequestedCpu
  OnSchedule
  StopsAtMaxtick
PROPERTIES
  ProvidesService
  Terminates
CHECK_DEADLOCK FALSE
