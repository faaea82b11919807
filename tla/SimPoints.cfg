SPECIFICATION Spec
CONSTANTS
  Analyses <- MCAnalyses
  IntervalLength = 2
  WarmupLength = 3
  ProgramLength = 8
  SwitchInsts = 1
  MaxGuest = 1
INVARIANTS
  WrittenAtStart
  MeasuresItsInterval
  ResumesTheNth
CHECK_DEADLOCK FALSE
