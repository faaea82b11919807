SPECIFICATION TestSpec
CONSTANTS
  max_checkpoints <- MCMaxCheckpoints
  Interval = 3
  MaxDrain = 1
  EndOfTime <- MCEndOfTime
INVARIANTS
  RestoredUntilExit
CHECK_DEADLOCK FALSE
