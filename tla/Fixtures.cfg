SPECIFICATION FairSpec
CONSTANTS
  Targets <- MCTargets
  Kind <- MCKind
  Gzipped <- MCGzipped
  Suites <- MCSuites
  Needs <- MCNeeds
  MaxVersion = 2
  MaxSessions = 2
  MaxFailures = 1
INVARIANTS
  NoUseDuringSetup
  SetupOnce
  UsableWhenReady
PROPERTIES
  EverySuiteSettles
CHECK_DEADLOCK FALSE
