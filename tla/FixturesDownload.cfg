SPECIFICATION Spec
CONSTANTS
  Targets <- MCTargets
  Kind <- MCKind
  Gzipped <- MCGzipped
  Suites <- MCSuites
  Needs <- MCNeeds
  MaxVersion = 1
  MaxSessions = 2
  MaxFailures = 0
INVARIANTS
  DownloadedIfNeeded
CHECK_DEADLOCK FALSE
