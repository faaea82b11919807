SPECIFICATION TrafficSpec
CONSTANTS
  Meshes <- AllMeshes
  Loaded <- Square
INVARIANTS
  JoinedAsMesh
  NoCircularWait
PROPERTIES
  BuildsNetwork
  EveryPacketArrives
CHECK_DEADLOCK FALSE
