SPECIFICATION Spec
CONSTANTS
  Commands <- MCCommands
  BlockSize <- MCBlockSize
  ModuleMemory <- MCModuleMemory
  MeshParams <- NoC2x4
INVARIANTS
  VersionsNumberNodes
  PortsServeTheirUsers
  BanksOfOwnCluster
  FilesTellCaches
  ReachesMemory
  TranslationsHaveAPort
PROPERTIES
  BuildsNetwork
CHECK_DEADLOCK FALSE
