SPECIFICATION Spec
CONSTANTS
  Commands <- TesterCommands
  BlockSize <- MCBlockSize
  ModuleMemory <- MCModuleMemory
  MeshParams <- NoC2x4
INVARIANTS
  EveryCpuHasL2
CHECK_DEADLOCK FALSE
