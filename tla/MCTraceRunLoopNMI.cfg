CONSTANTS
  AddrSpace = 16
  RefreshMod = 4
  Targets <- MCTargets
  Prefixes <- MCPrefixes
  Regs <- MCRegs
  Vectors <- MCVectors
  Kinds <- MCKinds
  OpForms <- MCOpForms
  OpTstates = {4, 23}
  JumpTstates = {12}
  Configs <- MCConfigs
  MaxSteps = 4
SPECIFICATION Spec
INVARIANT LoopStopLosesNoNMI
