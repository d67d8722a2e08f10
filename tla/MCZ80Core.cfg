CONSTANTS
  AddrSpace = 4
  RefreshMod = 2
  Targets <- MCTargets
  Prefixes <- MCPrefixes
  Regs <- MCRegs
  Vectors <- MCVectors
  Kinds <- InstrKinds
  OpForms <- MCOpForms
  OpTstates = {4}
  JumpTstates = {12}
SPECIFICATION Spec
INVARIANT TypeOK
INVARIANT OnlyProgramEnables
INVARIANT ShadowIsOneCall
PROPERTY GateContract
PROPERTY NmiReturnRestores
PROPERTY HaltFreezes
