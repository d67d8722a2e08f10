CONSTANTS
  AddrSpace = 4
  RefreshMod = 1
  Targets <- MCTargets
  Prefixes <- MCPrefixes
  Regs <- MCRegs
  Vectors <- MCVectors
  Kinds <- MCKinds
  OpForms <- MCOpForms
  OpTstates = {4}
  JumpTstates = {12}
  Configs <- MCConfigs
  MaxSteps = 3
  Sessions <- MCSessions
  MaxInterrupts = 1
  MaxDamaged = 1
SPECIFICATION Spec
INVARIANT TypeOK
INVARIANT AnswersMatch
INVARIANT AckModeAgreed
INVARIANT PromptInterrupt
PROPERTY BreakpointHolds
PROPERTY GateSafety
PROPERTY Answered
PROPERTY SessionEnds
