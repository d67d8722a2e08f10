CONSTANTS
  AddrSpace = 4
  MaxEvents = 4
  RowLength = 2
  Bytes <- MCBytes
  Images <- MCImages
  Targets <- MCTargets
  WriteData <- MCWriteData
  Configs <- MCConfigs
  MaxSteps = 2
SPECIFICATION Spec
INVARIANT TypeOK
INVARIANT BusTraceReplays
INVARIANT DumpCovers
PROPERTY StepEnds
PROPERTY OutputEnds
