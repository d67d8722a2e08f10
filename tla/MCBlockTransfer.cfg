CONSTANTS
  Base = 4
  ED = 3
  Op = 2
  Vector = 12
  Instructions <- MCInstructions
  Starts <- MCStarts
  MaxInterrupts = 2
SPECIFICATION Spec
INVARIANT BlockResult
PROPERTY BlockEnds
