SPECIFICATION Spec
CONSTANTS
  Codes <- MCCodes
  MaxPrefixes = 2
  Bytes <- MCBytes
  Decimals <- MCDecimals
  Words <- MCWords
  Limbs = 2
INVARIANT TraceNamesTheInstruction
CHECK_DEADLOCK FALSE
