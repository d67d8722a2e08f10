CONSTANTS
  Ports = {0, 1}
  Byte = {0, 1}
  Libraries <- MCLibraries
  MaxSteps = 2
  MaxCalls = 7
SPECIFICATION Spec
INVARIANT ObjectLife
PROPERTY PortsRemember
PROPERTY EndsClosed
