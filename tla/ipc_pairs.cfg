SPECIFICATION Spec
CONSTANTS
  NO_OF_PIPES = 2
  Pids <- MCPids
  Pairs <- MCPairs
  Signals = {3, 4}
  OPCODE = 9
INVARIANTS
  TypeOK
  PipePerPair
  HandlesValid
  OneInFlight
PROPERTIES
  RefinesMailbox
