SPECIFICATION Spec
CONSTANTS
  NO_OF_PIPES = 1
  Pids <- MCPids
  Pairs <- MCPairs
  Signals = {3}
  OPCODE = 9
PROPERTIES
  EstablishedPipesKept
