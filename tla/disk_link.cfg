SPECIFICATION FairSpec
CHECK_DEADLOCK FALSE
CONSTANTS
  DISK_RETRY = 3
  Blocks <- MCBlocks
  Addresses <- MCAddresses
  Halves = {"a", "b"}
  MAX_STOPS = 2
INVARIANTS
  TypeOK
  InStep
  FailureHasCause
PROPERTIES
  CallReturns
  ImplementsBlockStore
