SPECIFICATION FairSpec
CONSTANTS
  TABLE_SIZE = 3
  FORK_PRIORITY = 24
  PRIO_MOD = 64
  STACK_SIZE = 1
  TOS_USER = 5
  STACK_REGION = 5
  TOS_BOUND = 0
  Images <- MCImages
  Console = "console"
  NULL = NULL
  Calls <- MCCalls
  Loads <- MCLoads
  Priorities = {1, 3}
  ExitCodes = {0, 1}
  KillPids <- KillOthers
INVARIANTS
  TypeOK
  CurrentRunning
  StacksDisjoint
  AgesInOrder
PROPERTIES
  ContextIsolation
  ForkMakesChild
  ChildRunsNext
  NoStarvation
