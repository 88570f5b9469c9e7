SPECIFICATION Spec
CONSTANTS
  TABLE_SIZE = 2
  FORK_PRIORITY = 24
  PRIO_MOD = 64
  STACK_SIZE = 1
  TOS_USER = 4
  STACK_REGION = 2
  TOS_BOUND = 0
  Images <- MCImages
  Console = "console"
  NULL = NULL
  Calls <- MCCalls
  Loads <- MCLoads
  Priorities = {1, 3}
  ExitCodes = {0, 1}
  KillPids <- KillOthers
INVARIANTS
  StacksInRegion
