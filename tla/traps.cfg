SPECIFICATION FairSpec
CONSTANTS
  TABLE_SIZE = 2
  ConsoleCalls <- MCConsoleCalls
  ProgramCalls <- MCProgramCalls
INVARIANTS
  TypeOK
  UserOnly
PROPERTIES
  RefinesProcesses
  TicksKeepComing
  ProgramsGoOn
