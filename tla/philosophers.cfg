SPECIFICATION FairSpec
CONSTANTS
  NO_OF_PHILOSOPHERS = 3
  NO_OF_SLOTS = 2
  MAX_LAUNCHES = 1
INVARIANTS
  TypeOK
  NeighboursApart
PROPERTIES
  ReadyOnce
  EveryoneGetsTurn
  SignalsKeepComing
