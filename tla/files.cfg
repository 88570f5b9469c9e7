SPECIFICATION Spec
CONSTANTS
  MAX_FILES = 2
  MAX_DATA_LINES = 4
  MAX_CONTENT = 2
  MAX_NAME = 1
  Names <- MCNames
  Texts <- MCTexts
  MAX_FAILURES = 1
  MAX_CRASHES = 1
  MAX_READ = 6
INVARIANTS
  TypeOK
  NoSharedBlocks
  ContentIntact
  NamesUnique
  ReadIsPrefix
PROPERTIES
  RestartKeepsFiles
