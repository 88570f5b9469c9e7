SPECIFICATION Spec
CONSTANTS
  Lines <- MCLines
  Expected <- MCExpected
  Pids = {1}
  Descriptors <- MCDescriptors
  AT_NULL = 77
  LETTER = 35
  STACK_SIZE = 5000
  CALL_FRAME = 8
  MAIN_FRAME = 64
  Candidates <- MCCandidates
  Divided <- MCDivided
  Weighed <- MCWeighed
INVARIANTS
  TypeOK
  DoesWhatWasTyped
  ShownReadsBack
  ComputesRight
  CountsBits
