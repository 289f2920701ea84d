CONSTANTS
  Cases = 3
  OutputLimit = 1
  PipeSize = 2
SPECIFICATION FairSpec
INVARIANT TypeOK
PROPERTY JudgesInOrder
PROPERTY ExecutionEnds
PROPERTY SandboxesEnd
CHECK_DEADLOCK FALSE
