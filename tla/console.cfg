CONSTANTS
  Problem = {p1, p2}
  Slot = {c1, c2}
  MaxCalls = 4
  None = None
SPECIFICATION FairSpec
INVARIANTS TypeOK FormOfEdited ForceOnlyWhenTicked
PROPERTY RemovedStaysRemoved LoadingEnds
