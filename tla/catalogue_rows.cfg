CONSTANTS
  SeedUser = {u1}
  User = {u1, u2, u3}
  Email = {e1, e2}
  SeedEmail <- SeedEmailOf
  SeedAdmin = u1
  SeedCandidate = u1
  SeedInterviewer = u1
  SeedProblem = {p1}
  Problem = {p1, p2, p3}
  Process = {a1, a2}
  Handler = {h1, h2}
  Worker = {w1}
  MaxSaves = 2
  MaxCrashes = 1
  u1 = u1
  e1 = e1
  None = None
  Idle = Idle
SPECIFICATION Spec
INVARIANTS TypeOK AccountsStand PickedNumbersStand JudgedByOneSave
PROPERTY SeedKeepsChanges
PROPERTY StartsSucceed
SYMMETRY Symmetry
