CONSTANTS
  Problem = {p1, p2}
  Handler = {h1, h2}
  Duration = {1, 2}
  MaxTime = 2
  Recording = {"submission", "run"}
  NotStarted = NotStarted
SPECIFICATION Spec
SYMMETRY ExamSymmetry
INVARIANT TypeOK
INVARIANT RecordsOnAssignments
PROPERTY UnforcedDeleteKeepsWork
PROPERTY NoExtraTime
