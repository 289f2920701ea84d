CONSTANTS
  Problem = {p1, p2}
  First = p1
  Language = {python, cpp}
  Python = python
  Code = {Default, typed}
  Default = Default
  Kind = {}
  Job = {}
  Seconds = 2
  Grain = 2
  MaxDrafts = 1
  MaxJumps = 1
  MaxChanges = 1
  None = None
SPECIFICATION Spec
INVARIANTS TypeOK EditorShowsDraft LockedOnlyWhenExpired
PROPERTY LateProblemIgnored
