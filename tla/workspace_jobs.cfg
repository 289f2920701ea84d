CONSTANTS
  Problem = {p1, p2}
  First = p1
  Language = {python}
  Python = python
  Code = {Default}
  Default = Default
  Kind = {"submission", "run"}
  Job = {j1}
  Seconds = 2
  Grain = 2
  MaxDrafts = 0
  MaxJumps = 0
  MaxChanges = 0
  None = None
SPECIFICATION FairSpec
PROPERTY EndShown CountdownEnds
