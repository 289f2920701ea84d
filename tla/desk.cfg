CONSTANTS
  Candidate = {a, b}
  Problem = {p1, p2}
  Slot = {l1, l2}
  MaxAssigned = 2
  None = None
SPECIFICATION FairSpec
INVARIANTS TypeOK ResultsTogether NotesWhereWritten ReviewsAssigned
PROPERTY LoadEnds
