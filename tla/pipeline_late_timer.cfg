CONSTANTS
  Submissions = {s1, s2}
  Runs = {}
  Worker = {w1}
  Lane = {l1}
  Attempt = {a1, a2}
  NoAttempt = NoAttempt
  Original = Original
  RecoveryTags = {r1}
  NoJob = NoJob
  StaleAfter = 1
  MaxBeatGap = 1
  MaxTries = 3
  MaxStalls = 1
  SyncLimit = 100
  Disruptions = {"complete", "lateTimer"}
  MaxDisruptions = 2
SPECIFICATION Spec
INVARIANT NoWorkLost
