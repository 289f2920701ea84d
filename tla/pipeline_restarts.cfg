CONSTANTS
  Submissions = {s1}
  Runs = {}
  Worker = {w1, w2}
  Lane = {l1}
  Attempt = {a1, a2, a3}
  NoAttempt = NoAttempt
  Original = Original
  RecoveryTags = {r1}
  NoJob = NoJob
  StaleAfter = 1
  MaxBeatGap = 1
  MaxTries = 2
  MaxStalls = 1
  SyncLimit = 100
  Disruptions = {"stall", "claim", "complete", "sync", "shutdown", "crash"}
  MaxDisruptions = 1
SPECIFICATION Spec
SYMMETRY PipelineSymmetry
INVARIANT BeatingLeaseKept
INVARIANT ExclusiveExecution
INVARIANT NoWorkLost
