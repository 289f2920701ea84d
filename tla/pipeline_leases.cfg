CONSTANTS
  Submissions = {s1}
  Runs = {}
  Worker = {w1}
  Lane = {l1, l2}
  Attempt = {a1, a2, a3}
  NoAttempt = NoAttempt
  Original = Original
  RecoveryTags = {r1, r2}
  NoJob = NoJob
  StaleAfter = 1
  MaxBeatGap = 3
  MaxTries = 2
  MaxStalls = 1
  SyncLimit = 100
  Disruptions = {"request", "delete", "stall", "lateTimer", "recoverQuery", "claim",
                 "complete", "sync", "shutdown", "crash"}
  MaxDisruptions = 1
SPECIFICATION Spec
SYMMETRY PipelineSymmetry
INVARIANT TypeOK
INVARIANT OneLeaseHolder
PROPERTY VerdictByLeaseHolder
PROPERTY JudgedOnce
