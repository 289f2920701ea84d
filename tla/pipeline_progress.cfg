CONSTANTS
  Submissions = {}
  Runs = {c1}
  Worker = {w1}
  Lane = {l1}
  Attempt = {a1, a2}
  NoAttempt = NoAttempt
  Original = Original
  RecoveryTags = {r1}
  NoJob = NoJob
  StaleAfter = 1
  MaxBeatGap = 1
  MaxTries = 3
  MaxStalls = 1
  SyncLimit = 100
  Disruptions = {"delete", "claim", "complete", "crash", "stall", "sync", "shutdown",
                 "lateTimer", "recoverQuery"}
  MaxDisruptions = 2
SPECIFICATION FairSpec
PROPERTY EveryItemJudged
