--------------------------- MODULE JudgePipeline ---------------------------
(***************************************************************************)
(* The judging pipeline: the API that inserts an item and enqueues a job,  *)
(* the BullMQ queue, the PostgreSQL rows of submissions and custom runs,   *)
(* and the judge-worker processes that claim, execute and complete items   *)
(* under an execution lease, with heartbeats and recovery.                 *)
(*                                                                         *)
(* Time is relative: row[i].age is the time since updated_at of a running  *)
(* row, slot[s].beat the time since the lease was last renewed, timer[w]   *)
(* and last[w] the times since the recovery timer fired and since the last *)
(* recovery of each kind.  All saturate just past the point where the code *)
(* stops telling values apart, so no behaviour is cut off.                 *)
(***************************************************************************)
EXTENDS Naturals, FiniteSets

CONSTANTS
  Submissions, Runs,   \* the items: rows of submissions and of custom_runs
  Worker,              \* judge-worker processes
  Lane,                \* JUDGE_QUEUE_CONCURRENCY many: the jobs a process runs at once
  Attempt, NoAttempt,  \* judge_attempt_id values, and SQL null
  Original,            \* tag of the job id the API uses
  RecoveryTags,        \* tags of recovery job ids; bounds how many live at once
  NoJob,
  StaleAfter,          \* JUDGE_STALE_THRESHOLD_MS, in ticks
  MaxBeatGap,          \* longest time between two renewals of a live execution
  MaxTries,            \* judgeQueueJobOptions.attempts
  MaxStalls,           \* BullMQ's maxStalledCount
  SyncLimit,           \* limit of listQueued*Ids
  Disruptions,         \* the kinds of disruption a run allows
  MaxDisruptions       \* how many of them a behaviour contains

Item == Submissions \cup Runs
KindOf(i) == IF i \in Submissions THEN "submission" ELSE "custom_run"
Kind == {KindOf(i) : i \in Item}
Slot == Worker \X Lane
Tag == {Original} \cup RecoveryTags
JobId == Item \X Tag

ASSUME PipelineAssumption ==
  /\ Submissions \cap Runs = {}
  /\ NoAttempt \notin Attempt
  /\ Original \notin RecoveryTags
  /\ NoJob \notin JobId
  /\ StaleAfter \in Nat /\ MaxBeatGap \in Nat
  /\ MaxTries \in Nat /\ MaxStalls \in Nat /\ SyncLimit \in Nat
  /\ MaxDisruptions \in Nat

VARIABLES
  row,       \* the item rows: status, judge_attempt_id, age of updated_at
  request,   \* API handlers that inserted a row and have not enqueued its job
  job,       \* BullMQ: state, failed tries, stalls and lock holder of each job
  slot,      \* the jobs being processed
  mode,      \* process state of each worker
  boot,      \* how far the startup sequence of a worker got
  pass,      \* the recovery pass of a worker that is in progress
  requeue,   \* items a worker has read from the database and still enqueues
  timer,     \* time since the recovery timer of a worker fired
  last,      \* time since last{Submission,CustomRun}RecoveryAt
  budget     \* disruptions that may still happen

rowVars == <<row, request>>
workerVars == <<mode, boot, pass, requeue, timer, last>>
vars == <<row, request, job, slot, mode, boot, pass, requeue, timer, last, budget>>

Outcome == {"finished", "failed"}
Status == {"none", "queued", "running", "deleted"} \cup Outcome
Phase == {"idle", "recovering", "claiming", "executing", "returning", "failing"}
JobState == {"absent", "waiting", "active", "delayed", "ended"}
BootPhase == {"recover", "syncSubmissions", "syncRuns", "ready"}

Row == [status : Status, attempt : Attempt \cup {NoAttempt}, age : 0..(StaleAfter + 1)]
Job == [st : JobState, tries : 0..MaxTries, stalls : 0..MaxStalls, by : SUBSET Slot]
SlotState == [phase : Phase, job : JobId \cup {NoJob},
              attempt : Attempt \cup {NoAttempt}, beat : 0..MaxBeatGap]
Pass == [waiting : SUBSET Kind, ids : SUBSET Item, lost : BOOLEAN]

\* Null values.
NoRow == [status |-> "none", attempt |-> NoAttempt, age |-> 0]
AbsentJob == [st |-> "absent", tries |-> 0, stalls |-> 0, by |-> {}]
IdleSlot == [phase |-> "idle", job |-> NoJob, attempt |-> NoAttempt, beat |-> 0]
NoPass == [waiting |-> {}, ids |-> {}, lost |-> FALSE]
NewPass == [waiting |-> Kind, ids |-> {}, lost |-> FALSE]

TypeOK ==
  /\ row \in [Item -> Row]
  /\ request \in SUBSET Item
  /\ job \in [JobId -> Job]
  /\ slot \in [Slot -> SlotState]
  /\ mode \in [Worker -> {"down", "up", "draining"}]
  /\ boot \in [Worker -> BootPhase]
  /\ pass \in [Worker -> Pass]
  /\ requeue \in [Worker -> SUBSET Item]
  /\ timer \in [Worker -> 0..StaleAfter]
  /\ last \in [Worker -> [Kind -> 0..StaleAfter]]
  /\ budget \in 0..MaxDisruptions

Init ==
  /\ row = [i \in Item |-> NoRow]
  /\ request = {}
  /\ job = [j \in JobId |-> AbsentJob]
  /\ slot = [s \in Slot |-> IdleSlot]
  /\ mode = [w \in Worker |-> "down"]
  /\ boot = [w \in Worker |-> "recover"]
  /\ pass = [w \in Worker |-> NoPass]
  /\ requeue = [w \in Worker |-> {}]
  /\ timer = [w \in Worker |-> 0]
  /\ last = [w \in Worker |-> [k \in Kind |-> 0]]
  /\ budget = MaxDisruptions

\* One disruption of the given kind happens in this step.
Disrupt(kind) == /\ kind \in Disruptions
                 /\ budget > 0
                 /\ budget' = budget - 1

-----------------------------------------------------------------------------
(* Helpers.  The definitions named ...Mutant are what a plausible bug would   *)
(* make of the definition after them: they show what a property depends on.  *)

ItemOf(s) == slot[s].job[1]
WorkerOf(s) == s[1]
SlotKind(s) == KindOf(ItemOf(s))
Live(s) == slot[s].phase = "executing"   \* from the claim until complete* returns
HoldsLeaseMutant(s) == row[ItemOf(s)].status = "running"   \* forgets the attempt
HoldsLease(s) == /\ row[ItemOf(s)].status = "running"
                 /\ row[ItemOf(s)].attempt = slot[s].attempt

Queued(k) == {i \in Item : KindOf(i) = k /\ row[i].status = "queued"}
StaleMutant(k) == {i \in Item : /\ KindOf(i) = k       \* >= instead of >
                                /\ row[i].status = "running"
                                /\ row[i].age >= StaleAfter}
SubmissionsOnlyMutant(k) == {i \in Submissions : /\ KindOf(i) = k   \* no custom runs
                                                 /\ row[i].status = "running"
                                                 /\ row[i].age > StaleAfter}
Stale(k) == {i \in Item : /\ KindOf(i) = k
                          /\ row[i].status = "running"
                          /\ row[i].age > StaleAfter}

\* The row a recovery query leaves behind.
Requeued == [status |-> "queued", attempt |-> NoAttempt, age |-> 0]
RecoverStale(k) == row' = [i \in Item |-> IF i \in Stale(k) THEN Requeued ELSE row[i]]

\* randomUUID() never returns a value that is still stored or held somewhere.
UsedAttempts == {row[i].attempt : i \in Item} \cup {slot[s].attempt : s \in Slot}
FreshAttemptsMutant == Attempt                        \* a lease id derived from the item
FreshAttempts == Attempt \ UsedAttempts

\* BullMQ's add: an id that is still known, even completed or failed, is ignored.
AddJob(j) == IF job[j].st = "absent"
             THEN job' = [job EXCEPT ![j] = [AbsentJob EXCEPT !.st = "waiting"]]
             ELSE UNCHANGED job
FreshTagsMutant(i) == {Original}                      \* recovery reuses the item's job id
FreshTags(i) == {t \in RecoveryTags : job[<<i, t>>].st = "absent"}

\* A job that completed or failed for good: the API's id stays known
\* (removeOnComplete and removeOnFail are 500), the id of a recovery job is never
\* added again, so its record can be reused.
Ended(j) == IF j[2] = Original THEN [AbsentJob EXCEPT !.st = "ended"] ELSE AbsentJob

TimerOverdueMutant(w) == mode[w] = "up" /\ timer[w] > StaleAfter   \* a period too long
TimerOverdue(w) == mode[w] = "up" /\ timer[w] = StaleAfter

-----------------------------------------------------------------------------
(* The API *)

\* createSubmission / createCustomRun commits the queued row.
Create(i) ==
  /\ row[i].status = "none"
  /\ row' = [row EXCEPT ![i].status = "queued"]
  /\ request' = request \cup {i}
  /\ UNCHANGED <<job, slot, workerVars, budget>>

\* judgeQueue.enqueue with the item's own job id.
Enqueue(i) ==
  /\ i \in request
  /\ request' = request \ {i}
  /\ AddJob(<<i, Original>>)
  /\ UNCHANGED <<row, slot, workerVars, budget>>

\* The handler dies between the insert and the enqueue.
LoseRequest(i) ==
  /\ i \in request
  /\ Disrupt("request")
  /\ request' = request \ {i}
  /\ UNCHANGED <<row, job, slot, workerVars>>

\* deleteProblem(force), or the cascade from problems or users.
Delete(i) ==
  /\ row[i].status \in {"queued", "running"} \cup Outcome
  /\ Disrupt("delete")
  /\ row' = [row EXCEPT ![i] = [NoRow EXCEPT !.status = "deleted"]]
  /\ UNCHANGED <<request, job, slot, workerVars>>

-----------------------------------------------------------------------------
(* BullMQ *)

\* A free slot of a running worker takes a waiting job and its lock, and starts it.
Pick(s, j, phase) ==
  /\ mode[WorkerOf(s)] = "up"
  /\ slot[s].phase = "idle"
  /\ job[j].st = "waiting"
  /\ job' = [job EXCEPT ![j].st = "active", ![j].by = {s}]
  /\ slot' = [slot EXCEPT ![s] = [IdleSlot EXCEPT !.phase = phase, !.job = j]]

\* The backoff delay of a failed try is over.
Promote(j) ==
  /\ job[j].st = "delayed"
  /\ job' = [job EXCEPT ![j].st = "waiting"]
  /\ UNCHANGED <<rowVars, slot, workerVars, budget>>

MayStall(j) == job[j].stalls < MaxStalls

\* The lock of an active job expired: its worker is gone, or (a disruption)
\* could not renew it.  The stalled check hands the job out again, or fails it.
Stalled(j) ==
  /\ job[j].st = "active"
  /\ \/ (\A s \in job[j].by : slot[s].job # j) /\ UNCHANGED budget
     \/ (\E s \in job[j].by : slot[s].job = j) /\ Disrupt("stall")
  /\ job' = [job EXCEPT ![j] =
               IF MayStall(j)
               THEN [job[j] EXCEPT !.st = "waiting", !.stalls = @ + 1, !.by = {}]
               ELSE Ended(j)]
  /\ UNCHANGED <<rowVars, slot, workerVars>>

HoldsLock(s, j) == job[j].st = "active" /\ s \in job[j].by

\* The processor resolved: the job completes, if this slot still has its lock.
Ack(s) ==
  /\ slot[s].phase = "returning"
  /\ LET j == slot[s].job
     IN  job' = [job EXCEPT ![j] = IF HoldsLock(s, j) THEN Ended(j) ELSE @]
  /\ slot' = [slot EXCEPT ![s] = IdleSlot]
  /\ UNCHANGED <<rowVars, workerVars, budget>>

\* The processor rejected: the job is retried after a delay until its tries are
\* used up, if this slot still has its lock.
Rejected(s, j) ==
  IF ~HoldsLock(s, j) THEN job[j]
  ELSE IF job[j].tries + 1 < MaxTries
  THEN [job[j] EXCEPT !.st = "delayed", !.tries = job[j].tries + 1, !.by = {}]
  ELSE Ended(j)

Reject(s) ==
  /\ slot[s].phase = "failing"
  /\ job' = [job EXCEPT ![slot[s].job] = Rejected(s, slot[s].job)]
  /\ slot' = [slot EXCEPT ![s] = IdleSlot]
  /\ UNCHANGED <<rowVars, workerVars, budget>>

-----------------------------------------------------------------------------
(* Processing one job: processSubmissionById / processCustomRunById *)

Goto(s, phase) == slot' = [slot EXCEPT ![s].phase = phase]
RecoveryDue(w, k) == last[w][k] >= StaleAfter

\* The job starts and maybeRecoverStale* returns at once.
StartJob(s, j) ==
  /\ ~RecoveryDue(WorkerOf(s), KindOf(j[1]))
  /\ Pick(s, j, "claiming")
  /\ UNCHANGED <<rowVars, workerVars, budget>>

\* The job starts and maybeRecoverStale* sends the recovery query.  The recovery
\* timer has the same period, so this happens only when its callback is late.
StartJobRecovering(s, j) ==
  LET w == WorkerOf(s)
      k == KindOf(j[1])
  IN  /\ RecoveryDue(w, k)
      /\ Disrupt("lateTimer")
      /\ Pick(s, j, "recovering")
      /\ last' = [last EXCEPT ![w][k] = 0]
      /\ UNCHANGED <<rowVars, mode, boot, pass, requeue, timer>>

\* The query commits; its caller drops the ids it returns.
MaybeRecover(s) ==
  /\ slot[s].phase = "recovering"
  /\ RecoverStale(SlotKind(s))
  /\ Goto(s, "claiming")
  /\ UNCHANGED <<request, job, workerVars, budget>>

MaybeRecoverFails(s) ==
  /\ slot[s].phase = "recovering"
  /\ Disrupt("recoverQuery")
  /\ Goto(s, "failing")
  /\ UNCHANGED <<rowVars, job, workerVars>>

\* The update of claim*ById: only a queued row, under a new lease.
TakeLeaseMutant(i, a) ==                              \* status is not in the where
  row' = [row EXCEPT ![i] = [status |-> "running", attempt |-> a, age |-> 0]]
TakeLease(i, a) ==
  /\ row[i].status = "queued"
  /\ row' = [row EXCEPT ![i] = [status |-> "running", attempt |-> a, age |-> 0]]

Claim(s) ==
  /\ slot[s].phase = "claiming"
  /\ \E a \in FreshAttempts :
       /\ TakeLease(ItemOf(s), a)
       /\ slot' = [slot EXCEPT ![s].phase = "executing", ![s].attempt = a]
  /\ UNCHANGED <<request, job, workerVars, budget>>

\* Zero rows updated: the job is skipped.
ClaimNothing(s) ==
  /\ slot[s].phase = "claiming"
  /\ row[ItemOf(s)].status # "queued"
  /\ Goto(s, "returning")
  /\ UNCHANGED <<rowVars, job, workerVars, budget>>

\* The claim rolled back, or it committed and the answer was lost.
ClaimFails(s) ==
  /\ slot[s].phase = "claiming"
  /\ Disrupt("claim")
  /\ \/ UNCHANGED row
     \/ \E a \in FreshAttempts : TakeLease(ItemOf(s), a)
  /\ Goto(s, "failing")
  /\ UNCHANGED <<request, job, workerVars>>

\* touchRunning*: renews the lease if it is still this execution's.
Heartbeat(s) ==
  /\ Live(s)
  /\ slot[s].beat > 0
  /\ slot' = [slot EXCEPT ![s].beat = 0]
  /\ row' = [row EXCEPT ![ItemOf(s)].age = IF HoldsLease(s) THEN 0 ELSE @]
  /\ UNCHANGED <<request, job, workerVars, budget>>

\* The update of complete*: only for the holder of the lease.  The outcome is the
\* executor's result, or "failed" when the executor threw.
WriteVerdict(s) ==
  /\ HoldsLease(s)
  /\ \E o \in Outcome :
       row' = [row EXCEPT ![ItemOf(s)] = [status |-> o, attempt |-> NoAttempt, age |-> 0]]

EndExecution(s, phase) ==
  slot' = [slot EXCEPT ![s] = [IdleSlot EXCEPT !.phase = phase, !.job = slot[s].job]]

Complete(s) ==
  /\ Live(s)
  /\ WriteVerdict(s)
  /\ EndExecution(s, "returning")
  /\ UNCHANGED <<request, job, workerVars, budget>>

\* committed = false: a superseded execution's result is discarded.
DiscardLate(s) ==
  /\ Live(s)
  /\ ~HoldsLease(s)
  /\ EndExecution(s, "returning")
  /\ UNCHANGED <<rowVars, job, workerVars, budget>>

\* complete* throws: it rolled back, or it committed and the answer was lost.
CompleteFails(s) ==
  /\ Live(s)
  /\ Disrupt("complete")
  /\ \/ UNCHANGED row
     \/ WriteVerdict(s)
  /\ EndExecution(s, "failing")
  /\ UNCHANGED <<request, job, workerVars>>

-----------------------------------------------------------------------------
(* The worker process: startup, recovery timer, shutdown, crash *)

\* A process starts: it begins its first recovery pass, and takes jobs at once.
Start(w) ==
  /\ mode[w] = "down"
  /\ mode' = [mode EXCEPT ![w] = "up"]
  /\ boot' = [boot EXCEPT ![w] = "recover"]
  /\ pass' = [pass EXCEPT ![w] = NewPass]
  /\ UNCHANGED <<rowVars, job, slot, requeue, timer, last, budget>>

\* The interval callback: recoverAndRequeue starts both recovery queries.
StartPass(w) ==
  /\ TimerOverdue(w)
  /\ pass[w].waiting = {}
  /\ pass' = [pass EXCEPT ![w] = NewPass]
  /\ timer' = [timer EXCEPT ![w] = 0]
  /\ last' = [last EXCEPT ![w] = [k \in Kind |-> 0]]
  /\ UNCHANGED <<rowVars, job, slot, mode, boot, requeue, budget>>

\* The Promise.all of runRecoveryPass has one answer less to wait for.
StillWaiting(w, p) ==
  /\ p.waiting # {}
  /\ pass' = [pass EXCEPT ![w] = p]
  /\ UNCHANGED <<mode, boot, requeue, timer>>

\* Both queries answered: their ids go to the enqueue loop.
PassDone(w, p) ==
  /\ p.waiting = {} /\ ~p.lost
  /\ requeue' = [requeue EXCEPT ![w] = @ \cup p.ids]
  /\ pass' = [pass EXCEPT ![w] = NoPass]
  /\ boot' = [boot EXCEPT ![w] = IF @ = "recover" THEN "syncSubmissions" ELSE @]
  /\ UNCHANGED <<mode, timer>>

\* A query failed: the other one's ids are lost with it.  The failure of a timer's
\* pass is logged, that of the first pass shuts the process down.
PassFailed(w, p) ==
  /\ p.waiting = {} /\ p.lost
  /\ pass' = [pass EXCEPT ![w] = NoPass]
  /\ IF boot[w] = "recover"
     THEN /\ mode' = [mode EXCEPT ![w] = "draining"]
          /\ timer' = [timer EXCEPT ![w] = 0]
     ELSE UNCHANGED <<mode, timer>>
  /\ UNCHANGED <<boot, requeue>>

PassAnswer(w, p) == StillWaiting(w, p) \/ PassDone(w, p) \/ PassFailed(w, p)

PassQuery(w, k) ==
  /\ k \in pass[w].waiting
  /\ RecoverStale(k)
  /\ PassAnswer(w, [pass[w] EXCEPT !.waiting = @ \ {k}, !.ids = @ \cup Stale(k)])
  /\ UNCHANGED <<request, job, slot, last, budget>>

PassQueryFails(w, k) ==
  /\ k \in pass[w].waiting
  /\ Disrupt("recoverQuery")
  /\ PassAnswer(w, [pass[w] EXCEPT !.waiting = @ \ {k}, !.lost = TRUE])
  /\ UNCHANGED <<rowVars, job, slot, last>>

\* recoveryQueue.add under a job id nobody used before.
Requeue(w, i) ==
  /\ i \in requeue[w]
  /\ requeue' = [requeue EXCEPT ![w] = @ \ {i}]
  /\ \E t \in FreshTags(i) : AddJob(<<i, t>>)
  /\ UNCHANGED <<rowVars, slot, mode, boot, pass, timer, last, budget>>

SyncKind(w) == IF boot[w] = "syncSubmissions" THEN "submission" ELSE "custom_run"
Syncing(w) == /\ mode[w] # "down"
              /\ boot[w] \in {"syncSubmissions", "syncRuns"}
              /\ requeue[w] = {}

\* syncQueued*: list at most SyncLimit queued rows and enqueue them.
SyncQueued(w) ==
  /\ Syncing(w)
  /\ \E ids \in SUBSET Queued(SyncKind(w)) :
       /\ \/ ids = Queued(SyncKind(w))
          \/ Cardinality(ids) = SyncLimit
       /\ Cardinality(ids) =< SyncLimit
       /\ requeue' = [requeue EXCEPT ![w] = ids]
  /\ boot' = [boot EXCEPT ![w] = IF @ = "syncSubmissions" THEN "syncRuns" ELSE "ready"]
  /\ UNCHANGED <<rowVars, job, slot, mode, pass, timer, last, budget>>

SyncFails(w) ==
  /\ Syncing(w)
  /\ Disrupt("sync")
  /\ mode' = [mode EXCEPT ![w] = "draining"]
  /\ timer' = [timer EXCEPT ![w] = 0]
  /\ UNCHANGED <<rowVars, job, slot, boot, pass, requeue, last>>

\* SIGTERM: the timer is cleared, active jobs run to their end.
Shutdown(w) ==
  /\ mode[w] = "up"
  /\ Disrupt("shutdown")
  /\ mode' = [mode EXCEPT ![w] = "draining"]
  /\ timer' = [timer EXCEPT ![w] = 0]
  /\ UNCHANGED <<rowVars, job, slot, boot, pass, requeue, last>>

\* The memory of a process is gone.
Gone(w) ==
  /\ mode' = [mode EXCEPT ![w] = "down"]
  /\ boot' = [boot EXCEPT ![w] = "recover"]
  /\ pass' = [pass EXCEPT ![w] = NoPass]
  /\ requeue' = [requeue EXCEPT ![w] = {}]
  /\ timer' = [timer EXCEPT ![w] = 0]
  /\ last' = [last EXCEPT ![w] = [k \in Kind |-> 0]]

\* process.exit after the queue worker closed.
Exit(w) ==
  /\ mode[w] = "draining"
  /\ \A s \in Slot : WorkerOf(s) = w => slot[s].phase = "idle"
  /\ Gone(w)
  /\ UNCHANGED <<rowVars, job, slot, budget>>

Crash(w) ==
  /\ mode[w] # "down"
  /\ Disrupt("crash")
  /\ Gone(w)
  /\ slot' = [s \in Slot |-> IF WorkerOf(s) = w THEN IdleSlot ELSE slot[s]]
  /\ UNCHANGED <<rowVars, job>>

\* Time passes.  A live execution renews its lease at least every MaxBeatGap,
\* and an interval callback is late by less than a tick.
Tick ==
  /\ \A s \in Slot : Live(s) => slot[s].beat < MaxBeatGap
  /\ \A w \in Worker : ~TimerOverdue(w)
  /\ row' = [i \in Item |->
       IF row[i].status = "running" /\ row[i].age =< StaleAfter
       THEN [row[i] EXCEPT !.age = @ + 1] ELSE row[i]]
  /\ slot' = [s \in Slot |->
       IF Live(s) THEN [slot[s] EXCEPT !.beat = @ + 1] ELSE slot[s]]
  /\ timer' = [w \in Worker |-> IF mode[w] = "up" THEN timer[w] + 1 ELSE timer[w]]
  /\ last' = [w \in Worker |-> [k \in Kind |->
       IF mode[w] # "down" /\ last[w][k] < StaleAfter THEN last[w][k] + 1 ELSE last[w][k]]]
  /\ UNCHANGED <<request, job, mode, boot, pass, requeue, budget>>

-----------------------------------------------------------------------------
ApiStep(i) == Create(i) \/ Enqueue(i) \/ LoseRequest(i) \/ Delete(i)
QueueStep(j) == Promote(j) \/ Stalled(j)
SlotStep(s) ==
  \/ \E j \in JobId : StartJob(s, j) \/ StartJobRecovering(s, j)
  \/ MaybeRecover(s) \/ MaybeRecoverFails(s)
  \/ Claim(s) \/ ClaimNothing(s) \/ ClaimFails(s)
  \/ Heartbeat(s)
  \/ Complete(s) \/ DiscardLate(s) \/ CompleteFails(s)
  \/ Ack(s) \/ Reject(s)
WorkerStep(w) ==
  \/ Start(w) \/ StartPass(w)
  \/ \E k \in Kind : PassQuery(w, k) \/ PassQueryFails(w, k)
  \/ \E i \in Item : Requeue(w, i)
  \/ SyncQueued(w) \/ SyncFails(w)
  \/ Shutdown(w) \/ Exit(w) \/ Crash(w)

Next ==
  \/ \E i \in Item : ApiStep(i)
  \/ \E j \in JobId : QueueStep(j)
  \/ \E s \in Slot : SlotStep(s)
  \/ \E w \in Worker : WorkerStep(w)
  \/ Tick

Spec == Init /\ [][Next]_vars

\* The service keeps its processes running (ECS restarts worker tasks), the event
\* loop runs every pending callback, BullMQ promotes and hands out jobs, time
\* passes.  Nothing forces a disruption.
Fairness ==
  /\ WF_vars(Tick)
  /\ \A i \in Item : WF_vars(Enqueue(i))
  /\ \A j \in JobId : WF_vars(QueueStep(j))
  /\ \A s \in Slot : /\ SF_vars(\E j \in JobId : StartJob(s, j))
                     /\ WF_vars(Ack(s) \/ Reject(s))
                     /\ WF_vars(MaybeRecover(s))
                     /\ WF_vars(Claim(s) \/ ClaimNothing(s))
                     /\ WF_vars(Heartbeat(s))
                     /\ WF_vars(Complete(s) \/ DiscardLate(s))
  /\ \A w \in Worker : /\ WF_vars(Start(w))
                       /\ WF_vars(StartPass(w))
                       /\ \A k \in Kind : WF_vars(PassQuery(w, k))
                       /\ \A i \in Item : WF_vars(Requeue(w, i))
                       /\ WF_vars(SyncQueued(w))
                       /\ WF_vars(Exit(w))

FairSpec == Spec /\ Fairness

-----------------------------------------------------------------------------
(* Properties *)

\* However often an item is recovered and claimed again, at most one running
\* execution can still write its verdict: leases are never shared.
OneLeaseHolder ==
  \A s, t \in Slot :
    Live(s) /\ Live(t) /\ HoldsLease(s) /\ HoldsLease(t) /\ ItemOf(s) = ItemOf(t) => s = t

\* A verdict is only written by the execution whose lease the row carries at that
\* moment: a superseded worker's late result never reaches the row, and no row
\* is judged without an execution.
VerdictByLeaseHolder ==
  [][\A i \in Item :
       row[i].status \notin Outcome /\ row'[i].status \in Outcome =>
         \E s \in Slot : /\ slot[s].phase = "executing" /\ slot'[s].phase # "executing"
                         /\ slot[s].job[1] = i
                         /\ slot[s].attempt = row[i].attempt]_vars

\* A judged item keeps its verdict through redelivered jobs, retries, recovery
\* passes and late results, until it is deleted: the pipeline implements JudgeVerdict.
Verdict == INSTANCE JudgeVerdict WITH
  verdict <- [i \in Item |-> IF row[i].status \in {"queued", "running"}
                             THEN "pending" ELSE row[i].status]
JudgedOnce == Verdict!VerdictSpec

\* With heartbeats more frequent than the threshold, an execution that is still
\* alive never loses its lease to recovery, so its result is not thrown away.
BeatingLeaseKept ==
  \A s \in Slot : Live(s) /\ row[ItemOf(s)].status # "deleted" => HoldsLease(s)

\* Consequently no two live executions work on the same item.
ExclusiveExecution ==
  \A s, t \in Slot : Live(s) /\ Live(t) /\ s # t => ItemOf(s) # ItemOf(t)

\* Every queued row has somebody who will bring it to a worker: the API handler
\* about to enqueue it, a job that is not over, a slot about to claim it, a worker
\* that read it and still enqueues it, or one whose next startup sync lists it.
NotSynced(w, i) ==
  \/ mode[w] # "up"
  \/ boot[w] \in {"recover", "syncSubmissions"}
  \/ boot[w] = "syncRuns" /\ i \in Runs
NoWorkLost ==
  \A i \in Item : row[i].status = "queued" =>
    \/ i \in request
    \/ \E t \in Tag : job[<<i, t>>].st \in {"waiting", "active", "delayed"}
    \/ \E s \in Slot : slot[s].phase \in {"recovering", "claiming"} /\ ItemOf(s) = i
    \/ \E w \in Worker : i \in requeue[w] \cup pass[w].ids \/ NotSynced(w, i)

\* Every accepted item is eventually judged (or deleted).
EveryItemJudged ==
  \A i \in Item : row[i].status \in {"queued", "running"}
                    ~> row[i].status \in Outcome \cup {"deleted"}
=============================================================================
