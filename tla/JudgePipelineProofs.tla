------------------------ MODULE JudgePipelineProofs ------------------------
(***************************************************************************)
(* Proofs about JudgePipeline for every number of items, workers, lanes    *)
(* and disruptions.                                                        *)
(***************************************************************************)
EXTENDS JudgePipeline, TLAPS

(* The values the actions write are of the right type. *)

LEMMA NullTypes ==
  /\ NoRow \in Row /\ Requeued \in Row
  /\ AbsentJob \in Job
  /\ IdleSlot \in SlotState
  /\ NoPass \in Pass /\ NewPass \in Pass
  /\ \A j \in JobId : Ended(j) \in Job
BY PipelineAssumption, SMTT(20)
DEF NoRow, Requeued, AbsentJob, IdleSlot, NoPass, NewPass, Ended, Row, Job, SlotState,
    Pass, Status, JobState, Phase

LEMMA RowStatus ==
  \A r \in Row, st \in Status : [r EXCEPT !.status = st] \in Row
BY DEF Row

LEMMA RowAge ==
  \A r \in Row, a \in 0..(StaleAfter + 1) : [r EXCEPT !.age = a] \in Row
BY DEF Row

LEMMA JobSt ==
  \A j \in Job, st \in JobState : [j EXCEPT !.st = st] \in Job
BY DEF Job

LEMMA JobLock ==
  \A j \in Job, st \in JobState, by \in SUBSET Slot :
    [j EXCEPT !.st = st, !.by = by] \in Job
BY DEF Job

LEMMA JobTries ==
  \A j \in Job, st \in JobState, n \in 0..MaxTries :
    [j EXCEPT !.st = st, !.tries = n, !.by = {}] \in Job
BY DEF Job

LEMMA JobStalls ==
  \A j \in Job, st \in JobState, n \in 0..MaxStalls :
    [j EXCEPT !.st = st, !.stalls = n, !.by = {}] \in Job
BY DEF Job

LEMMA SlotPhase ==
  \A s \in SlotState, ph \in Phase : [s EXCEPT !.phase = ph] \in SlotState
BY DEF SlotState

LEMMA SlotJob ==
  \A s \in SlotState, ph \in Phase, j \in JobId :
    [s EXCEPT !.phase = ph, !.job = j] \in SlotState
BY DEF SlotState

LEMMA SlotLease ==
  \A s \in SlotState, a \in Attempt :
    [s EXCEPT !.phase = "executing", !.attempt = a] \in SlotState
BY DEF SlotState, Phase

LEMMA SlotBeat ==
  \A s \in SlotState, b \in 0..MaxBeatGap : [s EXCEPT !.beat = b] \in SlotState
BY DEF SlotState

\* An occupied slot works on a job, hence on an item.
Busy == \A s \in Slot : slot[s].phase # "idle" => slot[s].job \in JobId

LEMMA ItemOfBusy ==
  ASSUME Busy, NEW s \in Slot, slot[s].phase # "idle"
  PROVE  ItemOf(s) \in Item /\ SlotKind(s) \in Kind
<1>1. slot[s].job \in Item \X Tag
  BY DEF Busy, JobId
<1>2. QED
  BY <1>1 DEF ItemOf, SlotKind, Kind

LEMMA DisruptType ==
  ASSUME TypeOK, NEW kind, Disrupt(kind)
  PROVE  budget' \in 0..MaxDisruptions
BY PipelineAssumption DEF TypeOK, Disrupt

LEMMA RecoverType ==
  ASSUME TypeOK, NEW k, RecoverStale(k)
  PROVE  row' \in [Item -> Row]
BY NullTypes DEF TypeOK, RecoverStale

LEMMA AddJobType ==
  ASSUME TypeOK, NEW j \in JobId, AddJob(j)
  PROVE  job' \in [JobId -> Job]
<1>1. [AbsentJob EXCEPT !.st = "waiting"] \in Job
  BY PipelineAssumption DEF AbsentJob, Job, JobState
<1>2. QED
  BY <1>1 DEF TypeOK, AddJob

\* The API's handlers.
LEMMA ApiType ==
  ASSUME TypeOK, NEW i \in Item, ApiStep(i)
  PROVE  TypeOK'
<1>1. CASE Create(i)
  <2>1. [row[i] EXCEPT !.status = "queued"] \in Row
    <3>1. row[i] \in Row /\ "queued" \in Status
      BY DEF TypeOK, Status
    <3>2. QED
      BY <3>1, RowStatus
  <2>2. row' = [row EXCEPT ![i] = [row[i] EXCEPT !.status = "queued"]]
    BY <1>1 DEF Create
  <2>3. row' \in [Item -> Row]
    BY <2>1, <2>2 DEF TypeOK
  <2>4. QED
    BY <1>1, <2>3 DEF TypeOK, Create, workerVars
<1>2. CASE Enqueue(i)
  <2>1. <<i, Original>> \in JobId
    BY DEF JobId, Tag
  <2>2. job' \in [JobId -> Job]
    BY <1>2, <2>1, AddJobType DEF Enqueue
  <2>3. QED
    BY <1>2, <2>2 DEF TypeOK, Enqueue, workerVars
<1>3. CASE LoseRequest(i)
  BY <1>3, DisruptType DEF TypeOK, LoseRequest, workerVars
<1>4. CASE Delete(i)
  <2>1. [NoRow EXCEPT !.status = "deleted"] \in Row
    BY NullTypes DEF Row, NoRow, Status, Outcome
  <2>2. QED
    BY <1>4, <2>1, DisruptType DEF TypeOK, Delete, workerVars
<1>5. QED
  BY <1>1, <1>2, <1>3, <1>4 DEF ApiStep

LEMMA QueueType ==
  ASSUME TypeOK, NEW j \in JobId, QueueStep(j)
  PROVE  TypeOK'
<1>1. CASE Promote(j)
  <2>1. [job[j] EXCEPT !.st = "waiting"] \in Job
    <3>1. job[j] \in Job /\ "waiting" \in JobState
      BY DEF TypeOK, JobState
    <3>2. QED
      BY <3>1, JobSt
  <2>2. job' = [job EXCEPT ![j] = [job[j] EXCEPT !.st = "waiting"]]
    BY <1>1 DEF Promote
  <2>3. job' \in [JobId -> Job]
    BY <2>1, <2>2 DEF TypeOK
  <2>4. QED
    BY <1>1, <2>3 DEF TypeOK, Promote, rowVars, workerVars
<1>2. CASE Stalled(j)
  <2>1. CASE MayStall(j)
    <3>1. [job[j] EXCEPT !.st = "waiting", !.stalls = @ + 1, !.by = {}] \in Job
      <4>1. job[j] \in Job /\ job[j].stalls + 1 \in 0..MaxStalls /\ "waiting" \in JobState
        BY <2>1, PipelineAssumption DEF TypeOK, Job, MayStall, JobState
      <4>2. QED
        BY <4>1, JobStalls
    <3>2. QED
      BY <1>2, <2>1, <3>1, DisruptType DEF TypeOK, Stalled, rowVars, workerVars
  <2>2. CASE ~MayStall(j)
    BY <1>2, <2>2, NullTypes, DisruptType DEF TypeOK, Stalled, rowVars, workerVars
  <2>3. QED
    BY <2>1, <2>2
<1>3. QED
  BY <1>1, <1>2 DEF QueueStep

\* The slot updates the actions share.
LEMMA GotoType ==
  ASSUME TypeOK, NEW s \in Slot, NEW ph \in Phase, Goto(s, ph)
  PROVE  slot' \in [Slot -> SlotState]
<1>1. slot' = [slot EXCEPT ![s] = [slot[s] EXCEPT !.phase = ph]]
  BY DEF Goto
<1>2. [slot[s] EXCEPT !.phase = ph] \in SlotState
  BY SlotPhase DEF TypeOK
<1>3. QED
  BY <1>1, <1>2 DEF TypeOK

LEMMA EndExecutionType ==
  ASSUME TypeOK, Busy, NEW s \in Slot, slot[s].phase # "idle", NEW ph \in Phase,
         EndExecution(s, ph)
  PROVE  slot' \in [Slot -> SlotState]
<1>1. [IdleSlot EXCEPT !.phase = ph, !.job = slot[s].job] \in SlotState
  BY NullTypes, SlotJob DEF Busy
<1>2. QED
  BY <1>1 DEF TypeOK, EndExecution

LEMMA PickType ==
  ASSUME TypeOK, NEW s \in Slot, NEW j \in JobId, NEW ph \in Phase, Pick(s, j, ph)
  PROVE  slot' \in [Slot -> SlotState] /\ job' \in [JobId -> Job]
<1>1. [IdleSlot EXCEPT !.phase = ph, !.job = j] \in SlotState
  BY NullTypes, SlotJob
<1>2. [job[j] EXCEPT !.st = "active", !.by = {s}] \in Job
  <2>1. job[j] \in Job /\ "active" \in JobState /\ {s} \in SUBSET Slot
    BY DEF TypeOK, JobState
  <2>2. QED
    BY <2>1, JobLock
<1>3. job' = [job EXCEPT ![j] = [job[j] EXCEPT !.st = "active", !.by = {s}]]
  BY DEF Pick
<1>4. QED
  BY <1>1, <1>2, <1>3 DEF TypeOK, Pick

LEMMA TakeLeaseType ==
  ASSUME TypeOK, NEW i \in Item, NEW a \in Attempt, TakeLease(i, a)
  PROVE  row' \in [Item -> Row]
<1>1. [status |-> "running", attempt |-> a, age |-> 0] \in Row
  BY PipelineAssumption DEF Row, Status
<1>2. QED
  BY <1>1 DEF TypeOK, TakeLease

LEMMA WriteVerdictType ==
  ASSUME TypeOK, Busy, NEW s \in Slot, slot[s].phase # "idle", WriteVerdict(s)
  PROVE  row' \in [Item -> Row]
<1>1. PICK o \in Outcome :
        row' = [row EXCEPT ![ItemOf(s)] = [status |-> o, attempt |-> NoAttempt, age |-> 0]]
  BY DEF WriteVerdict
<1>2. [status |-> o, attempt |-> NoAttempt, age |-> 0] \in Row
  BY PipelineAssumption DEF Row, Status
<1>3. QED
  BY <1>1, <1>2 DEF TypeOK

LEMMA RejectType ==
  ASSUME TypeOK, Busy, NEW s \in Slot, Reject(s)
  PROVE  job' \in [JobId -> Job]
<1> DEFINE j == slot[s].job
<1>1. j \in JobId /\ job[j] \in Job /\ "delayed" \in JobState
  BY DEF Reject, Busy, TypeOK, JobState
<1>2. Ended(j) \in Job
  BY <1>1, NullTypes
<1>3. ASSUME job[j].tries + 1 < MaxTries
      PROVE  [job[j] EXCEPT !.st = "delayed", !.tries = job[j].tries + 1, !.by = {}] \in Job
  <2>1. job[j].tries + 1 \in 0..MaxTries
    BY <1>1, <1>3, PipelineAssumption DEF Job
  <2>2. QED
    BY <1>1, <2>1, JobTries
<1>4. Rejected(s, j) \in Job
  BY <1>1, <1>2, <1>3 DEF Rejected
<1>5. QED
  BY <1>1, <1>4 DEF TypeOK, Reject

LEMMA LastType ==
  ASSUME TypeOK, NEW w \in Worker, NEW k \in Kind, last' = [last EXCEPT ![w][k] = 0]
  PROVE  last' \in [Worker -> [Kind -> 0..StaleAfter]]
<1>1. [last[w] EXCEPT ![k] = 0] \in [Kind -> 0..StaleAfter]
  BY PipelineAssumption DEF TypeOK
<1>2. last' = [last EXCEPT ![w] = [last[w] EXCEPT ![k] = 0]]
  OBVIOUS
<1>3. QED
  BY <1>1, <1>2 DEF TypeOK

LEMMA SlotType ==
  ASSUME TypeOK, Busy, NEW s \in Slot, SlotStep(s)
  PROVE  TypeOK'
<1>1. ASSUME NEW j \in JobId, StartJob(s, j) PROVE TypeOK'
  BY <1>1, PickType DEF TypeOK, StartJob, Phase, rowVars, workerVars
<1>2. ASSUME NEW j \in JobId, StartJobRecovering(s, j) PROVE TypeOK'
  <2>1. WorkerOf(s) \in Worker /\ KindOf(j[1]) \in Kind
    BY DEF Slot, WorkerOf, JobId, Kind
  <2>2. last' \in [Worker -> [Kind -> 0..StaleAfter]]
    BY <1>2, <2>1, LastType DEF StartJobRecovering
  <2>3. slot' \in [Slot -> SlotState] /\ job' \in [JobId -> Job]
    BY <1>2, PickType DEF StartJobRecovering, Phase
  <2>4. budget' \in 0..MaxDisruptions
    BY <1>2, DisruptType DEF StartJobRecovering
  <2>5. QED
    BY <1>2, <2>2, <2>3, <2>4 DEF TypeOK, StartJobRecovering, rowVars
<1>3. CASE MaybeRecover(s)
  BY <1>3, GotoType, RecoverType DEF TypeOK, MaybeRecover, Phase, workerVars
<1>4. CASE MaybeRecoverFails(s)
  BY <1>4, GotoType, DisruptType DEF TypeOK, MaybeRecoverFails, Phase, rowVars, workerVars
<1>5. CASE Claim(s)
  <2>1. ItemOf(s) \in Item
    BY <1>5, ItemOfBusy DEF Claim
  <2>2. PICK a \in FreshAttempts :
          /\ TakeLease(ItemOf(s), a)
          /\ slot' = [slot EXCEPT ![s].phase = "executing", ![s].attempt = a]
    BY <1>5 DEF Claim
  <2>3. a \in Attempt
    BY DEF FreshAttempts
  <2>4. row' \in [Item -> Row]
    BY <2>1, <2>2, <2>3, TakeLeaseType
  <2>5. [slot[s] EXCEPT !.phase = "executing", !.attempt = a] \in SlotState
    BY <2>3, SlotLease DEF TypeOK
  <2>6. slot' = [slot EXCEPT ![s] = [slot[s] EXCEPT !.phase = "executing", !.attempt = a]]
    BY <2>2
  <2>7. slot' \in [Slot -> SlotState]
    BY <2>5, <2>6 DEF TypeOK
  <2>8. QED
    BY <1>5, <2>4, <2>7 DEF TypeOK, Claim, workerVars
<1>6. CASE ClaimNothing(s)
  BY <1>6, GotoType DEF TypeOK, ClaimNothing, Phase, rowVars, workerVars
<1>7. CASE ClaimFails(s)
  <2>1. ItemOf(s) \in Item
    BY <1>7, ItemOfBusy DEF ClaimFails
  <2>2. row' \in [Item -> Row]
    <3>1. CASE UNCHANGED row
      BY <3>1 DEF TypeOK
    <3>2. CASE \E a \in FreshAttempts : TakeLease(ItemOf(s), a)
      BY <2>1, <3>2, TakeLeaseType DEF FreshAttempts
    <3>3. QED
      BY <1>7, <3>1, <3>2 DEF ClaimFails
  <2>3. QED
    BY <1>7, <2>2, GotoType, DisruptType DEF TypeOK, ClaimFails, Phase, workerVars
<1>8. CASE Heartbeat(s)
  <2>1. 0 \in 0..MaxBeatGap /\ 0 \in 0..(StaleAfter + 1)
    BY PipelineAssumption
  <2>2. slot' = [slot EXCEPT ![s] = [slot[s] EXCEPT !.beat = 0]]
    BY <1>8 DEF Heartbeat
  <2>3. slot' \in [Slot -> SlotState]
    BY <2>1, <2>2, SlotBeat DEF TypeOK
  <2> DEFINE i == ItemOf(s)
  <2>4. i \in Item
    BY <1>8, ItemOfBusy DEF Heartbeat, Live
  <2>5. /\ row[i] \in Row
        /\ [row[i] EXCEPT !.age = 0] \in Row
        /\ [row[i] EXCEPT !.age = row[i].age] \in Row
    BY <2>1, <2>4, RowAge DEF TypeOK, Row
  <2>6. \/ row' = [row EXCEPT ![i] = [row[i] EXCEPT !.age = 0]]
        \/ row' = [row EXCEPT ![i] = [row[i] EXCEPT !.age = row[i].age]]
    BY <1>8 DEF Heartbeat
  <2>7. row' \in [Item -> Row]
    BY <2>5, <2>6 DEF TypeOK
  <2>8. QED
    BY <1>8, <2>3, <2>7 DEF TypeOK, Heartbeat, workerVars
<1>9. CASE Complete(s)
  BY <1>9, EndExecutionType, WriteVerdictType DEF TypeOK, Complete, Live, Phase, workerVars
<1>10. CASE DiscardLate(s)
  BY <1>10, EndExecutionType DEF TypeOK, DiscardLate, Live, Phase, rowVars, workerVars
<1>11. CASE CompleteFails(s)
  <2>1. row' \in [Item -> Row]
    BY <1>11, WriteVerdictType DEF TypeOK, CompleteFails, Live
  <2>2. QED
    BY <1>11, <2>1, EndExecutionType, DisruptType
    DEF TypeOK, CompleteFails, Live, Phase, workerVars
<1>12. CASE Ack(s)
  <2>1. slot[s].job \in JobId
    BY <1>12 DEF Ack, Busy
  <2>2. job' \in [JobId -> Job]
    BY <1>12, <2>1, NullTypes DEF TypeOK, Ack
  <2>3. QED
    BY <1>12, <2>2, NullTypes DEF TypeOK, Ack, rowVars, workerVars
<1>13. CASE Reject(s)
  BY <1>13, RejectType, NullTypes DEF TypeOK, Reject, rowVars, workerVars
<1>14. QED
  BY <1>1, <1>2, <1>3, <1>4, <1>5, <1>6, <1>7, <1>8, <1>9, <1>10, <1>11, <1>12, <1>13
  DEF SlotStep

LEMMA PassAnswerType ==
  ASSUME TypeOK, NEW w \in Worker, NEW p \in Pass, PassAnswer(w, p)
  PROVE  /\ mode' \in [Worker -> {"down", "up", "draining"}]
         /\ boot' \in [Worker -> BootPhase]
         /\ pass' \in [Worker -> Pass]
         /\ requeue' \in [Worker -> SUBSET Item]
         /\ timer' \in [Worker -> 0..StaleAfter]
<1> USE PipelineAssumption, NullTypes DEF TypeOK
<1>1. CASE StillWaiting(w, p)
  BY <1>1 DEF StillWaiting
<1>2. CASE PassDone(w, p)
  BY <1>2 DEF PassDone, BootPhase, Pass
<1>3. CASE PassFailed(w, p)
  BY <1>3 DEF PassFailed
<1>4. QED
  BY <1>1, <1>2, <1>3 DEF PassAnswer

LEMMA GoneType ==
  ASSUME TypeOK, NEW w \in Worker, Gone(w)
  PROVE  /\ mode' \in [Worker -> {"down", "up", "draining"}]
         /\ boot' \in [Worker -> BootPhase]
         /\ pass' \in [Worker -> Pass]
         /\ requeue' \in [Worker -> SUBSET Item]
         /\ timer' \in [Worker -> 0..StaleAfter]
         /\ last' \in [Worker -> [Kind -> 0..StaleAfter]]
BY PipelineAssumption, NullTypes DEF TypeOK, Gone, BootPhase

LEMMA WorkerType ==
  ASSUME TypeOK, NEW w \in Worker, WorkerStep(w)
  PROVE  TypeOK'
<1>1. CASE Start(w)
  BY <1>1, NullTypes DEF TypeOK, Start, BootPhase, rowVars
<1>2. CASE StartPass(w)
  BY <1>2, PipelineAssumption, NullTypes DEF TypeOK, StartPass, rowVars
<1>3. ASSUME NEW k \in Kind, PassQuery(w, k) PROVE TypeOK'
  <2>1. [pass[w] EXCEPT !.waiting = @ \ {k}, !.ids = @ \cup Stale(k)] \in Pass
    BY DEF TypeOK, Pass, Stale
  <2>2. row' \in [Item -> Row]
    BY <1>3, RecoverType DEF PassQuery
  <2>3. QED
    BY <1>3, <2>1, <2>2, PassAnswerType DEF TypeOK, PassQuery
<1>4. ASSUME NEW k \in Kind, PassQueryFails(w, k) PROVE TypeOK'
  <2>1. [pass[w] EXCEPT !.waiting = @ \ {k}, !.lost = TRUE] \in Pass
    BY DEF TypeOK, Pass
  <2>2. QED
    BY <1>4, <2>1, PassAnswerType, DisruptType DEF TypeOK, PassQueryFails, rowVars
<1>5. ASSUME NEW i \in Item, Requeue(w, i) PROVE TypeOK'
  <2>1. PICK t \in FreshTags(i) : AddJob(<<i, t>>)
    BY <1>5 DEF Requeue
  <2>2. <<i, t>> \in JobId
    BY DEF FreshTags, JobId, Tag
  <2>3. job' \in [JobId -> Job]
    BY <2>1, <2>2, AddJobType
  <2>4. QED
    BY <1>5, <2>3 DEF TypeOK, Requeue, rowVars
<1>6. CASE SyncQueued(w)
  BY <1>6 DEF TypeOK, SyncQueued, Queued, BootPhase, rowVars
<1>7. CASE SyncFails(w)
  BY <1>7, PipelineAssumption, DisruptType DEF TypeOK, SyncFails, rowVars
<1>8. CASE Shutdown(w)
  BY <1>8, PipelineAssumption, DisruptType DEF TypeOK, Shutdown, rowVars
<1>9. CASE Exit(w)
  BY <1>9, GoneType DEF TypeOK, Exit, rowVars
<1>10. CASE Crash(w)
  BY <1>10, GoneType, NullTypes, DisruptType DEF TypeOK, Crash, rowVars
<1>11. QED
  BY <1>1, <1>2, <1>3, <1>4, <1>5, <1>6, <1>7, <1>8, <1>9, <1>10 DEF WorkerStep

LEMMA TickType ==
  ASSUME TypeOK, Tick
  PROVE  TypeOK'
<1>1. row' \in [Item -> Row]
  <2>1. ASSUME NEW i \in Item, row[i].age =< StaleAfter
        PROVE  [row[i] EXCEPT !.age = @ + 1] \in Row
    <3>1. row[i] \in Row /\ row[i].age + 1 \in 0..(StaleAfter + 1)
      BY <2>1, PipelineAssumption DEF TypeOK, Row
    <3>2. QED
      BY <3>1, RowAge
  <2>2. QED
    BY <2>1 DEF TypeOK, Tick
<1>2. slot' \in [Slot -> SlotState]
  <2>1. ASSUME NEW s \in Slot, Live(s)
        PROVE  [slot[s] EXCEPT !.beat = @ + 1] \in SlotState
    <3>1. slot[s] \in SlotState /\ slot[s].beat < MaxBeatGap
      BY <2>1 DEF TypeOK, Tick
    <3>2. slot[s].beat + 1 \in 0..MaxBeatGap
      BY <3>1, PipelineAssumption DEF SlotState
    <3>3. QED
      BY <3>1, <3>2, SlotBeat
  <2>2. QED
    BY <2>1 DEF TypeOK, Tick
<1>3. timer' \in [Worker -> 0..StaleAfter]
  <2>1. ASSUME NEW w \in Worker, mode[w] = "up"
        PROVE  timer[w] + 1 \in 0..StaleAfter
    <3>1. timer[w] \in 0..StaleAfter /\ timer[w] # StaleAfter
      BY <2>1 DEF TypeOK, Tick, TimerOverdue
    <3>2. QED
      BY <3>1, PipelineAssumption
  <2>2. QED
    BY <2>1 DEF TypeOK, Tick
<1>4. last' \in [Worker -> [Kind -> 0..StaleAfter]]
  <2>1. ASSUME NEW w \in Worker, NEW k \in Kind
        PROVE  last[w][k] \in Nat /\ (last[w][k] < StaleAfter => last[w][k] + 1 \in 0..StaleAfter)
    BY PipelineAssumption DEF TypeOK
  <2>2. QED
    BY <2>1, PipelineAssumption DEF TypeOK, Tick
<1>5. QED
  BY <1>1, <1>2, <1>3, <1>4 DEF TypeOK, Tick

-----------------------------------------------------------------------------
(* The inductive invariant of the leases.  TypeOK alone is not inductive: an  *)
(* action of a busy slot reads the item of its job.  OneLeaseHolder needs     *)
(* that no two executions were ever given the same lease.                     *)

\* An execution runs under a lease.
LeaseHeld == \A s \in Slot : Live(s) => slot[s].attempt \in Attempt

\* Two executions, superseded ones included, run under different leases.
LeaseUnique ==
  \A s, t \in Slot : Live(s) /\ Live(t) /\ s # t => slot[s].attempt # slot[t].attempt

Leases == Busy /\ LeaseHeld /\ LeaseUnique
IInv == TypeOK /\ Leases

\* What the shared slot updates do to the slot itself; they leave all others alone.
LEMMA GotoEffect ==
  ASSUME TypeOK, NEW s \in Slot, NEW ph \in Phase, Goto(s, ph)
  PROVE  /\ slot'[s].phase = ph /\ slot'[s].job = slot[s].job
         /\ \A t \in Slot : t # s => slot'[t] = slot[t]
<1>1. slot' = [slot EXCEPT ![s] = [slot[s] EXCEPT !.phase = ph]]
  BY DEF Goto
<1>2. slot[s] \in SlotState
  BY DEF TypeOK
<1>3. [slot[s] EXCEPT !.phase = ph].phase = ph /\ [slot[s] EXCEPT !.phase = ph].job = slot[s].job
  BY <1>2 DEF SlotState
<1>4. QED
  BY <1>1, <1>3 DEF TypeOK

LEMMA EndEffect ==
  ASSUME TypeOK, NEW s \in Slot, NEW ph \in Phase, EndExecution(s, ph)
  PROVE  /\ slot'[s].phase = ph /\ slot'[s].job = slot[s].job
         /\ \A t \in Slot : t # s => slot'[t] = slot[t]
BY DEF TypeOK, EndExecution, IdleSlot

LEMMA PickEffect ==
  ASSUME TypeOK, NEW s \in Slot, NEW j \in JobId, NEW ph \in Phase, Pick(s, j, ph)
  PROVE  /\ slot'[s].phase = ph /\ slot'[s].job = j
         /\ \A t \in Slot : t # s => slot'[t] = slot[t]
BY DEF TypeOK, Pick, IdleSlot

\* An execution starts under a lease no other execution has.
LEMMA ClaimEffect ==
  ASSUME TypeOK, NEW s \in Slot, Claim(s)
  PROVE  /\ \E a \in FreshAttempts : TakeLease(ItemOf(s), a) /\ slot'[s].attempt = a
         /\ slot'[s].phase = "executing" /\ slot'[s].job = slot[s].job
         /\ slot'[s].beat = slot[s].beat
         /\ \A t \in Slot : t # s => slot'[t] = slot[t]
<1>1. PICK a \in FreshAttempts :
        /\ TakeLease(ItemOf(s), a)
        /\ slot' = [slot EXCEPT ![s].phase = "executing", ![s].attempt = a]
  BY DEF Claim
<1> DEFINE x == [slot[s] EXCEPT !.phase = "executing", !.attempt = a]
<1>2. slot' = [slot EXCEPT ![s] = x]
  BY <1>1
<1>3. slot[s] \in SlotState
  BY DEF TypeOK
<1>4. x.phase = "executing" /\ x.attempt = a /\ x.job = slot[s].job /\ x.beat = slot[s].beat
  BY <1>3 DEF SlotState
<1>5. slot'[s] = x /\ \A t \in Slot : t # s => slot'[t] = slot[t]
  BY <1>2 DEF TypeOK
<1>6. QED
  BY <1>1, <1>4, <1>5

\* Only time and the lease's renewal change a slot without moving its job on.
LEMMA HeartbeatEffect ==
  ASSUME TypeOK, NEW s \in Slot, Heartbeat(s)
  PROVE  /\ slot'[s].phase = slot[s].phase /\ slot'[s].job = slot[s].job
         /\ slot'[s].attempt = slot[s].attempt /\ slot'[s].beat = 0
         /\ \A t \in Slot : t # s => slot'[t] = slot[t]
<1> DEFINE x == [slot[s] EXCEPT !.beat = 0]
<1>1. slot' = [slot EXCEPT ![s] = x]
  BY DEF Heartbeat
<1>2. slot[s] \in SlotState
  BY DEF TypeOK
<1>3. /\ x.phase = slot[s].phase /\ x.job = slot[s].job
      /\ x.attempt = slot[s].attempt /\ x.beat = 0
  BY <1>2 DEF SlotState
<1>4. QED
  BY <1>1, <1>3 DEF TypeOK

LEMMA TickEffect ==
  ASSUME TypeOK, Tick, NEW s \in Slot
  PROVE  /\ slot'[s].phase = slot[s].phase /\ slot'[s].job = slot[s].job
         /\ slot'[s].attempt = slot[s].attempt
         /\ Live(s) => slot'[s].beat = slot[s].beat + 1
<1> DEFINE x == [slot[s] EXCEPT !.beat = slot[s].beat + 1]
<1>1. slot'[s] = IF Live(s) THEN x ELSE slot[s]
  BY DEF Tick
<1>2. slot[s] \in SlotState
  BY DEF TypeOK
<1>3. /\ x.phase = slot[s].phase /\ x.job = slot[s].job
      /\ x.attempt = slot[s].attempt /\ x.beat = slot[s].beat + 1
  BY <1>2 DEF SlotState
<1>4. QED
  BY <1>1, <1>3

\* A step that starts no execution keeps the leases apart.
LEMMA NoNewExecution ==
  ASSUME Leases,
         \A t \in Slot :
           /\ slot'[t].phase # "idle" => slot'[t].job \in JobId
           /\ slot'[t].phase = "executing" => Live(t) /\ slot'[t].attempt = slot[t].attempt
  PROVE  Leases'
BY DEF Leases, Busy, LeaseHeld, LeaseUnique, Live

\* A slot step keeps the leases apart.
LEMMA SlotLeases ==
  ASSUME IInv, NEW s \in Slot, SlotStep(s)
  PROVE  Leases'
<1> USE DEF IInv
<1> DEFINE Others == \A t \in Slot : t # s => slot'[t] = slot[t]
<1>a. ASSUME Others, slot'[s].phase # "executing",
             slot'[s].phase # "idle" => slot'[s].job \in JobId
      PROVE  Leases'
  BY <1>a, NoNewExecution DEF Leases, Busy, Live
<1>b. slot[s].phase # "idle" => slot[s].job \in JobId
  BY DEF Leases, Busy
<1>1. ASSUME NEW j \in JobId, StartJob(s, j) PROVE Leases'
  BY <1>1, <1>a, PickEffect DEF StartJob, Phase
<1>2. ASSUME NEW j \in JobId, StartJobRecovering(s, j) PROVE Leases'
  BY <1>2, <1>a, PickEffect DEF StartJobRecovering, Phase
<1>3. CASE MaybeRecover(s)
  BY <1>3, <1>a, <1>b, GotoEffect DEF MaybeRecover, Phase
<1>4. CASE MaybeRecoverFails(s)
  BY <1>4, <1>a, <1>b, GotoEffect DEF MaybeRecoverFails, Phase
<1>5. CASE Claim(s)
  <2>1. PICK a \in FreshAttempts : slot'[s].attempt = a
    BY <1>5, ClaimEffect
  <2>2. slot'[s].phase = "executing" /\ slot'[s].job \in JobId /\ Others
    BY <1>5, <1>b, ClaimEffect DEF Claim
  <2>3. a \in Attempt /\ \A t \in Slot : slot[t].attempt # a
    BY DEF FreshAttempts, UsedAttempts
  <2>4. Busy' /\ LeaseHeld'
    BY <2>1, <2>2, <2>3 DEF Leases, Busy, LeaseHeld, Live
  <2>5. LeaseUnique'
    BY <2>1, <2>2, <2>3 DEF Leases, LeaseUnique, Live
  <2>6. QED
    BY <2>4, <2>5 DEF Leases
<1>6. CASE ClaimNothing(s)
  BY <1>6, <1>a, <1>b, GotoEffect DEF ClaimNothing, Phase
<1>7. CASE ClaimFails(s)
  BY <1>7, <1>a, <1>b, GotoEffect DEF ClaimFails, Phase
<1>8. CASE Heartbeat(s)
  <2>1. /\ slot'[s].phase = slot[s].phase /\ slot'[s].job = slot[s].job
        /\ slot'[s].attempt = slot[s].attempt /\ Others
    BY <1>8, HeartbeatEffect
  <2>2. QED
    BY <2>1, NoNewExecution DEF Leases, Busy, Live
<1>9. CASE Complete(s)
  BY <1>9, <1>a, <1>b, EndEffect DEF Complete, Live, Phase
<1>10. CASE DiscardLate(s)
  BY <1>10, <1>a, <1>b, EndEffect DEF DiscardLate, Live, Phase
<1>11. CASE CompleteFails(s)
  BY <1>11, <1>a, <1>b, EndEffect DEF CompleteFails, Live, Phase
<1>12. CASE Ack(s) \/ Reject(s)
  BY <1>12, <1>a DEF Ack, Reject, IdleSlot, TypeOK
<1>13. QED
  BY <1>1, <1>2, <1>3, <1>4, <1>5, <1>6, <1>7, <1>8, <1>9, <1>10, <1>11, <1>12
  DEF SlotStep

\* A worker process never starts an execution outside of a slot; its crash ends some.
LEMMA WorkerSlots ==
  ASSUME TypeOK, NEW w \in Worker, WorkerStep(w), NEW s \in Slot
  PROVE  slot'[s] = slot[s] \/ slot'[s] = IdleSlot
<1>1. CASE Crash(w)
  BY <1>1 DEF Crash
<1>2. CASE ~Crash(w)
  BY <1>2 DEF WorkerStep, Start, StartPass, PassQuery, PassQueryFails, Requeue,
              SyncQueued, SyncFails, Shutdown, Exit
<1>3. QED
  BY <1>1, <1>2

LEMMA InitIInv == Init => IInv
<1> SUFFICES ASSUME Init PROVE IInv
  OBVIOUS
<1>1. TypeOK
  BY PipelineAssumption, NullTypes DEF Init, TypeOK, BootPhase
<1>2. Leases
  BY DEF Init, Leases, Busy, LeaseHeld, LeaseUnique, Live, IdleSlot
<1>3. QED
  BY <1>1, <1>2 DEF IInv

LEMMA NextIInv == IInv /\ [Next]_vars => IInv'
<1> SUFFICES ASSUME IInv, [Next]_vars PROVE IInv'
  OBVIOUS
<1>0. TypeOK /\ Busy
  BY DEF IInv, Leases
<1>1. ASSUME NEW i \in Item, ApiStep(i) PROVE IInv'
  <2>1. slot' = slot
    BY <1>1 DEF ApiStep, Create, Enqueue, LoseRequest, Delete
  <2>2. QED
    BY <1>0, <1>1, <2>1, ApiType DEF IInv, Leases, Busy, LeaseHeld, LeaseUnique, Live
<1>2. ASSUME NEW j \in JobId, QueueStep(j) PROVE IInv'
  <2>1. slot' = slot
    BY <1>2 DEF QueueStep, Promote, Stalled
  <2>2. QED
    BY <1>0, <1>2, <2>1, QueueType DEF IInv, Leases, Busy, LeaseHeld, LeaseUnique, Live
<1>3. ASSUME NEW s \in Slot, SlotStep(s) PROVE IInv'
  BY <1>0, <1>3, SlotType, SlotLeases DEF IInv
<1>4. ASSUME NEW w \in Worker, WorkerStep(w) PROVE IInv'
  <2>1. \A t \in Slot : slot'[t] = slot[t] \/ slot'[t] = IdleSlot
    BY <1>0, <1>4, WorkerSlots
  <2>2. Leases'
    BY <2>1, NoNewExecution DEF IInv, Leases, Busy, Live, IdleSlot
  <2>3. QED
    BY <1>0, <1>4, <2>2, WorkerType DEF IInv
<1>5. CASE Tick
  <2>1. \A t \in Slot : /\ slot'[t].phase = slot[t].phase /\ slot'[t].job = slot[t].job
                        /\ slot'[t].attempt = slot[t].attempt
    BY <1>0, <1>5, TickEffect
  <2>2. Leases'
    BY <2>1, NoNewExecution DEF IInv, Leases, Busy, Live
  <2>3. QED
    BY <1>0, <1>5, <2>2, TickType DEF IInv
<1>6. CASE UNCHANGED vars
  BY <1>6 DEF IInv, TypeOK, Leases, Busy, LeaseHeld, LeaseUnique, Live, vars
<1>7. QED
  BY <1>1, <1>2, <1>3, <1>4, <1>5, <1>6 DEF Next

LEMMA Invariance == Spec => []IInv
BY InitIInv, NextIInv, PTL DEF Spec

\* The state always has its types.
THEOREM TypeCorrect == Spec => []TypeOK
<1>1. IInv => TypeOK
  BY DEF IInv
<1>2. QED
  BY Invariance, <1>1, PTL

\* However many executions of an item are running, at most one of them can still
\* write its verdict: for any number of workers, lanes, crashes and recoveries.
THEOREM OneLeaseHolderAlways == Spec => []OneLeaseHolder
<1>1. IInv => OneLeaseHolder
  BY DEF IInv, Leases, LeaseUnique, OneLeaseHolder, HoldsLease, Live
<1>2. QED
  BY Invariance, <1>1, PTL

-----------------------------------------------------------------------------
(* Verdicts.  Only four actions change what the public sees of an item; the   *)
(* other ones leave every row alone or move it between queued and running.    *)

Quiet == \A i \in Item : \/ row'[i].status = row[i].status
                         \/ {row[i].status, row'[i].status} \subseteq {"queued", "running"}

\* The execution in slot s writes its verdict o.
Judges(s, o) ==
  /\ slot[s].phase = "executing" /\ slot'[s].phase # "executing"
  /\ HoldsLease(s)
  /\ row' = [row EXCEPT ![ItemOf(s)] = [status |-> o, attempt |-> NoAttempt, age |-> 0]]

LEMMA RecoverQuiet ==
  ASSUME TypeOK, NEW k, RecoverStale(k)
  PROVE  Quiet
BY DEF RecoverStale, Stale, Requeued, Quiet

LEMMA TakeLeaseQuiet ==
  ASSUME TypeOK, NEW i \in Item, NEW a, TakeLease(i, a)
  PROVE  Quiet
BY DEF TypeOK, TakeLease, Quiet

LEMMA SlotVerdict ==
  ASSUME IInv, NEW s \in Slot, SlotStep(s)
  PROVE  Quiet \/ \E o \in Outcome : Judges(s, o)
<1>0. TypeOK /\ Busy
  BY DEF IInv, Leases
<1>1. CASE MaybeRecover(s)
  BY <1>0, <1>1, RecoverQuiet DEF MaybeRecover
<1>2. CASE Claim(s)
  <2>1. ItemOf(s) \in Item
    BY <1>0, <1>2, ItemOfBusy DEF Claim
  <2>2. QED
    BY <1>0, <1>2, <2>1, TakeLeaseQuiet DEF Claim
<1>3. CASE ClaimFails(s)
  <2>1. ItemOf(s) \in Item
    BY <1>0, <1>3, ItemOfBusy DEF ClaimFails
  <2>2. CASE UNCHANGED row
    BY <2>2 DEF Quiet
  <2>3. CASE \E a \in FreshAttempts : TakeLease(ItemOf(s), a)
    BY <1>0, <2>1, <2>3, TakeLeaseQuiet
  <2>4. QED
    BY <1>3, <2>2, <2>3 DEF ClaimFails
<1>4. CASE Heartbeat(s)
  <2> DEFINE i == ItemOf(s)
             age == IF HoldsLease(s) THEN 0 ELSE row[i].age
  <2>1. i \in Item
    BY <1>0, <1>4, ItemOfBusy DEF Heartbeat, Live
  <2>2. row[i] \in Row
    BY <1>0, <2>1 DEF TypeOK
  <2>3. row' = [row EXCEPT ![i] = [row[i] EXCEPT !.age = age]]
    BY <1>4 DEF Heartbeat
  <2>4. [row[i] EXCEPT !.age = age].status = row[i].status
    BY <2>2 DEF Row
  <2>5. QED
    BY <1>0, <2>1, <2>3, <2>4 DEF Quiet, TypeOK
<1>5. CASE Complete(s)
  <2>1. slot'[s].phase # "executing"
    BY <1>0, <1>5, EndEffect DEF Complete, Phase
  <2>2. QED
    BY <1>5, <2>1 DEF Complete, WriteVerdict, Judges, Live
<1>6. CASE CompleteFails(s)
  <2>1. slot'[s].phase # "executing"
    BY <1>0, <1>6, EndEffect DEF CompleteFails, Phase
  <2>2. CASE UNCHANGED row
    BY <2>2 DEF Quiet
  <2>3. CASE WriteVerdict(s)
    BY <1>6, <2>1, <2>3 DEF CompleteFails, WriteVerdict, Judges, Live
  <2>4. QED
    BY <1>6, <2>2, <2>3 DEF CompleteFails
<1>7. ASSUME row' = row PROVE Quiet
  BY <1>7 DEF Quiet
<1>8. QED
  BY <1>1, <1>2, <1>3, <1>4, <1>5, <1>6, <1>7
  DEF SlotStep, StartJob, StartJobRecovering, MaybeRecoverFails, ClaimNothing, DiscardLate,
      Ack, Reject, rowVars

LEMMA WorkerQuiet ==
  ASSUME TypeOK, NEW w \in Worker, WorkerStep(w)
  PROVE  Quiet
<1>1. ASSUME NEW k \in Kind, PassQuery(w, k) PROVE Quiet
  BY <1>1, RecoverQuiet DEF PassQuery
<1>2. ASSUME row' = row PROVE Quiet
  BY <1>2 DEF Quiet
<1>3. QED
  BY <1>1, <1>2 DEF WorkerStep, Start, StartPass, PassQueryFails, Requeue, SyncQueued,
                    SyncFails, Shutdown, Exit, Crash, rowVars

LEMMA TickQuiet ==
  ASSUME TypeOK, Tick
  PROVE  Quiet
<1>1. ASSUME NEW i \in Item PROVE row'[i].status = row[i].status
  <2> DEFINE x == [row[i] EXCEPT !.age = row[i].age + 1]
  <2>1. row[i] \in Row
    BY DEF TypeOK
  <2>2. x.status = row[i].status
    BY <2>1 DEF Row
  <2>3. row'[i] = x \/ row'[i] = row[i]
    BY DEF Tick
  <2>4. QED
    BY <2>2, <2>3
<1>2. QED
  BY <1>1 DEF Quiet

\* What a step can do to the public state of the items.
LEMMA PublicStep ==
  ASSUME IInv, [Next]_vars
  PROVE  \/ Quiet
         \/ \E i \in Item : Create(i) \/ Delete(i)
         \/ \E s \in Slot : \E o \in Outcome : Judges(s, o)
<1>0. TypeOK
  BY DEF IInv
<1>1. ASSUME row' = row PROVE Quiet
  BY <1>1 DEF Quiet
<1>2. ASSUME NEW i \in Item, ApiStep(i) PROVE Quiet \/ Create(i) \/ Delete(i)
  BY <1>1, <1>2 DEF ApiStep, Enqueue, LoseRequest
<1>3. ASSUME NEW j \in JobId, QueueStep(j) PROVE Quiet
  BY <1>1, <1>3 DEF QueueStep, Promote, Stalled, rowVars
<1>4. CASE UNCHANGED vars
  BY <1>1, <1>4 DEF vars
<1>5. QED
  BY <1>0, <1>2, <1>3, <1>4, SlotVerdict, WorkerQuiet, TickQuiet DEF Next

\* The execution that judges an item has a job, and a row that waits for its verdict.
LEMMA JudgesItem ==
  ASSUME IInv, NEW s \in Slot, NEW o \in Outcome, Judges(s, o)
  PROVE  /\ ItemOf(s) \in Item /\ row[ItemOf(s)].status = "running"
         /\ row'[ItemOf(s)].status = o
         /\ \A i \in Item : i # ItemOf(s) => row'[i] = row[i]
<1>1. ItemOf(s) \in Item
  BY ItemOfBusy DEF IInv, Leases, Judges
<1>2. QED
  BY <1>1 DEF IInv, TypeOK, Judges, HoldsLease

\* An item enters as queued, and leaves as deleted.
LEMMA CreateItem ==
  ASSUME TypeOK, NEW i \in Item, Create(i)
  PROVE  /\ row[i].status = "none" /\ row'[i].status = "queued"
         /\ \A h \in Item : h # i => row'[h] = row[h]
<1>1. row' = [row EXCEPT ![i] = [row[i] EXCEPT !.status = "queued"]]
  BY DEF Create
<1>2. [row[i] EXCEPT !.status = "queued"].status = "queued"
  BY DEF TypeOK, Row
<1>3. QED
  BY <1>1, <1>2 DEF TypeOK, Create

LEMMA DeleteItem ==
  ASSUME TypeOK, NEW i \in Item, Delete(i)
  PROVE  /\ row[i].status \in {"queued", "running"} \cup Outcome
         /\ row'[i].status = "deleted"
         /\ \A h \in Item : h # i => row'[h] = row[h]
BY DEF TypeOK, Delete, NoRow

\* A verdict is written only by the execution whose lease the row carries.
THEOREM VerdictsByLeaseHolder == Spec => VerdictByLeaseHolder
<1> DEFINE A == \A i \in Item :
       row[i].status \notin Outcome /\ row'[i].status \in Outcome =>
         \E s \in Slot : /\ slot[s].phase = "executing" /\ slot'[s].phase # "executing"
                         /\ slot[s].job[1] = i
                         /\ slot[s].attempt = row[i].attempt
<1>1. IInv /\ [Next]_vars => [A]_vars
  <2> SUFFICES ASSUME IInv, [Next]_vars PROVE A
    OBVIOUS
  <2>1. CASE Quiet
    BY <2>1 DEF Quiet, Outcome
  <2>2. CASE \E i \in Item : Create(i) \/ Delete(i)
    <3>1. PICK i \in Item : Create(i) \/ Delete(i)
      BY <2>2
    <3>2. /\ row'[i].status \in {"queued", "deleted"}
          /\ \A h \in Item : h # i => row'[h] = row[h]
      BY <3>1, CreateItem, DeleteItem DEF IInv
    <3>3. QED
      BY <3>2 DEF Outcome
  <2>3. ASSUME NEW s \in Slot, NEW o \in Outcome, Judges(s, o) PROVE A
    BY <2>3, JudgesItem DEF Judges, HoldsLease, ItemOf
  <2>4. QED
    BY <2>1, <2>2, <2>3, PublicStep
<1>2. QED
  BY Invariance, <1>1, PTL DEF Spec, VerdictByLeaseHolder

-----------------------------------------------------------------------------
(* The pipeline implements JudgeVerdict: the initial states map to its initial *)
(* state, and every step to a step of it or to a stutter.                      *)

\* What the public sees of item i, and of all items: the refinement mapping.
PublicStatus(i) == IF row[i].status \in {"queued", "running"} THEN "pending" ELSE row[i].status
PublicView == [i \in Item |-> PublicStatus(i)]

\* If only item i looks different after a step, the view changes at i.
LEMMA ViewUpdate ==
  ASSUME NEW i \in Item, NEW v, PublicStatus(i)' = v,
         \A h \in Item : h # i => row'[h] = row[h]
  PROVE  PublicView' = [PublicView EXCEPT ![i] = v]
<1>1. \A h \in Item : h # i => PublicStatus(h)' = PublicStatus(h)
  BY DEF PublicStatus
<1>2. QED
  BY <1>1 DEF PublicView

\* Every step maps to a step of JudgeVerdict or to a stutter.
LEMMA RefinementStep ==
  ASSUME IInv, [Next]_vars
  PROVE  [Verdict!VerdictNext]_PublicView
<1>0. TypeOK
  BY DEF IInv
<1>1. CASE Quiet
  <2>1. \A i \in Item : PublicStatus(i)' = PublicStatus(i)
    BY <1>1 DEF Quiet, PublicStatus
  <2>2. PublicView' = PublicView
    BY <2>1 DEF PublicView
  <2>3. QED
    BY <2>2
<1>2. ASSUME NEW i \in Item, Create(i) PROVE Verdict!Accept(i)
  <2>1. PublicStatus(i) = "none" /\ PublicStatus(i)' = "pending"
    BY <1>0, <1>2, CreateItem DEF PublicStatus
  <2>2. PublicView' = [PublicView EXCEPT ![i] = "pending"]
    BY <1>0, <1>2, <2>1, CreateItem, ViewUpdate
  <2>3. QED
    BY <2>1, <2>2 DEF Verdict!Accept, PublicView, PublicStatus
<1>3. ASSUME NEW i \in Item, Delete(i) PROVE Verdict!Remove(i)
  <2>1. PublicStatus(i) \in {"pending"} \cup Outcome /\ PublicStatus(i)' = "deleted"
    BY <1>0, <1>3, DeleteItem DEF PublicStatus, Outcome
  <2>2. PublicView' = [PublicView EXCEPT ![i] = "deleted"]
    BY <1>0, <1>3, <2>1, DeleteItem, ViewUpdate
  <2>3. QED
    BY <2>1, <2>2 DEF Verdict!Remove, PublicView, PublicStatus
<1>4. ASSUME NEW s \in Slot, NEW o \in Outcome, Judges(s, o)
      PROVE  \E i \in Item : Verdict!Judge(i, o)
  <2>1. PICK i \in Item : /\ row[i].status = "running" /\ row'[i].status = o
                          /\ \A h \in Item : h # i => row'[h] = row[h]
    BY <1>4, JudgesItem
  <2>2. PublicStatus(i) = "pending" /\ PublicStatus(i)' = o
    BY <2>1 DEF PublicStatus, Outcome
  <2>3. PublicView' = [PublicView EXCEPT ![i] = o]
    BY <2>1, <2>2, ViewUpdate
  <2>4. QED
    BY <2>2, <2>3 DEF Verdict!Judge, PublicView, PublicStatus
<1>5. QED
  <2>1. CASE \E i \in Item : Create(i) \/ Delete(i)
    BY <1>2, <1>3, <2>1 DEF Verdict!VerdictNext
  <2>2. CASE \E s \in Slot : \E o \in Outcome : Judges(s, o)
    BY <1>4, <2>2 DEF Verdict!VerdictNext
  <2>3. QED
    BY <1>1, <2>1, <2>2, PublicStep

\* A judged item keeps its verdict until it is deleted, whatever is redelivered,
\* retried, recovered or late: the pipeline refines the abstract JudgeVerdict.
THEOREM PipelineRefinesVerdict == Spec => JudgedOnce
<1>1. Init => Verdict!VerdictInit
  BY DEF Init, NoRow, Verdict!VerdictInit
<1>2. IInv /\ [Next]_vars => [Verdict!VerdictNext]_PublicView
  BY RefinementStep
<1>3. QED
  BY Invariance, <1>1, <1>2, PTL
  DEF Spec, JudgedOnce, Verdict!VerdictSpec, PublicView, PublicStatus
=============================================================================
