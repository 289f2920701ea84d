--------------------------- MODULE RecoveryProofs ---------------------------
(***************************************************************************)
(* What heartbeats and recovery are for.  If a live execution renews its   *)
(* lease at least every StaleAfter, no recovery takes the lease from it,   *)
(* so its result counts and no second sandbox runs for its item.  And a    *)
(* queued item always has something that will bring it to a claim, unless  *)
(* one of five steps drops it; a few disruptions cause none of them.       *)
(***************************************************************************)
EXTENDS JudgePipelineProofs, FiniteSetTheorems

(* Heartbeats keep the lease.                                                *)

\* The inductive form of BeatingLeaseKept: the row is no older than the last
\* heartbeat of the execution that holds its lease.
Beating(s) == HoldsLease(s) /\ row[ItemOf(s)].age =< slot[s].beat
LeaseKept == \A s \in Slot : Live(s) /\ row[ItemOf(s)].status # "deleted" => Beating(s)

HInv == IInv /\ LeaseKept /\ ExclusiveExecution

LEMMA LiveTypes ==
  ASSUME IInv, NEW s \in Slot, Live(s)
  PROVE  /\ ItemOf(s) \in Item /\ row[ItemOf(s)] \in Row
         /\ slot[s].beat \in 0..MaxBeatGap
<1>1. ItemOf(s) \in Item
  BY ItemOfBusy DEF IInv, Leases, Live
<1>2. slot[s] \in SlotState
  BY DEF IInv, TypeOK
<1>3. QED
  BY <1>1, <1>2 DEF IInv, TypeOK, SlotState

\* A queued row, or one that was never created, has no live execution.
LEMMA NoExecutionOf ==
  ASSUME HInv, NEW i, row[i].status \in {"none", "queued"}, NEW s \in Slot, Live(s)
  PROVE  ItemOf(s) # i
BY DEF HInv, LeaseKept, Beating, HoldsLease

\* A step that starts no execution, and leaves the rows of the ones that go on under
\* their lease and no older than their last heartbeat, or deletes them.
LEMMA GoesOn ==
  ASSUME HInv,
         \A t \in Slot : slot'[t].phase = "executing" =>
           /\ Live(t) /\ slot'[t].job = slot[t].job /\ slot'[t].attempt = slot[t].attempt
           /\ \/ row'[ItemOf(t)].status = "deleted"
              \/ /\ row'[ItemOf(t)].status = row[ItemOf(t)].status
                 /\ row'[ItemOf(t)].attempt = row[ItemOf(t)].attempt
                 /\ row[ItemOf(t)].age =< slot[t].beat => row'[ItemOf(t)].age =< slot'[t].beat
  PROVE  LeaseKept' /\ ExclusiveExecution'
<1>1. \A t \in Slot : slot'[t].phase = "executing" => ItemOf(t)' = ItemOf(t)
  BY DEF ItemOf
<1>2. LeaseKept'
  BY <1>1 DEF HInv, LeaseKept, Beating, HoldsLease, Live
<1>3. ExclusiveExecution'
  BY <1>1 DEF HInv, ExclusiveExecution, Live
<1>4. QED
  BY <1>2, <1>3

\* The common case: the step leaves the rows of the executions alone.
LEMMA RowsKept ==
  ASSUME HInv,
         \A t \in Slot : slot'[t].phase = "executing" =>
           Live(t) /\ slot'[t] = slot[t] /\ row'[ItemOf(t)] = row[ItemOf(t)]
  PROVE  LeaseKept' /\ ExclusiveExecution'
BY GoesOn

LEMMA RecoveryKeeps ==
  ASSUME HInv, MaxBeatGap =< StaleAfter, NEW k, RecoverStale(k), NEW t \in Slot, Live(t)
  PROVE  row'[ItemOf(t)] = row[ItemOf(t)]
<1> DEFINE i == ItemOf(t)
<1>1. i \in Item /\ row[i] \in Row /\ slot[t].beat \in 0..MaxBeatGap
  BY LiveTypes DEF HInv
<1>2. row[i].age \in Nat
  BY <1>1, PipelineAssumption DEF Row
<1>3. row[i].status # "running" \/ row[i].age =< slot[t].beat
  BY DEF HInv, LeaseKept, Beating
<1>4. i \notin Stale(k)
  BY <1>1, <1>2, <1>3, PipelineAssumption DEF Stale
<1>5. row' = [h \in Item |-> IF h \in Stale(k) THEN Requeued ELSE row[h]]
  BY DEF RecoverStale
<1>6. QED
  BY <1>1, <1>4, <1>5

LEMMA ApiKeeps ==
  ASSUME HInv, NEW i \in Item, ApiStep(i)
  PROVE  LeaseKept' /\ ExclusiveExecution'
<1>0. TypeOK
  BY DEF HInv, IInv
<1>1. slot' = slot
  BY DEF ApiStep, Create, Enqueue, LoseRequest, Delete
<1>2. CASE Create(i)
  <2>1. \A t \in Slot : Live(t) => ItemOf(t) # i
    BY <1>2, NoExecutionOf DEF Create
  <2>2. \A t \in Slot : Live(t) => ItemOf(t) \in Item
    BY LiveTypes DEF HInv
  <2>3. \A t \in Slot : Live(t) => row'[ItemOf(t)] = row[ItemOf(t)]
    BY <1>0, <1>2, <2>1, <2>2, CreateItem
  <2>4. QED
    BY <1>1, <2>3, RowsKept DEF Live
<1>3. CASE Delete(i)
  <2>1. \A t \in Slot : Live(t) => ItemOf(t) \in Item
    BY LiveTypes DEF HInv
  <2>2. \A t \in Slot : Live(t) => \/ row'[ItemOf(t)].status = "deleted"
                                   \/ row'[ItemOf(t)] = row[ItemOf(t)]
    BY <1>0, <1>3, <2>1, DeleteItem
  <2>3. QED
    BY <1>1, <2>2, GoesOn DEF Live
<1>4. CASE Enqueue(i) \/ LoseRequest(i)
  BY <1>1, <1>4, RowsKept DEF Enqueue, LoseRequest, Live
<1>5. QED
  BY <1>2, <1>3, <1>4 DEF ApiStep

\* An execution starts on a queued row, which has no other execution.
LEMMA ClaimKeeps ==
  ASSUME HInv, NEW s \in Slot, Claim(s)
  PROVE  LeaseKept' /\ ExclusiveExecution'
<1>0. TypeOK /\ Busy
  BY DEF HInv, IInv, Leases
<1>1. PICK a \in FreshAttempts : TakeLease(ItemOf(s), a) /\ slot'[s].attempt = a
  BY <1>0, ClaimEffect
<1>2. PICK i \in Item : i = ItemOf(s)
  BY <1>0, ItemOfBusy DEF Claim
<1>3. /\ slot'[s].phase = "executing" /\ ItemOf(s)' = i /\ slot'[s].beat = slot[s].beat
      /\ \A t \in Slot : t # s => slot'[t] = slot[t]
  BY <1>0, <1>2, ClaimEffect DEF ItemOf
<1>4. /\ row'[i] = [status |-> "running", attempt |-> a, age |-> 0]
      /\ \A h \in Item : h # i => row'[h] = row[h]
  BY <1>0, <1>1, <1>2 DEF TakeLease, TypeOK
<1>5. ASSUME NEW t \in Slot, t # s, Live(t)'
      PROVE  /\ Live(t) /\ slot'[t] = slot[t] /\ ItemOf(t) \in Item
             /\ ItemOf(t) # i /\ ItemOf(t)' = ItemOf(t)
  <2>1. slot'[t] = slot[t] /\ Live(t) /\ ItemOf(t)' = ItemOf(t)
    BY <1>3, <1>5 DEF Live, ItemOf
  <2>2. ItemOf(t) # i
    BY <1>1, <1>2, <2>1, NoExecutionOf DEF TakeLease
  <2>3. QED
    BY <2>1, <2>2, LiveTypes DEF HInv
<1>6. slot[s].beat \in Nat
  BY <1>0, PipelineAssumption DEF TypeOK, SlotState
<1>7. Beating(s)'
  BY <1>1, <1>3, <1>4, <1>6 DEF Beating, HoldsLease
<1>8. ASSUME NEW t \in Slot, t # s, Live(t)', row'[ItemOf(t)].status # "deleted"
      PROVE  Beating(t)'
  <2>1. /\ Live(t) /\ slot'[t] = slot[t] /\ ItemOf(t)' = ItemOf(t)
        /\ row'[ItemOf(t)] = row[ItemOf(t)]
    BY <1>4, <1>5, <1>8
  <2>2. Beating(t)
    BY <1>8, <2>1 DEF HInv, LeaseKept
  <2>3. QED
    BY <2>1, <2>2 DEF Beating, HoldsLease
<1>9. LeaseKept'
  BY <1>5, <1>7, <1>8 DEF LeaseKept
<1>10. ExclusiveExecution'
  BY <1>3, <1>5 DEF HInv, ExclusiveExecution
<1>11. QED
  BY <1>9, <1>10

\* The heartbeat renews the row of its own execution only.
LEMMA HeartbeatKeeps ==
  ASSUME HInv, NEW s \in Slot, Heartbeat(s)
  PROVE  LeaseKept' /\ ExclusiveExecution'
<1>0. TypeOK /\ Live(s)
  BY DEF HInv, IInv, Heartbeat
<1> DEFINE i == ItemOf(s)
           x == [row[i] EXCEPT !.age = IF HoldsLease(s) THEN 0 ELSE row[i].age]
<1>1. i \in Item /\ row[i] \in Row
  BY <1>0, LiveTypes DEF HInv
<1>2. row' = [row EXCEPT ![i] = x]
  BY DEF Heartbeat
<1>3. /\ x.status = row[i].status /\ x.attempt = row[i].attempt
      /\ row[i].status = "deleted" \/ x.age = 0
  BY <1>0, <1>1 DEF HInv, LeaseKept, Beating, Row
<1>4. row'[i] = x /\ \A h \in Item : h # i => row'[h] = row[h]
  BY <1>0, <1>1, <1>2 DEF TypeOK
<1>5. /\ slot'[s].phase = slot[s].phase /\ slot'[s].job = slot[s].job
      /\ slot'[s].attempt = slot[s].attempt /\ slot'[s].beat = 0
      /\ \A t \in Slot : t # s => slot'[t] = slot[t]
  BY <1>0, HeartbeatEffect
<1>6. ASSUME NEW t \in Slot, t # s, Live(t) PROVE row'[ItemOf(t)] = row[ItemOf(t)]
  <2>1. ItemOf(t) \in Item /\ ItemOf(t) # i
    BY <1>0, <1>6, LiveTypes DEF HInv, ExclusiveExecution
  <2>2. QED
    BY <1>4, <2>1
<1>7. /\ row'[i].status = row[i].status /\ row'[i].attempt = row[i].attempt
      /\ row'[i].status = "deleted" \/ row'[i].age =< slot'[s].beat
  <2>1. row'[i].age = x.age /\ row'[i].status = x.status /\ row'[i].attempt = x.attempt
    BY <1>4
  <2> HIDE DEF x
  <2>2. QED
    BY <1>3, <1>5, <2>1
<1> HIDE DEF x
<1>8. QED
  BY <1>0, <1>5, <1>6, <1>7, GoesOn DEF Live

\* An execution that ends, its verdict written or not, touches no other one's row.
LEMMA EndKeeps ==
  ASSUME HInv, NEW s \in Slot, NEW ph \in Phase \ {"executing"}, EndExecution(s, ph),
         Live(s), UNCHANGED row \/ WriteVerdict(s)
  PROVE  LeaseKept' /\ ExclusiveExecution'
<1>0. TypeOK
  BY DEF HInv, IInv
<1>1. slot'[s].phase # "executing" /\ \A t \in Slot : t # s => slot'[t] = slot[t]
  BY <1>0, EndEffect
<1>2. ASSUME NEW t \in Slot, t # s, Live(t) PROVE row'[ItemOf(t)] = row[ItemOf(t)]
  <2>1. ItemOf(t) \in Item /\ ItemOf(t) # ItemOf(s)
    BY <1>2, LiveTypes DEF HInv, ExclusiveExecution
  <2>2. QED
    BY <1>0, <2>1 DEF WriteVerdict, TypeOK
<1>3. QED
  BY <1>1, <1>2, RowsKept DEF Live

LEMMA SlotKeeps ==
  ASSUME HInv, MaxBeatGap =< StaleAfter, NEW s \in Slot, SlotStep(s)
  PROVE  LeaseKept' /\ ExclusiveExecution'
<1>0. TypeOK /\ Busy
  BY DEF HInv, IInv, Leases
<1>a. ASSUME slot'[s].phase # "executing", \A t \in Slot : t # s => slot'[t] = slot[t],
             \A t \in Slot : Live(t) => row'[ItemOf(t)] = row[ItemOf(t)]
      PROVE  LeaseKept' /\ ExclusiveExecution'
  BY <1>a, RowsKept DEF Live
<1>1. ASSUME NEW j \in JobId, StartJob(s, j) \/ StartJobRecovering(s, j)
      PROVE  LeaseKept' /\ ExclusiveExecution'
  <2>1. \E ph \in Phase \ {"executing"} : Pick(s, j, ph)
    BY <1>1 DEF StartJob, StartJobRecovering, Phase
  <2>2. row' = row
    BY <1>1 DEF StartJob, StartJobRecovering, rowVars
  <2>3. QED
    BY <1>0, <1>a, <2>1, <2>2, PickEffect
<1>2. CASE MaybeRecover(s)
  <2>1. slot'[s].phase # "executing" /\ \A t \in Slot : t # s => slot'[t] = slot[t]
    BY <1>0, <1>2, GotoEffect DEF MaybeRecover, Phase
  <2>2. \A t \in Slot : Live(t) => row'[ItemOf(t)] = row[ItemOf(t)]
    BY <1>2, RecoveryKeeps DEF MaybeRecover
  <2>3. QED
    BY <1>a, <2>1, <2>2
<1>3. CASE MaybeRecoverFails(s) \/ ClaimNothing(s)
  <2>1. slot'[s].phase # "executing" /\ \A t \in Slot : t # s => slot'[t] = slot[t]
    BY <1>0, <1>3, GotoEffect DEF MaybeRecoverFails, ClaimNothing, Phase
  <2>2. QED
    BY <1>3, <1>a, <2>1 DEF MaybeRecoverFails, ClaimNothing, rowVars
<1>4. CASE Claim(s)
  BY <1>4, ClaimKeeps
<1>5. CASE ClaimFails(s)
  <2>1. slot'[s].phase # "executing" /\ \A t \in Slot : t # s => slot'[t] = slot[t]
    BY <1>0, <1>5, GotoEffect DEF ClaimFails, Phase
  <2>2. ASSUME NEW a \in FreshAttempts, TakeLease(ItemOf(s), a), NEW t \in Slot, Live(t)
        PROVE  row'[ItemOf(t)] = row[ItemOf(t)]
    <3>1. ItemOf(t) \in Item /\ ItemOf(t) # ItemOf(s)
      BY <2>2, LiveTypes, NoExecutionOf DEF HInv, TakeLease
    <3>2. QED
      BY <1>0, <2>2, <3>1 DEF TakeLease, TypeOK
  <2>3. \A t \in Slot : Live(t) => row'[ItemOf(t)] = row[ItemOf(t)]
    BY <1>5, <2>2 DEF ClaimFails
  <2>4. QED
    BY <1>a, <2>1, <2>3
<1>6. CASE Heartbeat(s)
  BY <1>6, HeartbeatKeeps
<1>7. CASE Complete(s) \/ DiscardLate(s) \/ CompleteFails(s)
  BY <1>7, EndKeeps DEF Complete, DiscardLate, CompleteFails, Phase, rowVars
<1>8. CASE Ack(s) \/ Reject(s)
  BY <1>0, <1>8, <1>a DEF Ack, Reject, IdleSlot, TypeOK, rowVars
<1>9. QED
  BY <1>1, <1>2, <1>3, <1>4, <1>5, <1>6, <1>7, <1>8 DEF SlotStep

LEMMA WorkerKeeps ==
  ASSUME HInv, MaxBeatGap =< StaleAfter, NEW w \in Worker, WorkerStep(w)
  PROVE  LeaseKept' /\ ExclusiveExecution'
<1>1. \A t \in Slot : slot'[t].phase = "executing" => Live(t) /\ slot'[t] = slot[t]
  BY WorkerSlots DEF HInv, IInv, Live, IdleSlot
<1>2. \A t \in Slot : Live(t) => row'[ItemOf(t)] = row[ItemOf(t)]
  <2>1. ASSUME NEW k \in Kind, PassQuery(w, k), NEW t \in Slot, Live(t)
        PROVE  row'[ItemOf(t)] = row[ItemOf(t)]
    BY <2>1, RecoveryKeeps DEF PassQuery
  <2>2. QED
    BY <2>1 DEF WorkerStep, Start, StartPass, PassQueryFails, Requeue, SyncQueued,
                SyncFails, Shutdown, Exit, Crash, rowVars
<1>3. QED
  BY <1>1, <1>2, RowsKept

LEMMA TickKeeps ==
  ASSUME HInv, Tick
  PROVE  LeaseKept' /\ ExclusiveExecution'
<1>0. TypeOK
  BY DEF HInv, IInv
<1>1. ASSUME NEW t \in Slot, Live(t)
      PROVE  /\ row'[ItemOf(t)].status = row[ItemOf(t)].status
             /\ row'[ItemOf(t)].attempt = row[ItemOf(t)].attempt
             /\ row[ItemOf(t)].age =< slot[t].beat => row'[ItemOf(t)].age =< slot'[t].beat
  <2> DEFINE i == ItemOf(t)
             x == [row[i] EXCEPT !.age = row[i].age + 1]
  <2>1. i \in Item /\ row[i] \in Row /\ slot[t].beat \in Nat /\ row[i].age \in Nat
    BY <1>1, LiveTypes, PipelineAssumption DEF HInv, Row
  <2>2. row'[i] = x \/ row'[i] = row[i]
    BY <2>1 DEF Tick
  <2>3. x.status = row[i].status /\ x.attempt = row[i].attempt /\ x.age = row[i].age + 1
    BY <2>1 DEF Row
  <2>4. slot'[t].beat = slot[t].beat + 1
    BY <1>0, <1>1, TickEffect
  <2> HIDE DEF x
  <2>5. QED
    BY <2>1, <2>2, <2>3, <2>4
<1>2. \A t \in Slot : /\ slot'[t].phase = slot[t].phase /\ slot'[t].job = slot[t].job
                      /\ slot'[t].attempt = slot[t].attempt
  BY <1>0, TickEffect
<1>3. QED
  BY <1>1, <1>2, GoesOn DEF Live

LEMMA NextHInv ==
  ASSUME MaxBeatGap =< StaleAfter
  PROVE  HInv /\ [Next]_vars => HInv'
<1> SUFFICES ASSUME HInv, [Next]_vars PROVE HInv'
  OBVIOUS
<1>1. IInv'
  BY NextIInv DEF HInv
<1>2. ASSUME NEW j \in JobId, QueueStep(j) PROVE LeaseKept' /\ ExclusiveExecution'
  BY <1>2, RowsKept DEF QueueStep, Promote, Stalled, rowVars, Live
<1>3. CASE UNCHANGED vars
  <2>1. row' = row /\ slot' = slot
    BY <1>3 DEF vars
  <2>2. LeaseKept' /\ ExclusiveExecution'
    BY <2>1 DEF HInv, LeaseKept, ExclusiveExecution, Beating, HoldsLease, Live, ItemOf
  <2>3. QED
    BY <1>1, <2>2 DEF HInv
<1>4. QED
  BY <1>1, <1>2, <1>3, ApiKeeps, SlotKeeps, WorkerKeeps, TickKeeps DEF Next, HInv

LEMMA HeartbeatInvariance ==
  ASSUME MaxBeatGap =< StaleAfter
  PROVE  Spec => []HInv
<1>1. Init => HInv
  BY InitIInv DEF Init, HInv, LeaseKept, ExclusiveExecution, Live, IdleSlot
<1>2. HInv /\ [Next]_vars => HInv'
  BY NextHInv
<1>3. QED
  BY <1>1, <1>2, PTL DEF Spec

\* An execution whose heartbeats come at least every StaleAfter never loses its lease
\* to a recovery, of its own or another process: the result of live work counts.
THEOREM HeartbeatsKeepLease ==
  ASSUME MaxBeatGap =< StaleAfter
  PROVE  Spec => []BeatingLeaseKept
<1>1. HInv => BeatingLeaseKept
  BY DEF HInv, LeaseKept, Beating, BeatingLeaseKept
<1>2. QED
  BY HeartbeatInvariance, <1>1, PTL

\* Under the same condition no item is executed twice at the same time.
THEOREM ExecutionIsExclusive ==
  ASSUME MaxBeatGap =< StaleAfter
  PROVE  Spec => []ExclusiveExecution
<1>1. HInv => ExclusiveExecution
  BY DEF HInv
<1>2. QED
  BY HeartbeatInvariance, <1>1, PTL

-----------------------------------------------------------------------------
(* No work is lost.  NoWorkLost is not inductive: an active job says nothing   *)
(* about its row once its slot is past the claim, and the slot that claims may *)
(* have lost the lock of its job.  What is inductive is that every queued row  *)
(* has a carrier that can still reach a claim.                                 *)

BeforeClaim == {"recovering", "claiming", "failing"}

\* Job j can still bring its item to a claim: it waits, or it is active and its
\* lock holder is gone or not past the claim (a slot that failed before it, too).
Carries(j) ==
  \/ job[j].st \in {"waiting", "delayed"}
  \/ /\ job[j].st = "active"
     /\ \A s \in job[j].by : slot[s].job = j => slot[s].phase \in BeforeClaim

Holds(w, i) == i \in requeue[w] \/ i \in pass[w].ids \/ NotSynced(w, i)
CarriedByWorker(i) == \E w \in Worker : Holds(w, i)
Carried(i) ==
  \/ i \in request
  \/ \E t \in Tag : Carries(<<i, t>>)
  \/ CarriedByWorker(i)
AllCarried == \A i \in Item : row[i].status = "queued" => Carried(i)

\* Nobody enqueued the item of a pending request under its own job id.
RequestFresh ==
  \A i \in Item : /\ i \in request => job[<<i, Original>>].st = "absent"
                  /\ row[i].status = "none" =>
                       i \notin request /\ job[<<i, Original>>].st = "absent"

\* A pass holds ids only while it waits for its other query.
PassOver == \A w \in Worker : pass[w].waiting = {} => pass[w].ids = {}

WInv == IInv /\ RequestFresh /\ PassOver

\* The steps that can leave a queued row without a carrier.
\* The API handler dies before it enqueues.
LosesRequest == \E i \in Item : row[i].status = "queued" /\ LoseRequest(i)
\* The job fails for good, with its stalls or with its tries used up.
LastStall(j) == Stalled(j) /\ ~MayStall(j)
LastTry(j) == \E s \in Slot : /\ Reject(s) /\ slot[s].job = j
                              /\ HoldsLock(s, j) /\ ~(job[j].tries + 1 < MaxTries)
\* BullMQ gives the job of a queued row up.
GivesUp(j) ==
  /\ row[j[1]].status = "queued"
  /\ LastStall(j) \/ LastTry(j)
\* maybeRecoverStale* requeues rows whose ids nobody enqueues.
SlotDrops(s) == MaybeRecover(s) /\ Stale(SlotKind(s)) # {}
\* The timer's pass ends with one query failed: the ids of the other are dropped.
PassDrops(w, k) ==
  /\ pass[w].waiting = {k} /\ boot[w] # "recover"
  /\ \/ PassQueryFails(w, k) /\ pass[w].ids # {}
     \/ PassQuery(w, k) /\ pass[w].lost /\ pass[w].ids \cup Stale(k) # {}
\* The startup sync lists fewer rows than are queued.
SyncMisses(w) == SyncQueued(w) /\ ~(Queued(SyncKind(w)) \subseteq requeue'[w])

Drops ==
  \/ LosesRequest
  \/ \E j \in JobId : GivesUp(j)
  \/ \E s \in Slot : SlotDrops(s)
  \/ \E w \in Worker : SyncMisses(w) \/ \E k \in Kind : PassDrops(w, k)

\* A job keeps carrying its item through a step that leaves its record alone and
\* moves no slot on it past the claim.
LEMMA CarriesKept ==
  ASSUME TypeOK, NEW j \in JobId, job'[j] = job[j],
         \A s \in Slot : slot'[s].job = j =>
           /\ slot[s].job = j
           /\ slot[s].phase \in BeforeClaim => slot'[s].phase \in BeforeClaim,
         Carries(j)
  PROVE  Carries(j)'
<1>1. job[j].by \subseteq Slot
  BY DEF TypeOK, Job
<1>2. QED
  BY <1>1 DEF Carries

\* A queued row keeps its carriers.
LEMMA CarriedKept ==
  ASSUME AllCarried, NEW i \in Item, row[i].status = "queued",
         i \in request => i \in request',
         \A t \in Tag : Carries(<<i, t>>) => Carries(<<i, t>>)',
         CarriedByWorker(i) => CarriedByWorker(i)'
  PROVE  Carried(i)'
BY DEF AllCarried, Carried

LEMMA WorkerVarsKept ==
  ASSUME UNCHANGED <<mode, boot, pass, requeue>>, NEW i
  PROVE  CarriedByWorker(i) => CarriedByWorker(i)'
BY DEF CarriedByWorker, Holds, NotSynced

LEMMA OwnJobId == \A i \in Item, t \in Tag : <<i, t>> \in JobId /\ <<i, t>>[1] = i
BY DEF JobId

LEMMA ApiCarries ==
  ASSUME WInv, AllCarried, NEW i \in Item, ApiStep(i), ~Drops
  PROVE  AllCarried'
<1>0. TypeOK /\ \A w : UNCHANGED <<mode, boot, pass, requeue, slot>>
  BY DEF WInv, IInv, ApiStep, Create, Enqueue, LoseRequest, Delete, workerVars
<1> SUFFICES ASSUME NEW h \in Item, row'[h].status = "queued" PROVE Carried(h)'
  BY DEF AllCarried
<1>w. CarriedByWorker(h) => CarriedByWorker(h)'
  BY <1>0, WorkerVarsKept
<1>j. ASSUME job' = job PROVE \A t \in Tag : Carries(<<h, t>>) => Carries(<<h, t>>)'
  BY <1>0, <1>j, OwnJobId, CarriesKept
<1>1. CASE Create(i)
  <2>1. CASE h = i
    BY <1>1, <2>1 DEF Create, Carried
  <2>2. CASE h # i
    <3>1. row'[h] = row[h]
      BY <1>0, <1>1, <2>2, CreateItem
    <3>2. job' = job /\ request \subseteq request'
      BY <1>1 DEF Create
    <3>3. QED
      BY <1>j, <1>w, <3>1, <3>2, CarriedKept
  <2>3. QED
    BY <2>1, <2>2
<1>2. CASE Enqueue(i)
  <2> DEFINE o == <<i, Original>>
  <2>1. o \in JobId
    BY OwnJobId DEF Tag
  <2>2. job[o].st = "absent"
    BY <1>2 DEF WInv, RequestFresh, Enqueue
  <2>3. job' = [job EXCEPT ![o] = [AbsentJob EXCEPT !.st = "waiting"]]
    BY <1>2, <2>2 DEF Enqueue, AddJob
  <2>4. job'[o].st = "waiting"
    BY <1>0, <2>1, <2>3 DEF TypeOK, AbsentJob
  <2>5. row' = row
    BY <1>2 DEF Enqueue
  <2>6. CASE h = i
    BY <2>4, <2>6 DEF Carried, Carries, Tag
  <2>7. CASE h # i
    <3>1. \A t \in Tag : Carries(<<h, t>>) => Carries(<<h, t>>)'
      <4> SUFFICES ASSUME NEW t \in Tag, Carries(<<h, t>>) PROVE Carries(<<h, t>>)'
        OBVIOUS
      <4>1. <<h, t>> \in JobId /\ <<h, t>> # o
        BY <2>7, OwnJobId
      <4>2. job'[<<h, t>>] = job[<<h, t>>]
        BY <1>0, <2>3, <4>1 DEF TypeOK
      <4>3. QED
        BY <1>0, <4>1, <4>2, CarriesKept
    <3>2. h \in request => h \in request'
      BY <1>2, <2>7 DEF Enqueue
    <3>3. QED
      BY <1>w, <2>5, <3>1, <3>2, CarriedKept
  <2>8. QED
    BY <2>6, <2>7
<1>3. CASE LoseRequest(i)
  <2>1. row' = row /\ job' = job /\ request' = request \ {i}
    BY <1>3 DEF LoseRequest
  <2>2. h # i
    BY <1>3, <2>1 DEF Drops, LosesRequest
  <2>3. QED
    BY <1>j, <1>w, <2>1, <2>2, CarriedKept
<1>4. CASE Delete(i)
  <2>1. row'[h] = row[h]
    BY <1>0, <1>4, DeleteItem
  <2>2. job' = job /\ request' = request
    BY <1>4 DEF Delete
  <2>3. QED
    BY <1>j, <1>w, <2>1, <2>2, CarriedKept
<1>5. QED
  BY <1>1, <1>2, <1>3, <1>4 DEF ApiStep

LEMMA QueueCarries ==
  ASSUME WInv, AllCarried, NEW j \in JobId, QueueStep(j), ~Drops
  PROVE  AllCarried'
<1>0. TypeOK /\ UNCHANGED <<row, request, mode, boot, pass, requeue, slot>>
  BY DEF WInv, IInv, QueueStep, Promote, Stalled, rowVars, workerVars
<1> SUFFICES ASSUME NEW h \in Item, row[h].status = "queued" PROVE Carried(h)'
  BY <1>0 DEF AllCarried
<1>w. CarriedByWorker(h) => CarriedByWorker(h)'
  BY <1>0, WorkerVarsKept
<1>1. ASSUME j[1] = h PROVE job'[j].st = "waiting"
  <2>1. CASE Promote(j)
    <3>1. job' = [job EXCEPT ![j] = [job[j] EXCEPT !.st = "waiting"]]
      BY <2>1 DEF Promote
    <3>2. job[j] \in Job
      BY <1>0 DEF TypeOK
    <3>3. [job[j] EXCEPT !.st = "waiting"].st = "waiting"
      BY <3>2 DEF Job
    <3>4. QED
      BY <1>0, <3>1, <3>3 DEF TypeOK
  <2>2. CASE Stalled(j)
    <3>1. MayStall(j)
      BY <1>1, <2>2 DEF Drops, GivesUp, LastStall
    <3> DEFINE x == [job[j] EXCEPT !.st = "waiting", !.stalls = job[j].stalls + 1, !.by = {}]
    <3>2. job' = [job EXCEPT ![j] = x]
      BY <2>2, <3>1 DEF Stalled
    <3>3. job[j] \in Job
      BY <1>0 DEF TypeOK
    <3>4. x.st = "waiting"
      BY <3>3 DEF Job
    <3>5. QED
      BY <1>0, <3>2, <3>4 DEF TypeOK
  <2>3. QED
    BY <2>1, <2>2 DEF QueueStep
<1>2. ASSUME NEW o \in JobId, o # j PROVE job'[o] = job[o]
  BY <1>0, <1>2 DEF QueueStep, Promote, Stalled, TypeOK
<1>3. \A t \in Tag : Carries(<<h, t>>) => Carries(<<h, t>>)'
  <2> SUFFICES ASSUME NEW t \in Tag, Carries(<<h, t>>) PROVE Carries(<<h, t>>)'
    OBVIOUS
  <2>1. <<h, t>> \in JobId /\ <<h, t>>[1] = h
    BY OwnJobId
  <2>2. CASE <<h, t>> = j
    BY <1>1, <2>1, <2>2 DEF Carries
  <2>3. CASE <<h, t>> # j
    <3>1. job'[<<h, t>>] = job[<<h, t>>]
      BY <1>2, <2>1, <2>3
    <3>2. QED
      BY <1>0, <2>1, <3>1, CarriesKept
  <2>4. QED
    BY <2>2, <2>3
<1>4. QED
  BY <1>0, <1>w, <1>3, CarriedKept

\* A slot step that leaves the jobs alone, and moves its slot s past the claim only if
\* the row of its item is not queued any more.
LEMMA SlotMoves ==
  ASSUME TypeOK, AllCarried, NEW s \in Slot, NEW h \in Item, row[h].status = "queued",
         UNCHANGED <<request, job, mode, boot, pass, requeue>>,
         \A t \in Slot : t # s => slot'[t] = slot[t],
         slot'[s].job = slot[s].job,
         \/ slot[s].job \in JobId /\ ItemOf(s) # h
         \/ slot[s].phase \notin BeforeClaim
         \/ slot'[s].phase \in BeforeClaim
  PROVE  Carried(h)'
<1>1. ASSUME NEW t \in Tag, Carries(<<h, t>>) PROVE Carries(<<h, t>>)'
  <2>1. <<h, t>> \in JobId /\ <<h, t>>[1] = h
    BY OwnJobId
  <2>2. \A u \in Slot : slot'[u].job = <<h, t>> =>
           /\ slot[u].job = <<h, t>>
           /\ slot[u].phase \in BeforeClaim => slot'[u].phase \in BeforeClaim
    BY <2>1 DEF ItemOf
  <2>3. QED
    BY <1>1, <2>1, <2>2, CarriesKept
<1>2. CarriedByWorker(h) => CarriedByWorker(h)'
  BY WorkerVarsKept
<1>3. QED
  BY <1>1, <1>2, CarriedKept

\* A slot takes a job: the job carries its item into the slot.
LEMMA PickCarries ==
  ASSUME TypeOK, AllCarried, NEW s \in Slot, NEW j \in JobId, NEW ph \in Phase, Pick(s, j, ph),
         ph \in BeforeClaim, NEW h \in Item, row[h].status = "queued",
         UNCHANGED <<request, mode, boot, pass, requeue>>
  PROVE  Carried(h)'
<1> DEFINE x == [job[j] EXCEPT !.st = "active", !.by = {s}]
<1>1. job' = [job EXCEPT ![j] = x]
  BY DEF Pick
<1>2. x.st = "active" /\ x.by = {s}
  BY DEF TypeOK, Job
<1>3. slot'[s].phase = ph /\ slot'[s].job = j /\ \A t \in Slot : t # s => slot'[t] = slot[t]
  BY PickEffect
<1>4. Carries(j)'
  BY <1>1, <1>2, <1>3 DEF Carries, TypeOK
<1>5. ASSUME NEW t \in Tag, Carries(<<h, t>>) PROVE Carries(<<h, t>>)'
  <2>1. <<h, t>> \in JobId
    BY OwnJobId
  <2>2. CASE <<h, t>> = j
    BY <1>4, <2>2
  <2>3. CASE <<h, t>> # j
    <3>1. job'[<<h, t>>] = job[<<h, t>>]
      BY <1>1, <2>1, <2>3 DEF TypeOK
    <3>2. \A u \in Slot : slot'[u].job = <<h, t>> => slot'[u] = slot[u]
      BY <1>3, <2>3
    <3>3. QED
      BY <1>5, <2>1, <3>1, <3>2, CarriesKept
  <2>4. QED
    BY <2>2, <2>3
<1>6. CarriedByWorker(h) => CarriedByWorker(h)'
  BY WorkerVarsKept
<1>7. QED
  BY <1>5, <1>6, CarriedKept

\* A slot lets its job go: what it held the lock of was past the claim, or is retried.
LEMMA ReleaseCarries ==
  ASSUME TypeOK, AllCarried, NEW s \in Slot, slot[s].job \in JobId, NEW h \in Item,
         row[h].status = "queued",
         UNCHANGED <<request, mode, boot, pass, requeue>>,
         slot' = [slot EXCEPT ![s] = IdleSlot],
         NEW x, job' = [job EXCEPT ![slot[s].job] = x],
         \/ x = job[slot[s].job]
         \/ /\ s \in job[slot[s].job].by /\ job[slot[s].job].st = "active"
            /\ slot[s].phase \notin BeforeClaim \/ x.st = "delayed" \/ ItemOf(s) # h
  PROVE  Carried(h)'
<1> DEFINE j == slot[s].job
<1>1. ASSUME NEW t \in Tag, Carries(<<h, t>>) PROVE Carries(<<h, t>>)'
  <2>1. <<h, t>> \in JobId /\ <<h, t>>[1] = h
    BY OwnJobId
  <2>2. \A u \in Slot : slot'[u].job = <<h, t>> => slot'[u] = slot[u]
    <3>1. \A u \in Slot : u # s => slot'[u] = slot[u]
      BY DEF TypeOK
    <3>2. slot'[s].job = NoJob
      BY DEF TypeOK, IdleSlot
    <3>3. QED
      BY <2>1, <3>1, <3>2, PipelineAssumption
  <2>3. CASE job'[<<h, t>>] = job[<<h, t>>]
    BY <1>1, <2>1, <2>2, <2>3, CarriesKept
  <2>4. CASE job'[<<h, t>>] # job[<<h, t>>]
    <3>1. <<h, t>> = j /\ job'[j] = x /\ x # job[j]
      BY <2>1, <2>4 DEF TypeOK
    <3>2. ItemOf(s) = h
      BY <2>1, <3>1 DEF ItemOf
    <3>3. slot[s].phase \in BeforeClaim
      BY <1>1, <3>1 DEF Carries
    <3>4. QED
      BY <3>1, <3>2, <3>3 DEF Carries
  <2>5. QED
    BY <2>3, <2>4
<1>2. CarriedByWorker(h) => CarriedByWorker(h)'
  BY WorkerVarsKept
<1>3. QED
  BY <1>1, <1>2, CarriedKept

\* No slot step but a recovery query makes a row queued, and a claim ends that.
LEMMA TakeLeaseRow ==
  ASSUME TypeOK, NEW i \in Item, NEW a, TakeLease(i, a)
  PROVE  /\ row'[i].status = "running"
         /\ \A h \in Item : h # i => row'[h] = row[h]
BY DEF TypeOK, TakeLease

LEMMA SlotRows ==
  ASSUME IInv, NEW s \in Slot, SlotStep(s), ~SlotDrops(s), NEW h \in Item,
         row'[h].status = "queued"
  PROVE  row[h].status = "queued" /\ (Claim(s) => ItemOf(s) # h)
<1>0. TypeOK /\ Busy
  BY DEF IInv, Leases
<1>1. CASE MaybeRecover(s)
  <2>1. Stale(SlotKind(s)) = {}
    BY <1>1 DEF SlotDrops
  <2>2. row'[h] = row[h]
    BY <1>1, <2>1 DEF MaybeRecover, RecoverStale
  <2>3. ~Claim(s)
    BY <1>1 DEF MaybeRecover, Claim
  <2>4. QED
    BY <2>2, <2>3
<1>2. CASE Claim(s)
  <2>1. ItemOf(s) \in Item
    BY <1>0, <1>2, ItemOfBusy DEF Claim
  <2>2. QED
    BY <1>0, <1>2, <2>1, TakeLeaseRow DEF Claim
<1>3. CASE ~Claim(s) /\ ~MaybeRecover(s)
  <2>1. CASE \E o \in Outcome : Judges(s, o)
    <3>1. PICK o \in Outcome : Judges(s, o)
      BY <2>1
    <3>2. row'[ItemOf(s)].status = o /\ \A i \in Item : i # ItemOf(s) => row'[i] = row[i]
      BY <3>1, JudgesItem
    <3>3. h # ItemOf(s)
      BY <3>2 DEF Outcome
    <3>4. QED
      BY <1>3, <3>2, <3>3
  <2>2. CASE ClaimFails(s)
    <3>1. ItemOf(s) \in Item
      BY <1>0, <2>2, ItemOfBusy DEF ClaimFails
    <3>2. CASE UNCHANGED row
      BY <1>3, <3>2
    <3>3. CASE \E a \in FreshAttempts : TakeLease(ItemOf(s), a)
      BY <1>0, <1>3, <3>1, <3>3, TakeLeaseRow
    <3>4. QED
      BY <2>2, <3>2, <3>3 DEF ClaimFails
  <2>3. CASE Heartbeat(s)
    <3> DEFINE i == ItemOf(s)
               age == IF HoldsLease(s) THEN 0 ELSE row[i].age
    <3>1. i \in Item
      BY <1>0, <2>3, ItemOfBusy DEF Heartbeat, Live
    <3>2. row' = [row EXCEPT ![i] = [row[i] EXCEPT !.age = age]]
      BY <2>3 DEF Heartbeat
    <3>3. row[i] \in Row
      BY <1>0, <3>1 DEF TypeOK
    <3>4. [row[i] EXCEPT !.age = age].status = row[i].status
      BY <3>3 DEF Row
    <3>5. QED
      BY <1>0, <1>3, <3>1, <3>2, <3>4 DEF TypeOK
  <2>4. CASE UNCHANGED row
    BY <1>3, <2>4
  <2>5. CASE Complete(s) \/ CompleteFails(s)
    <3>1. slot[s].phase = "executing" /\ slot'[s].phase # "executing"
      BY <1>0, <2>5, EndEffect DEF Complete, CompleteFails, Live, Phase
    <3>2. WriteVerdict(s) \/ UNCHANGED row
      BY <2>5 DEF Complete, CompleteFails
    <3>3. QED
      BY <2>1, <2>4, <3>1, <3>2 DEF WriteVerdict, Judges
  <2>6. QED
    BY <1>3, <2>2, <2>3, <2>4, <2>5
    DEF SlotStep, StartJob, StartJobRecovering, MaybeRecoverFails, ClaimNothing, DiscardLate,
        Ack, Reject, rowVars
<1>4. QED
  BY <1>1, <1>2, <1>3

LEMMA SlotCarries ==
  ASSUME WInv, AllCarried, NEW s \in Slot, SlotStep(s), ~Drops
  PROVE  AllCarried'
<1>0. IInv /\ TypeOK /\ Busy
  BY DEF WInv, IInv, Leases
<1> SUFFICES ASSUME NEW h \in Item, row'[h].status = "queued" PROVE Carried(h)'
  BY DEF AllCarried
<1>r. row[h].status = "queued" /\ (Claim(s) => ItemOf(s) # h)
  BY <1>0, SlotRows DEF Drops
<1>b. slot[s].phase # "idle" => slot[s].job \in JobId
  BY <1>0 DEF Busy
<1>1. ASSUME NEW j \in JobId, StartJob(s, j) PROVE Carried(h)'
  BY <1>0, <1>r, <1>1, PickCarries DEF StartJob, Phase, BeforeClaim, rowVars, workerVars
<1>2. ASSUME NEW j \in JobId, StartJobRecovering(s, j) PROVE Carried(h)'
  BY <1>0, <1>r, <1>2, PickCarries DEF StartJobRecovering, Phase, BeforeClaim, rowVars
<1>3. CASE MaybeRecover(s)
  BY <1>0, <1>r, <1>3, GotoEffect, SlotMoves DEF MaybeRecover, Phase, BeforeClaim, workerVars
<1>4. CASE MaybeRecoverFails(s)
  BY <1>0, <1>r, <1>4, GotoEffect, SlotMoves
  DEF MaybeRecoverFails, Phase, BeforeClaim, rowVars, workerVars
<1>5. CASE Claim(s)
  BY <1>0, <1>r, <1>b, <1>5, ClaimEffect, SlotMoves DEF Claim, workerVars
<1>6. CASE ClaimNothing(s)
  BY <1>0, <1>r, <1>b, <1>6, GotoEffect, SlotMoves
  DEF ClaimNothing, Phase, rowVars, workerVars
<1>7. CASE ClaimFails(s)
  BY <1>0, <1>r, <1>7, GotoEffect, SlotMoves DEF ClaimFails, Phase, BeforeClaim, workerVars
<1>8. CASE Heartbeat(s)
  BY <1>0, <1>r, <1>8, HeartbeatEffect, SlotMoves DEF Heartbeat, workerVars
<1>9. CASE Complete(s)
  BY <1>0, <1>r, <1>9, EndEffect, SlotMoves DEF Complete, Live, Phase, BeforeClaim, workerVars
<1>10. CASE DiscardLate(s)
  BY <1>0, <1>r, <1>10, EndEffect, SlotMoves
  DEF DiscardLate, Live, Phase, BeforeClaim, rowVars, workerVars
<1>11. CASE CompleteFails(s)
  BY <1>0, <1>r, <1>11, EndEffect, SlotMoves
  DEF CompleteFails, Live, Phase, BeforeClaim, workerVars
<1> DEFINE j == slot[s].job
<1>12. CASE Ack(s)
  <2> DEFINE x == IF HoldsLock(s, j) THEN Ended(j) ELSE job[j]
  <2>1. /\ job' = [job EXCEPT ![j] = x] /\ slot' = [slot EXCEPT ![s] = IdleSlot]
        /\ UNCHANGED <<request, mode, boot, pass, requeue>>
    BY <1>12 DEF Ack, rowVars, workerVars
  <2>2. x = job[j] \/ /\ s \in job[j].by /\ job[j].st = "active"
                      /\ slot[s].phase \notin BeforeClaim
    BY <1>12 DEF HoldsLock, Ack, BeforeClaim
  <2>3. j \in JobId
    BY <1>b, <1>12 DEF Ack
  <2> HIDE DEF x
  <2>4. QED
    BY <1>0, <1>r, <2>1, <2>2, <2>3, ReleaseCarries
<1>13. CASE Reject(s)
  <2>1. j \in JobId
    BY <1>b, <1>13 DEF Reject
  <2> DEFINE x == Rejected(s, j)
  <2>2. /\ job' = [job EXCEPT ![j] = x] /\ slot' = [slot EXCEPT ![s] = IdleSlot]
        /\ UNCHANGED <<request, mode, boot, pass, requeue>>
    BY <1>13 DEF Reject, rowVars, workerVars
  <2>3. \/ x = job[j]
        \/ s \in job[j].by /\ job[j].st = "active" /\ (x.st = "delayed" \/ ItemOf(s) # h)
    <3>1. CASE ~HoldsLock(s, j)
      BY <3>1 DEF Rejected
    <3>2. CASE HoldsLock(s, j) /\ job[j].tries + 1 < MaxTries
      <4>1. x = [job[j] EXCEPT !.st = "delayed", !.tries = job[j].tries + 1, !.by = {}]
        BY <3>2 DEF Rejected
      <4>2. job[j] \in Job
        BY <1>0, <2>1 DEF TypeOK
      <4>3. x.st = "delayed"
        BY <4>1, <4>2 DEF Job
      <4>4. QED
        BY <3>2, <4>3 DEF HoldsLock
    <3>3. CASE HoldsLock(s, j) /\ ~(job[j].tries + 1 < MaxTries)
      <4>1. ~GivesUp(j)
        BY <2>1 DEF Drops
      <4>2. row[j[1]].status # "queued"
        BY <1>13, <3>3, <4>1 DEF GivesUp, LastTry
      <4>3. ItemOf(s) # h
        BY <1>r, <4>2 DEF ItemOf
      <4>4. QED
        BY <3>3, <4>3 DEF HoldsLock
    <3>4. QED
      BY <3>1, <3>2, <3>3
  <2> HIDE DEF x
  <2>4. QED
    BY <1>0, <1>r, <2>1, <2>2, <2>3, ReleaseCarries
<1>14. QED
  BY <1>1, <1>2, <1>3, <1>4, <1>5, <1>6, <1>7, <1>8, <1>9, <1>10, <1>11, <1>12, <1>13
  DEF SlotStep

\* A step of worker w leaves the memory of the other ones alone.
LEMMA OtherWorkers ==
  ASSUME TypeOK, NEW w \in Worker, WorkerStep(w), NEW u \in Worker, u # w, NEW i
  PROVE  Holds(u, i) => Holds(u, i)'
<1>1. /\ mode'[u] = mode[u] /\ boot'[u] = boot[u]
      /\ pass'[u] = pass[u] /\ requeue'[u] = requeue[u]
  BY DEF TypeOK, WorkerStep, Start, StartPass, PassQuery, PassQueryFails, PassAnswer,
         StillWaiting, PassDone, PassFailed, Requeue, SyncQueued, SyncFails, Shutdown,
         Exit, Crash, Gone
<1>2. QED
  BY <1>1 DEF Holds, NotSynced

\* A pass that is answered keeps its ids, hands them on, or leaves the process
\* unsynchronised; a failed pass of the timer has none.
LEMMA PassHolds ==
  ASSUME TypeOK, NEW w \in Worker, NEW p \in Pass, PassAnswer(w, p), NEW i,
         pass[w].ids \subseteq p.ids,
         PassFailed(w, p) => boot[w] = "recover" \/ p.ids = {},
         Holds(w, i) \/ i \in p.ids
  PROVE  Holds(w, i)'
<1> USE DEF TypeOK, Holds, NotSynced
<1>1. CASE StillWaiting(w, p)
  BY <1>1 DEF StillWaiting
<1>2. CASE PassDone(w, p)
  BY <1>2 DEF PassDone
<1>3. CASE PassFailed(w, p)
  <2>1. CASE boot[w] = "recover"
    BY <1>3, <2>1 DEF PassFailed
  <2>2. CASE boot[w] # "recover"
    <3>1. p.ids = {} /\ pass[w].ids = {} /\ UNCHANGED <<mode, boot, requeue>>
      BY <1>3, <2>2 DEF PassFailed
    <3>2. QED
      BY <3>1
  <2>3. QED
    BY <2>1, <2>2
<1>4. QED
  BY <1>1, <1>2, <1>3 DEF PassAnswer

LEMMA SyncHolds ==
  ASSUME TypeOK, NEW w \in Worker, SyncQueued(w), ~SyncMisses(w), NEW i \in Item,
         row[i].status = "queued", Holds(w, i)
  PROVE  Holds(w, i)'
<1>1. /\ requeue[w] = {} /\ pass' = pass /\ mode' = mode
      /\ boot[w] \in {"syncSubmissions", "syncRuns"}
      /\ boot' = [boot EXCEPT ![w] = IF @ = "syncSubmissions" THEN "syncRuns" ELSE "ready"]
  BY DEF SyncQueued, Syncing
<1>2. Queued(SyncKind(w)) \subseteq requeue'[w]
  BY DEF SyncMisses
<1>3. CASE i \in pass[w].ids \/ mode[w] # "up"
  BY <1>1, <1>3 DEF Holds, NotSynced
<1>4. CASE boot[w] = "syncSubmissions"
  <2>1. boot'[w] = "syncRuns"
    BY <1>1, <1>4 DEF TypeOK
  <2>2. CASE i \in Runs
    BY <2>1, <2>2 DEF Holds, NotSynced
  <2>3. CASE i \notin Runs
    <3>1. i \in Queued(SyncKind(w))
      BY <1>4, <2>3 DEF Queued, SyncKind, KindOf, Item
    <3>2. QED
      BY <1>2, <3>1 DEF Holds
  <2>4. QED
    BY <2>2, <2>3
<1>5. CASE boot[w] = "syncRuns" /\ i \in Runs
  <2>1. i \in Queued(SyncKind(w))
    BY <1>5, PipelineAssumption DEF Queued, SyncKind, KindOf
  <2>2. QED
    BY <1>2, <2>1 DEF Holds
<1>6. QED
  BY <1>1, <1>3, <1>4, <1>5 DEF Holds, NotSynced

LEMMA RequeueJob ==
  ASSUME TypeOK, NEW w \in Worker, NEW i \in Item, Requeue(w, i)
  PROVE  \E t \in Tag : /\ job'[<<i, t>>].st = "waiting" /\ t # Original
                        /\ job[<<i, t>>].st = "absent"
                        /\ \A j \in JobId : j # <<i, t>> => job'[j] = job[j]
<1>1. PICK t \in FreshTags(i) : AddJob(<<i, t>>)
  BY DEF Requeue
<1>2. t \in Tag /\ t # Original /\ job[<<i, t>>].st = "absent" /\ <<i, t>> \in JobId
  BY PipelineAssumption DEF FreshTags, Tag, JobId
<1>3. job' = [job EXCEPT ![<<i, t>>] = [AbsentJob EXCEPT !.st = "waiting"]]
  BY <1>1, <1>2 DEF AddJob
<1>4. QED
  BY <1>2, <1>3 DEF TypeOK, AbsentJob

LEMMA WorkerCarries ==
  ASSUME WInv, AllCarried, NEW w \in Worker, WorkerStep(w), ~Drops
  PROVE  AllCarried'
<1>0. IInv /\ TypeOK
  BY DEF WInv, IInv
<1> SUFFICES ASSUME NEW h \in Item, row'[h].status = "queued" PROVE Carried(h)'
  BY DEF AllCarried
\* A job goes on carrying: slots only lose theirs.
<1>j. ASSUME NEW t \in Tag, job'[<<h, t>>] = job[<<h, t>>], Carries(<<h, t>>)
      PROVE  Carries(<<h, t>>)'
  <2>1. <<h, t>> \in JobId
    BY OwnJobId
  <2>2. \A s \in Slot : slot'[s].job = <<h, t>> => slot'[s] = slot[s]
    <3>1. IdleSlot.job # <<h, t>>
      BY <2>1, PipelineAssumption DEF IdleSlot
    <3>2. QED
      BY <1>0, <3>1, WorkerSlots
  <2>3. QED
    BY <1>0, <1>j, <2>1, <2>2, CarriesKept
<1>u. ASSUME NEW u \in Worker, u # w, Holds(u, h) PROVE CarriedByWorker(h)'
  <2>1. Holds(u, h)'
    BY <1>0, <1>u, OtherWorkers
  <2>2. QED
    BY <2>1 DEF CarriedByWorker
<1>w. Holds(w, h)' => Carried(h)'
  BY DEF Carried, CarriedByWorker
\* What remains to show of an action: what it does to the memory of w.
<1>c. ASSUME row[h].status = "queued", job' = job, request' = request,
             Holds(w, h) => Holds(w, h)'
      PROVE  Carried(h)'
  BY <1>c, <1>j, <1>u, <1>w DEF AllCarried, Carried, CarriedByWorker
<1> USE <1>0 DEF TypeOK
<1>1. CASE Start(w)
  BY <1>1, <1>w DEF Start, Holds, NotSynced
<1>2. CASE StartPass(w)
  <2>1. pass[w].ids = {}
    BY <1>2 DEF WInv, PassOver, StartPass
  <2>2. Holds(w, h) => Holds(w, h)'
    BY <1>2, <2>1 DEF StartPass, Holds, NotSynced
  <2>3. QED
    BY <1>2, <2>2, <1>c DEF StartPass, rowVars
<1>3. ASSUME NEW k \in Kind, PassQuery(w, k) PROVE Carried(h)'
  <2> DEFINE p == [pass[w] EXCEPT !.waiting = @ \ {k}, !.ids = @ \cup Stale(k)]
  <2>1. pass[w] \in Pass
    OBVIOUS
  <2>2. /\ p \in Pass /\ p.ids = pass[w].ids \cup Stale(k)
        /\ p.waiting = pass[w].waiting \ {k} /\ p.lost = pass[w].lost
    BY <2>1 DEF Pass, Stale
  <2>3. PassAnswer(w, p) /\ k \in pass[w].waiting
    BY <1>3 DEF PassQuery
  <2> HIDE DEF p
  <2>4. PassFailed(w, p) => boot[w] = "recover" \/ p.ids = {}
    <3> SUFFICES ASSUME PassFailed(w, p), boot[w] # "recover", p.ids # {} PROVE FALSE
      OBVIOUS
    <3>1. pass[w].waiting = {k} /\ pass[w].lost
      BY <2>2, <2>3 DEF PassFailed
    <3>2. PassDrops(w, k)
      BY <1>3, <2>2, <3>1 DEF PassDrops
    <3>3. QED
      BY <3>2 DEF Drops
  <2>5. Holds(w, h) \/ h \in p.ids => Holds(w, h)'
    BY <2>2, <2>3, <2>4, PassHolds
  <2>6. h \in p.ids \/ row[h].status = "queued"
    BY <1>3, <2>2 DEF PassQuery, RecoverStale
  <2>7. QED
    BY <1>3, <2>5, <2>6, <1>c, <1>w DEF PassQuery
<1>4. ASSUME NEW k \in Kind, PassQueryFails(w, k) PROVE Carried(h)'
  <2> DEFINE p == [pass[w] EXCEPT !.waiting = @ \ {k}, !.lost = TRUE]
  <2>1. pass[w] \in Pass
    OBVIOUS
  <2>2. p \in Pass /\ p.ids = pass[w].ids /\ p.waiting = pass[w].waiting \ {k}
    BY <2>1 DEF Pass
  <2>3. PassAnswer(w, p) /\ k \in pass[w].waiting
    BY <1>4 DEF PassQueryFails
  <2> HIDE DEF p
  <2>4. PassFailed(w, p) => boot[w] = "recover" \/ p.ids = {}
    <3> SUFFICES ASSUME PassFailed(w, p), boot[w] # "recover", p.ids # {} PROVE FALSE
      OBVIOUS
    <3>1. pass[w].waiting = {k}
      BY <2>2, <2>3 DEF PassFailed
    <3>2. PassDrops(w, k)
      BY <1>4, <2>2, <3>1 DEF PassDrops
    <3>3. QED
      BY <3>2 DEF Drops
  <2>5. Holds(w, h) => Holds(w, h)'
    BY <2>2, <2>3, <2>4, PassHolds
  <2>6. QED
    BY <1>4, <2>5, <1>c DEF PassQueryFails, rowVars
<1>5. ASSUME NEW i \in Item, Requeue(w, i) PROVE Carried(h)'
  <2>1. PICK n \in Tag : /\ job'[<<i, n>>].st = "waiting"
                         /\ job[<<i, n>>].st = "absent"
                         /\ \A j \in JobId : j # <<i, n>> => job'[j] = job[j]
    BY <1>5, RequeueJob
  <2>2. CASE h = i
    BY <2>1, <2>2 DEF Carried, Carries
  <2>3. CASE h # i
    <3>1. \A t \in Tag : job'[<<h, t>>] = job[<<h, t>>]
      BY <2>1, <2>3, OwnJobId
    <3>2. row[h].status = "queued" /\ request' = request
      BY <1>5 DEF Requeue, rowVars
    <3>3. Holds(w, h) => Holds(w, h)'
      BY <1>5, <2>3 DEF Requeue, Holds, NotSynced
    <3>4. QED
      BY <3>1, <3>2, <3>3, <1>j, <1>u, <1>w DEF AllCarried, Carried, CarriedByWorker
  <2>4. QED
    BY <2>2, <2>3
<1>6. CASE SyncQueued(w)
  <2>1. row[h].status = "queued" /\ job' = job /\ request' = request
    BY <1>6 DEF SyncQueued, rowVars
  <2>2. ~SyncMisses(w)
    BY DEF Drops
  <2>3. QED
    BY <1>6, <2>1, <2>2, <1>c, SyncHolds
<1>7. CASE SyncFails(w) \/ Shutdown(w)
  BY <1>7, <1>w DEF SyncFails, Shutdown, Holds, NotSynced
<1>8. CASE Exit(w) \/ Crash(w)
  BY <1>8, <1>w DEF Exit, Crash, Gone, Holds, NotSynced
<1>9. QED
  BY <1>1, <1>2, <1>3, <1>4, <1>5, <1>6, <1>7, <1>8 DEF WorkerStep

\* Time moves no job, no request and no worker on.
LEMMA TickCarries ==
  ASSUME WInv, AllCarried, Tick
  PROVE  AllCarried'
<1>0. TypeOK
  BY DEF WInv, IInv
<1> SUFFICES ASSUME NEW h \in Item, row'[h].status = "queued" PROVE Carried(h)'
  BY DEF AllCarried
<1>1. row[h].status = "queued"
  <2> DEFINE x == [row[h] EXCEPT !.age = row[h].age + 1]
  <2>1. row[h] \in Row
    BY <1>0 DEF TypeOK
  <2>2. x.status = row[h].status
    BY <2>1 DEF Row
  <2>3. row'[h] = x \/ row'[h] = row[h]
    BY DEF Tick
  <2>4. QED
    BY <2>2, <2>3
<1>2. ASSUME NEW t \in Tag, Carries(<<h, t>>) PROVE Carries(<<h, t>>)'
  <2>1. <<h, t>> \in JobId /\ job' = job
    BY OwnJobId DEF Tick
  <2>2. \A s \in Slot : slot'[s].phase = slot[s].phase /\ slot'[s].job = slot[s].job
    BY <1>0, TickEffect
  <2>3. QED
    BY <1>0, <1>2, <2>1, <2>2, CarriesKept
<1>3. CarriedByWorker(h) => CarriedByWorker(h)'
  BY WorkerVarsKept DEF Tick
<1>4. QED
  BY <1>1, <1>2, <1>3, CarriedKept DEF Tick

\* Only Enqueue(i) adds a job under the item's own id.
LEMMA OwnJob ==
  ASSUME IInv, [Next]_vars, NEW i \in Item, job[<<i, Original>>].st = "absent", ~Enqueue(i)
  PROVE  job'[<<i, Original>>].st = "absent"
<1> DEFINE o == <<i, Original>>
<1>0. TypeOK /\ Busy /\ o \in JobId
  BY OwnJobId DEF IInv, Leases, Tag
<1>a. ASSUME NEW j \in JobId, j # o, \A g \in JobId : g # j => job'[g] = job[g]
      PROVE  job'[o].st = "absent"
  BY <1>0, <1>a
<1>b. ASSUME job' = job PROVE job'[o].st = "absent"
  BY <1>b
<1>1. ASSUME NEW h \in Item, ApiStep(h) PROVE job'[o].st = "absent"
  <2>1. CASE Enqueue(h)
    <3>1. <<h, Original>> \in JobId /\ <<h, Original>> # o
      BY <2>1, OwnJobId DEF Tag
    <3>2. \A g \in JobId : g # <<h, Original>> => job'[g] = job[g]
      BY <1>0, <2>1 DEF Enqueue, AddJob, TypeOK
    <3>3. QED
      BY <3>1, <3>2, <1>a
  <2>2. QED
    BY <1>1, <1>b, <2>1 DEF ApiStep, Create, LoseRequest, Delete
<1>2. ASSUME NEW j \in JobId, QueueStep(j) PROVE job'[o].st = "absent"
  <2>1. j # o /\ \A g \in JobId : g # j => job'[g] = job[g]
    BY <1>0, <1>2 DEF QueueStep, Promote, Stalled, TypeOK
  <2>2. QED
    BY <2>1, <1>a
<1>3. ASSUME NEW s \in Slot, SlotStep(s) PROVE job'[o].st = "absent"
  <2>1. ASSUME NEW j \in JobId, StartJob(s, j) \/ StartJobRecovering(s, j)
        PROVE  job'[o].st = "absent"
    <3>1. j # o /\ \A g \in JobId : g # j => job'[g] = job[g]
      BY <1>0, <2>1 DEF StartJob, StartJobRecovering, Pick, TypeOK
    <3>2. QED
      BY <3>1, <1>a
  <2>2. CASE Ack(s) \/ Reject(s)
    <3>1. slot[s].job \in JobId
      BY <1>0, <2>2 DEF Busy, Ack, Reject
    <3>2. CASE slot[s].job = o
      <4>1. ~HoldsLock(s, o)
        BY DEF HoldsLock
      <4>2. job' = [job EXCEPT ![o] = job[o]]
        BY <2>2, <3>2, <4>1 DEF Ack, Reject, Rejected
      <4>3. QED
        BY <1>0, <4>2 DEF TypeOK
    <3>3. CASE slot[s].job # o
      <4>1. \A g \in JobId : g # slot[s].job => job'[g] = job[g]
        BY <1>0, <2>2 DEF Ack, Reject, TypeOK
      <4>2. QED
        BY <3>1, <3>3, <4>1, <1>a
    <3>4. QED
      BY <3>2, <3>3
  <2>3. QED
    BY <1>3, <1>b, <2>1, <2>2
    DEF SlotStep, MaybeRecover, MaybeRecoverFails, Claim, ClaimNothing, ClaimFails, Heartbeat,
        Complete, DiscardLate, CompleteFails
<1>4. ASSUME NEW w \in Worker, WorkerStep(w) PROVE job'[o].st = "absent"
  <2>1. ASSUME NEW h \in Item, Requeue(w, h) PROVE job'[o].st = "absent"
    <3>1. PICK t \in Tag : /\ t # Original
                           /\ \A j \in JobId : j # <<h, t>> => job'[j] = job[j]
      BY <1>0, <2>1, RequeueJob
    <3>2. <<h, t>> \in JobId /\ <<h, t>> # o
      BY <3>1, OwnJobId
    <3>3. QED
      BY <3>1, <3>2, <1>a
  <2>2. QED
    BY <1>4, <1>b, <2>1
    DEF WorkerStep, Start, StartPass, PassQuery, PassQueryFails, SyncQueued, SyncFails,
        Shutdown, Exit, Crash
<1>5. CASE Tick \/ UNCHANGED vars
  BY <1>5, <1>b DEF Tick, vars
<1>6. QED
  BY <1>1, <1>2, <1>3, <1>4, <1>5 DEF Next

LEMMA NextRequestFresh ==
  ASSUME IInv, RequestFresh, [Next]_vars
  PROVE  RequestFresh'
<1> SUFFICES ASSUME NEW i \in Item
             PROVE  /\ (i \in request \/ row[i].status = "none")' =>
                         job'[<<i, Original>>].st = "absent"
                    /\ row'[i].status = "none" => i \notin request'
  BY DEF RequestFresh
<1>0. TypeOK
  BY DEF IInv
<1>1. row'[i].status = "none" => row[i].status = "none"
  <2>1. ASSUME NEW h \in Item, Create(h) \/ Delete(h), row'[i].status = "none"
        PROVE  row[i].status = "none"
    BY <1>0, <2>1, CreateItem, DeleteItem
  <2>2. ASSUME NEW s \in Slot, NEW o \in Outcome, Judges(s, o), row'[i].status = "none"
        PROVE  row[i].status = "none"
    BY <2>2, JudgesItem DEF Outcome
  <2>3. QED
    BY <2>1, <2>2, PublicStep DEF Quiet
<1>2. i \in request' => i \in request \/ Create(i)
  BY DEF Next, vars, ApiStep, Create, Enqueue, LoseRequest, Delete, QueueStep, Promote,
         Stalled, SlotStep, StartJob, StartJobRecovering, MaybeRecover, MaybeRecoverFails,
         Claim, ClaimNothing, ClaimFails, Heartbeat, Complete, DiscardLate, CompleteFails,
         Ack, Reject, WorkerStep, Start, StartPass, PassQuery, PassQueryFails, Requeue,
         SyncQueued, SyncFails, Shutdown, Exit, Crash, Tick, rowVars
<1>3. row'[i].status = "none" => i \notin request'
  <2>1. Create(i) => row'[i].status = "queued"
    BY <1>0, CreateItem
  <2>2. QED
    BY <1>1, <1>2, <2>1 DEF RequestFresh
<1>4. ASSUME (i \in request \/ row[i].status = "none")'
      PROVE  job'[<<i, Original>>].st = "absent"
  <2>1. job[<<i, Original>>].st = "absent"
    BY <1>1, <1>2, <1>4 DEF RequestFresh, Create
  <2>2. ~Enqueue(i)
    <3> SUFFICES ASSUME Enqueue(i) PROVE FALSE
      OBVIOUS
    <3>1. i \in request /\ i \notin request' /\ row' = row
      BY DEF Enqueue
    <3>2. QED
      BY <1>4, <3>1 DEF RequestFresh
  <2>3. QED
    BY <2>1, <2>2, OwnJob
<1>5. QED
  BY <1>3, <1>4

\* A pass that waits for nothing holds nothing.
LEMMA PassAnswerOver ==
  ASSUME TypeOK, NEW w \in Worker, NEW p, PassAnswer(w, p)
  PROVE  /\ pass'[w].waiting = {} => pass'[w].ids = {}
         /\ \A u \in Worker : u # w => pass'[u] = pass[u]
BY DEF TypeOK, PassAnswer, StillWaiting, PassDone, PassFailed, NoPass

LEMMA NextPassOver ==
  ASSUME IInv, PassOver, [Next]_vars
  PROVE  PassOver'
<1>0. TypeOK
  BY DEF IInv
<1>1. ASSUME NEW w \in Worker,
             pass'[w].waiting = {} => pass'[w].ids = {},
             \A u \in Worker : u # w => pass'[u] = pass[u]
      PROVE  PassOver'
  BY <1>1 DEF PassOver
<1>2. ASSUME pass' = pass PROVE PassOver'
  BY <1>2 DEF PassOver
<1>3. ASSUME NEW w \in Worker, WorkerStep(w) PROVE PassOver'
  <2>1. ASSUME NEW k \in Kind, PassQuery(w, k) \/ PassQueryFails(w, k) PROVE PassOver'
    BY <1>0, <1>1, <2>1, PassAnswerOver DEF PassQuery, PassQueryFails
  <2>2. CASE Start(w) \/ StartPass(w) \/ Exit(w) \/ Crash(w)
    BY <1>0, <1>1, <2>2 DEF Start, StartPass, Exit, Crash, Gone, NewPass, NoPass, TypeOK
  <2>3. QED
    BY <1>2, <1>3, <2>1, <2>2 DEF WorkerStep, Requeue, SyncQueued, SyncFails, Shutdown
<1>4. QED
  BY <1>2, <1>3
  DEF Next, vars, ApiStep, Create, Enqueue, LoseRequest, Delete, QueueStep, Promote,
      Stalled, SlotStep, StartJob, StartJobRecovering, MaybeRecover, MaybeRecoverFails,
      Claim, ClaimNothing, ClaimFails, Heartbeat, Complete, DiscardLate, CompleteFails,
      Ack, Reject, Tick, workerVars

LEMMA InitWInv == Init => WInv /\ AllCarried
<1> SUFFICES ASSUME Init PROVE WInv /\ AllCarried
  OBVIOUS
<1>1. IInv
  BY InitIInv
<1>2. RequestFresh
  BY OwnJobId DEF Init, RequestFresh, AbsentJob, Tag
<1>3. PassOver
  BY DEF Init, PassOver, NoPass
<1>4. AllCarried
  BY DEF Init, AllCarried, NoRow
<1>5. QED
  BY <1>1, <1>2, <1>3, <1>4 DEF WInv

LEMMA NextWInv == WInv /\ [Next]_vars => WInv'
BY NextIInv, NextRequestFresh, NextPassOver DEF WInv

LEMMA WInvariance == Spec => []WInv
<1>1. Init => WInv
  BY InitWInv
<1>2. QED
  BY <1>1, NextWInv, PTL DEF Spec

\* A step that is none of the five drops leaves every queued row with a carrier.
LEMMA NextCarries == WInv /\ AllCarried /\ [Next]_vars /\ ~Drops => AllCarried'
<1> SUFFICES ASSUME WInv, AllCarried, [Next]_vars, ~Drops PROVE AllCarried'
  OBVIOUS
<1>1. CASE UNCHANGED vars
  BY <1>1 DEF vars, AllCarried, Carried, Carries, CarriedByWorker, Holds, NotSynced
<1>2. QED
  BY <1>1, ApiCarries, QueueCarries, SlotCarries, WorkerCarries, TickCarries DEF Next

\* A queued row with a carrier has somebody who brings it to a worker.
LEMMA CarriedNotLost == AllCarried => NoWorkLost
BY DEF AllCarried, Carried, Carries, CarriedByWorker, Holds, NoWorkLost

\* The five ways to lose work are all there are: a queued row that has a carrier keeps
\* one, however many crashes, restarts, stalls and failed calls a behaviour contains,
\* unless the step is an API handler that dies before it enqueues, BullMQ giving the
\* row's job up, a recovery whose ids nobody enqueues, a recovery pass of the timer that
\* half fails, or a startup sync that lists fewer rows than are queued.
THEOREM LostOnlyByDrops == Spec => [][AllCarried /\ ~Drops => AllCarried']_vars
<1>1. WInv /\ [Next]_vars => [AllCarried /\ ~Drops => AllCarried']_vars
  BY NextCarries
<1>2. QED
  BY WInvariance, <1>1, PTL DEF Spec

\* A system that takes none of those steps never loses queued work.
THEOREM NoWorkLostWithoutDrops == Spec /\ [][~Drops]_vars => []NoWorkLost
<1>1. Init => AllCarried
  BY InitWInv
<1>2. WInv /\ AllCarried /\ [Next]_vars /\ [~Drops]_vars => AllCarried'
  <2> SUFFICES ASSUME WInv, AllCarried, [Next]_vars, [~Drops]_vars PROVE AllCarried'
    OBVIOUS
  <2>1. CASE ~Drops
    BY <2>1, NextCarries
  <2>2. CASE UNCHANGED vars
    BY <2>2 DEF vars, AllCarried, Carried, Carries, CarriedByWorker, Holds, NotSynced
  <2>3. QED
    BY <2>1, <2>2
<1>3. QED
  BY WInvariance, <1>1, <1>2, CarriedNotLost, PTL DEF Spec

-----------------------------------------------------------------------------
(* When none of the five can happen.  BullMQ gives a job up only after as      *)
(* many strikes as it has tries or stalls, and every strike costs a disruption. *)

\* n strikes are paid for by the disruptions that happened.
Paid(n) == n + budget =< MaxDisruptions

\* The strikes of job j, the one that its lock holder's fate will make included: a
\* holder that is gone will make the job stall, one that failed will reject it.
StrikesPaid(j) ==
  /\ Paid(job[j].tries) /\ Paid(job[j].stalls)
  /\ job[j].st = "active" =>
       \E s \in Slot : /\ job[j].by = {s}
                       /\ slot[s].job # j => Paid(job[j].stalls + 1)
                       /\ slot[s].job = j /\ slot[s].phase = "failing" => Paid(job[j].tries + 1)

\* Recovery queries never fail, and no slot ever runs one.
RecoveryWhole == /\ \A s \in Slot : slot[s].phase # "recovering"
                 /\ \A w \in Worker : ~pass[w].lost

\* An idle slot has no job.
IdleFree == \A s \in Slot : slot[s].phase = "idle" => slot[s].job = NoJob

SInv == WInv /\ IdleFree /\ \A j \in JobId : StrikesPaid(j)

\* No more disruptions than a job has tries and stalls, none of them in a recovery or
\* in an API handler, and at most as many items of a kind as a sync lists.
FewDisruptions ==
  /\ {"request", "lateTimer", "recoverQuery"} \cap Disruptions = {}
  /\ MaxDisruptions < MaxTries /\ MaxDisruptions =< MaxStalls
  /\ IsFiniteSet(Submissions) /\ Cardinality(Submissions) =< SyncLimit
  /\ IsFiniteSet(Runs) /\ Cardinality(Runs) =< SyncLimit

\* A disruption happened in the step, or none did.
Costs == budget' = budget - 1
CostsAtMostOne == Costs \/ UNCHANGED budget

LEMMA StepCosts ==
  ASSUME [Next]_vars
  PROVE  CostsAtMostOne
BY DEF CostsAtMostOne, Costs, Disrupt, Next, vars, ApiStep, Create, Enqueue, LoseRequest,
   Delete, QueueStep, Promote, Stalled, SlotStep, StartJob, StartJobRecovering,
   MaybeRecover, MaybeRecoverFails, Claim, ClaimNothing, ClaimFails, Heartbeat, Complete,
   DiscardLate, CompleteFails, Ack, Reject, WorkerStep, Start, StartPass, PassQuery,
   PassQueryFails, Requeue, SyncQueued, SyncFails, Shutdown, Exit, Crash, Tick

\* A job whose record a step leaves alone: its holder does not get away or fail for free.
LEMMA StrikesKept ==
  ASSUME TypeOK, CostsAtMostOne, NEW j \in JobId, StrikesPaid(j), job'[j] = job[j],
         \A s \in Slot : job[j].st = "active" /\ s \in job[j].by =>
           /\ slot[s].job = j => slot'[s].job = j \/ Costs
           /\ slot'[s].job = j /\ slot'[s].phase = "failing" =>
                Costs \/ (slot[s].job = j /\ slot[s].phase = "failing")
  PROVE  StrikesPaid(j)'
<1>1. /\ job[j].tries \in Nat /\ job[j].stalls \in Nat
      /\ budget \in Nat /\ MaxDisruptions \in Nat
  BY PipelineAssumption DEF TypeOK, Job
<1>2. Costs => budget' = budget - 1
  BY DEF Costs
<1>3. budget' = budget \/ budget' = budget - 1
  BY DEF CostsAtMostOne, Costs
<1>4. Paid(job[j].tries)' /\ Paid(job[j].stalls)'
  BY <1>1, <1>3 DEF Paid, StrikesPaid
<1>5. ASSUME job[j].st = "active"
      PROVE  \E s \in Slot :
               /\ job'[j].by = {s}
               /\ slot'[s].job # j => Paid(job[j].stalls + 1)'
               /\ slot'[s].job = j /\ slot'[s].phase = "failing" => Paid(job[j].tries + 1)'
  <2>1. PICK s \in Slot :
          /\ job[j].by = {s}
          /\ slot[s].job # j => Paid(job[j].stalls + 1)
          /\ slot[s].job = j /\ slot[s].phase = "failing" => Paid(job[j].tries + 1)
    BY <1>5 DEF StrikesPaid
  <2>2. slot'[s].job # j => Paid(job[j].stalls + 1)'
    BY <1>1, <1>2, <1>3, <1>5, <2>1 DEF Paid, StrikesPaid
  <2>3. slot'[s].job = j /\ slot'[s].phase = "failing" => Paid(job[j].tries + 1)'
    BY <1>1, <1>2, <1>3, <1>5, <2>1 DEF Paid, StrikesPaid
  <2>4. QED
    BY <2>1, <2>2, <2>3
<1>6. QED
  BY <1>4, <1>5 DEF StrikesPaid

\* What is paid for stays paid.
LEMMA StaysPaid ==
  ASSUME TypeOK, CostsAtMostOne, NEW n \in Nat, n + budget =< MaxDisruptions
  PROVE  n + budget' =< MaxDisruptions
BY PipelineAssumption DEF TypeOK, CostsAtMostOne, Costs

\* A job that is added, promoted, stalled or rejected and is not active after it.
LEMMA StrikesIdle ==
  ASSUME NEW j \in JobId, job'[j].st # "active",
         Paid(job[j].tries)', Paid(job[j].stalls)'
  PROVE  StrikesPaid(j)'
BY DEF StrikesPaid

LEMMA NothingPaid ==
  ASSUME TypeOK, CostsAtMostOne
  PROVE  Paid(0)'
<1>1. budget \in 0..MaxDisruptions /\ MaxDisruptions \in Nat
  BY PipelineAssumption DEF TypeOK
<1>2. QED
  BY <1>1 DEF Paid, CostsAtMostOne, Costs

\* A job that is over has no strikes.
LEMMA StrikesEnded ==
  ASSUME TypeOK, CostsAtMostOne, NEW j \in JobId, job'[j] = Ended(j)
  PROVE  StrikesPaid(j)'
<1>1. Ended(j).st # "active" /\ Ended(j).tries = 0 /\ Ended(j).stalls = 0
  BY DEF Ended, AbsentJob
<1>2. QED
  BY <1>1, NothingPaid, StrikesIdle DEF Paid

\* A job that is added has no strikes either; nothing else changes.
LEMMA AddStrikes ==
  ASSUME TypeOK, UNCHANGED <<budget, slot>>, NEW g \in JobId, AddJob(g),
         NEW j \in JobId, StrikesPaid(j)
  PROVE  StrikesPaid(j)'
<1>0. CostsAtMostOne
  BY DEF CostsAtMostOne
<1>1. CASE job'[j] = job[j]
  BY <1>0, <1>1, StrikesKept
<1>2. CASE job'[j] # job[j]
  <2>1. j = g /\ job' = [job EXCEPT ![j] = [AbsentJob EXCEPT !.st = "waiting"]]
    BY <1>2 DEF AddJob, TypeOK
  <2>2. job'[j].st = "waiting" /\ job'[j].tries = 0 /\ job'[j].stalls = 0
    BY <2>1 DEF TypeOK, AbsentJob
  <2>3. QED
    BY <1>0, <2>2, NothingPaid, StrikesIdle DEF Paid
<1>3. QED
  BY <1>1, <1>2

LEMMA QueueStrikes ==
  ASSUME SInv, NEW g \in JobId, QueueStep(g), CostsAtMostOne, NEW j \in JobId
  PROVE  StrikesPaid(j)'
<1>0. TypeOK /\ slot' = slot /\ StrikesPaid(j) /\ job[j] \in Job
  BY DEF SInv, WInv, IInv, TypeOK, QueueStep, Promote, Stalled
<1>1. CASE j # g
  <2>1. job'[j] = job[j]
    BY <1>0, <1>1 DEF QueueStep, Promote, Stalled, TypeOK
  <2>2. QED
    BY <1>0, <2>1, StrikesKept
<1>2. CASE j = g /\ Promote(j)
  <2>1. job' = [job EXCEPT ![j] = [job[j] EXCEPT !.st = "waiting"]] /\ budget' = budget
    BY <1>2 DEF Promote
  <2> DEFINE x == [job[j] EXCEPT !.st = "waiting"]
  <2>2. x.st = "waiting" /\ x.tries = job[j].tries /\ x.stalls = job[j].stalls
    BY <1>0 DEF Job
  <2>3. job'[j].st = "waiting" /\ job'[j].tries = job[j].tries /\ job'[j].stalls = job[j].stalls
    BY <1>0, <2>1, <2>2 DEF TypeOK
  <2>4. QED
    BY <1>0, <2>1, <2>3, StrikesIdle DEF StrikesPaid, Paid
<1>3. CASE j = g /\ Stalled(j) /\ ~MayStall(j)
  <2>1. job'[j] = Ended(j)
    BY <1>0, <1>3 DEF Stalled, TypeOK
  <2>2. QED
    BY <1>0, <2>1, StrikesEnded
<1>4. CASE j = g /\ Stalled(j) /\ MayStall(j)
  <2> DEFINE x == [job[j] EXCEPT !.st = "waiting", !.stalls = job[j].stalls + 1, !.by = {}]
  <2>1. job' = [job EXCEPT ![j] = x]
    BY <1>4 DEF Stalled
  <2>2. x.st = "waiting" /\ x.tries = job[j].tries /\ x.stalls = job[j].stalls + 1
    BY <1>0 DEF Job
  <2>3. job'[j].st = "waiting" /\ job'[j].tries = job[j].tries
        /\ job'[j].stalls = job[j].stalls + 1
    BY <1>0, <2>1, <2>2 DEF TypeOK
  <2>4. /\ job[j].tries \in Nat /\ job[j].stalls \in Nat
        /\ budget \in Nat /\ MaxDisruptions \in Nat
    BY <1>0, PipelineAssumption DEF TypeOK, Job
  <2>5. Paid(job[j].tries) /\ Paid(job[j].stalls)
    BY <1>0 DEF StrikesPaid
  <2>6. \/ budget' = budget /\ Paid(job[j].stalls + 1)
        \/ budget' = budget - 1
    <3>1. CASE (\A s \in job[j].by : slot[s].job # j) /\ UNCHANGED budget
      BY <1>0, <1>4, <3>1 DEF StrikesPaid, Stalled
    <3>2. CASE Disrupt("stall")
      BY <3>2 DEF Disrupt
    <3>3. QED
      BY <1>4, <3>1, <3>2 DEF Stalled
  <2>7. /\ job[j].tries + budget' =< MaxDisruptions
        /\ job[j].stalls + 1 + budget' =< MaxDisruptions
    BY <2>4, <2>5, <2>6 DEF Paid
  <2>8. QED
    BY <2>3, <2>7, StrikesIdle DEF Paid
<1>5. QED
  BY <1>1, <1>2, <1>3, <1>4 DEF QueueStep

\* A slot step that leaves the jobs alone pays for the failures it makes.
LEMMA SlotStrikes ==
  ASSUME SInv, NEW s \in Slot, SlotStep(s), CostsAtMostOne, NEW j \in JobId
  PROVE  StrikesPaid(j)'
<1>0. TypeOK /\ Busy /\ StrikesPaid(j) /\ job[j] \in Job
  BY DEF SInv, WInv, IInv, Leases, TypeOK
<1> DEFINE Others == \A t \in Slot : t # s => slot'[t] = slot[t]
<1>a. ASSUME job' = job, Others, slot'[s].job = slot[s].job,
             slot'[s].phase = "failing" => Costs \/ slot[s].phase = "failing"
      PROVE  StrikesPaid(j)'
  <2>1. \A t \in Slot : job[j].st = "active" /\ t \in job[j].by =>
           /\ slot[t].job = j => slot'[t].job = j \/ Costs
           /\ slot'[t].job = j /\ slot'[t].phase = "failing" =>
                Costs \/ (slot[t].job = j /\ slot[t].phase = "failing")
    BY <1>a
  <2>2. job'[j] = job[j]
    BY <1>a
  <2>3. QED
    BY <1>0, <2>1, <2>2, StrikesKept
<1>1. ASSUME NEW g \in JobId, NEW ph \in Phase, ph # "failing", Pick(s, g, ph)
      PROVE  StrikesPaid(j)'
  <2>1. slot'[s].phase = ph /\ slot'[s].job = g /\ Others
    BY <1>0, <1>1, PickEffect
  <2>2. CASE j # g
    <3>1. job'[j] = job[j]
      BY <1>0, <1>1, <2>2 DEF Pick, TypeOK
    <3>2. slot[s].job = NoJob
      BY <1>1 DEF Pick, SInv, IdleFree
    <3>3. slot[s].job # j
      BY <3>2, PipelineAssumption
    <3>4. QED
      BY <1>0, <2>1, <2>2, <3>1, <3>3, StrikesKept
  <2>3. CASE j = g
    <3> DEFINE x == [job[j] EXCEPT !.st = "active", !.by = {s}]
    <3>1. job' = [job EXCEPT ![j] = x]
      BY <1>1, <2>3 DEF Pick
    <3>2. x.tries = job[j].tries /\ x.stalls = job[j].stalls /\ x.by = {s}
      BY <1>0 DEF Job
    <3>3. job'[j].tries = job[j].tries /\ job'[j].stalls = job[j].stalls /\ job'[j].by = {s}
      BY <1>0, <3>1, <3>2 DEF TypeOK
    <3>4. job[j].tries \in Nat /\ job[j].stalls \in Nat
      BY <1>0, PipelineAssumption DEF Job
    <3>5. Paid(job[j].tries)' /\ Paid(job[j].stalls)'
      BY <1>0, <3>3, <3>4, StaysPaid DEF StrikesPaid, Paid
    <3>6. slot'[s].job = j /\ slot'[s].phase # "failing"
      BY <1>1, <2>1, <2>3
    <3>7. QED
      BY <3>3, <3>5, <3>6 DEF StrikesPaid
  <2>4. QED
    BY <2>2, <2>3
\* The slot lets go of its job g.
<1>2. ASSUME NEW g \in JobId, slot[s].job = g, slot' = [slot EXCEPT ![s] = IdleSlot],
             NEW x, job' = [job EXCEPT ![g] = x], ~HoldsLock(s, g) => x = job[g],
             HoldsLock(s, g) /\ j = g => StrikesPaid(j)'
      PROVE  StrikesPaid(j)'
  <2>1. CASE HoldsLock(s, g) /\ j = g
    BY <1>2, <2>1
  <2>2. CASE ~(HoldsLock(s, g) /\ j = g)
    <3>1. job'[j] = job[j]
      BY <1>0, <1>2, <2>2 DEF TypeOK
    <3>2. slot'[s].phase = "idle" /\ Others
      BY <1>0, <1>2 DEF IdleSlot, TypeOK
    <3>3. slot[s].job = j => ~(job[j].st = "active" /\ s \in job[j].by)
      BY <1>2, <2>2 DEF HoldsLock
    <3>4. QED
      BY <1>0, <3>1, <3>2, <3>3, StrikesKept
  <2>3. QED
    BY <2>1, <2>2
<1>3. CASE \E g \in JobId : StartJob(s, g) \/ StartJobRecovering(s, g)
  BY <1>1, <1>3 DEF StartJob, StartJobRecovering, Phase
<1>4. CASE MaybeRecover(s) \/ ClaimNothing(s)
  BY <1>0, <1>4, <1>a, GotoEffect DEF MaybeRecover, ClaimNothing, Phase
<1>5. CASE MaybeRecoverFails(s) \/ ClaimFails(s)
  BY <1>0, <1>5, <1>a, GotoEffect
  DEF MaybeRecoverFails, ClaimFails, Phase, Disrupt, Costs
<1>6. CASE Claim(s)
  BY <1>0, <1>6, <1>a, ClaimEffect DEF Claim
<1>7. CASE Heartbeat(s)
  BY <1>0, <1>7, <1>a, HeartbeatEffect DEF Heartbeat
<1>8. CASE Complete(s) \/ DiscardLate(s)
  BY <1>0, <1>8, <1>a, EndEffect DEF Complete, DiscardLate, Phase
<1>9. CASE CompleteFails(s)
  BY <1>0, <1>9, <1>a, EndEffect DEF CompleteFails, Phase, Disrupt, Costs
<1> DEFINE g == slot[s].job
<1>10. CASE Ack(s)
  <2> DEFINE x == IF HoldsLock(s, g) THEN Ended(g) ELSE job[g]
  <2>1. g \in JobId
    BY <1>0, <1>10 DEF Busy, Ack
  <2>2. job' = [job EXCEPT ![g] = x] /\ slot' = [slot EXCEPT ![s] = IdleSlot]
    BY <1>10 DEF Ack
  <2>3. ASSUME HoldsLock(s, g), j = g PROVE StrikesPaid(j)'
    <3>1. job'[j] = Ended(j)
      BY <1>0, <2>2, <2>3 DEF TypeOK
    <3>2. QED
      BY <1>0, <3>1, StrikesEnded
  <2>4. ~HoldsLock(s, g) => x = job[g]
    OBVIOUS
  <2> HIDE DEF x
  <2>5. QED
    BY <2>1, <2>2, <2>3, <2>4, <1>2
<1>11. CASE Reject(s)
  <2> DEFINE x == Rejected(s, g)
  <2>1. g \in JobId /\ job[g] \in Job
    BY <1>0, <1>11 DEF Busy, Reject, TypeOK
  <2>2. job' = [job EXCEPT ![g] = x] /\ slot' = [slot EXCEPT ![s] = IdleSlot]
    BY <1>11 DEF Reject
  <2>3. ASSUME HoldsLock(s, g), j = g PROVE StrikesPaid(j)'
    <3>1. job'[j] = x
      BY <1>0, <2>2, <2>3 DEF TypeOK
    <3>2. CASE job[g].tries + 1 < MaxTries
      <4> DEFINE y == [job[g] EXCEPT !.st = "delayed", !.tries = job[g].tries + 1, !.by = {}]
      <4>1. x = y
        BY <2>3, <3>2 DEF Rejected
      <4>2. y.st = "delayed" /\ y.tries = job[g].tries + 1 /\ y.stalls = job[g].stalls
        BY <2>1 DEF Job
      <4>3. Paid(job[j].tries + 1) /\ Paid(job[j].stalls)
        BY <1>0, <1>11, <2>3 DEF StrikesPaid, HoldsLock, Reject
      <4>4. budget' = budget
        BY <1>11 DEF Reject
      <4>5. QED
        BY <2>3, <3>1, <4>1, <4>2, <4>3, <4>4, StrikesIdle DEF Paid
    <3>3. CASE ~(job[g].tries + 1 < MaxTries)
      <4>1. x = Ended(j)
        BY <2>3, <3>3 DEF Rejected
      <4>2. QED
        BY <1>0, <3>1, <4>1, StrikesEnded
    <3>4. QED
      BY <3>2, <3>3
  <2>4. ~HoldsLock(s, g) => x = job[g]
    BY DEF Rejected
  <2> HIDE DEF x
  <2>5. QED
    BY <2>1, <2>2, <2>3, <2>4, <1>2
<1>12. QED
  BY <1>3, <1>4, <1>5, <1>6, <1>7, <1>8, <1>9, <1>10, <1>11 DEF SlotStep

\* A crash costs a disruption, whatever jobs its slots worked on.
LEMMA WorkerStrikes ==
  ASSUME SInv, NEW w \in Worker, WorkerStep(w), CostsAtMostOne, NEW j \in JobId
  PROVE  StrikesPaid(j)'
<1>0. TypeOK /\ StrikesPaid(j)
  BY DEF SInv, WInv, IInv
<1>a. ASSUME job' = job, slot' = slot PROVE StrikesPaid(j)'
  <2>1. job'[j] = job[j]
    BY <1>a
  <2>2. QED
    BY <1>0, <1>a, <2>1, StrikesKept
<1>1. ASSUME NEW i \in Item, Requeue(w, i) PROVE StrikesPaid(j)'
  <2>1. PICK t \in FreshTags(i) : AddJob(<<i, t>>)
    BY <1>1 DEF Requeue
  <2>2. <<i, t>> \in JobId /\ UNCHANGED <<budget, slot>>
    BY <1>1 DEF FreshTags, JobId, Tag, Requeue
  <2>3. QED
    BY <1>0, <2>1, <2>2, AddStrikes
<1>2. CASE Crash(w)
  <2>1. Costs /\ job'[j] = job[j]
    BY <1>2 DEF Crash, Disrupt, Costs
  <2>2. QED
    BY <1>0, <2>1, StrikesKept
<1>3. QED
  BY <1>a, <1>1, <1>2 DEF WorkerStep, Start, StartPass, PassQuery, PassQueryFails,
     SyncQueued, SyncFails, Shutdown, Exit

LEMMA NextStrikes ==
  ASSUME SInv, [Next]_vars, NEW j \in JobId
  PROVE  StrikesPaid(j)'
<1>0. TypeOK /\ StrikesPaid(j) /\ CostsAtMostOne
  BY StepCosts DEF SInv, WInv, IInv
<1>a. ASSUME job' = job, \A s \in Slot : slot'[s].job = slot[s].job
                                         /\ slot'[s].phase = slot[s].phase
      PROVE  StrikesPaid(j)'
  <2>1. job'[j] = job[j]
    BY <1>a
  <2>2. QED
    BY <1>0, <1>a, <2>1, StrikesKept
<1>1. ASSUME NEW i \in Item, ApiStep(i) PROVE StrikesPaid(j)'
  <2>1. CASE Enqueue(i)
    <3>1. <<i, Original>> \in JobId /\ AddJob(<<i, Original>>) /\ UNCHANGED <<budget, slot>>
      BY <2>1 DEF JobId, Tag, Enqueue
    <3>2. QED
      BY <1>0, <3>1, AddStrikes
  <2>2. QED
    BY <1>1, <1>a, <2>1 DEF ApiStep, Create, LoseRequest, Delete
<1>2. ASSUME NEW g \in JobId, QueueStep(g) PROVE StrikesPaid(j)'
  BY <1>0, <1>2, QueueStrikes
<1>3. ASSUME NEW s \in Slot, SlotStep(s) PROVE StrikesPaid(j)'
  BY <1>0, <1>3, SlotStrikes
<1>4. ASSUME NEW w \in Worker, WorkerStep(w) PROVE StrikesPaid(j)'
  BY <1>0, <1>4, WorkerStrikes
<1>5. CASE Tick
  <2>1. job' = job
    BY <1>5 DEF Tick
  <2>2. QED
    BY <1>0, <1>5, <1>a, <2>1, TickEffect
<1>6. CASE UNCHANGED vars
  BY <1>6, <1>a DEF vars
<1>7. QED
  BY <1>1, <1>2, <1>3, <1>4, <1>5, <1>6 DEF Next

LEMMA NextIdleFree ==
  ASSUME IInv, IdleFree, [Next]_vars
  PROVE  IdleFree'
<1>0. TypeOK /\ Busy
  BY DEF IInv, Leases
<1> DEFINE Others(s) == \A t \in Slot : t # s => slot'[t] = slot[t]
<1>a. ASSUME NEW s \in Slot, Others(s), slot'[s].phase # "idle"
      PROVE  IdleFree'
  BY <1>a DEF IdleFree
<1>b. ASSUME \A s \in Slot : \/ slot'[s] = IdleSlot
                             \/ /\ slot'[s].phase = slot[s].phase
                                /\ slot'[s].job = slot[s].job
      PROVE  IdleFree'
  BY <1>b DEF IdleFree, IdleSlot
<1>1. ASSUME NEW s \in Slot, SlotStep(s) PROVE IdleFree'
  <2>1. CASE \E j \in JobId : StartJob(s, j) \/ StartJobRecovering(s, j)
    BY <1>0, <1>a, <2>1, PickEffect DEF StartJob, StartJobRecovering, Phase
  <2>2. CASE MaybeRecover(s) \/ MaybeRecoverFails(s) \/ ClaimNothing(s) \/ ClaimFails(s)
    BY <1>0, <1>a, <2>2, GotoEffect
    DEF MaybeRecover, MaybeRecoverFails, ClaimNothing, ClaimFails, Phase
  <2>3. CASE Claim(s)
    BY <1>0, <1>a, <2>3, ClaimEffect
  <2>4. CASE Complete(s) \/ DiscardLate(s) \/ CompleteFails(s)
    BY <1>0, <1>a, <2>4, EndEffect DEF Complete, DiscardLate, CompleteFails, Phase
  <2>5. CASE Heartbeat(s)
    BY <1>0, <1>b, <2>5, HeartbeatEffect
  <2>6. CASE Ack(s) \/ Reject(s)
    <3>1. slot'[s] = IdleSlot /\ Others(s)
      BY <1>0, <2>6 DEF Ack, Reject, TypeOK
    <3>2. QED
      BY <1>b, <3>1
  <2>7. QED
    BY <1>1, <2>1, <2>2, <2>3, <2>4, <2>5, <2>6 DEF SlotStep
<1>2. ASSUME NEW w \in Worker, WorkerStep(w) PROVE IdleFree'
  BY <1>0, <1>2, <1>b, WorkerSlots
<1>3. CASE Tick
  BY <1>0, <1>3, <1>b, TickEffect
<1>4. ASSUME slot' = slot PROVE IdleFree'
  BY <1>4, <1>b
<1>5. QED
  BY <1>1, <1>2, <1>3, <1>4
  DEF Next, vars, ApiStep, Create, Enqueue, LoseRequest, Delete, QueueStep, Promote, Stalled

LEMMA InitSInv == Init => SInv
<1> SUFFICES ASSUME Init PROVE SInv
  OBVIOUS
<1>1. WInv
  BY InitWInv
<1>2. IdleFree
  BY DEF Init, IdleFree, IdleSlot
<1>3. ASSUME NEW j \in JobId PROVE StrikesPaid(j)
  BY PipelineAssumption DEF Init, StrikesPaid, Paid, AbsentJob
<1>4. QED
  BY <1>1, <1>2, <1>3 DEF SInv

LEMMA NextSInv == SInv /\ [Next]_vars => SInv'
<1> SUFFICES ASSUME SInv, [Next]_vars PROVE SInv'
  OBVIOUS
<1>1. WInv' /\ IdleFree'
  BY NextWInv, NextIdleFree DEF SInv, WInv
<1>2. \A j \in JobId : StrikesPaid(j)'
  BY NextStrikes
<1>3. QED
  BY <1>1, <1>2 DEF SInv

LEMMA SInvariance == Spec => []SInv
BY InitSInv, NextSInv, PTL DEF Spec

\* Without late timers and failing queries, no job runs a recovery and no pass is lost.
LEMMA InitRecoveryWhole == Init => RecoveryWhole
BY DEF Init, RecoveryWhole, IdleSlot, NoPass

LEMMA NextRecoveryWhole ==
  ASSUME FewDisruptions
  PROVE  IInv /\ RecoveryWhole /\ [Next]_vars => RecoveryWhole'
<1> SUFFICES ASSUME IInv, RecoveryWhole, [Next]_vars PROVE RecoveryWhole'
  OBVIOUS
<1>0. TypeOK /\ Busy
  BY DEF IInv, Leases
<1>d. ~Disrupt("lateTimer") /\ ~Disrupt("recoverQuery")
  BY DEF FewDisruptions, Disrupt
<1>1. \A s \in Slot : slot'[s].phase # "recovering"
  <2> SUFFICES ASSUME NEW t \in Slot PROVE slot'[t].phase # "recovering"
    OBVIOUS
  <2>0. slot[t].phase # "recovering"
    BY DEF RecoveryWhole
  <2>1. ASSUME NEW s \in Slot, SlotStep(s) PROVE slot'[t].phase # "recovering"
    <3>1. CASE \E j \in JobId : StartJob(s, j)
      BY <1>0, <2>0, <3>1, PickEffect DEF StartJob, Phase
    <3>2. CASE \E j \in JobId : StartJobRecovering(s, j)
      BY <1>d, <3>2 DEF StartJobRecovering
    <3>3. CASE MaybeRecover(s) \/ MaybeRecoverFails(s) \/ ClaimNothing(s) \/ ClaimFails(s)
      BY <1>0, <2>0, <3>3, GotoEffect
      DEF MaybeRecover, MaybeRecoverFails, ClaimNothing, ClaimFails, Phase
    <3>4. CASE Claim(s)
      BY <1>0, <2>0, <3>4, ClaimEffect
    <3>5. CASE Complete(s) \/ DiscardLate(s) \/ CompleteFails(s)
      BY <1>0, <2>0, <3>5, EndEffect DEF Complete, DiscardLate, CompleteFails, Phase
    <3>6. CASE Heartbeat(s)
      BY <1>0, <2>0, <3>6, HeartbeatEffect
    <3>7. CASE Ack(s) \/ Reject(s)
      BY <1>0, <2>0, <3>7 DEF Ack, Reject, TypeOK, IdleSlot
    <3>8. QED
      BY <2>1, <3>1, <3>2, <3>3, <3>4, <3>5, <3>6, <3>7 DEF SlotStep
  <2>2. ASSUME NEW w \in Worker, WorkerStep(w) PROVE slot'[t].phase # "recovering"
    BY <1>0, <2>0, <2>2, WorkerSlots DEF IdleSlot
  <2>3. CASE Tick
    BY <1>0, <2>0, <2>3, TickEffect
  <2>4. QED
    BY <2>0, <2>1, <2>2, <2>3
    DEF Next, vars, ApiStep, Create, Enqueue, LoseRequest, Delete, QueueStep, Promote, Stalled
<1>2. \A w \in Worker : ~pass'[w].lost
  <2> SUFFICES ASSUME NEW u \in Worker PROVE ~pass'[u].lost
    OBVIOUS
  <2>0. ~pass[u].lost
    BY DEF RecoveryWhole
  <2>1. ASSUME NEW w \in Worker, WorkerStep(w) PROVE ~pass'[u].lost
    <3>1. ASSUME NEW k \in Kind, PassQuery(w, k) PROVE ~pass'[u].lost
      <4> DEFINE p == [pass[w] EXCEPT !.waiting = @ \ {k}, !.ids = @ \cup Stale(k)]
      <4>1. p.lost = pass[w].lost
        BY <1>0 DEF TypeOK, Pass
      <4>2. ~p.lost
        BY <4>1 DEF RecoveryWhole
      <4>3. PassAnswer(w, p)
        BY <3>1 DEF PassQuery
      <4> HIDE DEF p
      <4>4. QED
        BY <1>0, <2>0, <4>2, <4>3
        DEF PassAnswer, StillWaiting, PassDone, PassFailed, NoPass, TypeOK
    <3>2. ASSUME NEW k \in Kind, PassQueryFails(w, k) PROVE ~pass'[u].lost
      BY <1>d, <3>2 DEF PassQueryFails
    <3>3. CASE Start(w) \/ StartPass(w) \/ Exit(w) \/ Crash(w)
      BY <1>0, <2>0, <3>3 DEF Start, StartPass, Exit, Crash, Gone, NewPass, NoPass, TypeOK
    <3>4. QED
      BY <2>0, <2>1, <3>1, <3>2, <3>3 DEF WorkerStep, Requeue, SyncQueued, SyncFails, Shutdown
  <2>2. QED
    BY <2>0, <2>1
    DEF Next, vars, ApiStep, Create, Enqueue, LoseRequest, Delete, QueueStep, Promote,
        Stalled, SlotStep, StartJob, StartJobRecovering, MaybeRecover, MaybeRecoverFails,
        Claim, ClaimNothing, ClaimFails, Heartbeat, Complete, DiscardLate, CompleteFails,
        Ack, Reject, Tick, workerVars
<1>3. QED
  BY <1>1, <1>2 DEF RecoveryWhole

\* What that took: a disruption for each of its stalls, or for each of its tries.
Patience(j) ==
  /\ LastStall(j) => MaxStalls + 1 + budget' =< MaxDisruptions
  /\ LastTry(j) => MaxTries + budget' =< MaxDisruptions

LEMMA PatientWith ==
  ASSUME SInv, NEW j \in JobId
  PROVE  Patience(j)
<1>1. /\ job[j].tries \in 0..MaxTries /\ job[j].stalls \in 0..MaxStalls
      /\ budget \in Nat /\ MaxDisruptions \in Nat /\ MaxTries \in Nat /\ MaxStalls \in Nat
  BY PipelineAssumption DEF SInv, WInv, IInv, TypeOK, Job
<1>2. StrikesPaid(j)
  BY DEF SInv
<1>3. ASSUME LastStall(j) PROVE MaxStalls + 1 + budget' =< MaxDisruptions
  <2>1. job[j].stalls = MaxStalls
    BY <1>1, <1>3 DEF LastStall, MayStall
  <2>2. CASE (\A s \in job[j].by : slot[s].job # j) /\ UNCHANGED budget
    <3>1. job[j].stalls + 1 + budget =< MaxDisruptions
      BY <1>2, <1>3, <2>2 DEF StrikesPaid, Paid, LastStall, Stalled
    <3>2. QED
      BY <2>1, <2>2, <3>1
  <2>3. CASE Disrupt("stall")
    <3>1. job[j].stalls + budget =< MaxDisruptions
      BY <1>2 DEF StrikesPaid, Paid
    <3>2. QED
      BY <1>1, <2>1, <2>3, <3>1 DEF Disrupt
  <2>4. QED
    BY <1>3, <2>2, <2>3 DEF LastStall, Stalled
<1>4. ASSUME LastTry(j) PROVE MaxTries + budget' =< MaxDisruptions
  <2>1. PICK s \in Slot : /\ Reject(s) /\ slot[s].job = j
                          /\ HoldsLock(s, j) /\ ~(job[j].tries + 1 < MaxTries)
    BY <1>4 DEF LastTry
  <2>2. job[j].tries + 1 + budget =< MaxDisruptions /\ budget' = budget
    BY <1>2, <2>1 DEF StrikesPaid, Paid, HoldsLock, Reject
  <2>3. QED
    BY <1>1, <2>1, <2>2
<1>5. QED
  BY <1>3, <1>4 DEF Patience

\* A healthy system fails no job: whatever the timing of crashes, restarts and retries,
\* the queue gives a job up only after as many disruptions as it grants stalls, one
\* more included, or as it grants tries.  No stall and no failed try is counted that
\* no disruption made.
THEOREM GivenUpAfterStrikes == Spec => [][\A j \in JobId : Patience(j)]_vars
<1>1. SInv /\ [Next]_vars => [\A j \in JobId : Patience(j)]_vars
  BY PatientWith
<1>2. QED
  BY SInvariance, <1>1, PTL DEF Spec

\* BullMQ never runs out of patience with a job.
LEMMA NeverGivesUp ==
  ASSUME FewDisruptions, SInv, [Next]_vars, NEW j \in JobId
  PROVE  ~GivesUp(j)
<1>1. /\ budget' \in Nat /\ MaxDisruptions \in Nat
      /\ MaxTries \in Nat /\ MaxStalls \in Nat
  BY NextSInv, PipelineAssumption DEF SInv, WInv, IInv, TypeOK
<1>2. Patience(j)
  BY PatientWith
<1>3. MaxDisruptions < MaxTries /\ MaxDisruptions =< MaxStalls
  BY DEF FewDisruptions
<1>4. /\ ~(MaxStalls + 1 + budget' =< MaxDisruptions)
      /\ ~(MaxTries + budget' =< MaxDisruptions)
  <2> DEFINE b == budget'
  <2>1. b \in Nat
    BY <1>1
  <2> HIDE DEF b
  <2>2. /\ ~(MaxStalls + 1 + b =< MaxDisruptions)
        /\ ~(MaxTries + b =< MaxDisruptions)
    BY <1>1, <1>3, <2>1
  <2>3. QED
    BY <2>2 DEF b
<1>5. QED
  BY <1>2, <1>4 DEF Patience, GivesUp

\* A sync lists all queued rows of its kind.
LEMMA SyncListsAll ==
  ASSUME FewDisruptions, IInv, NEW w \in Worker, SyncQueued(w)
  PROVE  Queued(SyncKind(w)) \subseteq requeue'[w]
<1> DEFINE Q == Queued(SyncKind(w))
<1>1. IsFiniteSet(Q) /\ Cardinality(Q) =< SyncLimit
  <2>1. CASE SyncKind(w) = "submission"
    <3>1. Q \subseteq Submissions
      BY <2>1 DEF Queued, KindOf, Item
    <3>2. IsFiniteSet(Q) /\ Cardinality(Q) =< Cardinality(Submissions)
      BY <3>1, FS_Subset DEF FewDisruptions
    <3>3. Cardinality(Q) \in Nat /\ Cardinality(Submissions) \in Nat /\ SyncLimit \in Nat
      BY <3>2, FS_CardinalityType, PipelineAssumption DEF FewDisruptions
    <3>4. QED
      BY <3>2, <3>3 DEF FewDisruptions
  <2>2. CASE SyncKind(w) = "custom_run"
    <3>1. Q \subseteq Runs
      BY <2>2 DEF Queued, KindOf, Item
    <3>2. IsFiniteSet(Q) /\ Cardinality(Q) =< Cardinality(Runs)
      BY <3>1, FS_Subset DEF FewDisruptions
    <3>3. Cardinality(Q) \in Nat /\ Cardinality(Runs) \in Nat /\ SyncLimit \in Nat
      BY <3>2, FS_CardinalityType, PipelineAssumption DEF FewDisruptions
    <3>4. QED
      BY <3>2, <3>3 DEF FewDisruptions
  <2>3. QED
    BY <2>1, <2>2 DEF SyncKind
<1>2. PICK ids \in SUBSET Q : /\ ids = Q \/ Cardinality(ids) = SyncLimit
                              /\ requeue' = [requeue EXCEPT ![w] = ids]
  BY DEF SyncQueued
<1> HIDE DEF Q
<1>3. ids = Q
  <2>1. Cardinality(Q) \in Nat /\ SyncLimit \in Nat /\ Cardinality(ids) =< Cardinality(Q)
    BY <1>1, FS_Subset, FS_CardinalityType, PipelineAssumption
  <2>2. Cardinality(ids) = SyncLimit => Cardinality(ids) = Cardinality(Q)
    BY <1>1, <2>1
  <2>3. QED
    BY <1>1, <1>2, <2>2, FS_Subset
<1>4. requeue'[w] = Q
  BY <1>2, <1>3 DEF IInv, TypeOK
<1>5. QED
  BY <1>4 DEF Q

\* So none of the five can happen.
LEMMA NoDrops ==
  ASSUME FewDisruptions, SInv, RecoveryWhole, [Next]_vars
  PROVE  ~Drops
<1>0. IInv /\ TypeOK
  BY DEF SInv, WInv, IInv
<1>1. ~LosesRequest
  BY DEF FewDisruptions, LosesRequest, LoseRequest, Disrupt
<1>2. \A j \in JobId : ~GivesUp(j)
  BY NeverGivesUp
<1>3. \A s \in Slot : ~SlotDrops(s)
  BY DEF RecoveryWhole, SlotDrops, MaybeRecover
<1>4. \A w \in Worker : ~SyncMisses(w)
  BY <1>0, SyncListsAll DEF SyncMisses
<1>5. \A w \in Worker, k \in Kind : ~PassDrops(w, k)
  BY DEF FewDisruptions, RecoveryWhole, PassDrops, PassQueryFails, Disrupt
<1>6. QED
  BY <1>1, <1>2, <1>3, <1>4, <1>5 DEF Drops

\* Through crashes, restarts, stalls and failed claims and completions, fewer than a job
\* has tries and stalls, every queued row keeps somebody who brings it to a worker: for
\* any number of workers, lanes, items up to the sync limit, and any timing.
THEOREM NoWorkIsLost ==
  ASSUME FewDisruptions
  PROVE  Spec => []NoWorkLost
<1>1. Init => SInv /\ RecoveryWhole /\ AllCarried
  BY InitSInv, InitRecoveryWhole, InitWInv
<1>2. SInv /\ RecoveryWhole /\ AllCarried /\ [Next]_vars =>
        SInv' /\ RecoveryWhole' /\ AllCarried'
  BY NextSInv, NextRecoveryWhole, NoDrops, NextCarries DEF SInv, WInv
<1>3. QED
  BY <1>1, <1>2, CarriedNotLost, PTL DEF Spec
=============================================================================
