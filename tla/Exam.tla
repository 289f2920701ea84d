-------------------------------- MODULE Exam --------------------------------
(***************************************************************************)
(* One candidate's exam: the assignments, the clock that runs once the     *)
(* candidate starts it, the records that hang on an assignment, and the    *)
(* deletion of problems, as concurrent API handlers over PostgreSQL.       *)
(*                                                                         *)
(* A handler is a sequence of reads followed by one write.  A write takes  *)
(* effect at its commit (READ COMMITTED): a transaction that would break a *)
(* constraint rolls back, an UPDATE changes the rows its snapshot holds    *)
(* that still satisfy its WHERE clause, and the foreign keys are checked   *)
(* against the rows committed by then.                                     *)
(*                                                                         *)
(* A definition named ...Mutant is what a plausible bug would make of the  *)
(* definition after it.                                                    *)
(***************************************************************************)
EXTENDS Integers

CONSTANTS
  Problem,     \* problems of the catalogue
  Handler,     \* API requests in progress at the same time
  Duration,    \* duration_minutes an interviewer chooses from, in ticks
  MaxTime,     \* bound on the clock
  Recording,   \* kinds of records that are written
  NotStarted   \* SQL null in started_at

ASSUME ExamAssumption ==
  /\ Duration \subseteq Nat \ {0}
  /\ MaxTime \in Nat
  /\ Recording \subseteq {"submission", "run", "review"}
  /\ NotStarted \notin Nat

VARIABLES
  catalogue,   \* what became of each problem
  row,         \* the candidate's assignments row of each problem
  records,     \* problems the candidate has submissions, custom runs and reviews of
  request,     \* what each handler has read and still has to do
  now

vars == <<catalogue, row, records, request, now>>

Time == 0..MaxTime
RecordKind == {"submission", "run", "review"}
\* Who may write which kind of record: the /me and /admin routes.
Writes ==
  {w \in {<<"candidate", "submission">>, <<"candidate", "run">>,
          <<"interviewer", "run">>, <<"interviewer", "review">>} : w[2] \in Recording}

NoRow == [startedAt |-> NotStarted, duration |-> 0]
Row == [startedAt : Time \cup {NotStarted}, duration : Duration]

Selection == (SUBSET Problem) \ {{}}   \* at least one problem
Idle == [phase |-> "idle"]
Request ==
       {Idle}
  \cup [phase : {"validating"}, problems : Selection, left : SUBSET Problem, dur : Duration]
  \cup [phase : {"inserting"}, problems : Selection, rows : SUBSET Problem, dur : Duration]
  \cup [phase : {"starting"}, rows : SUBSET Problem, at : Time]
  \cup [phase : {"access", "writing"}, problem : Problem, kind : RecordKind]
  \cup [phase : {"deleting"}, problem : Problem, force : BOOLEAN]

Existing == {p \in Problem : catalogue[p] # "deleted"}
Assigned == {p \in Problem : row[p] # NoRow}
UnstartedMutant == Assigned   \* an update of every row
Unstarted == {p \in Assigned : row[p].startedAt = NotStarted}
StartTimes == {row[p].startedAt : p \in Assigned} \ {NotStarted}

\* The exam of getCandidateExam: it has started when a row has, and has expired
\* when the earliest start and the longest duration lie behind u.
ExamStarted == StartTimes # {}
ExpiredBy(u) == \E t \in StartTimes : \A p \in Assigned : t + row[p].duration <= u

Init ==
  /\ catalogue = [p \in Problem |-> "live"]
  /\ row = [p \in Problem |-> NoRow]
  /\ records = [k \in RecordKind |-> {}]
  /\ request = [h \in Handler |-> Idle]
  /\ now = 0

Goto(h, r) == request' = [request EXCEPT ![h] = r]
In(h, phase) == request[h].phase = phase

-----------------------------------------------------------------------------
(* POST /admin/assignments *)

PostAssignments(h) ==
  /\ In(h, "idle")
  /\ ~ExamStarted
  /\ \E ps \in Selection, d \in Duration :
       Goto(h, [phase |-> "validating", problems |-> ps, left |-> ps, dur |-> d])
  /\ UNCHANGED <<catalogue, row, records, now>>

NewRowMutant(d) == [startedAt |-> NotStarted, duration |-> 60 * d]   \* minutes taken for seconds
NewRow(d) == [startedAt |-> NotStarted, duration |-> d]

Assignable(p) == catalogue[p] = "live" /\ p \notin Assigned

ValidateProblem(h) ==
  /\ In(h, "validating")
  /\ \E p \in request[h].left :
       /\ Assignable(p)
       /\ Goto(h, [request[h] EXCEPT !.left = @ \ {p}])
  /\ UNCHANGED <<catalogue, row, records, now>>

\* createAssignments: the snapshot of the update that opens its transaction ...
BeginAssignments(h) ==
  /\ In(h, "validating")
  /\ request[h].left = {}
  /\ Goto(h, [phase |-> "inserting", problems |-> request[h].problems,
              rows |-> Unstarted, dur |-> request[h].dur])
  /\ UNCHANGED <<catalogue, row, records, now>>

\* ... and its commit, under the foreign key to problems and the unique index.
CommitAssignments(h) ==
  /\ In(h, "inserting")
  /\ request[h].problems \subseteq Existing \ Assigned
  /\ row' = [p \in Problem |->
               IF p \in request[h].problems THEN NewRow(request[h].dur)
               ELSE IF p \in request[h].rows \cap Unstarted
                    THEN [row[p] EXCEPT !.duration = request[h].dur]
                    ELSE row[p]]
  /\ Goto(h, Idle)
  /\ UNCHANGED <<catalogue, records, now>>

-----------------------------------------------------------------------------
(* POST /me/exam/start: one UPDATE statement, its snapshot and its effect. *)

\* coalesce(min(started_at), now())
StartTime(t) ==
  IF ExamStarted THEN t \in StartTimes /\ \A u \in StartTimes : t <= u
                 ELSE t = now

PostStart(h) ==
  /\ In(h, "idle")
  /\ \E t \in Time : StartTime(t) /\ Goto(h, [phase |-> "starting", rows |-> Unstarted, at |-> t])
  /\ UNCHANGED <<catalogue, row, records, now>>

Startable(h) == request[h].rows \cap Unstarted

CommitStart(h) ==
  /\ In(h, "starting")
  /\ row' = [p \in Problem |->
               IF p \in Startable(h) THEN [row[p] EXCEPT !.startedAt = request[h].at] ELSE row[p]]
  /\ Goto(h, Idle)
  /\ UNCHANGED <<catalogue, records, now>>

-----------------------------------------------------------------------------
(* Submissions, custom runs and reviews *)

\* isProblemAssigned, hasAssignment
MayRecordMutant(p) == TRUE   \* a route that forgets to ask
MayRecord(p) == p \in Assigned

PostRecord(h) ==
  /\ In(h, "idle")
  /\ \E p \in Existing, w \in Writes :
       /\ MayRecord(p)
       /\ Goto(h, [phase |-> IF w[1] = "candidate" THEN "access" ELSE "writing",
                   problem |-> p, kind |-> w[2]])
  /\ UNCHANGED <<catalogue, row, records, now>>

\* assertCandidateExamCanAccessProblem, its second half.
ReadExam(h) ==
  /\ In(h, "access")
  /\ ExamStarted /\ ~ExpiredBy(now)
  /\ Goto(h, [request[h] EXCEPT !.phase = "writing"])
  /\ UNCHANGED <<catalogue, row, records, now>>

InsertRecord(h) ==
  /\ In(h, "writing")
  /\ request[h].problem \in Existing
  /\ records' = [records EXCEPT ![request[h].kind] = @ \cup {request[h].problem}]
  /\ Goto(h, Idle)
  /\ UNCHANGED <<catalogue, row, now>>

\* The last review of a problem goes; an earlier one changes nothing kept here.
DeleteReviews ==
  /\ \E p \in Existing : records' = [records EXCEPT !["review"] = @ \ {p}]
  /\ UNCHANGED <<catalogue, row, request, now>>

-----------------------------------------------------------------------------
(* The catalogue *)

ArchiveProblem ==
  /\ \E p \in Existing, s \in {"live", "archived"} : catalogue' = [catalogue EXCEPT ![p] = s]
  /\ UNCHANGED <<row, records, request, now>>

\* canDeleteWithoutForce of getProblemLifecycleImpact.
Unused(p) == p \notin Assigned /\ p \notin records["submission"]

RequestDelete(h) ==
  /\ In(h, "idle")
  /\ \E p \in Existing, force \in BOOLEAN :
       /\ force \/ Unused(p)
       /\ Goto(h, [phase |-> "deleting", problem |-> p, force |-> force])
  /\ UNCHANGED <<catalogue, row, records, now>>

\* The foreign keys of assignments and submissions, which do not cascade.
UnreferencedMutant(p) == p \notin records["submission"]
Unreferenced(p) == p \notin Assigned /\ p \notin records["submission"]

\* Rows of reviews always go with the problem, rows of custom_runs by cascade.
CommitDelete(h) ==
  /\ In(h, "deleting")
  /\ LET p == request[h].problem
         force == request[h].force
     IN  /\ p \in Existing
         /\ force \/ Unreferenced(p)
         /\ catalogue' = [catalogue EXCEPT ![p] = "deleted"]
         /\ row' = IF force THEN [row EXCEPT ![p] = NoRow] ELSE row
         /\ records' = [k \in RecordKind |->
                          IF k = "submission" /\ ~force THEN records[k] ELSE records[k] \ {p}]
  /\ Goto(h, Idle)
  /\ UNCHANGED now

-----------------------------------------------------------------------------
\* An error answer, a rollback, a lost connection or the end of the API process.
Abandon(h) ==
  /\ ~In(h, "idle")
  /\ Goto(h, Idle)
  /\ UNCHANGED <<catalogue, row, records, now>>

Tick ==
  /\ now < MaxTime
  /\ now' = now + 1
  /\ UNCHANGED <<catalogue, row, records, request>>

Next ==
  \/ \E h \in Handler :
       \/ PostAssignments(h) \/ ValidateProblem(h) \/ BeginAssignments(h) \/ CommitAssignments(h)
       \/ PostStart(h) \/ CommitStart(h)
       \/ PostRecord(h) \/ ReadExam(h) \/ InsertRecord(h)
       \/ RequestDelete(h) \/ CommitDelete(h)
       \/ Abandon(h)
  \/ DeleteReviews
  \/ ArchiveProblem
  \/ Tick

Spec == Init /\ [][Next]_vars

-----------------------------------------------------------------------------
(* Properties *)

\* The columns and the requests have their types.
TypeOK ==
  /\ catalogue \in [Problem -> {"live", "archived", "deleted"}]
  /\ row \in [Problem -> Row \cup {NoRow}]
  /\ records \in [RecordKind -> SUBSET Problem]
  /\ request \in [Handler -> Request]
  /\ now \in Time

\* Whatever requests are in progress, a submission, run or review of the
\* candidate belongs to a problem assigned to the candidate, and an assignment to
\* a problem that exists: the checks of the handlers are older than their writes,
\* and only the foreign keys are as young.
RecordsOnAssignments ==
  /\ \A k \in RecordKind : records[k] \subseteq Assigned
  /\ Assigned \subseteq Existing

\* docs/api-contract.md:706 (a problem in use is not deleted without force): a
\* problem with an assignment, submission, custom run or review of the candidate
\* disappears only in a forced deletion, although an unforced one deletes reviews
\* and custom runs unasked, and its check of the other two is a read that other
\* requests may outdate.
HasWork(p) == p \in Assigned \/ \E k \in RecordKind : p \in records[k]

UnforcedDeleteKeepsWork ==
  [][\A p \in Existing \ Existing' :
       HasWork(p) => \E h \in Handler :
                       request[h] = [phase |-> "deleting", problem |-> p, force |-> TRUE]]_vars

\* As long as the candidate's assignments stay the same, an exam that expires by
\* u still expires by u after any step: a second start, a start that arrives late
\* or a rolled back assignment request never gives the candidate more time.
NoExtraTime ==
  [][Assigned' = Assigned => \A u \in Time : ExpiredBy(u) => ExpiredBy(u)']_vars

\* apps/api/src/modules/assignments/routes.ts:67 and the test "assignments cannot
\* change after a candidate starts" (candidate-assignment.test.ts:164): nothing is
\* assigned to a candidate whose exam has started.
AssignmentsFrozen == [][ExamStarted => Assigned' \subseteq Assigned]_vars
=============================================================================
