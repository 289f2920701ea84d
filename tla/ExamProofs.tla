----------------------------- MODULE ExamProofs -----------------------------
(* Theorems about Exam, for every set of problems, handlers and durations. *)
EXTENDS Exam, TLAPS

-----------------------------------------------------------------------------
(* Types *)

\* A request in some phase has the fields of that phase.
LEMMA PhaseTypes ==
  ASSUME TypeOK, NEW h \in Handler
  PROVE  /\ In(h, "validating") =>
              request[h] \in [phase : {"validating"}, problems : Selection,
                              left : SUBSET Problem, dur : Duration]
         /\ In(h, "inserting") =>
              request[h] \in [phase : {"inserting"}, problems : Selection,
                              rows : SUBSET Problem, dur : Duration]
         /\ In(h, "starting") =>
              request[h] \in [phase : {"starting"}, rows : SUBSET Problem, at : Time]
         /\ In(h, "access") \/ In(h, "writing") =>
              request[h] \in [phase : {"access", "writing"}, problem : Problem, kind : RecordKind]
         /\ In(h, "deleting") =>
              request[h] \in [phase : {"deleting"}, problem : Problem, force : BOOLEAN]
<1>1. request[h] \in Request
  BY DEF TypeOK
<1> QED
  BY <1>1 DEF Request, Idle, In

\* An assignments row is not the absence of one.
LEMMA RowIsNotNoRow == NoRow \notin Row
  BY ExamAssumption DEF NoRow, Row

\* A handler that moves on to a well-formed request keeps the type of request.
LEMMA GotoType ==
  ASSUME TypeOK, NEW h \in Handler, NEW r \in Request, Goto(h, r)
  PROVE  request' \in [Handler -> Request]
  BY DEF TypeOK, Goto

\* Every step preserves the types.
LEMMA TypeStep == TypeOK /\ [Next]_vars => TypeOK'
<1> SUFFICES ASSUME TypeOK, [Next]_vars PROVE TypeOK'
  OBVIOUS
<1> USE DEF TypeOK
<1>1. ASSUME NEW h \in Handler, PostAssignments(h) PROVE TypeOK'
  <2>1. PICK ps \in Selection, d \in Duration :
          Goto(h, [phase |-> "validating", problems |-> ps, left |-> ps, dur |-> d])
    BY <1>1 DEF PostAssignments
  <2>2. [phase |-> "validating", problems |-> ps, left |-> ps, dur |-> d] \in Request
    BY DEF Request, Selection
  <2>3. request' \in [Handler -> Request]
    BY <2>1, <2>2 DEF Goto
  <2> QED
    BY <1>1, <2>3 DEF PostAssignments
<1>2. ASSUME NEW h \in Handler, ValidateProblem(h) PROVE TypeOK'
  <2>1. PICK p \in request[h].left : Goto(h, [request[h] EXCEPT !.left = @ \ {p}])
    BY <1>2 DEF ValidateProblem
  <2>2. [request[h] EXCEPT !.left = @ \ {p}]
          \in [phase : {"validating"}, problems : Selection, left : SUBSET Problem, dur : Duration]
    BY <1>2, PhaseTypes DEF ValidateProblem
  <2>3. request' \in [Handler -> Request]
    BY <2>1, <2>2 DEF Goto, Request
  <2> QED
    BY <1>2, <2>3 DEF ValidateProblem
<1>3. ASSUME NEW h \in Handler, BeginAssignments(h) PROVE TypeOK'
  <2>1. [phase |-> "inserting", problems |-> request[h].problems, rows |-> Unstarted, dur |-> request[h].dur]
          \in [phase : {"inserting"}, problems : Selection, rows : SUBSET Problem, dur : Duration]
    BY <1>3, PhaseTypes DEF BeginAssignments, Unstarted, Assigned
  <2>2. request' \in [Handler -> Request]
    BY <1>3, <2>1 DEF BeginAssignments, Goto, Request
  <2> QED
    BY <1>3, <2>2 DEF BeginAssignments
<1>4. ASSUME NEW h \in Handler, CommitAssignments(h) PROVE TypeOK'
  <2>1. request[h].dur \in Duration
    BY <1>4, PhaseTypes DEF CommitAssignments
  <2>2. NewRow(request[h].dur) \in Row
    BY <2>1 DEF NewRow, Row
  <2>3. \A p \in Unstarted : [row[p] EXCEPT !.duration = request[h].dur] \in Row
    BY <2>1 DEF Unstarted, Assigned, Row
  <2>4. row' \in [Problem -> Row \cup {NoRow}]
    BY <1>4, <2>2, <2>3 DEF CommitAssignments
  <2>5. request' \in [Handler -> Request]
    BY <1>4, GotoType DEF CommitAssignments, Request
  <2> QED
    BY <1>4, <2>4, <2>5 DEF CommitAssignments
<1>5. ASSUME NEW h \in Handler, PostStart(h) PROVE TypeOK'
  <2>1. PICK t \in Time : Goto(h, [phase |-> "starting", rows |-> Unstarted, at |-> t])
    BY <1>5 DEF PostStart
  <2>2. [phase |-> "starting", rows |-> Unstarted, at |-> t] \in Request
    BY DEF Request, Unstarted, Assigned
  <2>3. request' \in [Handler -> Request]
    BY <2>1, <2>2 DEF Goto
  <2> QED
    BY <1>5, <2>3 DEF PostStart
<1>6. ASSUME NEW h \in Handler, CommitStart(h) PROVE TypeOK'
  <2>1. request[h].at \in Time
    BY <1>6, PhaseTypes DEF CommitStart
  <2>2. \A p \in Unstarted : [row[p] EXCEPT !.startedAt = request[h].at] \in Row
    BY <2>1 DEF Unstarted, Assigned, Row
  <2>3. row' \in [Problem -> Row \cup {NoRow}]
    BY <1>6, <2>2 DEF CommitStart, Startable
  <2>4. request' \in [Handler -> Request]
    BY <1>6, GotoType DEF CommitStart, Request
  <2> QED
    BY <1>6, <2>3, <2>4 DEF CommitStart
<1>7. ASSUME NEW h \in Handler, PostRecord(h) PROVE TypeOK'
  <2>1. PICK p \in Existing, w \in Writes :
          Goto(h, [phase |-> IF w[1] = "candidate" THEN "access" ELSE "writing",
                   problem |-> p, kind |-> w[2]])
    BY <1>7 DEF PostRecord
  <2>2. w[2] \in RecordKind
    BY DEF Writes, RecordKind
  <2>3. [phase |-> IF w[1] = "candidate" THEN "access" ELSE "writing", problem |-> p, kind |-> w[2]]
          \in [phase : {"access", "writing"}, problem : Problem, kind : RecordKind]
    BY <2>2 DEF Existing
  <2>4. request' \in [Handler -> Request]
    BY <2>1, <2>3 DEF Goto, Request
  <2> QED
    BY <1>7, <2>4 DEF PostRecord
<1>8. ASSUME NEW h \in Handler, ReadExam(h) PROVE TypeOK'
  <2>1. [request[h] EXCEPT !.phase = "writing"]
          \in [phase : {"access", "writing"}, problem : Problem, kind : RecordKind]
    BY <1>8, PhaseTypes DEF ReadExam
  <2>2. request' \in [Handler -> Request]
    BY <1>8, <2>1 DEF ReadExam, Goto, Request
  <2> QED
    BY <1>8, <2>2 DEF ReadExam
<1>9. ASSUME NEW h \in Handler, InsertRecord(h) PROVE TypeOK'
  <2>1. request[h].problem \in Problem /\ request[h].kind \in RecordKind
    BY <1>9, PhaseTypes DEF InsertRecord
  <2>2. records' \in [RecordKind -> SUBSET Problem]
    BY <1>9, <2>1 DEF InsertRecord
  <2>3. request' \in [Handler -> Request]
    BY <1>9, GotoType DEF InsertRecord, Request
  <2> QED
    BY <1>9, <2>2, <2>3 DEF InsertRecord
<1>10. ASSUME NEW h \in Handler, RequestDelete(h) PROVE TypeOK'
  <2>1. PICK p \in Existing, force \in BOOLEAN :
          Goto(h, [phase |-> "deleting", problem |-> p, force |-> force])
    BY <1>10 DEF RequestDelete
  <2>2. [phase |-> "deleting", problem |-> p, force |-> force] \in Request
    BY DEF Request, Existing
  <2>3. request' \in [Handler -> Request]
    BY <2>1, <2>2 DEF Goto
  <2> QED
    BY <1>10, <2>3 DEF RequestDelete
<1>11. ASSUME NEW h \in Handler, CommitDelete(h) PROVE TypeOK'
  <2>1. catalogue' \in [Problem -> {"live", "archived", "deleted"}]
    BY <1>11 DEF CommitDelete
  <2>2. row' \in [Problem -> Row \cup {NoRow}]
    BY <1>11 DEF CommitDelete
  <2>3. records' \in [RecordKind -> SUBSET Problem]
    BY <1>11 DEF CommitDelete
  <2>4. request' \in [Handler -> Request]
    BY <1>11, GotoType DEF CommitDelete, Request
  <2> QED
    BY <1>11, <2>1, <2>2, <2>3, <2>4 DEF CommitDelete
<1>12. ASSUME NEW h \in Handler, Abandon(h) PROVE TypeOK'
  BY <1>12, GotoType DEF Abandon, Request
<1>13. CASE DeleteReviews
  <2>1. records' \in [RecordKind -> SUBSET Problem]
    BY <1>13 DEF DeleteReviews
  <2> QED
    BY <1>13, <2>1 DEF DeleteReviews
<1>14. CASE ArchiveProblem
  BY <1>14 DEF ArchiveProblem
<1>15. CASE Tick
  BY <1>15, ExamAssumption DEF Tick, Time
<1>16. CASE UNCHANGED vars
  BY <1>16 DEF vars
<1> QED
  BY <1>1, <1>2, <1>3, <1>4, <1>5, <1>6, <1>7, <1>8, <1>9, <1>10, <1>11, <1>12, <1>13, <1>14,
     <1>15, <1>16 DEF Next

\* The rows, records and requests always have their types.
THEOREM TypeCorrect == Spec => []TypeOK
<1>1. Init => TypeOK
  BY ExamAssumption DEF Init, TypeOK, Request, Time
<1> QED
  BY <1>1, TypeStep, PTL DEF Spec

-----------------------------------------------------------------------------
(* Records and assignments *)

\* A handler that may still write a record asked about a problem that was assigned:
\* it still is, unless the problem is gone.
Granted ==
  \A h \in Handler :
    In(h, "access") \/ In(h, "writing") =>
      request[h].problem \in Assigned \/ request[h].problem \notin Existing

IInv == TypeOK /\ RecordsOnAssignments /\ Granted

\* What one step does to assignments and problems: a deleted problem stays deleted,
\* and an assignment goes only with its problem.
AssignmentsLast ==
  /\ Existing' \subseteq Existing
  /\ Assigned \ Assigned' \subseteq Problem \ Existing'

\* Committing assignments assigns the requested problems and keeps the others.
LEMMA CommitAssignmentsEffect ==
  ASSUME TypeOK, NEW h \in Handler, CommitAssignments(h)
  PROVE  Assigned' = Assigned \cup request[h].problems
<1>1. request[h].dur \in Duration /\ request[h].problems \subseteq Problem
  BY PhaseTypes DEF CommitAssignments, Selection
<1>2. NewRow(request[h].dur) # NoRow
  BY <1>1, ExamAssumption DEF NewRow, NoRow
<1>3. \A p \in Unstarted : row[p] \in Row /\ [row[p] EXCEPT !.duration = request[h].dur] \in Row
  BY <1>1 DEF TypeOK, Unstarted, Assigned, Row
<1>4. \A p \in Problem : row'[p] # NoRow <=> p \in request[h].problems \/ row[p] # NoRow
  BY <1>2, <1>3, RowIsNotNoRow DEF CommitAssignments, Unstarted, Assigned
<1> QED
  BY <1>1, <1>4 DEF Assigned

\* Starting changes no row's presence.
LEMMA CommitStartEffect ==
  ASSUME TypeOK, NEW h \in Handler, CommitStart(h)
  PROVE  /\ Assigned' = Assigned
         /\ \A p \in Assigned : row'[p].duration = row[p].duration
         /\ \A p \in Assigned \ Unstarted : row'[p] = row[p]
<1>1. request[h].at \in Time
  BY PhaseTypes DEF CommitStart
<1>2. \A p \in Unstarted : /\ row[p] \in Row
                           /\ [row[p] EXCEPT !.startedAt = request[h].at] \in Row
                           /\ [row[p] EXCEPT !.startedAt = request[h].at].duration = row[p].duration
  BY <1>1 DEF TypeOK, Unstarted, Assigned, Row
<1>3. \A p \in Problem : row'[p] # NoRow <=> row[p] # NoRow
  BY <1>2, RowIsNotNoRow DEF CommitStart, Startable, Unstarted, Assigned
<1>4. \A p \in Assigned : row'[p].duration = row[p].duration
  BY <1>2 DEF CommitStart, Startable, Assigned
<1>5. \A p \in Assigned \ Unstarted : row'[p] = row[p]
  BY DEF CommitStart, Startable, Assigned
<1> QED
  BY <1>3, <1>4, <1>5 DEF Assigned

\* A deletion removes one problem and, when forced, its assignment.
LEMMA CommitDeleteEffect ==
  ASSUME TypeOK, NEW h \in Handler, CommitDelete(h)
  PROVE  /\ request[h].problem \in Existing
         /\ Existing' = Existing \ {request[h].problem}
         /\ Assigned' = IF request[h].force THEN Assigned \ {request[h].problem} ELSE Assigned
<1>1. request[h].problem \in Problem
  BY PhaseTypes DEF CommitDelete
<1>2. Existing' = Existing \ {request[h].problem}
  BY <1>1 DEF CommitDelete, Existing, TypeOK
<1>3. Assigned' = IF request[h].force THEN Assigned \ {request[h].problem} ELSE Assigned
  BY <1>1 DEF CommitDelete, Assigned, TypeOK
<1> QED
  BY <1>2, <1>3 DEF CommitDelete

\* The actions that read, and leave catalogue, assignments and records alone.
Reads(h) ==
  \/ PostAssignments(h) \/ ValidateProblem(h) \/ BeginAssignments(h)
  \/ PostStart(h) \/ PostRecord(h) \/ ReadExam(h) \/ RequestDelete(h) \/ Abandon(h)

LEMMA ReadsEffect ==
  ASSUME NEW h \in Handler, Reads(h)
  PROVE  UNCHANGED <<catalogue, row, records, now>>
  BY DEF Reads, PostAssignments, ValidateProblem, BeginAssignments, PostStart, PostRecord,
         ReadExam, RequestDelete, Abandon

\* Next, with the reading actions together.
LEMMA NextSteps ==
  ASSUME [Next]_vars
  PROVE  \/ \E h \in Handler : Reads(h) \/ CommitAssignments(h) \/ CommitStart(h)
                              \/ InsertRecord(h) \/ CommitDelete(h)
         \/ DeleteReviews \/ ArchiveProblem \/ Tick \/ UNCHANGED vars
  BY DEF Next, Reads

\* Assignments go only with their problem, and problems do not come back.
LEMMA AssignmentsLastStep ==
  ASSUME IInv, [Next]_vars
  PROVE  AssignmentsLast
<1> USE DEF AssignmentsLast
<1>1. ASSUME NEW h \in Handler, Reads(h) PROVE AssignmentsLast
  BY <1>1, ReadsEffect DEF Existing, Assigned
<1>2. ASSUME NEW h \in Handler, CommitAssignments(h) PROVE AssignmentsLast
  <2>1. Assigned \subseteq Assigned'
    BY <1>2, CommitAssignmentsEffect DEF IInv
  <2> QED
    BY <1>2, <2>1 DEF CommitAssignments, Existing
<1>3. ASSUME NEW h \in Handler, CommitStart(h) PROVE AssignmentsLast
  <2>1. Assigned' = Assigned
    BY <1>3, CommitStartEffect DEF IInv
  <2> QED
    BY <1>3, <2>1 DEF CommitStart, Existing
<1>4. ASSUME NEW h \in Handler, InsertRecord(h) PROVE AssignmentsLast
  BY <1>4 DEF InsertRecord, Existing, Assigned
<1>5. ASSUME NEW h \in Handler, CommitDelete(h) PROVE AssignmentsLast
  <2>1. /\ request[h].problem \in Existing
        /\ Existing' = Existing \ {request[h].problem}
        /\ Assigned' = IF request[h].force THEN Assigned \ {request[h].problem} ELSE Assigned
    BY <1>5, CommitDeleteEffect DEF IInv
  <2>2. Existing \subseteq Problem
    BY DEF Existing
  <2>3. Assigned \ Assigned' \subseteq {request[h].problem}
    BY <2>1
  <2> QED
    BY <2>1, <2>2, <2>3
<1>6. CASE DeleteReviews
  BY <1>6 DEF DeleteReviews, Existing, Assigned
<1>7. CASE ArchiveProblem
  BY <1>7 DEF ArchiveProblem, Existing, Assigned, IInv, TypeOK
<1>8. CASE Tick
  BY <1>8 DEF Tick, Existing, Assigned
<1>9. CASE UNCHANGED vars
  BY <1>9 DEF vars, Existing, Assigned
<1> QED
  BY <1>1, <1>2, <1>3, <1>4, <1>5, <1>6, <1>7, <1>8, <1>9, NextSteps

\* Records stay on assignments, and assignments on problems.
LEMMA RecordsStep ==
  ASSUME IInv, [Next]_vars
  PROVE  RecordsOnAssignments'
<1> USE DEF RecordsOnAssignments
<1>1. ASSUME NEW h \in Handler, Reads(h) PROVE RecordsOnAssignments'
  BY <1>1, ReadsEffect DEF Existing, Assigned, IInv
<1>2. ASSUME NEW h \in Handler, CommitAssignments(h) PROVE RecordsOnAssignments'
  <2>1. Assigned' = Assigned \cup request[h].problems
    BY <1>2, CommitAssignmentsEffect DEF IInv
  <2>2. Existing' = Existing /\ records' = records /\ request[h].problems \subseteq Existing
    BY <1>2 DEF CommitAssignments, Existing
  <2> QED
    BY <2>1, <2>2 DEF IInv
<1>3. ASSUME NEW h \in Handler, CommitStart(h) PROVE RecordsOnAssignments'
  <2>1. Assigned' = Assigned
    BY <1>3, CommitStartEffect DEF IInv
  <2>2. Existing' = Existing /\ records' = records
    BY <1>3 DEF CommitStart, Existing
  <2> QED
    BY <2>1, <2>2 DEF IInv
<1>4. ASSUME NEW h \in Handler, InsertRecord(h) PROVE RecordsOnAssignments'
  <2>1. request[h].problem \in Assigned
    BY <1>4 DEF IInv, Granted, InsertRecord, In
  <2>2. Existing' = Existing /\ Assigned' = Assigned
    BY <1>4 DEF InsertRecord, Existing, Assigned
  <2>3. \A k \in RecordKind : records'[k] \subseteq records[k] \cup {request[h].problem}
    BY <1>4 DEF InsertRecord, IInv, TypeOK
  <2> QED
    BY <2>1, <2>2, <2>3 DEF IInv
<1>5. ASSUME NEW h \in Handler, CommitDelete(h) PROVE RecordsOnAssignments'
  <2>1. /\ Existing' = Existing \ {request[h].problem}
        /\ Assigned' = IF request[h].force THEN Assigned \ {request[h].problem} ELSE Assigned
    BY <1>5, CommitDeleteEffect DEF IInv
  <2>2. request[h].force \in BOOLEAN
    BY <1>5, PhaseTypes DEF CommitDelete, IInv
  <2>3. CASE request[h].force
    <3>1. \A k \in RecordKind : records'[k] = records[k] \ {request[h].problem}
      BY <1>5, <2>3 DEF CommitDelete
    <3> QED
      BY <2>1, <2>3, <3>1 DEF IInv
  <2>4. CASE ~request[h].force
    <3>1. request[h].problem \notin Assigned
      BY <1>5, <2>4 DEF CommitDelete, Unreferenced
    <3>2. \A k \in RecordKind : records'[k] \subseteq records[k]
      BY <1>5, <2>4 DEF CommitDelete
    <3> QED
      BY <2>1, <2>4, <3>1, <3>2 DEF IInv
  <2> QED
    BY <2>2, <2>3, <2>4
<1>6. CASE DeleteReviews
  <2>1. \A k \in RecordKind : records'[k] \subseteq records[k]
    BY <1>6 DEF DeleteReviews, IInv, TypeOK
  <2>2. Existing' = Existing /\ Assigned' = Assigned
    BY <1>6 DEF DeleteReviews, Existing, Assigned
  <2> QED
    BY <2>1, <2>2 DEF IInv
<1>7. CASE ArchiveProblem
  <2>1. Existing' = Existing
    BY <1>7 DEF ArchiveProblem, Existing, IInv, TypeOK
  <2>2. records' = records /\ Assigned' = Assigned
    BY <1>7 DEF ArchiveProblem, Assigned
  <2> QED
    BY <2>1, <2>2 DEF IInv
<1>8. CASE Tick
  BY <1>8 DEF Tick, Existing, Assigned, IInv
<1>9. CASE UNCHANGED vars
  BY <1>9 DEF vars, Existing, Assigned, IInv
<1> QED
  BY <1>1, <1>2, <1>3, <1>4, <1>5, <1>6, <1>7, <1>8, <1>9, NextSteps

\* A granted request stays granted: the problem keeps its assignment or goes.
LEMMA GrantedStep ==
  ASSUME IInv, [Next]_vars
  PROVE  Granted'
<1> SUFFICES ASSUME NEW g \in Handler, (In(g, "access") \/ In(g, "writing"))'
             PROVE  (request[g].problem \in Assigned \/ request[g].problem \notin Existing)'
  BY DEF Granted
<1>1. AssignmentsLast
  BY AssignmentsLastStep
<1>2. CASE /\ request'[g].problem = request[g].problem
           /\ In(g, "access") \/ In(g, "writing")
  <2>1. request[g].problem \in Assigned \/ request[g].problem \notin Existing
    BY <1>2 DEF IInv, Granted
  <2> QED
    BY <1>1, <1>2, <2>1 DEF AssignmentsLast
<1>3. CASE request'[g] = request[g]
  BY <1>2, <1>3 DEF In
<1>4. ASSUME NEW h \in Handler, PostRecord(h)
      PROVE  \/ request'[g] = request[g]
             \/ request'[g].problem \in Assigned /\ Assigned' = Assigned
  <2>1. PICK p \in Existing, w \in Writes :
          /\ MayRecord(p)
          /\ Goto(h, [phase |-> IF w[1] = "candidate" THEN "access" ELSE "writing",
                      problem |-> p, kind |-> w[2]])
    BY <1>4 DEF PostRecord
  <2>2. Assigned' = Assigned
    BY <1>4 DEF PostRecord, Assigned
  <2>3. request'[g] = request[g] \/ request'[g].problem = p
    BY <2>1 DEF Goto, IInv, TypeOK
  <2> QED
    BY <2>1, <2>2, <2>3 DEF MayRecord
<1>5. ASSUME NEW h \in Handler, ReadExam(h)
      PROVE  request'[g] = request[g] \/
             (request'[g].problem = request[g].problem /\ In(g, "access"))
  <2>1. request[h] \in [phase : {"access", "writing"}, problem : Problem, kind : RecordKind]
    BY <1>5, PhaseTypes DEF ReadExam, IInv
  <2>2. [request[h] EXCEPT !.phase = "writing"].problem = request[h].problem
    BY <2>1
  <2> QED
    BY <1>5, <2>2 DEF ReadExam, Goto, IInv, TypeOK
<1>6. ASSUME NEW h \in Handler, NEW r, Goto(h, r), r.phase \notin {"access", "writing"}
      PROVE  request'[g] = request[g]
  BY <1>6 DEF Goto, In, IInv, TypeOK
<1>7. ASSUME NEW h \in Handler, ValidateProblem(h) PROVE request'[g] = request[g]
  <2>1. request[h] \in [phase : {"validating"}, problems : Selection, left : SUBSET Problem, dur : Duration]
    BY <1>7, PhaseTypes DEF ValidateProblem, IInv
  <2>2. PICK p \in request[h].left : Goto(h, [request[h] EXCEPT !.left = @ \ {p}])
    BY <1>7 DEF ValidateProblem
  <2>3. [request[h] EXCEPT !.left = @ \ {p}].phase = "validating"
    BY <2>1
  <2> QED
    BY <1>6, <2>2, <2>3
<1>8. ASSUME NEW h \in Handler, Goto(h, Idle) PROVE request'[g] = request[g]
  BY <1>6, <1>8 DEF Idle
<1>9. ASSUME NEW h \in Handler,
             PostAssignments(h) \/ BeginAssignments(h) \/ PostStart(h) \/ RequestDelete(h)
      PROVE  request'[g] = request[g]
  BY <1>6, <1>9 DEF PostAssignments, BeginAssignments, PostStart, RequestDelete
<1>10. ASSUME NEW h \in Handler, CommitAssignments(h) \/ CommitStart(h) \/ InsertRecord(h)
                                 \/ CommitDelete(h) \/ Abandon(h)
       PROVE  request'[g] = request[g]
  BY <1>8, <1>10 DEF CommitAssignments, CommitStart, InsertRecord, CommitDelete, Abandon
<1>11. CASE DeleteReviews \/ ArchiveProblem \/ Tick \/ UNCHANGED vars
  BY <1>3, <1>11 DEF DeleteReviews, ArchiveProblem, Tick, vars
<1>12. ASSUME NEW h \in Handler, PostRecord(h)
       PROVE  (request[g].problem \in Assigned \/ request[g].problem \notin Existing)'
  BY <1>3, <1>4, <1>12
<1>13. ASSUME NEW h \in Handler, ReadExam(h)
       PROVE  (request[g].problem \in Assigned \/ request[g].problem \notin Existing)'
  BY <1>2, <1>3, <1>5, <1>13
<1> QED
  BY <1>3, <1>7, <1>9, <1>10, <1>11, <1>12, <1>13 DEF Next

-----------------------------------------------------------------------------
(* Theorems *)

\* The inductive invariant.
LEMMA IInvAlways == Spec => []IInv
<1>1. Init => IInv
  BY ExamAssumption DEF Init, IInv, TypeOK, RecordsOnAssignments, Granted, Request, Time, In, Idle,
     Existing, Assigned, RecordKind
<1>2. IInv /\ [Next]_vars => IInv'
  BY TypeStep, RecordsStep, GrantedStep DEF IInv
<1> QED
  BY <1>1, <1>2, PTL DEF Spec

\* Whatever requests run, the candidate's records belong to assignments and the
\* assignments to problems that exist.
THEOREM RecordsAlwaysOnAssignments == Spec => []RecordsOnAssignments
<1>1. IInv => RecordsOnAssignments
  BY DEF IInv
<1> QED
  BY <1>1, IInvAlways, PTL

\* Of the problems, only a deletion removes one.
LEMMA OnlyDeleteRemoves ==
  ASSUME TypeOK, [Next]_vars, NEW p \in Existing \ Existing'
  PROVE  \E h \in Handler : CommitDelete(h) /\ request[h].problem = p
<1>1. ASSUME NEW h \in Handler, Reads(h) \/ CommitAssignments(h) \/ CommitStart(h) \/ InsertRecord(h)
      PROVE  Existing' = Existing
  BY <1>1, ReadsEffect DEF CommitAssignments, CommitStart, InsertRecord, Existing
<1>2. CASE DeleteReviews \/ Tick \/ UNCHANGED vars
  BY <1>2 DEF DeleteReviews, Tick, vars, Existing
<1>3. CASE ArchiveProblem
  BY <1>3 DEF ArchiveProblem, Existing, TypeOK
<1>4. ASSUME NEW h \in Handler, CommitDelete(h)
      PROVE  request[h].problem = p
  BY <1>4, CommitDeleteEffect
<1> QED
  BY <1>1, <1>2, <1>3, <1>4, NextSteps

\* A problem with work of the candidate disappears only in a forced deletion.
THEOREM WorkNeedsForce == Spec => UnforcedDeleteKeepsWork
<1>1. ASSUME IInv, [Next]_vars
      PROVE  \A p \in Existing \ Existing' :
               HasWork(p) => \E h \in Handler :
                               request[h] = [phase |-> "deleting", problem |-> p, force |-> TRUE]
  <2> SUFFICES ASSUME NEW p \in Existing \ Existing', HasWork(p)
               PROVE  \E h \in Handler :
                        request[h] = [phase |-> "deleting", problem |-> p, force |-> TRUE]
    OBVIOUS
  <2>1. PICK h \in Handler : CommitDelete(h) /\ request[h].problem = p
    BY <1>1, OnlyDeleteRemoves DEF IInv
  <2>2. request[h] \in [phase : {"deleting"}, problem : Problem, force : BOOLEAN]
    BY <1>1, <2>1, PhaseTypes DEF IInv, CommitDelete
  <2>3. p \in Assigned
    BY <1>1 DEF HasWork, IInv, RecordsOnAssignments
  <2>4. request[h].force = TRUE
    BY <2>1, <2>2, <2>3 DEF CommitDelete, Unreferenced
  <2> QED
    BY <2>1, <2>2, <2>4
<1> QED
  BY <1>1, IInvAlways, PTL DEF Spec, UnforcedDeleteKeepsWork

\* When the rows keep their durations and those that have started keep their start,
\* no expiry moves.
LEMMA SameClock ==
  ASSUME Assigned' = Assigned,
         \A p \in Assigned : row'[p].duration = row[p].duration,
         \A p \in Assigned \ Unstarted : row'[p] = row[p]
  PROVE  \A u \in Time : ExpiredBy(u) => ExpiredBy(u)'
<1>1. StartTimes \subseteq StartTimes'
  BY DEF StartTimes, Unstarted
<1> QED
  BY <1>1 DEF ExpiredBy

\* Only new or removed assignments give the candidate more time.
THEOREM NoStepGivesTime == Spec => NoExtraTime
<1>1. ASSUME TypeOK, [Next]_vars, Assigned' = Assigned
      PROVE  \A u \in Time : ExpiredBy(u) => ExpiredBy(u)'
  <2> DEFINE SameRows == \A p \in Assigned : row'[p] = row[p]
  <2>1. CASE SameRows
    BY <1>1, <2>1, SameClock
  <2> HIDE DEF SameRows
  <2>2. ASSUME NEW h \in Handler, Reads(h) \/ InsertRecord(h) PROVE SameRows
    BY <2>2, ReadsEffect DEF SameRows, InsertRecord
  <2>3. ASSUME NEW h \in Handler, CommitAssignments(h) PROVE FALSE
    <3>1. request[h].problems \in Selection
      BY <1>1, <2>3, PhaseTypes DEF CommitAssignments
    <3>2. request[h].problems \subseteq Existing \ Assigned
      BY <2>3 DEF CommitAssignments
    <3>3. Assigned' = Assigned \cup request[h].problems
      BY <1>1, <2>3, CommitAssignmentsEffect
    <3> QED
      BY <1>1, <3>1, <3>2, <3>3 DEF Selection
  <2>4. ASSUME NEW h \in Handler, CommitStart(h)
        PROVE  \A u \in Time : ExpiredBy(u) => ExpiredBy(u)'
    BY <1>1, <2>4, CommitStartEffect, SameClock
  <2>5. ASSUME NEW h \in Handler, CommitDelete(h) PROVE SameRows
    <3>1. \A p \in Problem \ {request[h].problem} : row'[p] = row[p]
      BY <1>1, <2>5 DEF CommitDelete, TypeOK
    <3>2. request[h].problem \in Assigned => row'[request[h].problem] = row[request[h].problem]
      BY <1>1, <2>5, CommitDeleteEffect DEF CommitDelete, Unreferenced
    <3> QED
      BY <3>1, <3>2 DEF SameRows, Assigned
  <2>6. ASSUME DeleteReviews \/ ArchiveProblem \/ Tick \/ UNCHANGED vars PROVE SameRows
    BY <2>6 DEF SameRows, DeleteReviews, ArchiveProblem, Tick, vars
  <2> QED
    BY <1>1, <2>1, <2>2, <2>3, <2>4, <2>5, <2>6, NextSteps
<1> QED
  BY <1>1, TypeCorrect, PTL DEF Spec, NoExtraTime
=============================================================================
