------------------------ MODULE ProblemConsoleProofs ------------------------
(* Theorems about ProblemConsole, for every set of problems and calls. *)
EXTENDS ProblemConsole, TLAPS

-----------------------------------------------------------------------------
(* Types *)

Modal == [mode : {"delete", "modify"}, confirmId : Problem \cup {None},
          impact : {"free", "needsForce", None}, loading : BOOLEAN,
          forceDelete : BOOLEAN, forceModify : BOOLEAN]
Impact == {"impactDelete", "impactModify"}

\* TypeOK, one named part per variable or group of variables.
RowType == row \in [Problem -> Row]
ListType ==
  /\ problems \in [Problem -> Shown]
  /\ loading \in [sent : BOOLEAN, rows : [Problem -> Shown] \cup {None}]
BuilderType ==
  /\ section \in {"problems", "new"}
  /\ editingId \in Problem \cup {None} /\ form \in Problem \cup {None}
  /\ submitting \in BOOLEAN
ModalType == modal \in Modal /\ consent \in Problem \cup {None}
BusyType == busy \in Problem \cup {None}
CallType == call \in [Slot -> Call \cup {None}]
CountType == calls \in 0..MaxCalls

TypedState ==
  /\ RowType /\ ListType /\ BuilderType /\ ModalType /\ BusyType /\ CallType /\ CountType

LEMMA TypeParts == TypeOK <=> TypedState
BY DEF TypeOK, TypedState, RowType, ListType, BuilderType, ModalType, BusyType, CallType,
       CountType, Modal

\* An answer is one of its question, and only a call that creates has no problem.
Fits(c) ==
  /\ c.kind \in Impact => c.answer \in {"sent", "free", "needsForce"}
  /\ c.kind = "archive" => c.answer \in {"sent", "active", "archived"}
  /\ c.kind # "create" => c.problem \in Problem
AnswersFit == \A s \in Slot : call[s] # None => Fits(call[s])

TypeInv == TypeOK /\ AnswersFit

LEMMA InitTypes == Init => TypeInv
<1> SUFFICES ASSUME Init PROVE TypedState /\ AnswersFit
  BY TypeParts DEF TypeInv
<1>1. RowType
  BY DEF Init, RowType, Row, RowState
<1>4. ListType
  BY DEF Init, ListType, Shown
<1>5. BuilderType /\ BusyType
  BY DEF Init, BuilderType, BusyType
<1>6. CallType /\ AnswersFit
  BY DEF Init, CallType, AnswersFit
<1>2. ModalType
  BY DEF Init, ModalType, Modal, Closed
<1>3. CountType
  BY ConsoleAssumption DEF Init, CountType
<1> QED
  BY <1>1, <1>2, <1>3, <1>4, <1>5, <1>6 DEF TypedState

\* A call that is sent.
LEMMA SendTypes ==
  ASSUME TypeInv, NEW kind \in Kind, NEW p \in Problem \cup {None},
         kind # "create" => p \in Problem,
         NEW force \in BOOLEAN, NEW agreed \in BOOLEAN, NEW archived \in BOOLEAN,
         Send(kind, p, force, agreed, archived)
  PROVE  CallType' /\ AnswersFit' /\ CountType'
<1>p. CallType /\ CountType /\ AnswersFit
  BY TypeParts DEF TypeInv, TypedState
<1> DEFINE c == [kind |-> kind, problem |-> p, force |-> force, consent |-> agreed,
                 archived |-> archived, answer |-> "sent"]
<1>1. c \in Call /\ Fits(c)
  BY DEF Call, Answer, Fits
<1>2. PICK s \in Slot : call' = [call EXCEPT ![s] = c]
  BY DEF Send
<1> HIDE DEF c
<1>3. CallType'
  BY <1>1, <1>2, <1>p DEF CallType
<1>4. AnswersFit'
  BY <1>1, <1>2, <1>p DEF CallType, AnswersFit
<1>5. CountType'
  BY <1>p, ConsoleAssumption DEF CountType, Send
<1> QED
  BY <1>3, <1>4, <1>5

\* A handler that goes on with the answer to its call.
LEMMA ReturnTypes ==
  ASSUME TypeInv, NEW s \in Slot, Return(s)
  PROVE  RowType' /\ CallType' /\ AnswersFit' /\ CountType'
BY TypeParts DEF TypeInv, TypedState, Return, RowType, CallType, AnswersFit, CountType

\* A call that is answered keeps what was asked.
LEMMA AnswerTypes ==
  ASSUME NEW c \in Call, NEW a \in Answer, NEW p \in Problem \cup {None}
  PROVE  /\ [c EXCEPT !.answer = a] \in Call
         /\ [c EXCEPT !.problem = p, !.answer = a] \in Call
BY DEF Call

LEMMA AnsweredTypes ==
  ASSUME TypeInv, NEW s \in Slot, Answered(s)
  PROVE  RowType' /\ CallType' /\ AnswersFit'
<1>p. CallType /\ AnswersFit /\ RowType
  BY TypeParts DEF TypeInv, TypedState
<1>1. call[s] \in Call /\ call[s].answer = "sent" /\ Fits(call[s])
  BY <1>p DEF Answered, CallType, AnswersFit
<1>2. ASSUME NEW c \in Call, Fits(c), call' = [call EXCEPT ![s] = c]
      PROVE  CallType' /\ AnswersFit'
  BY <1>2, <1>p DEF CallType, AnswersFit
<1>3. ASSUME NEW a \in Answer, Handled(call[s], a), call' = [call EXCEPT ![s].answer = a]
      PROVE  RowType' /\ CallType' /\ AnswersFit'
  <2>1. call' = [call EXCEPT ![s] = [call[s] EXCEPT !.answer = a]]
    BY <1>3, <1>p DEF CallType
  <2>2. [call[s] EXCEPT !.answer = a] \in Call
    BY <1>1, AnswerTypes
  <2>3. Fits([call[s] EXCEPT !.answer = a])
    BY <1>1, <1>3 DEF Fits, Handled, Call, Impact, Live
  <2>4. RowType'
    <3>1. CASE row' = row
      BY <3>1, <1>p DEF RowType
    <3>2. CASE Deleted(call[s].problem, call[s].force)
      BY <3>2, <1>p DEF Deleted, RowType, Row, RowState
    <3>3. CASE a \in {"archived", "active"} /\ row' = [row EXCEPT ![call[s].problem].state = a]
      <4>1. \A p \in Problem : [row[p] EXCEPT !.state = a] \in Row
        BY <3>3, <1>p DEF RowType, Row, RowState
      <4>2. row' = [row EXCEPT ![call[s].problem] = [row[call[s].problem] EXCEPT !.state = a]]
        BY <3>3
      <4> QED
        BY <4>1, <4>2, <1>p DEF RowType
    <3> QED
      BY <1>3, <3>1, <3>2, <3>3 DEF Handled
  <2> QED
    BY <1>2, <2>1, <2>2, <2>3, <2>4
<1>4. ASSUME NEW p \in Problem, call[s].kind = "create",
             row' = [row EXCEPT ![p] = [state |-> "active", work |-> FALSE]],
             call' = [call EXCEPT ![s].problem = p, ![s].answer = "done"]
      PROVE  RowType' /\ CallType' /\ AnswersFit'
  <2>1. call' = [call EXCEPT ![s] = [call[s] EXCEPT !.problem = p, !.answer = "done"]]
    BY <1>4, <1>1, <1>p DEF CallType, Call
  <2>2. [call[s] EXCEPT !.problem = p, !.answer = "done"] \in Call
    BY <1>1, AnswerTypes DEF Answer
  <2>3. Fits([call[s] EXCEPT !.problem = p, !.answer = "done"])
    BY <1>1, <1>4 DEF Fits, Call, Impact
  <2>4. RowType'
    BY <1>4, <1>p DEF RowType, Row, RowState
  <2> QED
    BY <1>2, <2>1, <2>2, <2>3, <2>4
<1> QED
  BY <1>3, <1>4 DEF Answered

\* Every step preserves the types.
LEMMA TypeStep == TypeInv /\ [Next]_vars => TypeInv'
<1> SUFFICES ASSUME TypeInv, [Next]_vars PROVE TypeInv'
  OBVIOUS
<1>p. /\ RowType /\ ListType /\ BuilderType /\ ModalType /\ BusyType /\ CallType /\ CountType
      /\ AnswersFit
  BY TypeParts DEF TypeInv, TypedState
<1>c. \A s \in Slot : call[s] # None => call[s] \in Call /\ Fits(call[s])
  BY <1>p DEF CallType, AnswersFit
<1> DEFINE Typed == TypedState /\ AnswersFit
<1> SUFFICES Typed'
  BY TypeParts, PTL DEF TypeInv
<1>ur. UNCHANGED row => RowType'
  BY <1>p DEF RowType
<1>ul. UNCHANGED <<problems, loading>> => ListType'
  BY <1>p DEF ListType
<1>ub. UNCHANGED <<section, builder>> => BuilderType'
  BY <1>p DEF BuilderType, builder
<1>um. UNCHANGED <<modal, consent>> => ModalType'
  BY <1>p DEF ModalType
<1>uy. UNCHANGED busy => BusyType'
  BY <1>p DEF BusyType
<1>uc. UNCHANGED call => CallType' /\ AnswersFit'
  BY <1>p DEF CallType, AnswersFit
<1>un. UNCHANGED calls => CountType'
  BY <1>p DEF CountType
<1>1. ASSUME NEW p \in Problem, GainWork(p) PROVE Typed'
  <2>1. [row[p] EXCEPT !.work = TRUE] \in Row
    BY <1>p DEF RowType, Row
  <2>2. row' = [row EXCEPT ![p] = [row[p] EXCEPT !.work = TRUE]]
    BY <1>1 DEF GainWork
  <2>3. RowType'
    BY <2>1, <2>2, <1>p DEF RowType
  <2> QED
    BY <1>1, <2>3, <1>ul, <1>ub, <1>um, <1>uy, <1>uc, <1>un DEF GainWork, TypedState
<1>2. ASSUME NEW p \in Problem, HandleArchiveProblem(p) PROVE Typed'
  <2>1. CallType' /\ AnswersFit' /\ CountType'
    BY <1>2, SendTypes DEF HandleArchiveProblem, Kind
  <2>2. BusyType'
    BY <1>2 DEF HandleArchiveProblem, BusyType
  <2> QED
    BY <1>2, <2>1, <2>2, <1>ur, <1>ul, <1>ub, <1>um DEF HandleArchiveProblem, TypedState
<1>3. ASSUME NEW p \in Problem, RequestModifyProblem(p) PROVE Typed'
  <2>1. CallType' /\ AnswersFit' /\ CountType'
    BY <1>3, SendTypes DEF RequestModifyProblem, Kind
  <2>2. ModalType'
    BY <1>3, <1>p DEF RequestModifyProblem, ModalType, Modal
  <2> QED
    BY <1>3, <2>1, <2>2, <1>ur, <1>ul, <1>ub, <1>uy DEF RequestModifyProblem, TypedState
<1>4. ASSUME NEW p \in Problem, RequestDeleteProblem(p) PROVE Typed'
  <2>1. CallType' /\ AnswersFit' /\ CountType'
    BY <1>4, SendTypes DEF RequestDeleteProblem, Kind
  <2>2. ModalType'
    BY <1>4, <1>p DEF RequestDeleteProblem, RequestedDelete, ModalType, Modal
  <2> QED
    BY <1>4, <2>1, <2>2, <1>ur, <1>ul, <1>ub, <1>uy DEF RequestDeleteProblem, TypedState
<1>5. CASE Tick
  <2>1. modal' \in Modal
    BY <1>5, <1>p DEF Tick, ModalType, Modal
  <2>2. consent' \in Problem \cup {None}
    BY <1>5, <1>p DEF Tick, ModalType, Modal
  <2> QED
    BY <1>5, <2>1, <2>2, <1>ur, <1>ul, <1>ub, <1>uy, <1>uc, <1>un DEF Tick, ModalType, TypedState
<1>6. CASE Cancel
  <2>1. ModalType'
    BY <1>6, <1>p DEF Cancel, ModalType, Modal
  <2> QED
    BY <1>6, <2>1, <1>ur, <1>ul, <1>ub, <1>uy, <1>uc, <1>un DEF Cancel, TypedState
<1>7. CASE ConfirmModify
  <2>1. modal.confirmId \in Problem
    BY <1>7, <1>p DEF ConfirmModify, Confirmable, ModalType, Modal
  <2>2. CallType' /\ AnswersFit' /\ CountType'
    BY <1>7, <2>1, SendTypes DEF ConfirmModify, Kind
  <2>3. ModalType'
    BY <1>7, <1>p DEF ConfirmModify, ModalType, Modal
  <2> QED
    BY <1>7, <2>2, <2>3, <1>ur, <1>ul, <1>ub, <1>uy DEF ConfirmModify, TypedState
<1>8. CASE ConfirmDelete
  <2>1. modal.confirmId \in Problem /\ modal.forceDelete \in BOOLEAN
    BY <1>8, <1>p DEF ConfirmDelete, Confirmable, ModalType, Modal
  <2>2. CallType' /\ AnswersFit' /\ CountType'
    BY <1>8, <2>1, SendTypes DEF ConfirmDelete, Kind
  <2> QED
    BY <1>8, <2>2, <1>ur, <1>ul, <1>ub, <1>um, <1>uy DEF ConfirmDelete, TypedState
<1>9. CASE HandleSaveProblem
  <2>1. editingId \in Problem
    BY <1>9, <1>p DEF HandleSaveProblem, BuilderType
  <2>2. CallType' /\ AnswersFit' /\ CountType'
    BY <1>9, <2>1, SendTypes DEF HandleSaveProblem, Kind
  <2>3. BuilderType'
    BY <1>9, <1>p DEF HandleSaveProblem, BuilderType
  <2> QED
    BY <1>9, <2>2, <2>3, <1>ur, <1>ul, <1>um, <1>uy DEF HandleSaveProblem, TypedState
<1>10. CASE HandleCreateProblem
  <2>1. CallType' /\ AnswersFit' /\ CountType'
    BY <1>10, SendTypes DEF HandleCreateProblem, Kind
  <2>2. BuilderType'
    BY <1>10, <1>p DEF HandleCreateProblem, BuilderType
  <2> QED
    BY <1>10, <2>1, <2>2, <1>ur, <1>ul, <1>um, <1>uy DEF HandleCreateProblem, TypedState
<1>11. ASSUME NEW s \in {"problems", "new"}, Go(s) PROVE Typed'
  <2>1. BuilderType'
    BY <1>11, <1>p DEF Go, LeaveEditing, BuilderType
  <2> QED
    BY <1>11, <2>1, <1>ur, <1>ul, <1>um, <1>uy, <1>uc, <1>un DEF Go, TypedState
<1>12. ASSUME ListAnswered \/ ListArrives \/ ListFails PROVE Typed'
  <2>1. Listing \in [Problem -> Shown]
    BY <1>p DEF Listing, Live, Shown
  <2>2. ListType'
    <3>1. CASE ListAnswered
      BY <3>1, <1>p, <2>1 DEF ListAnswered, ListType
    <3>2. CASE ListArrives
      BY <3>2, <1>p DEF ListArrives, ListType
    <3>3. CASE ListFails
      BY <3>3, <1>p DEF ListFails, ListType
    <3> QED
      BY <1>12, <3>1, <3>2, <3>3
  <2> QED
    BY <1>12, <2>2, <1>ur, <1>ub, <1>um, <1>uy, <1>uc, <1>un
    DEF ListAnswered, ListArrives, ListFails, TypedState
<1>13. ASSUME NEW s \in Slot, Answered(s) PROVE Typed'
  <2>1. RowType' /\ CallType' /\ AnswersFit'
    BY <1>13, AnsweredTypes
  <2> QED
    BY <1>13, <2>1, <1>ul, <1>ub, <1>um, <1>uy, <1>un DEF Answered, TypedState
<1>14. ASSUME NEW s \in Slot, CallReturns(s) PROVE Typed'
  <2>1. PICK ok \in BOOLEAN :
          \/ ImpactReturns(s, ok) \/ DetailReturns(s, ok) \/ SaveReturns(s, ok)
          \/ CreateReturns(s, ok) \/ DeleteReturns(s, ok) \/ ArchiveReturns(s, ok)
    BY <1>14 DEF CallReturns
  <2>2. Return(s) /\ UNCHANGED loading /\ call[s] \in Call /\ Fits(call[s])
    BY <2>1, <1>c DEF ImpactReturns, DetailReturns, SaveReturns, CreateReturns, DeleteReturns,
       ArchiveReturns, Returns, Return
  <2>3. RowType' /\ CallType' /\ AnswersFit' /\ CountType'
    BY <2>2, ReturnTypes
  <2>4. call[s].problem \in Problem \cup {None}
    BY <2>2 DEF Call
  <2>ul. UNCHANGED problems => ListType'
    BY <2>2, <1>ul
  <2>5. CASE ImpactReturns(s, ok)
    <3>1. ok => call[s].answer \in {"free", "needsForce"}
      BY <2>5, <2>2 DEF ImpactReturns, Returns, Fits, Impact
    <3>2. ModalType'
      BY <2>5, <3>1, <1>p DEF ImpactReturns, ModalType, Modal
    <3> QED
      BY <2>5, <3>2, <2>3, <2>ul, <1>ub, <1>uy DEF ImpactReturns, TypedState
  <2>6. CASE DetailReturns(s, ok)
    <3>1. ModalType'
      BY <2>6, <1>p DEF DetailReturns, ModalType, Modal
    <3>2. BuilderType'
      BY <2>6, <2>4, <1>p DEF DetailReturns, LoadedInto, BuilderType
    <3> QED
      BY <2>6, <3>1, <3>2, <2>3, <2>ul, <1>uy DEF DetailReturns, TypedState
  <2>7. CASE SaveReturns(s, ok)
    <3>1. BuilderType'
      BY <2>7, <1>p DEF SaveReturns, BuilderType
    <3> QED
      BY <2>7, <3>1, <2>3, <2>ul, <1>um, <1>uy DEF SaveReturns, TypedState
  <2>8. CASE CreateReturns(s, ok)
    <3>1. BuilderType'
      BY <2>8, <1>p DEF CreateReturns, BuilderType
    <3>2. ListType'
      BY <2>8, <2>2, <1>p DEF CreateReturns, ListType, Shown
    <3> QED
      BY <2>8, <3>1, <3>2, <2>3, <1>um, <1>uy DEF CreateReturns, TypedState
  <2>9. CASE DeleteReturns(s, ok)
    <3>1. ModalType'
      BY <2>9, <1>p DEF DeleteReturns, ModalType, Modal
    <3>2. ListType'
      BY <2>9, <2>2, <1>p DEF DeleteReturns, ListType, Shown
    <3> QED
      BY <2>9, <3>1, <3>2, <2>3, <1>ub, <1>uy DEF DeleteReturns, TypedState
  <2>10. CASE ArchiveReturns(s, ok)
    <3>1. ok => call[s].answer \in Shown
      BY <2>10, <2>2 DEF ArchiveReturns, Returns, Fits, Shown
    <3>2. ListType'
      BY <2>10, <3>1, <2>2, <1>p DEF ArchiveReturns, Listed, ListType
    <3>3. BusyType'
      BY <2>10 DEF ArchiveReturns, BusyType
    <3> QED
      BY <2>10, <3>2, <3>3, <2>3, <1>ub, <1>um DEF ArchiveReturns, TypedState
  <2> QED
    BY <2>1, <2>5, <2>6, <2>7, <2>8, <2>9, <2>10
<1>15. CASE UNCHANGED vars
  BY <1>15, <1>ur, <1>ul, <1>ub, <1>um, <1>uy, <1>uc, <1>un DEF vars, builder, TypedState
<1> QED
  BY <1>1, <1>2, <1>3, <1>4, <1>5, <1>6, <1>7, <1>8, <1>9, <1>10, <1>11, <1>12, <1>13, <1>14,
     <1>15 DEF Next

\* The variables have their types in every reachable state.
THEOREM TypeCorrect == Spec => []TypeOK
<1>1. TypeInv => TypeOK
  BY DEF TypeInv
<1> QED
  BY <1>1, InitTypes, TypeStep, PTL DEF Spec

-----------------------------------------------------------------------------
(* The form, the box and the list *)

LEMMA FormStep == FormOfEdited /\ [Next]_vars => FormOfEdited'
<1> SUFFICES ASSUME FormOfEdited, [Next]_vars PROVE FormOfEdited'
  OBVIOUS
<1>u. UNCHANGED <<editingId, form>> => FormOfEdited'
  BY DEF FormOfEdited
<1>1. ASSUME NEW s \in {"problems", "new"}, Go(s) PROVE FormOfEdited'
  BY <1>1 DEF Go, LeaveEditing, FormOfEdited
<1>2. ASSUME NEW s \in Slot, CallReturns(s) PROVE FormOfEdited'
  BY <1>2 DEF CallReturns, ImpactReturns, DetailReturns, SaveReturns, CreateReturns, DeleteReturns,
     ArchiveReturns, LoadedInto, builder, FormOfEdited
<1>3. ASSUME NEW p \in Problem,
             GainWork(p) \/ HandleArchiveProblem(p) \/ RequestModifyProblem(p)
               \/ RequestDeleteProblem(p)
      PROVE  FormOfEdited'
  BY <1>3, <1>u DEF GainWork, HandleArchiveProblem, RequestModifyProblem, RequestDeleteProblem,
     builder
<1>4. ASSUME \/ Tick \/ Cancel \/ ConfirmModify \/ ConfirmDelete \/ HandleSaveProblem
             \/ HandleCreateProblem \/ ListAnswered \/ ListArrives \/ ListFails \/ UNCHANGED vars
      PROVE  FormOfEdited'
  BY <1>4, <1>u DEF Tick, Cancel, ConfirmModify, ConfirmDelete, HandleSaveProblem,
     HandleCreateProblem, ListAnswered, ListArrives, ListFails, builder, vars
<1>5. ASSUME NEW s \in Slot, Answered(s) PROVE FormOfEdited'
  BY <1>5, <1>u DEF Answered, builder
<1> QED
  BY <1>1, <1>2, <1>3, <1>4, <1>5 DEF Next

\* A form that was loaded from a problem is the form of the problem being edited.
THEOREM FormOfEditedCorrect == Spec => []FormOfEdited
<1>1. Init => FormOfEdited
  BY DEF Init, FormOfEdited
<1> QED
  BY <1>1, FormStep, PTL DEF Spec

\* The ticked box of an open modal is of the problem the modal asks about.
BoxOfModal ==
  modal.confirmId # None /\ modal.mode = "delete" /\ modal.forceDelete
    => consent = modal.confirmId

LEMMA BoxStep == TypeOK /\ BoxOfModal /\ [Next]_vars => BoxOfModal'
<1> SUFFICES ASSUME TypeOK, BoxOfModal, [Next]_vars PROVE BoxOfModal'
  OBVIOUS
<1>p. modal \in Modal
  BY TypeParts DEF TypedState, ModalType
<1>u. UNCHANGED <<modal, consent>> => BoxOfModal'
  BY DEF BoxOfModal
<1>n. modal'.confirmId = None => BoxOfModal'
  BY DEF BoxOfModal
<1>k. ASSUME modal'.confirmId = modal.confirmId, modal'.mode = modal.mode,
             modal'.forceDelete = modal.forceDelete, consent' = consent
      PROVE  BoxOfModal'
  BY <1>k DEF BoxOfModal
<1>1. ASSUME NEW p \in Problem, RequestModifyProblem(p) PROVE BoxOfModal'
  <2>1. modal'.mode = "modify"
    BY <1>1, <1>p DEF RequestModifyProblem, Modal
  <2> QED
    BY <2>1 DEF BoxOfModal
<1>2. ASSUME NEW p \in Problem, RequestDeleteProblem(p) PROVE BoxOfModal'
  <2>1. ~modal'.forceDelete
    BY <1>2, <1>p DEF RequestDeleteProblem, RequestedDelete, Modal
  <2> QED
    BY <2>1 DEF BoxOfModal
<1>3. CASE Tick
  <2>1. CASE modal.mode = "modify"
    <3>1. modal'.mode = "modify"
      BY <1>3, <2>1, <1>p DEF Tick, Modal
    <3> QED
      BY <3>1 DEF BoxOfModal
  <2>2. CASE modal.mode # "modify"
    <3>1. /\ modal'.confirmId = modal.confirmId /\ modal'.forceDelete = ~modal.forceDelete
          /\ consent' = IF modal.forceDelete THEN None ELSE modal.confirmId
      BY <1>3, <2>2, <1>p DEF Tick, Modal
    <3> QED
      BY <3>1 DEF BoxOfModal
  <2> QED
    BY <2>1, <2>2
<1>4. CASE Cancel
  <2>1. modal'.confirmId = None
    BY <1>4, <1>p DEF Cancel, Modal
  <2> QED
    BY <2>1, <1>n
<1>5. CASE ConfirmModify
  BY <1>5, <1>k, <1>p DEF ConfirmModify, Modal
<1>6. ASSUME NEW s \in Slot, CallReturns(s) PROVE BoxOfModal'
  <2>1. PICK ok \in BOOLEAN :
          \/ ImpactReturns(s, ok) \/ DetailReturns(s, ok) \/ SaveReturns(s, ok)
          \/ CreateReturns(s, ok) \/ DeleteReturns(s, ok) \/ ArchiveReturns(s, ok)
    BY <1>6 DEF CallReturns
  <2>2. CASE ImpactReturns(s, ok)
    <3>1. \/ modal'.confirmId = None
          \/ /\ modal'.confirmId = modal.confirmId /\ modal'.mode = modal.mode
             /\ modal'.forceDelete = modal.forceDelete /\ consent' = consent
      BY <2>2, <1>p DEF ImpactReturns, Modal
    <3> QED
      BY <3>1, <1>n, <1>k
  <2>3. CASE DetailReturns(s, ok)
    <3>1. \/ modal'.confirmId = None
          \/ /\ modal'.confirmId = modal.confirmId /\ modal'.mode = modal.mode
             /\ modal'.forceDelete = modal.forceDelete /\ consent' = consent
      BY <2>3, <1>p DEF DetailReturns, Modal
    <3> QED
      BY <3>1, <1>n, <1>k
  <2>4. CASE DeleteReturns(s, ok)
    <3>1. modal'.confirmId = None
      BY <2>4, <1>p DEF DeleteReturns, Modal
    <3> QED
      BY <3>1, <1>n
  <2> QED
    BY <2>1, <2>2, <2>3, <2>4, <1>u DEF SaveReturns, CreateReturns, ArchiveReturns
<1>7. ASSUME NEW p \in Problem, GainWork(p) \/ HandleArchiveProblem(p) PROVE BoxOfModal'
  BY <1>7, <1>u DEF GainWork, HandleArchiveProblem
<1>8. ASSUME \/ ConfirmDelete \/ HandleSaveProblem \/ HandleCreateProblem
             \/ ListAnswered \/ ListArrives \/ ListFails \/ UNCHANGED vars
      PROVE  BoxOfModal'
  BY <1>8, <1>u DEF ConfirmDelete, HandleSaveProblem, HandleCreateProblem, ListAnswered,
     ListArrives, ListFails, vars
<1>9. ASSUME NEW s \in Slot, Answered(s) PROVE BoxOfModal'
  BY <1>9, <1>u DEF Answered
<1>10. ASSUME NEW s \in {"problems", "new"}, Go(s) PROVE BoxOfModal'
  BY <1>10, <1>u DEF Go
<1> QED
  BY <1>1, <1>2, <1>3, <1>4, <1>5, <1>6, <1>7, <1>8, <1>9, <1>10 DEF Next

\* What a sent call says of force.
LEMMA SentForce ==
  ASSUME CallType, ForceOnlyWhenTicked, NEW kind, NEW p, NEW force, NEW agreed, NEW archived,
         Send(kind, p, force, agreed, archived), force => agreed
  PROVE  ForceOnlyWhenTicked'
<1> DEFINE c == [kind |-> kind, problem |-> p, force |-> force, consent |-> agreed,
                 archived |-> archived, answer |-> "sent"]
<1>1. c.force => c.consent
  OBVIOUS
<1>2. PICK s \in Slot : call' = [call EXCEPT ![s] = c]
  BY DEF Send
<1> HIDE DEF c
<1> QED
  BY <1>1, <1>2 DEF CallType, ForceOnlyWhenTicked

LEMMA ForceStep ==
  TypeInv /\ BoxOfModal /\ ForceOnlyWhenTicked /\ [Next]_vars => ForceOnlyWhenTicked'
<1> SUFFICES ASSUME TypeInv, BoxOfModal, ForceOnlyWhenTicked, [Next]_vars
             PROVE  ForceOnlyWhenTicked'
  OBVIOUS
<1>p. CallType /\ modal \in Modal
  BY TypeParts DEF TypeInv, TypedState, ModalType
<1>u. UNCHANGED call => ForceOnlyWhenTicked'
  BY DEF ForceOnlyWhenTicked
<1>1. CASE ConfirmDelete
  <2>1. modal.forceDelete => consent = modal.confirmId
    BY <1>1 DEF ConfirmDelete, Confirmable, BoxOfModal
  <2> DEFINE c == [kind |-> "delete", problem |-> modal.confirmId, force |-> modal.forceDelete,
                   consent |-> consent = modal.confirmId, archived |-> FALSE, answer |-> "sent"]
  <2>2. c.force => c.consent
    BY <2>1
  <2>3. PICK s \in Slot : call' = [call EXCEPT ![s] = c]
    BY <1>1 DEF ConfirmDelete, Send
  <2> HIDE DEF c
  <2> QED
    BY <2>2, <2>3, <1>p DEF CallType, ForceOnlyWhenTicked
<1>2. ASSUME NEW p \in Problem,
             HandleArchiveProblem(p) \/ RequestModifyProblem(p) \/ RequestDeleteProblem(p)
      PROVE  ForceOnlyWhenTicked'
  BY <1>2, <1>p, SentForce DEF HandleArchiveProblem, RequestModifyProblem, RequestDeleteProblem
<1>3. ASSUME ConfirmModify \/ HandleSaveProblem \/ HandleCreateProblem PROVE ForceOnlyWhenTicked'
  BY <1>3, <1>p, SentForce DEF ConfirmModify, HandleSaveProblem, HandleCreateProblem
<1>4. ASSUME NEW s \in Slot, Answered(s) PROVE ForceOnlyWhenTicked'
  <2>1. call[s] \in Call /\ call[s] # None
    BY <1>4, <1>p DEF Answered, CallType
  <2>2. PICK c : /\ call' = [call EXCEPT ![s] = c]
                 /\ c.force = call[s].force /\ c.consent = call[s].consent
    <3>1. CASE \E a \in Answer : call' = [call EXCEPT ![s].answer = a]
      <4>1. PICK a \in Answer : call' = [call EXCEPT ![s] = [call[s] EXCEPT !.answer = a]]
        BY <3>1
      <4>2. /\ [call[s] EXCEPT !.answer = a].force = call[s].force
            /\ [call[s] EXCEPT !.answer = a].consent = call[s].consent
        BY <2>1 DEF Call
      <4> QED
        BY <4>1, <4>2
    <3>2. CASE \E p \in Problem : call' = [call EXCEPT ![s].problem = p, ![s].answer = "done"]
      <4>1. PICK p \in Problem : call' = [call EXCEPT ![s].problem = p, ![s].answer = "done"]
        BY <3>2
      <4>2. call' = [call EXCEPT ![s] = [call[s] EXCEPT !.problem = p, !.answer = "done"]]
        BY <4>1, <2>1, <1>p DEF Call, CallType
      <4>3. /\ [call[s] EXCEPT !.problem = p, !.answer = "done"].force = call[s].force
            /\ [call[s] EXCEPT !.problem = p, !.answer = "done"].consent = call[s].consent
        BY <2>1 DEF Call
      <4> QED
        BY <4>2, <4>3
    <3> QED
      BY <1>4, <3>1, <3>2 DEF Answered
  <2> QED
    BY <2>1, <2>2, <1>p DEF CallType, ForceOnlyWhenTicked
<1>5. ASSUME NEW s \in Slot, CallReturns(s) PROVE ForceOnlyWhenTicked'
  <2>1. call' = [call EXCEPT ![s] = None]
    BY <1>5 DEF CallReturns, ImpactReturns, DetailReturns, SaveReturns, CreateReturns,
       DeleteReturns, ArchiveReturns, Return
  <2> QED
    BY <2>1, <1>p DEF CallType, ForceOnlyWhenTicked
<1>6. ASSUME \/ Tick \/ Cancel \/ ListAnswered \/ ListArrives \/ ListFails \/ UNCHANGED vars
      PROVE  ForceOnlyWhenTicked'
  BY <1>6, <1>u DEF Tick, Cancel, ListAnswered, ListArrives, ListFails, vars
<1>7. ASSUME NEW p \in Problem, GainWork(p) PROVE ForceOnlyWhenTicked'
  BY <1>7, <1>u DEF GainWork
<1>8. ASSUME NEW s \in {"problems", "new"}, Go(s) PROVE ForceOnlyWhenTicked'
  BY <1>8, <1>u DEF Go
<1> QED
  BY <1>1, <1>2, <1>3, <1>4, <1>5, <1>6, <1>7, <1>8 DEF Next

\* Work of candidates is deleted from here only after the box was ticked for that problem.
THEOREM ForceOnlyWhenTickedCorrect == Spec => []ForceOnlyWhenTicked
<1>1. ASSUME Init PROVE TypeInv /\ BoxOfModal /\ ForceOnlyWhenTicked
  <2>1. BoxOfModal
    BY <1>1 DEF Init, Closed, BoxOfModal
  <2>2. ForceOnlyWhenTicked
    BY <1>1 DEF Init, ForceOnlyWhenTicked
  <2> QED
    BY <1>1, <2>1, <2>2, InitTypes
<1>2. TypeInv /\ BoxOfModal /\ ForceOnlyWhenTicked /\ [Next]_vars
        => (TypeInv /\ BoxOfModal /\ ForceOnlyWhenTicked)'
  BY TypeStep, BoxStep, ForceStep DEF TypeInv
<1> QED
  BY <1>1, <1>2, PTL DEF Spec

\* No late answer lists a deleted problem again.
THEOREM RemovedStaysRemovedCorrect == Spec => RemovedStaysRemoved
<1> DEFINE Stays ==
      \A p \in Problem :
        row[p].state = "gone" /\ problems[p] = "absent" /\ ~loading.sent /\ ~Announced(p)
          => problems'[p] = "absent"
<1>1. ASSUME TypeInv, [Next]_vars PROVE [Stays]_vars
  <2> SUFFICES ASSUME NEW p \in Problem, problems[p] = "absent", ~loading.sent, ~Announced(p)
               PROVE  problems'[p] = "absent"
    OBVIOUS
  <2>p. problems \in [Problem -> Shown]
    BY <1>1, TypeParts DEF TypeInv, TypedState, ListType
  <2>u. UNCHANGED problems => problems'[p] = "absent"
    OBVIOUS
  <2>1. ASSUME NEW s \in Slot, CallReturns(s) PROVE problems'[p] = "absent"
    <3>1. PICK ok \in BOOLEAN :
            \/ ImpactReturns(s, ok) \/ DetailReturns(s, ok) \/ SaveReturns(s, ok)
            \/ CreateReturns(s, ok) \/ DeleteReturns(s, ok) \/ ArchiveReturns(s, ok)
      BY <2>1 DEF CallReturns
    <3>2. CASE CreateReturns(s, ok)
      <4>1. call[s].problem # p
        BY <3>2 DEF CreateReturns, Returns, Announced
      <4> QED
        BY <3>2, <4>1, <2>p DEF CreateReturns
    <3>3. CASE DeleteReturns(s, ok)
      BY <3>3, <2>p DEF DeleteReturns
    <3>4. CASE ArchiveReturns(s, ok)
      BY <3>4, <2>p DEF ArchiveReturns, Listed
    <3> QED
      BY <3>1, <3>2, <3>3, <3>4, <2>u DEF ImpactReturns, DetailReturns, SaveReturns
  <2>2. ~ListArrives
    BY DEF ListArrives
  <2>3. ASSUME NEW q \in Problem,
               GainWork(q) \/ HandleArchiveProblem(q) \/ RequestModifyProblem(q)
                 \/ RequestDeleteProblem(q)
        PROVE  problems'[p] = "absent"
    BY <2>3, <2>u DEF GainWork, HandleArchiveProblem, RequestModifyProblem, RequestDeleteProblem
  <2>4. ASSUME \/ Tick \/ Cancel \/ ConfirmModify \/ ConfirmDelete \/ HandleSaveProblem
               \/ HandleCreateProblem \/ ListAnswered \/ ListFails \/ UNCHANGED vars
        PROVE  problems'[p] = "absent"
    BY <2>4, <2>u DEF Tick, Cancel, ConfirmModify, ConfirmDelete, HandleSaveProblem,
       HandleCreateProblem, ListAnswered, ListFails, vars
  <2>5. ASSUME NEW s \in Slot, Answered(s) PROVE problems'[p] = "absent"
    BY <2>5, <2>u DEF Answered
  <2>6. ASSUME NEW s \in {"problems", "new"}, Go(s) PROVE problems'[p] = "absent"
    BY <2>6, <2>u DEF Go
  <2> QED
    BY <1>1, <2>1, <2>2, <2>3, <2>4, <2>5, <2>6 DEF Next
<1> QED
  BY <1>1, InitTypes, TypeStep, PTL DEF Spec, RemovedStaysRemoved

-----------------------------------------------------------------------------
(* Whatever waits, waits for a call *)

\* A handler of one of these kinds waits for its call.
Pending(kinds) == \E s \in Slot : call[s] # None /\ call[s].kind \in kinds

Loads == {"impactDelete", "impactModify", "detail"}
ModalWaits == modal.loading => Pending(Loads)
BuilderWaits == submitting => Pending({"save", "create"})
RowWaits == busy # None => Pending({"archive"})

\* No indicator of work is shown without the call it stands for.
NothingWaitsAlone == ModalWaits /\ BuilderWaits /\ RowWaits

\* A sent call is pending, and so are those before it.
LEMMA SentPending ==
  ASSUME TypeInv, NEW kind \in Kind, NEW p \in Problem \cup {None},
         NEW force \in BOOLEAN, NEW agreed \in BOOLEAN, NEW archived \in BOOLEAN,
         Send(kind, p, force, agreed, archived), NEW kinds, kind \in kinds \/ Pending(kinds)
  PROVE  Pending(kinds)'
<1> DEFINE c == [kind |-> kind, problem |-> p, force |-> force, consent |-> agreed,
                 archived |-> archived, answer |-> "sent"]
<1>1. c # None /\ c.kind = kind
  <2>1. c \in Call
    BY DEF Call, Answer
  <2> QED
    BY <2>1, NoneIsNoCall
<1>2. PICK s \in Slot : call[s] = None /\ call' = [call EXCEPT ![s] = c]
  BY DEF Send
<1>3. CallType
  BY TypeParts DEF TypeInv, TypedState
<1> HIDE DEF c
<1>4. call'[s] = c /\ \A t \in Slot : t # s => call'[t] = call[t]
  BY <1>2, <1>3 DEF CallType
<1> QED
  BY <1>1, <1>2, <1>4 DEF Pending

\* An answer leaves its call pending until the handler goes on.
LEMMA AnsweredPending ==
  ASSUME TypeInv, NEW s \in Slot, Answered(s), NEW kinds, Pending(kinds)
  PROVE  Pending(kinds)'
<1>1. CallType /\ call[s] \in Call
  BY TypeParts DEF TypeInv, TypedState, CallType, Answered
<1>2. PICK c \in Call : call' = [call EXCEPT ![s] = c] /\ c.kind = call[s].kind
  <2>1. CASE \E a \in Answer : call' = [call EXCEPT ![s].answer = a]
    <3>1. PICK a \in Answer : call' = [call EXCEPT ![s] = [call[s] EXCEPT !.answer = a]]
      BY <2>1
    <3>2. /\ [call[s] EXCEPT !.answer = a] \in Call
          /\ [call[s] EXCEPT !.answer = a].kind = call[s].kind
      BY <1>1 DEF Call
    <3> QED
      BY <3>1, <3>2
  <2>2. CASE \E p \in Problem : call' = [call EXCEPT ![s].problem = p, ![s].answer = "done"]
    <3>1. PICK p \in Problem :
            call' = [call EXCEPT ![s] = [call[s] EXCEPT !.problem = p, !.answer = "done"]]
      BY <2>2, <1>1 DEF CallType, Call
    <3>2. /\ [call[s] EXCEPT !.problem = p, !.answer = "done"] \in Call
          /\ [call[s] EXCEPT !.problem = p, !.answer = "done"].kind = call[s].kind
      BY <1>1 DEF Call, Answer
    <3> QED
      BY <3>1, <3>2
  <2> QED
    BY <2>1, <2>2 DEF Answered
<1>3. /\ call'[s] # None /\ call'[s].kind = call[s].kind
      /\ \A t \in Slot : t # s => call'[t] = call[t]
  BY <1>1, <1>2, NoneIsNoCall DEF CallType
<1> QED
  BY <1>3 DEF Pending

\* A call that returns was one of its kind; all others are still pending.
LEMMA ReturnedPending ==
  ASSUME TypeInv, NEW s \in Slot, call' = [call EXCEPT ![s] = None],
         NEW kinds, call[s].kind \notin kinds, Pending(kinds)
  PROVE  Pending(kinds)'
<1>1. CallType
  BY TypeParts DEF TypeInv, TypedState
<1>2. PICK t \in Slot : call[t] # None /\ call[t].kind \in kinds
  BY DEF Pending
<1>3. t # s /\ call'[t] = call[t]
  BY <1>1, <1>2 DEF CallType
<1> QED
  BY <1>2, <1>3 DEF Pending

LEMMA WaitsStep == TypeInv /\ NothingWaitsAlone /\ [Next]_vars => NothingWaitsAlone'
<1> SUFFICES ASSUME TypeInv, NothingWaitsAlone, [Next]_vars PROVE NothingWaitsAlone'
  OBVIOUS
<1>p. modal \in Modal /\ consent \in Problem \cup {None} /\ editingId \in Problem \cup {None}
  BY TypeParts DEF TypeInv, TypedState, ModalType, BuilderType
<1>w. ModalWaits /\ BuilderWaits /\ RowWaits
  BY DEF NothingWaitsAlone
\* A call is sent, of the kind of what it makes wait.
<1>1. ASSUME NEW p \in Problem, RequestModifyProblem(p) \/ RequestDeleteProblem(p)
      PROVE  NothingWaitsAlone'
  <2>1. PICK kind \in {"impactDelete", "impactModify"} : Send(kind, p, FALSE, FALSE, FALSE)
    BY <1>1 DEF RequestModifyProblem, RequestDeleteProblem
  <2>2. \A kinds : kind \in kinds \/ Pending(kinds) => Pending(kinds)'
    BY <2>1, SentPending DEF Kind
  <2>3. submitting' = submitting /\ busy' = busy
    BY <1>1 DEF RequestModifyProblem, RequestDeleteProblem, builder
  <2> QED
    BY <1>w, <2>2, <2>3 DEF NothingWaitsAlone, ModalWaits, BuilderWaits, RowWaits, Loads
<1>2. CASE ConfirmModify
  <2>1. Send("detail", modal.confirmId, FALSE, FALSE, FALSE)
    BY <1>2 DEF ConfirmModify
  <2>2. \A kinds : "detail" \in kinds \/ Pending(kinds) => Pending(kinds)'
    BY <2>1, <1>p, SentPending DEF Kind, Modal
  <2>3. submitting' = submitting /\ busy' = busy
    BY <1>2 DEF ConfirmModify, builder
  <2> QED
    BY <1>w, <2>2, <2>3 DEF NothingWaitsAlone, ModalWaits, BuilderWaits, RowWaits, Loads
<1>3. CASE ConfirmDelete
  <2>1. Send("delete", modal.confirmId, modal.forceDelete, consent = modal.confirmId, FALSE)
    BY <1>3 DEF ConfirmDelete
  <2>2. \A kinds : Pending(kinds) => Pending(kinds)'
    BY <2>1, <1>p, SentPending DEF Kind, Modal
  <2>3. modal' = modal /\ submitting' = submitting /\ busy' = busy
    BY <1>3 DEF ConfirmDelete, builder
  <2> QED
    BY <1>w, <2>2, <2>3 DEF NothingWaitsAlone, ModalWaits, BuilderWaits, RowWaits
<1>4. ASSUME NEW p \in Problem, HandleArchiveProblem(p) PROVE NothingWaitsAlone'
  <2>1. Send("archive", p, FALSE, FALSE, problems[p] = "active")
    BY <1>4 DEF HandleArchiveProblem
  <2>2. \A kinds : "archive" \in kinds \/ Pending(kinds) => Pending(kinds)'
    BY <2>1, SentPending DEF Kind
  <2>3. modal' = modal /\ submitting' = submitting
    BY <1>4 DEF HandleArchiveProblem, builder
  <2> QED
    BY <1>w, <2>2, <2>3 DEF NothingWaitsAlone, ModalWaits, BuilderWaits, RowWaits
<1>5. ASSUME HandleSaveProblem \/ HandleCreateProblem PROVE NothingWaitsAlone'
  <2>1. PICK kind \in {"save", "create"}, p \in Problem \cup {None} :
          Send(kind, p, FALSE, FALSE, FALSE)
    BY <1>5, <1>p DEF HandleSaveProblem, HandleCreateProblem
  <2>2. \A kinds : kind \in kinds \/ Pending(kinds) => Pending(kinds)'
    BY <2>1, SentPending DEF Kind
  <2>3. modal' = modal /\ busy' = busy
    BY <1>5 DEF HandleSaveProblem, HandleCreateProblem
  <2> QED
    BY <1>w, <2>2, <2>3 DEF NothingWaitsAlone, ModalWaits, BuilderWaits, RowWaits
\* A call returns, and what waited for one of its kind waits no more.
<1>6. ASSUME NEW s \in Slot, CallReturns(s) PROVE NothingWaitsAlone'
  <2>1. PICK ok \in BOOLEAN :
          \/ ImpactReturns(s, ok) \/ DetailReturns(s, ok) \/ SaveReturns(s, ok)
          \/ CreateReturns(s, ok) \/ DeleteReturns(s, ok) \/ ArchiveReturns(s, ok)
    BY <1>6 DEF CallReturns
  <2>2. call' = [call EXCEPT ![s] = None]
    BY <2>1 DEF ImpactReturns, DetailReturns, SaveReturns, CreateReturns, DeleteReturns,
       ArchiveReturns, Return
  <2>3. \A kinds : call[s].kind \notin kinds /\ Pending(kinds) => Pending(kinds)'
    BY <2>2, ReturnedPending
  <2>4. ModalWaits'
    <3>1. CASE ImpactReturns(s, ok) \/ DetailReturns(s, ok)
      <4>1. ~modal'.loading
        BY <3>1, <1>p DEF ImpactReturns, DetailReturns, Modal
      <4> QED
        BY <4>1 DEF ModalWaits
    <3>2. CASE ~(ImpactReturns(s, ok) \/ DetailReturns(s, ok))
      <4>1. call[s].kind \notin Loads
        BY <2>1, <3>2 DEF SaveReturns, CreateReturns, DeleteReturns, ArchiveReturns, Returns, Loads
      <4>2. modal'.loading = modal.loading
        BY <2>1, <3>2, <1>p DEF SaveReturns, CreateReturns, DeleteReturns, ArchiveReturns, Modal
      <4> QED
        BY <1>w, <2>3, <4>1, <4>2 DEF ModalWaits
    <3> QED
      BY <3>1, <3>2
  <2>5. BuilderWaits'
    <3>1. CASE SaveReturns(s, ok) \/ CreateReturns(s, ok)
      BY <3>1 DEF SaveReturns, CreateReturns, BuilderWaits
    <3>2. CASE ~(SaveReturns(s, ok) \/ CreateReturns(s, ok))
      <4>1. call[s].kind \notin {"save", "create"} /\ submitting' = submitting
        BY <2>1, <3>2 DEF ImpactReturns, DetailReturns, DeleteReturns, ArchiveReturns, Returns,
           builder
      <4> QED
        BY <1>w, <2>3, <4>1 DEF BuilderWaits
    <3> QED
      BY <3>1, <3>2
  <2>6. RowWaits'
    <3>1. CASE ArchiveReturns(s, ok)
      BY <3>1 DEF ArchiveReturns, RowWaits
    <3>2. CASE ~ArchiveReturns(s, ok)
      <4>1. call[s].kind \notin {"archive"} /\ busy' = busy
        BY <2>1, <3>2 DEF ImpactReturns, DetailReturns, SaveReturns, CreateReturns, DeleteReturns,
           Returns
      <4> QED
        BY <1>w, <2>3, <4>1 DEF RowWaits
    <3> QED
      BY <3>1, <3>2
  <2> QED
    BY <2>4, <2>5, <2>6 DEF NothingWaitsAlone
\* Nothing is sent, and nothing returns.
<1>7. ASSUME NEW s \in Slot, Answered(s) PROVE NothingWaitsAlone'
  <2>1. modal' = modal /\ submitting' = submitting /\ busy' = busy
    BY <1>7 DEF Answered, builder
  <2> QED
    BY <1>7, <1>w, <2>1, AnsweredPending DEF NothingWaitsAlone, ModalWaits, BuilderWaits, RowWaits
<1>u. ASSUME modal'.loading = modal.loading, UNCHANGED <<submitting, busy, call>>
      PROVE  NothingWaitsAlone'
  BY <1>u, <1>w DEF NothingWaitsAlone, ModalWaits, BuilderWaits, RowWaits, Pending
<1>8. CASE Tick \/ Cancel
  <2>1. modal'.loading = modal.loading
    BY <1>8, <1>p DEF Tick, Cancel, Modal
  <2> QED
    BY <1>8, <1>u, <2>1 DEF Tick, Cancel, builder
<1>9. ASSUME NEW p \in Problem, GainWork(p) PROVE NothingWaitsAlone'
  BY <1>9, <1>u DEF GainWork, builder
<1>10. ASSUME NEW s \in {"problems", "new"}, Go(s) PROVE NothingWaitsAlone'
  BY <1>10, <1>u DEF Go
<1>11. ASSUME ListAnswered \/ ListArrives \/ ListFails \/ UNCHANGED vars
       PROVE  NothingWaitsAlone'
  BY <1>11, <1>u DEF ListAnswered, ListArrives, ListFails, builder, vars
<1> QED
  BY <1>1, <1>2, <1>3, <1>4, <1>5, <1>6, <1>7, <1>8, <1>9, <1>10, <1>11 DEF Next

\* What the console shows as being loaded, saved or archived has its call on its way:
\* whichever modal or form that call meets when it returns, it ends what waits for it.
THEOREM NothingWaitsAloneCorrect == Spec => []NothingWaitsAlone
<1>1. Init => NothingWaitsAlone
  BY DEF Init, Closed, NothingWaitsAlone, ModalWaits, BuilderWaits, RowWaits
<1> QED
  BY <1>1, InitTypes, TypeStep, WaitsStep, PTL DEF Spec

=============================================================================
