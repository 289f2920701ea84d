-------------------------- MODULE ReviewDeskProofs --------------------------
(* Theorems about ReviewDesk, for every set of candidates, problems and loads. *)
EXTENDS ReviewDesk, TLAPS

-----------------------------------------------------------------------------
(* Types *)

Load == [candidate : Candidate, answer : Context \cup {None}]

\* TypeOK, one named part per group of variables.
RowsType ==
  /\ there \subseteq Problem
  /\ assigned \in [Candidate -> SUBSET Problem]
  /\ review \in [Candidate -> Reviews]
DeskType ==
  /\ results \in Candidate \cup {None}
  /\ context \in Context \cup {None}
  /\ selected \in Problem \cup {None}
  /\ form \in Text \cup {None}
SavingType == saving \in Saving \cup {None}
LoadType == load \in [Slot -> Load \cup {None}]
FlagsType == loading \in BOOLEAN /\ astray \in BOOLEAN

TypedState == RowsType /\ DeskType /\ SavingType /\ LoadType /\ FlagsType

LEMMA TypeParts == TypeOK <=> TypedState
BY DEF TypeOK, TypedState, RowsType, DeskType, SavingType, LoadType, FlagsType, Load

LEMMA NoNull == None \notin Candidate /\ None \notin Problem /\ None \notin Context
BY DeskAssumption

LEMMA WrittenIsText ==
  ASSUME NEW c \in Candidate, NEW p \in Problem
  PROVE  Written(c, p) \in Text
BY DEF Written, Text

\* What a call says.
LEMMA SavingSays ==
  ASSUME NEW x \in Saving
  PROVE  /\ x.candidate \in Candidate /\ x.problem \in Problem
         /\ x.kind \in {"put", "delete"} /\ x.step \in Step
         /\ x.kind = "put" => x.text \in Text
         /\ x.kind = "delete" => x.text = None
         /\ x.text \in Text \cup {None}
BY DEF Saving

\* A call goes on to its next step.
LEMMA SavingGoesOn ==
  ASSUME NEW x \in Saving, NEW s \in Step, NEW t,
         t \in IF x.kind = "put" THEN Text ELSE {None}
  PROVE  /\ [x EXCEPT !.step = s] \in Saving
         /\ [x EXCEPT !.step = s, !.text = t] \in Saving
BY DEF Saving

LEMMA FormTyped ==
  ASSUME NEW x \in Context \cup {None}, NEW p \in Problem \cup {None}
  PROVE  FormOf(x, p) \in Text \cup {None}
BY DEF FormOf, Context, Reviews

LEMMA InitTypes == Init => TypeOK
BY TypeParts DEF Init, TypedState, RowsType, DeskType, SavingType, LoadType, FlagsType, Reviews

\* Every step preserves the types.
LEMMA TypeStep == TypeOK /\ [Next]_vars => TypeOK'
<1> SUFFICES ASSUME TypeOK, [Next]_vars PROVE TypeOK'
  OBVIOUS
<1>p. RowsType /\ DeskType /\ SavingType /\ LoadType /\ FlagsType
  BY TypeParts DEF TypedState
<1>s. saving # None => saving \in Saving
  BY <1>p DEF SavingType
<1>l. \A s \in Slot : load[s] # None => load[s] \in Load
  BY <1>p DEF LoadType
<1>w. \A s \in Step : s \in {"sent", "checked", "written", "done"}
  BY DEF Step
<1> SUFFICES TypedState'
  BY TypeParts, PTL
<1>ur. UNCHANGED rows => RowsType'
  BY <1>p DEF rows, RowsType
<1>ud. UNCHANGED desk => DeskType'
  BY <1>p DEF desk, DeskType
<1>us. UNCHANGED saving => SavingType'
  BY <1>p DEF SavingType
<1>ul. UNCHANGED load => LoadType'
  BY <1>p DEF LoadType
<1>uf. UNCHANGED <<loading, astray>> => FlagsType'
  BY <1>p DEF FlagsType
<1>n. saving' = None => SavingType'
  BY DEF SavingType
<1>e. \A s \in Slot : load' = [load EXCEPT ![s] = None] => LoadType'
  BY <1>p DEF LoadType
<1>1. CASE ReviewChecked
  <2>1. saving \in Saving /\ "checked" \in Step
    BY <1>1, <1>s DEF ReviewChecked, Step
  <2>2. saving' \in Saving
    BY <1>1, <2>1, SavingSays, SavingGoesOn DEF ReviewChecked
  <2> QED
    BY <1>1, <2>2, <1>ur, <1>ud, <1>ul, <1>uf DEF ReviewChecked, SavingType, TypedState
<1>2. CASE ReviewWritten
  <2>1. saving \in Saving /\ "written" \in Step
    BY <1>2, <1>s DEF ReviewWritten, Step
  <2>2. saving' \in Saving
    BY <1>2, <2>1, SavingSays, SavingGoesOn DEF ReviewWritten
  <2>3. /\ saving.candidate \in Candidate /\ saving.problem \in Problem
        /\ saving.text \in Text \cup {None}
    BY <2>1, SavingSays
  <2>4. review' \in [Candidate -> Reviews]
    BY <1>2, <2>3, <1>p DEF ReviewWritten, RowsType, Reviews
  <2>5. RowsType'
    BY <1>2, <2>4, <1>p DEF ReviewWritten, RowsType
  <2> QED
    BY <1>2, <2>2, <2>5, <1>ud, <1>ul, <1>uf DEF ReviewWritten, SavingType, TypedState
<1>3. CASE ReviewAnswered
  <2>1. saving \in Saving /\ "done" \in Step
    BY <1>3, <1>s DEF ReviewAnswered, Step
  <2>2. /\ saving.candidate \in Candidate /\ saving.problem \in Problem
        /\ saving.kind \in {"put", "delete"}
    BY <2>1, SavingSays
  <2>3. saving' \in Saving
    <3>1. CASE saving.kind = "put"
      <4>1. review[saving.candidate][saving.problem] \in Text
        BY <1>3, <3>1, <2>2, <1>p DEF ReviewAnswered, ReadBack, RowsType, Reviews
      <4>2. saving' = [saving EXCEPT !.step = "done",
                                     !.text = review[saving.candidate][saving.problem]]
        BY <1>3, <3>1 DEF ReviewAnswered
      <4> QED
        BY <4>1, <4>2, <3>1, <2>1, SavingGoesOn
    <3>2. CASE saving.kind = "delete"
      <4>1. saving' = [saving EXCEPT !.step = "done"]
        BY <1>3, <3>2 DEF ReviewAnswered
      <4> QED
        BY <4>1, <3>2, <2>1, SavingGoesOn
    <3> QED
      BY <2>2, <3>1, <3>2
  <2> QED
    BY <1>3, <2>3, <1>ur, <1>ud, <1>ul, <1>uf DEF ReviewAnswered, SavingType, TypedState
<1>4. ASSUME NEW c \in Candidate, NEW p \in Problem, WriteElsewhere(c, p) PROVE TypedState'
  <2>1. PICK t \in {Written(c, p), None} : review' = [review EXCEPT ![c][p] = t]
    BY <1>4 DEF WriteElsewhere
  <2>2. t \in Text \cup {None}
    BY WrittenIsText
  <2>3. review' \in [Candidate -> Reviews]
    BY <2>1, <2>2, <1>p DEF RowsType, Reviews
  <2>4. RowsType'
    BY <1>4, <2>3, <1>p DEF WriteElsewhere, RowsType
  <2> QED
    BY <1>4, <2>4, <1>ud, <1>us, <1>ul, <1>uf DEF WriteElsewhere, TypedState
<1>5. ASSUME NEW p \in Problem, DeleteProblem(p) PROVE TypedState'
  <2>1. review' \in [Candidate -> Reviews]
    BY <1>5, <1>p DEF DeleteProblem, RowsType, Reviews
  <2>2. RowsType'
    BY <1>5, <2>1, <1>p DEF DeleteProblem, RowsType
  <2> QED
    BY <1>5, <2>2, <1>ud, <1>us, <1>ul, <1>uf DEF DeleteProblem, TypedState
<1>6. ASSUME NEW s \in Slot, LoadAnswered(s) PROVE TypedState'
  <2>1. load[s] \in Load
    BY <1>6, <1>l DEF LoadAnswered
  <2>2. ReviewContext(load[s].candidate) \in Context
    BY <2>1, <1>p DEF ReviewContext, Context, RowsType, Load
  <2>3. [load[s] EXCEPT !.answer = ReviewContext(load[s].candidate)] \in Load
    BY <2>1, <2>2 DEF Load
  <2>4. load' = [load EXCEPT ![s] = [load[s] EXCEPT !.answer = ReviewContext(load[s].candidate)]]
    BY <1>6, <1>p DEF LoadAnswered, LoadType
  <2>5. LoadType'
    BY <2>3, <2>4, <1>p DEF LoadType
  <2> QED
    BY <1>6, <2>5, <1>ur, <1>ud, <1>us, <1>uf DEF LoadAnswered, TypedState
<1>7. ASSUME NEW c \in Candidate, LoadResultsFor(c) PROVE TypedState'
  <2>1. [candidate |-> c, answer |-> None] \in Load
    BY DEF Load
  <2>2. LoadType'
    BY <1>7, <2>1, <1>p DEF LoadResultsFor, LoadType
  <2>3. DeskType'
    BY <1>7 DEF LoadResultsFor, DeskType
  <2>4. FlagsType'
    BY <1>7, <1>p DEF LoadResultsFor, FlagsType
  <2> QED
    BY <1>7, <2>2, <2>3, <2>4, <1>ur, <1>us DEF LoadResultsFor, TypedState
<1>8. ASSUME NEW s \in Slot, LoadArrives(s) PROVE TypedState'
  <2>1. load[s] \in Load
    BY <1>8, <1>l DEF LoadArrives
  <2>2. results' \in Candidate /\ context' \in Context
    BY <1>8, <2>1 DEF LoadArrives, Load
  <2>3. selected' \in Problem \cup {None}
    BY <1>8, <2>2 DEF LoadArrives, FirstProblem, Context
  <2>4. form' \in Text \cup {None}
    BY <1>8, <2>2, <2>3, FormTyped DEF LoadArrives
  <2>5. DeskType'
    BY <2>2, <2>3, <2>4 DEF DeskType
  <2>6. FlagsType'
    BY <1>8, <1>p DEF LoadArrives, FlagsType
  <2> QED
    BY <1>8, <2>5, <2>6, <1>e, <1>ur, <1>us DEF LoadArrives, TypedState
<1>9. ASSUME NEW s \in Slot, LoadFails(s) PROVE TypedState'
  <2>1. FlagsType'
    BY <1>9, <1>p DEF LoadFails, FlagsType
  <2> QED
    BY <1>9, <2>1, <1>e, <1>ur, <1>ud, <1>us DEF LoadFails, TypedState
<1>10. ASSUME NEW p \in Problem, SelectProblem(p) PROVE TypedState'
  <2>1. form' \in Text \cup {None}
    BY <1>10, <1>p, FormTyped DEF SelectProblem, DeskType
  <2>2. DeskType'
    BY <1>10, <2>1, <1>p DEF SelectProblem, DeskType
  <2> QED
    BY <1>10, <2>2, <1>ur, <1>us, <1>ul, <1>uf DEF SelectProblem, TypedState
<1>11. CASE Edit
  <2>1. DeskType'
    BY <1>11, <1>p, WrittenIsText DEF Edit, EditorShown, DeskType
  <2> QED
    BY <1>11, <2>1, <1>ur, <1>us, <1>ul, <1>uf DEF Edit, TypedState
<1>12. CASE HandleSaveReview
  <2>1. results \in Candidate /\ selected \in Problem
    BY <1>12, <1>p DEF HandleSaveReview, EditorShown, DeskType
  <2>2. (IF form = None THEN Written(results, selected) ELSE form) \in Text
    BY <2>1, <1>p, WrittenIsText DEF DeskType
  <2>3. saving' \in Saving
    BY <1>12, <2>1, <2>2 DEF HandleSaveReview, Saving, Step
  <2> QED
    BY <1>12, <2>3, <1>ur, <1>ud, <1>ul, <1>uf DEF HandleSaveReview, SavingType, TypedState
<1>13. CASE HandleDeleteReview
  <2>1. results \in Candidate /\ selected \in Problem
    BY <1>13, <1>p DEF HandleDeleteReview, EditorShown, FormOf, DeskType
  <2>2. saving' \in Saving
    BY <1>13, <2>1 DEF HandleDeleteReview, Saving, Step
  <2> QED
    BY <1>13, <2>2, <1>ur, <1>ud, <1>ul, <1>uf DEF HandleDeleteReview, SavingType, TypedState
<1>14. CASE SavingReturns
  <2>1. /\ saving.problem \in Problem /\ saving.text \in Text \cup {None}
    BY <1>14, <1>s, SavingSays DEF SavingReturns
  <2>2. context' \in Context \cup {None} /\ form' \in Text \cup {None}
    <3>1. CASE context = None
      BY <1>14, <3>1, <1>p DEF SavingReturns, DeskType
    <3>2. CASE context # None
      <4>1. context \in Context
        BY <3>2, <1>p DEF DeskType
      <4>2. /\ context' = [context EXCEPT !.reviews[saving.problem] = saving.text]
            /\ form' = FormOf(context', selected)
        BY <1>14, <3>2 DEF SavingReturns
      <4>3. [context.reviews EXCEPT ![saving.problem] = saving.text] \in Reviews
        BY <4>1, <2>1 DEF Context, Reviews
      <4>4. context' \in Context
        BY <4>1, <4>2, <4>3 DEF Context
      <4> QED
        BY <4>2, <4>4, <1>p, FormTyped DEF DeskType
    <3> QED
      BY <3>1, <3>2
  <2>3. DeskType'
    BY <1>14, <2>2, <1>p DEF SavingReturns, DeskType
  <2>4. FlagsType'
    BY <1>14, <1>p DEF SavingReturns, FlagsType
  <2> QED
    BY <1>14, <2>3, <2>4, <1>n, <1>ur, <1>ul DEF SavingReturns, TypedState
<1>15. CASE SavingFails
  BY <1>15, <1>n, <1>ur, <1>ud, <1>ul, <1>uf DEF SavingFails, TypedState
<1>16. CASE UNCHANGED vars
  BY <1>16, <1>ur, <1>ud, <1>us, <1>ul, <1>uf DEF vars, rows, desk, TypedState
<1> QED
  BY <1>1, <1>2, <1>3, <1>4, <1>5, <1>6, <1>7, <1>8, <1>9, <1>10, <1>11, <1>12, <1>13, <1>14,
     <1>15, <1>16 DEF Next

\* The variables have their types in every reachable state.
THEOREM TypeCorrect == Spec => []TypeOK
BY InitTypes, TypeStep, PTL DEF Spec

-----------------------------------------------------------------------------
(* What the page shows together *)

\* Answers are of the candidate they were asked for.
AnswerOfCandidate ==
  \A s \in Slot : load[s] # None /\ load[s].answer # None
                    => load[s].answer.candidate = load[s].candidate

PageInv == ResultsTogether /\ AnswerOfCandidate

LEMMA InitPage == Init => PageInv
BY DEF Init, PageInv, ResultsTogether, AnswerOfCandidate

LEMMA PageStep == TypeOK /\ PageInv /\ [Next]_vars => PageInv'
<1> SUFFICES ASSUME TypeOK, PageInv, [Next]_vars PROVE PageInv'
  OBVIOUS
<1>p. DeskType /\ LoadType /\ SavingType
  BY TypeParts DEF TypedState
<1>i. ResultsTogether /\ AnswerOfCandidate
  BY DEF PageInv
<1>l. \A s \in Slot : load[s] # None => load[s] \in Load
  BY <1>p DEF LoadType
<1>u. UNCHANGED <<results, context>> => ResultsTogether'
  BY <1>i DEF ResultsTogether
<1>a. UNCHANGED load => AnswerOfCandidate'
  BY <1>i DEF AnswerOfCandidate
<1>e. \A s \in Slot : load' = [load EXCEPT ![s] = None] => AnswerOfCandidate'
  BY <1>i, <1>p DEF AnswerOfCandidate, LoadType
<1>1. ASSUME NEW s \in Slot, LoadAnswered(s) PROVE PageInv'
  <2>1. load[s] \in Load
    BY <1>1, <1>l DEF LoadAnswered
  <2>2. load' = [load EXCEPT ![s] = [load[s] EXCEPT !.answer = ReviewContext(load[s].candidate)]]
    BY <1>1, <1>p DEF LoadAnswered, LoadType
  <2>3. AnswerOfCandidate'
    BY <2>1, <2>2, <1>i, <1>p DEF AnswerOfCandidate, ReviewContext, LoadType, Load
  <2> QED
    BY <1>1, <2>3, <1>u DEF LoadAnswered, desk, PageInv
<1>2. ASSUME NEW c \in Candidate, LoadResultsFor(c) PROVE PageInv'
  <2>1. PICK s \in Slot : load' = [load EXCEPT ![s] = [candidate |-> c, answer |-> None]]
    BY <1>2 DEF LoadResultsFor
  <2>2. AnswerOfCandidate'
    BY <2>1, <1>i, <1>p DEF AnswerOfCandidate, LoadType
  <2>3. ResultsTogether'
    BY <1>2 DEF LoadResultsFor, ResultsTogether
  <2> QED
    BY <2>2, <2>3 DEF PageInv
<1>3. ASSUME NEW s \in Slot, LoadArrives(s) PROVE PageInv'
  <2>1. results' \in Candidate /\ context' \in Context /\ context'.candidate = results'
    BY <1>3, <1>l, <1>i DEF LoadArrives, Load, AnswerOfCandidate
  <2>2. ResultsTogether'
    BY <2>1, NoNull DEF ResultsTogether
  <2> QED
    BY <1>3, <2>2, <1>e DEF LoadArrives, PageInv
<1>4. CASE SavingReturns
  <2>1. CASE context = None
    BY <1>4, <2>1, <1>u, <1>a DEF SavingReturns, PageInv
  <2>2. CASE context # None
    <3>1. context \in Context
      BY <2>2, <1>p DEF DeskType
    <3>2. context' = [context EXCEPT !.reviews[saving.problem] = saving.text]
      BY <1>4, <2>2 DEF SavingReturns
    <3>3. saving.problem \in Problem /\ saving.text \in Text \cup {None}
      BY <1>4, <1>p, SavingSays DEF SavingReturns, SavingType
    <3>4. context' \in Context /\ context'.candidate = context.candidate
      BY <3>1, <3>2, <3>3 DEF Context, Reviews
    <3>5. ResultsTogether'
      BY <1>4, <3>1, <3>4, <2>2, <1>i, NoNull DEF SavingReturns, ResultsTogether
    <3> QED
      BY <1>4, <3>5, <1>a DEF SavingReturns, PageInv
  <2> QED
    BY <2>1, <2>2
<1>5. ASSUME NEW s \in Slot, LoadFails(s) PROVE PageInv'
  BY <1>5, <1>u, <1>e DEF LoadFails, desk, PageInv
<1>6. ASSUME ReviewChecked \/ ReviewWritten \/ ReviewAnswered \/ HandleSaveReview
             \/ HandleDeleteReview \/ SavingFails \/ Edit \/ UNCHANGED vars
      PROVE  PageInv'
  BY <1>6, <1>u, <1>a DEF ReviewChecked, ReviewWritten, ReviewAnswered, HandleSaveReview,
     HandleDeleteReview, SavingFails, Edit, vars, desk, PageInv
<1>7. ASSUME NEW p \in Problem, DeleteProblem(p) \/ SelectProblem(p) PROVE PageInv'
  BY <1>7, <1>u, <1>a DEF DeleteProblem, SelectProblem, desk, PageInv
<1>8. ASSUME NEW c \in Candidate, NEW p \in Problem, WriteElsewhere(c, p) PROVE PageInv'
  BY <1>8, <1>u, <1>a DEF WriteElsewhere, desk, PageInv
<1> QED
  BY <1>1, <1>2, <1>3, <1>4, <1>5, <1>6, <1>7, <1>8 DEF Next

\* The submissions and the reviews on the page are of one candidate.
THEOREM ResultsTogetherCorrect == Spec => []ResultsTogether
<1>1. Init => TypeOK /\ PageInv
  BY InitTypes, InitPage
<1>2. TypeOK /\ PageInv /\ [Next]_vars => (TypeOK /\ PageInv)'
  BY TypeStep, PageStep
<1>3. PageInv => ResultsTogether
  BY DEF PageInv
<1> QED
  BY <1>1, <1>2, <1>3, PTL DEF Spec

-----------------------------------------------------------------------------
(* Reviews of assigned problems *)

\* What a save has checked still holds when the problem is there: an assignment
\* only goes with its problem.
CheckedAssigned ==
  saving # None /\ saving.kind = "put" /\ saving.step = "checked" /\ saving.problem \in there
    => saving.problem \in assigned[saving.candidate]

LEMMA AssignedStep ==
  TypeOK /\ ReviewsAssigned /\ CheckedAssigned /\ [Next]_vars
    => (ReviewsAssigned /\ CheckedAssigned)'
<1> SUFFICES ASSUME TypeOK, ReviewsAssigned, CheckedAssigned, [Next]_vars
             PROVE  ReviewsAssigned' /\ CheckedAssigned'
  OBVIOUS
<1>p. RowsType /\ SavingType
  BY TypeParts DEF TypedState
<1>s. saving # None => saving \in Saving
  BY <1>p DEF SavingType
<1>u. UNCHANGED <<assigned, review>> => ReviewsAssigned'
  BY DEF ReviewsAssigned
<1>c. UNCHANGED <<there, assigned, saving>> => CheckedAssigned'
  BY DEF CheckedAssigned
<1>n. saving' = None => CheckedAssigned'
  BY DEF CheckedAssigned
<1>1. CASE ReviewChecked
  <2>1. /\ saving \in Saving /\ "checked" \in Step
        /\ saving' = [saving EXCEPT !.step = "checked"]
    BY <1>1, <1>s DEF ReviewChecked, Step
  <2>2. /\ saving'.kind = saving.kind /\ saving'.problem = saving.problem
        /\ saving'.candidate = saving.candidate
    BY <2>1 DEF Saving
  <2>3. CheckedAssigned'
    BY <1>1, <2>2 DEF ReviewChecked, CheckedAssigned, Assigned, rows
  <2> QED
    BY <1>1, <2>3, <1>u DEF ReviewChecked, rows
<1>2. CASE ReviewWritten
  <2>1. saving \in Saving /\ saving' = [saving EXCEPT !.step = "written"]
    BY <1>2, <1>s DEF ReviewWritten
  <2>2. saving'.step = "written"
    BY <2>1 DEF Saving
  <2>3. CheckedAssigned'
    BY <2>2 DEF CheckedAssigned
  <2>4. saving.text # None => saving.problem \in assigned[saving.candidate]
    <3>1. ASSUME saving.text # None PROVE saving.kind = "put"
      BY <2>1, <3>1, SavingSays
    <3> QED
      BY <1>2, <3>1 DEF ReviewWritten, MayInsert, CheckedAssigned
  <2>5. ReviewsAssigned'
    BY <1>2, <2>1, <2>4, <1>p DEF ReviewWritten, ReviewsAssigned, RowsType, Reviews
  <2> QED
    BY <2>3, <2>5
<1>3. CASE ReviewAnswered
  <2>1. saving \in Saving
    BY <1>3, <1>s DEF ReviewAnswered
  <2>2. saving'.step = "done"
    BY <1>3, <2>1 DEF ReviewAnswered, Saving
  <2>3. CheckedAssigned'
    BY <2>2 DEF CheckedAssigned
  <2> QED
    BY <1>3, <2>3, <1>u DEF ReviewAnswered, rows
<1>4. ASSUME NEW c \in Candidate, NEW p \in Problem, WriteElsewhere(c, p)
      PROVE  ReviewsAssigned' /\ CheckedAssigned'
  <2>1. ReviewsAssigned'
    BY <1>4, <1>p DEF WriteElsewhere, Assigned, ReviewsAssigned, RowsType, Reviews
  <2> QED
    BY <1>4, <2>1, <1>c DEF WriteElsewhere
<1>5. ASSUME NEW p \in Problem, DeleteProblem(p) PROVE ReviewsAssigned' /\ CheckedAssigned'
  <2>1. ReviewsAssigned'
    BY <1>5, <1>p DEF DeleteProblem, ReviewsAssigned, RowsType, Reviews
  <2>2. CheckedAssigned'
    BY <1>5, <1>p, <1>s, SavingSays DEF DeleteProblem, CheckedAssigned
  <2> QED
    BY <2>1, <2>2
<1>6. ASSUME HandleSaveReview \/ HandleDeleteReview PROVE ReviewsAssigned' /\ CheckedAssigned'
  <2>1. saving'.step = "sent"
    BY <1>6 DEF HandleSaveReview, HandleDeleteReview
  <2>2. CheckedAssigned'
    BY <2>1 DEF CheckedAssigned
  <2> QED
    BY <1>6, <2>2, <1>u DEF HandleSaveReview, HandleDeleteReview, rows
<1>7. ASSUME SavingReturns \/ SavingFails PROVE ReviewsAssigned' /\ CheckedAssigned'
  BY <1>7, <1>u, <1>n DEF SavingReturns, SavingFails, rows
<1>8. ASSUME Edit \/ UNCHANGED vars PROVE ReviewsAssigned' /\ CheckedAssigned'
  BY <1>8, <1>u, <1>c DEF Edit, vars, rows
<1>9. ASSUME NEW s \in Slot, LoadAnswered(s) \/ LoadArrives(s) \/ LoadFails(s)
      PROVE  ReviewsAssigned' /\ CheckedAssigned'
  BY <1>9, <1>u, <1>c DEF LoadAnswered, LoadArrives, LoadFails, rows
<1>10. ASSUME NEW c \in Candidate, LoadResultsFor(c) PROVE ReviewsAssigned' /\ CheckedAssigned'
  BY <1>10, <1>u, <1>c DEF LoadResultsFor, rows
<1>11. ASSUME NEW p \in Problem, SelectProblem(p) PROVE ReviewsAssigned' /\ CheckedAssigned'
  BY <1>11, <1>u, <1>c DEF SelectProblem, rows
<1> QED
  BY <1>1, <1>2, <1>3, <1>4, <1>5, <1>6, <1>7, <1>8, <1>9, <1>10, <1>11 DEF Next

\* A review is about an assigned problem.
THEOREM ReviewsAssignedCorrect == Spec => []ReviewsAssigned
<1>1. Init => TypeOK /\ ReviewsAssigned /\ CheckedAssigned
  BY InitTypes DEF Init, ReviewsAssigned, CheckedAssigned
<1>2. TypeOK /\ ReviewsAssigned /\ CheckedAssigned /\ [Next]_vars
        => (TypeOK /\ ReviewsAssigned /\ CheckedAssigned)'
  BY TypeStep, AssignedStep
<1> QED
  BY <1>1, <1>2, PTL DEF Spec

-----------------------------------------------------------------------------
(* Reviews where they were written for *)

OwnReviews(c, r) == \A p \in Problem : r[p] \in {None, Written(c, p)}

\* Reviews are in their own place in the rows, on the page and in the answers on their way.
RowsOwn == \A c \in Candidate : OwnReviews(c, review[c])
ContextOwn == context # None => OwnReviews(context.candidate, context.reviews)
AnswersOwn ==
  \A s \in Slot : load[s] # None /\ load[s].answer # None
                    => OwnReviews(load[s].answer.candidate, load[s].answer.reviews)
FormOwn ==
  form # None => results # None /\ selected # None /\ form = Written(results, selected)
SavingOwn ==
  saving # None => saving.text \in {None, Written(saving.candidate, saving.problem)}

NotesInv == ~astray => RowsOwn /\ ContextOwn /\ AnswersOwn /\ FormOwn /\ SavingOwn

LEMMA FormOfOwn ==
  ASSUME NEW x, x # None, OwnReviews(x.candidate, x.reviews),
         NEW p \in Problem \cup {None}, FormOf(x, p) # None
  PROVE  p # None /\ FormOf(x, p) = Written(x.candidate, p)
BY DEF FormOf, OwnReviews

LEMMA InitNotes == Init => NotesInv
BY DEF Init, NotesInv, RowsOwn, OwnReviews, ContextOwn, AnswersOwn, FormOwn, SavingOwn

LEMMA NotesStep == TypeOK /\ PageInv /\ NotesInv /\ [Next]_vars => NotesInv'
<1> SUFFICES ASSUME TypeOK, PageInv, NotesInv, [Next]_vars, ~astray'
             PROVE  (RowsOwn /\ ContextOwn /\ AnswersOwn /\ FormOwn /\ SavingOwn)'
  BY DEF NotesInv
<1> DEFINE Own == RowsOwn /\ ContextOwn /\ AnswersOwn /\ FormOwn /\ SavingOwn
<1> SUFFICES Own'
  OBVIOUS
<1>p. RowsType /\ DeskType /\ SavingType /\ LoadType /\ FlagsType
  BY TypeParts DEF TypedState
<1>g. ResultsTogether
  BY DEF PageInv
<1>z. ~astray
  <2>1. CASE SavingReturns
    BY <2>1 DEF SavingReturns
  <2>2. CASE ~SavingReturns
    BY <2>2 DEF Next, ReviewChecked, ReviewWritten, ReviewAnswered, WriteElsewhere, DeleteProblem,
       LoadAnswered, LoadResultsFor, LoadArrives, LoadFails, SelectProblem, Edit,
       HandleSaveReview, HandleDeleteReview, SavingFails, vars
  <2> QED
    BY <2>1, <2>2
<1>i. RowsOwn /\ ContextOwn /\ AnswersOwn /\ FormOwn /\ SavingOwn
  BY <1>z DEF NotesInv
<1>s. saving # None => saving \in Saving
  BY <1>p DEF SavingType
<1>l. \A s \in Slot : load[s] # None => load[s] \in Load
  BY <1>p DEF LoadType
<1>ur. UNCHANGED review => RowsOwn'
  BY <1>i DEF RowsOwn, OwnReviews
<1>uc. UNCHANGED context => ContextOwn'
  BY <1>i DEF ContextOwn, OwnReviews
<1>ua. UNCHANGED load => AnswersOwn'
  BY <1>i DEF AnswersOwn, OwnReviews
<1>uf. UNCHANGED <<results, selected, form>> => FormOwn'
  BY <1>i DEF FormOwn
<1>us. UNCHANGED saving => SavingOwn'
  BY <1>i DEF SavingOwn
<1>n. saving' = None => SavingOwn'
  BY DEF SavingOwn
<1>e. \A s \in Slot : load' = [load EXCEPT ![s] = None] => AnswersOwn'
  BY <1>i, <1>p DEF AnswersOwn, LoadType, OwnReviews
<1>1. CASE ReviewChecked
  <2>1. saving \in Saving /\ saving' = [saving EXCEPT !.step = "checked"]
    BY <1>1, <1>s DEF ReviewChecked
  <2>2. /\ saving'.text = saving.text /\ saving'.candidate = saving.candidate
        /\ saving'.problem = saving.problem /\ saving # None
    BY <1>1, <2>1 DEF ReviewChecked, Saving
  <2>3. SavingOwn'
    BY <2>2, <1>i DEF SavingOwn
  <2> QED
    BY <1>1, <2>3, <1>ur, <1>uc, <1>ua, <1>uf DEF ReviewChecked, rows, desk
<1>2. CASE ReviewWritten
  <2>1. saving \in Saving /\ saving' = [saving EXCEPT !.step = "written"]
    BY <1>2, <1>s DEF ReviewWritten
  <2>2. SavingOwn'
    BY <1>2, <2>1, <1>i DEF SavingOwn, Saving, ReviewWritten
  <2>3. saving.text \in {None, Written(saving.candidate, saving.problem)}
    BY <1>2, <1>i DEF SavingOwn, ReviewWritten
  <2>4. RowsOwn'
    BY <1>2, <2>3, <1>i, <1>p DEF ReviewWritten, RowsOwn, OwnReviews, RowsType, Reviews
  <2> QED
    BY <1>2, <2>2, <2>4, <1>uc, <1>ua, <1>uf DEF ReviewWritten, desk
<1>3. CASE ReviewAnswered
  <2>1. saving \in Saving
    BY <1>3, <1>s DEF ReviewAnswered
  <2>2. saving.candidate \in Candidate /\ saving.problem \in Problem
    BY <2>1, SavingSays
  <2>3. review[saving.candidate][saving.problem]
          \in {None, Written(saving.candidate, saving.problem)}
    BY <2>2, <1>i DEF RowsOwn, OwnReviews
  <2>4. SavingOwn'
    BY <1>3, <2>1, <2>3, <1>i DEF ReviewAnswered, SavingOwn, Saving
  <2> QED
    BY <1>3, <2>4, <1>ur, <1>uc, <1>ua, <1>uf DEF ReviewAnswered, rows, desk
<1>4. ASSUME NEW c \in Candidate, NEW p \in Problem, WriteElsewhere(c, p) PROVE Own'
  <2>1. RowsOwn'
    BY <1>4, <1>i, <1>p DEF WriteElsewhere, RowsOwn, OwnReviews, RowsType, Reviews
  <2> QED
    BY <1>4, <2>1, <1>uc, <1>ua, <1>uf, <1>us DEF WriteElsewhere, desk
<1>5. ASSUME NEW p \in Problem, DeleteProblem(p) PROVE Own'
  <2>1. RowsOwn'
    BY <1>5, <1>i, <1>p DEF DeleteProblem, RowsOwn, OwnReviews, RowsType, Reviews
  <2> QED
    BY <1>5, <2>1, <1>uc, <1>ua, <1>uf, <1>us DEF DeleteProblem, desk
<1>6. ASSUME NEW s \in Slot, LoadAnswered(s) PROVE Own'
  <2>1. load[s] \in Load
    BY <1>6, <1>l DEF LoadAnswered
  <2>2. OwnReviews(load[s].candidate, review[load[s].candidate])
    BY <2>1, <1>i DEF RowsOwn, Load
  <2>3. load' = [load EXCEPT ![s] = [load[s] EXCEPT !.answer = ReviewContext(load[s].candidate)]]
    BY <1>6, <1>p DEF LoadAnswered, LoadType
  <2>4. load'[s].answer = ReviewContext(load[s].candidate)
    BY <2>1, <2>3, <1>p DEF LoadType, Load
  <2>5. OwnReviews(load'[s].answer.candidate, load'[s].answer.reviews)
    BY <2>2, <2>4 DEF ReviewContext
  <2>6. \A t \in Slot \ {s} : load'[t] = load[t]
    BY <2>3, <1>p DEF LoadType
  <2>7. AnswersOwn'
    BY <2>5, <2>6, <1>i DEF AnswersOwn, OwnReviews
  <2> QED
    BY <1>6, <2>7, <1>ur, <1>uc, <1>uf, <1>us DEF LoadAnswered, rows, desk
<1>7. ASSUME NEW c \in Candidate, LoadResultsFor(c) PROVE Own'
  <2>1. PICK s \in Slot : load' = [load EXCEPT ![s] = [candidate |-> c, answer |-> None]]
    BY <1>7 DEF LoadResultsFor
  <2>2. AnswersOwn'
    BY <2>1, <1>i, <1>p DEF AnswersOwn, OwnReviews, LoadType
  <2>3. ContextOwn' /\ FormOwn'
    BY <1>7 DEF LoadResultsFor, ContextOwn, FormOwn
  <2> QED
    BY <1>7, <2>2, <2>3, <1>ur, <1>us DEF LoadResultsFor, rows
<1>8. ASSUME NEW s \in Slot, LoadArrives(s) PROVE Own'
  <2>1. /\ results' \in Candidate /\ context' \in Context /\ context'.candidate = results'
        /\ OwnReviews(context'.candidate, context'.reviews)
    BY <1>8, <1>l, <1>i DEF LoadArrives, Load, PageInv, AnswerOfCandidate, AnswersOwn
  <2>2. selected' \in Problem \cup {None}
    BY <1>8, <2>1 DEF LoadArrives, FirstProblem, Context
  <2>3. form' = FormOf(context', selected')
    BY <1>8 DEF LoadArrives
  <2>4. ContextOwn' /\ context' # None /\ results' # None
    BY <2>1, NoNull DEF ContextOwn, OwnReviews
  <2>5. FormOwn'
    BY <2>1, <2>2, <2>3, <2>4, FormOfOwn DEF FormOwn
  <2> QED
    BY <1>8, <2>4, <2>5, <1>ur, <1>us, <1>e DEF LoadArrives, rows
<1>9. ASSUME NEW s \in Slot, LoadFails(s) PROVE Own'
  BY <1>9, <1>ur, <1>uc, <1>uf, <1>us, <1>e DEF LoadFails, rows, desk
<1>10. ASSUME NEW p \in Problem, SelectProblem(p) PROVE Own'
  <2>1. /\ context # None /\ context.candidate = results /\ results # None
        /\ OwnReviews(context.candidate, context.reviews)
    BY <1>10, <1>g, <1>i DEF SelectProblem, ResultsTogether, ContextOwn
  <2>2. results' = results /\ selected' = p /\ form' = FormOf(context, p) /\ p # None
    BY <1>10, NoNull DEF SelectProblem
  <2>3. FormOwn'
    BY <2>1, <2>2, FormOfOwn DEF FormOwn
  <2> QED
    BY <1>10, <2>3, <1>ur, <1>uc, <1>us, <1>ua DEF SelectProblem, rows
<1>11. CASE Edit
  <2>1. FormOwn'
    BY <1>11 DEF Edit, EditorShown, FormOwn
  <2> QED
    BY <1>11, <2>1, <1>ur, <1>uc, <1>us, <1>ua DEF Edit, rows
<1>12. ASSUME HandleSaveReview \/ HandleDeleteReview PROVE Own'
  <2>1. SavingOwn'
    BY <1>12, <1>i DEF HandleSaveReview, HandleDeleteReview, FormOwn, SavingOwn
  <2> QED
    BY <1>12, <2>1, <1>ur, <1>uc, <1>ua, <1>uf DEF HandleSaveReview, HandleDeleteReview, rows, desk
<1>13. CASE SavingReturns
  <2>1. /\ saving \in Saving /\ saving.problem \in Problem /\ saving.candidate \in Candidate
    BY <1>13, <1>s, SavingSays DEF SavingReturns
  <2>2. ContextOwn' /\ FormOwn'
    <3>1. CASE context = None
      BY <1>13, <3>1, <1>i, <1>g DEF SavingReturns, ContextOwn, FormOwn, ResultsTogether
    <3>2. CASE context # None
      <4>1. context \in Context /\ context.candidate = saving.candidate
        BY <1>13, <3>2, <1>p DEF SavingReturns, DeskType
      <4>2. /\ context' = [context EXCEPT !.reviews[saving.problem] = saving.text]
            /\ form' = FormOf(context', selected) /\ selected' = selected /\ results' = results
        BY <1>13, <3>2 DEF SavingReturns
      <4>3. saving.text \in {None, Written(saving.candidate, saving.problem)}
        BY <1>13, <1>i DEF SavingReturns, SavingOwn
      <4>4. saving.text \in Text \cup {None}
        BY <2>1, SavingSays
      <4>5. /\ context' \in Context /\ context'.candidate = context.candidate
            /\ context'.reviews = [context.reviews EXCEPT ![saving.problem] = saving.text]
        BY <4>1, <4>2, <4>4, <2>1 DEF Context, Reviews
      <4>6. OwnReviews(context'.candidate, context'.reviews)
        BY <4>1, <4>3, <4>5, <3>2, <2>1, <1>i DEF ContextOwn, OwnReviews, Context, Reviews
      <4>7. context' # None /\ context'.candidate = results /\ results # None
        BY <4>5, <3>2, <1>g, NoNull DEF ResultsTogether
      <4>8. FormOwn'
        BY <4>2, <4>6, <4>7, <1>p, FormOfOwn DEF FormOwn, DeskType
      <4> QED
        BY <4>6, <4>8 DEF ContextOwn, OwnReviews
    <3> QED
      BY <3>1, <3>2
  <2> QED
    BY <1>13, <2>2, <1>ur, <1>ua, <1>n DEF SavingReturns, rows
<1>14. CASE SavingFails
  BY <1>14, <1>ur, <1>uc, <1>ua, <1>uf, <1>n DEF SavingFails, rows, desk
<1>15. CASE UNCHANGED vars
  BY <1>15, <1>ur, <1>uc, <1>ua, <1>uf, <1>us DEF vars, rows, desk
<1> QED
  BY <1>1, <1>2, <1>3, <1>4, <1>5, <1>6, <1>7, <1>8, <1>9, <1>10, <1>11, <1>12, <1>13, <1>14,
     <1>15 DEF Next

\* The reviews in the database were written for their candidate and problem, as long as
\* no answer to a save met the reviews of another candidate.
THEOREM NotesWhereWrittenCorrect == Spec => []NotesWhereWritten
<1>1. Init => TypeOK /\ PageInv /\ NotesInv
  BY InitTypes, InitPage, InitNotes
<1>2. TypeOK /\ PageInv /\ NotesInv /\ [Next]_vars => (TypeOK /\ PageInv /\ NotesInv)'
  BY TypeStep, PageStep, NotesStep
<1>3. NotesInv => NotesWhereWritten
  BY DEF NotesInv, NotesWhereWritten, RowsOwn, OwnReviews
<1> QED
  BY <1>1, <1>2, <1>3, PTL DEF Spec

=============================================================================
