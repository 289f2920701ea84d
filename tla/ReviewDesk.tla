----------------------------- MODULE ReviewDesk -----------------------------
(***************************************************************************)
(* The results page of one interviewer, mounted once, over the reviews of  *)
(* the API: the candidate is chosen, the results and the private reviews   *)
(* are loaded together, a review is edited, saved and deleted.             *)
(*                                                                         *)
(* A review is abstracted to whose and for which problem it was written.   *)
(* Nothing cancels the handlers that wait for an answer: answers arrive in *)
(* any order, or the calls fail, with or without effect on the rows.       *)
(*                                                                         *)
(* A definition named ...Mutant is what a plausible bug would make of the  *)
(* definition after it.                                                    *)
(***************************************************************************)
EXTENDS Naturals, FiniteSets

CONSTANTS
  Candidate,
  Problem,
  Slot,      \* loads that may be on their way at the same time
  MaxAssigned,   \* bound on the assignments there are
  None       \* null; for a form, emptyReviewForm

VARIABLES
  there,      \* problems with a row
  assigned,   \* problems assigned to each candidate
  review,     \* interview_reviews of this interviewer
  results,    \* the candidate whose submissions are shown
  context,    \* reviewContext: assignments and reviews of a candidate
  selected,   \* selectedProblemId
  form,       \* reviewForm
  saving,     \* reviewSaving, with the call it stands for
  loading,
  load,       \* loads that wait for their two answers
  astray      \* a review was shown among those of another candidate

rows == <<there, assigned, review>>
desk == <<results, context, selected, form>>
vars == <<rows, desk, saving, loading, load, astray>>

Text == [candidate : Candidate, problem : Problem]
Written(c, p) == [candidate |-> c, problem |-> p]
Reviews == [Problem -> Text \cup {None}]
Context == [candidate : Candidate, assignments : SUBSET Problem, reviews : Reviews]
\* The steps of a PUT or DELETE after the target was found.
Step == {"sent", "checked", "written", "done"}
Saving ==
  [kind : {"put"}, candidate : Candidate, problem : Problem, text : Text, step : Step]
    \cup
  [kind : {"delete"}, candidate : Candidate, problem : Problem, text : {None}, step : Step]

\* Null is no value.
ASSUME DeskAssumption == MaxAssigned \in Nat /\ None \notin Candidate \cup Problem \cup Context

-----------------------------------------------------------------------------
(* The API *)

Assigned(c, p) == p \in there /\ p \in assigned[c]

\* assertReviewTargetExists and hasAssignment
ReviewChecked ==
  /\ saving # None /\ saving.step = "sent"
  /\ saving.problem \in there
  /\ saving.kind = "put" => Assigned(saving.candidate, saving.problem)
  /\ saving' = [saving EXCEPT !.step = "checked"]
  /\ UNCHANGED <<rows, desk, loading, load, astray>>

\* A review refers to its problem.
MayInsertMutant(c, p) == TRUE
MayInsert(c, p) == p \in there

ReviewWritten ==
  /\ saving # None /\ saving.step = "checked"
  /\ IF saving.kind = "put"
     THEN MayInsert(saving.candidate, saving.problem)
     ELSE review[saving.candidate][saving.problem] # None
  /\ review' = [review EXCEPT ![saving.candidate][saving.problem] = saving.text]
  /\ saving' = [saving EXCEPT !.step = "written"]
  /\ UNCHANGED <<there, assigned, desk, loading, load, astray>>

\* getInterviewReviewById: what is in the row by now is answered, if it is still there.
ReadBackMutant(c, p) == TRUE   \* without the check for null
ReadBack(c, p) == review[c][p] # None

ReviewAnswered ==
  /\ saving # None /\ saving.step = "written"
  /\ LET c == saving.candidate  p == saving.problem
     IN  IF saving.kind = "put"
         THEN /\ ReadBack(c, p)
              /\ saving' = [saving EXCEPT !.step = "done", !.text = review[c][p]]
         ELSE saving' = [saving EXCEPT !.step = "done"]
  /\ UNCHANGED <<rows, desk, loading, load, astray>>

\* The same interviewer in another tab.
WriteElsewhere(c, p) ==
  /\ Assigned(c, p)
  /\ \E t \in {Written(c, p), None} :
       /\ t # review[c][p]
       /\ review' = [review EXCEPT ![c][p] = t]
  /\ UNCHANGED <<there, assigned, desk, saving, loading, load, astray>>

\* A forced deletion takes the assignments and the reviews of the problem.
DeleteProblem(p) ==
  /\ p \in there
  /\ there' = there \ {p}
  /\ assigned' = [c \in Candidate |-> assigned[c] \ {p}]
  /\ review' = [c \in Candidate |-> [review[c] EXCEPT ![p] = None]]
  /\ UNCHANGED <<desk, saving, loading, load, astray>>

\* getCandidateReviewContext
ReviewContext(c) ==
  [candidate |-> c, assignments |-> assigned[c], reviews |-> review[c]]

LoadAnswered(s) ==
  /\ load[s] # None /\ load[s].answer = None
  /\ load' = [load EXCEPT ![s].answer = ReviewContext(load[s].candidate)]
  /\ UNCHANGED <<rows, desk, saving, loading, astray>>

-----------------------------------------------------------------------------
(* The page *)

Init ==
  /\ there = Problem
  /\ assigned \in [Candidate -> SUBSET Problem]
  /\ Cardinality({d \in Candidate \X Problem : d[2] \in assigned[d[1]]}) <= MaxAssigned
  /\ review = [c \in Candidate |-> [p \in Problem |-> None]]
  /\ results = None /\ context = None /\ selected = None /\ form = None
  /\ saving = None
  /\ loading = FALSE
  /\ load = [s \in Slot |-> None]
  /\ astray = FALSE

\* The effect on the context and the selected problem.
FormOf(ctx, p) == IF ctx = None \/ p = None THEN None ELSE ctx.reviews[p]

\* A candidate of the list is chosen, or View is pressed again.
LoadResultsFor(c) ==
  /\ results' = None /\ context' = None /\ selected' = None /\ form' = None
  /\ loading' = TRUE
  /\ \E s \in Slot : /\ load[s] = None
                     /\ load' = [load EXCEPT ![s] = [candidate |-> c, answer |-> None]]
  /\ UNCHANGED <<rows, saving, astray>>

\* The first assigned problem.  Without one it is that of the first submission, if there
\* is any: the submissions are read by another call, before or after a deletion.
FirstProblem(ctx) == IF ctx.assignments = {} THEN Problem \cup {None} ELSE ctx.assignments

LoadArrivesMutant(s) ==   \* the results are shown before the reviews are there
  /\ load[s] # None
  /\ results' = load[s].candidate
  /\ IF load[s].answer = None
     THEN UNCHANGED <<context, selected, form, loading, load>>
     ELSE /\ context' = load[s].answer
          /\ selected' \in FirstProblem(context')
          /\ form' = FormOf(context', selected')
          /\ loading' = FALSE
          /\ load' = [load EXCEPT ![s] = None]
  /\ UNCHANGED <<rows, saving, astray>>
LoadArrives(s) ==
  /\ load[s] # None /\ load[s].answer # None
  /\ results' = load[s].candidate
  /\ context' = load[s].answer
  /\ selected' \in FirstProblem(context')
  /\ form' = FormOf(context', selected')
  /\ loading' = FALSE
  /\ load' = [load EXCEPT ![s] = None]
  /\ UNCHANGED <<rows, saving, astray>>

LoadFailsMutant(s) ==   \* without the finally block
  /\ load[s] # None
  /\ load' = [load EXCEPT ![s] = None]
  /\ UNCHANGED <<rows, desk, saving, loading, astray>>
LoadFails(s) ==
  /\ load[s] # None
  /\ loading' = FALSE
  /\ load' = [load EXCEPT ![s] = None]
  /\ UNCHANGED <<rows, desk, saving, astray>>

EditorShown == ~loading /\ results # None

SelectProblemMutant(p) ==   \* the effect misses the problem among its dependencies
  /\ EditorShown /\ saving = None /\ context # None
  /\ p \in context.assignments \ {selected}
  /\ selected' = p
  /\ UNCHANGED <<rows, results, context, form, saving, loading, load, astray>>
SelectProblem(p) ==
  /\ EditorShown /\ saving = None /\ context # None
  /\ p \in context.assignments \ {selected}
  /\ selected' = p
  /\ form' = FormOf(context, p)
  /\ UNCHANGED <<rows, results, context, saving, loading, load, astray>>

\* A form is written for what the page shows; what is edited stays what it was.
Edit ==
  /\ EditorShown /\ selected # None /\ form = None
  /\ form' = Written(results, selected)
  /\ UNCHANGED <<rows, results, context, selected, saving, loading, load, astray>>

HandleSaveReview ==
  /\ EditorShown /\ saving = None /\ selected # None
  /\ saving' = [kind |-> "put", candidate |-> results, problem |-> selected,
                text |-> IF form = None THEN Written(results, selected) ELSE form,
                step |-> "sent"]
  /\ UNCHANGED <<rows, desk, loading, load, astray>>

HandleDeleteReview ==
  /\ EditorShown /\ saving = None /\ FormOf(context, selected) # None
  /\ saving' = [kind |-> "delete", candidate |-> results, problem |-> selected,
                text |-> None, step |-> "sent"]
  /\ UNCHANGED <<rows, desk, loading, load, astray>>

\* The review, or its absence, is put among those of whatever context is there by now.
SavingReturns ==
  /\ saving # None /\ saving.step = "done"
  /\ IF context = None
     THEN /\ form' = IF saving.kind = "delete" THEN None ELSE form
          /\ UNCHANGED <<context, astray>>
     ELSE /\ context' = [context EXCEPT !.reviews[saving.problem] = saving.text]
          /\ form' = FormOf(context', selected)
          /\ astray' = (astray \/ context.candidate # saving.candidate)
  /\ saving' = None
  /\ UNCHANGED <<rows, results, selected, loading, load>>

\* Refused, failed, or lost with or without its effect.
SavingFails ==
  /\ saving # None
  /\ saving' = None
  /\ UNCHANGED <<rows, desk, loading, load, astray>>

Next ==
  \/ ReviewChecked \/ ReviewWritten \/ ReviewAnswered
  \/ \E p \in Problem : \/ DeleteProblem(p) \/ SelectProblem(p)
                        \/ \E c \in Candidate : WriteElsewhere(c, p)
  \/ \E c \in Candidate : LoadResultsFor(c)
  \/ \E s \in Slot : LoadAnswered(s) \/ LoadArrives(s) \/ LoadFails(s)
  \/ Edit \/ HandleSaveReview \/ HandleDeleteReview \/ SavingReturns \/ SavingFails

Spec == Init /\ [][Next]_vars

\* A load is answered or fails.
Fairness == \A s \in Slot : WF_vars(LoadArrives(s) \/ LoadFails(s))
FairSpec == Spec /\ Fairness

-----------------------------------------------------------------------------
(* Properties *)

TypeOK ==
  /\ there \subseteq Problem
  /\ assigned \in [Candidate -> SUBSET Problem]
  /\ review \in [Candidate -> Reviews]
  /\ results \in Candidate \cup {None}
  /\ context \in Context \cup {None}
  /\ selected \in Problem \cup {None}
  /\ form \in Text \cup {None}
  /\ saving \in Saving \cup {None}
  /\ loading \in BOOLEAN
  /\ load \in [Slot -> [candidate : Candidate, answer : Context \cup {None}] \cup {None}]
  /\ astray \in BOOLEAN

\* The submissions and the reviews on the page are of one candidate, whichever
\* loads overtake each other: a review is written for whom it was read about.
ResultsTogether ==
  /\ results = None <=> context = None
  /\ context # None => context.candidate = results

\* The reviews in the database were written for their candidate and problem, as
\* long as no answer to a save met the reviews of another candidate.
NotesWhereWritten ==
  ~astray => \A c \in Candidate, p \in Problem : review[c][p] \in {None, Written(c, p)}

\* A review is about an assigned problem, also when the problem is deleted
\* between the check of the assignment and the insert.
ReviewsAssigned ==
  \A c \in Candidate, p \in Problem : review[c][p] # None => p \in assigned[c]

\* No load leaves the page with the skeleton for ever.
LoadEnds == loading ~> ~loading
=============================================================================
