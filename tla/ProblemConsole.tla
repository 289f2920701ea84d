--------------------------- MODULE ProblemConsole ---------------------------
(***************************************************************************)
(* The console of one problem administrator, mounted once: the inventory,  *)
(* the modal that asks before a problem is changed or deleted, and the     *)
(* builder, over the rows of the API and their other users.                *)
(*                                                                         *)
(* The modal covers the page; the browser's history still changes the      *)
(* section under it.  Calls are answered, rejected or lost on their way,   *)
(* in any order, and nothing cancels the handler that awaits one.  What a  *)
(* form says is abstracted to the problem it was loaded from.              *)
(*                                                                         *)
(* A definition named ...Mutant is what a plausible bug would make of the  *)
(* definition after it.                                                    *)
(***************************************************************************)
EXTENDS Naturals

CONSTANTS
  Problem,    \* ids of problems, of rows that are there at first or may be created
  Slot,       \* calls that may be on their way at the same time
  MaxCalls,   \* bound on the calls the administrator causes
  None        \* null

ASSUME ConsoleAssumption == MaxCalls \in Nat /\ None \notin Problem

VARIABLES
  row,         \* rows of problems: "none" before, "gone" after
  problems,    \* what the inventory shows of each problem
  loading,     \* getAdminProblems is on its way; with the rows it read
  section,     \* "new", or "problems" for all other sections
  editingId,
  form,        \* the problem the form and its test cases come from, None: initialFormState
  submitting,
  modal,       \* operationMode, confirmId, confirmImpact, confirmLoading and the two boxes
  busy,        \* lifecycleBusyId
  call,        \* the calls of the handlers that wait
  consent,     \* the problem whose box "Force delete" was ticked in the open modal
  calls        \* calls caused so far

vars == <<row, problems, loading, section, editingId, form, submitting, modal, busy,
          call, consent, calls>>
builder == <<editingId, form, submitting>>

RowState == {"none", "active", "archived", "gone"}
\* A live row: archived or not, and whether deleting it would take candidates' work.
Row == [state : RowState, work : BOOLEAN]
Live(p) == row[p].state \in {"active", "archived"}
Shown == {"absent", "active", "archived"}
Kind == {"impactDelete", "impactModify", "detail", "save", "create", "delete", "archive"}
Answer == {"sent", "done", "free", "needsForce", "active", "archived"}
Call == [kind : Kind, problem : Problem \cup {None}, force : BOOLEAN, consent : BOOLEAN,
         archived : BOOLEAN, answer : Answer]
ASSUME NoneIsNoCall == None \notin Call

Closed == [mode |-> "delete", confirmId |-> None, impact |-> None, loading |-> FALSE,
           forceDelete |-> FALSE, forceModify |-> FALSE]

-----------------------------------------------------------------------------
(* The API and the other users of the rows *)

ListingMutant == [p \in Problem |-> row[p].state]   \* deleted rows are listed
Listing == [p \in Problem |-> IF Live(p) THEN row[p].state ELSE "absent"]

\* A candidate's assignment, submission, run or review.
GainWork(p) ==
  /\ Live(p) /\ ~row[p].work
  /\ row' = [row EXCEPT ![p].work = TRUE]
  /\ UNCHANGED <<problems, loading, section, builder, modal, busy, call, consent, calls>>

\* DELETE /admin/problems/:problemId refuses work without the flag.
Deleted(p, force) ==
  /\ Live(p) /\ (row[p].work => force)
  /\ row' = [row EXCEPT ![p] = [state |-> "gone", work |-> FALSE]]

\* What a handler of the API does and answers when it succeeds.
Handled(c, answer) ==
  \/ /\ c.kind \in {"impactDelete", "impactModify"} /\ Live(c.problem)
     /\ answer = IF row[c.problem].work THEN "needsForce" ELSE "free"
     /\ row' = row
  \/ /\ c.kind \in {"detail", "save"} /\ Live(c.problem)
     /\ answer = "done" /\ row' = row
  \/ /\ c.kind = "delete" /\ answer = "done"
     /\ Deleted(c.problem, c.force)
  \/ /\ c.kind = "archive" /\ Live(c.problem)
     /\ answer = IF c.archived THEN "archived" ELSE "active"
     /\ row' = [row EXCEPT ![c.problem].state = answer]

\* The row of a created problem is told by the answer.
Answered(s) ==
  /\ call[s] # None /\ call[s].answer = "sent"
  /\ \/ \E a \in Answer : /\ Handled(call[s], a)
                          /\ call' = [call EXCEPT ![s].answer = a]
     \/ \E p \in Problem :
          /\ call[s].kind = "create" /\ row[p].state = "none"
          /\ row' = [row EXCEPT ![p] = [state |-> "active", work |-> FALSE]]
          /\ call' = [call EXCEPT ![s].problem = p, ![s].answer = "done"]
  /\ UNCHANGED <<problems, loading, section, builder, modal, busy, consent, calls>>

-----------------------------------------------------------------------------
(* Clicks *)

Init ==
  /\ \E there \in SUBSET Problem :
       row = [p \in Problem |-> [state |-> IF p \in there THEN "active" ELSE "none",
                                 work |-> FALSE]]
  /\ problems = [p \in Problem |-> "absent"]
  /\ loading = [sent |-> TRUE, rows |-> None]
  /\ section = "problems"
  /\ editingId = None /\ form = None /\ submitting = FALSE
  /\ modal = Closed
  /\ busy = None
  /\ call = [s \in Slot |-> None]
  /\ consent = None
  /\ calls = 0

\* A handler sends its call and waits.
Send(kind, p, force, agreed, archived) ==
  /\ calls < MaxCalls /\ calls' = calls + 1
  /\ \E s \in Slot :
       /\ call[s] = None
       /\ call' = [call EXCEPT ![s] = [kind |-> kind, problem |-> p, force |-> force,
                     consent |-> agreed, archived |-> archived, answer |-> "sent"]]

\* The modal covers the page, so the buttons below answer only without it.
Clickable(s) == section = s /\ modal.confirmId = None

RequestModifyProblem(p) ==
  /\ Clickable("problems") /\ problems[p] # "absent"
  /\ modal' = [modal EXCEPT !.mode = "modify", !.confirmId = p, !.impact = None,
                            !.loading = TRUE, !.forceModify = FALSE]
  /\ consent' = None
  /\ Send("impactModify", p, FALSE, FALSE, FALSE)
  /\ UNCHANGED <<row, problems, loading, section, builder, busy>>

RequestedDeleteMutant(p) ==   \* the box keeps what an earlier modal left
  [modal EXCEPT !.mode = "delete", !.confirmId = p, !.impact = None, !.loading = TRUE]
RequestedDelete(p) ==
  [modal EXCEPT !.mode = "delete", !.confirmId = p, !.impact = None,
                !.loading = TRUE, !.forceDelete = FALSE]

RequestDeleteProblem(p) ==
  /\ Clickable("problems") /\ problems[p] # "absent"
  /\ modal' = RequestedDelete(p)
  /\ consent' = None
  /\ Send("impactDelete", p, FALSE, FALSE, FALSE)
  /\ UNCHANGED <<row, problems, loading, section, builder, busy>>

\* The box is there when the impact asks for force.
Tick ==
  /\ modal.confirmId # None /\ modal.impact = "needsForce"
  /\ IF modal.mode = "modify"
     THEN modal' = [modal EXCEPT !.forceModify = ~@] /\ UNCHANGED consent
     ELSE /\ modal' = [modal EXCEPT !.forceDelete = ~@]
          /\ consent' = IF modal.forceDelete THEN None ELSE modal.confirmId
  /\ UNCHANGED <<row, problems, loading, section, builder, busy, call, calls>>

Cancel ==
  /\ modal.confirmId # None
  /\ modal' = [modal EXCEPT !.confirmId = None, !.impact = None, !.forceDelete = FALSE]
  /\ consent' = None
  /\ UNCHANGED <<row, problems, loading, section, builder, busy, call, calls>>

\* The button of the modal.
Confirmable(mode, force) ==
  /\ modal.confirmId # None /\ modal.mode = mode
  /\ ~modal.loading /\ (modal.impact = "needsForce" => force)

ConfirmModify ==
  /\ Confirmable("modify", modal.forceModify)
  /\ modal' = [modal EXCEPT !.loading = TRUE]
  /\ Send("detail", modal.confirmId, FALSE, FALSE, FALSE)
  /\ UNCHANGED <<row, problems, loading, section, builder, busy, consent>>

ConfirmDelete ==
  /\ Confirmable("delete", modal.forceDelete)
  /\ Send("delete", modal.confirmId, modal.forceDelete, consent = modal.confirmId, FALSE)
  /\ UNCHANGED <<row, problems, loading, section, builder, modal, busy, consent>>

HandleArchiveProblem(p) ==
  /\ Clickable("problems") /\ problems[p] # "absent" /\ busy # p
  /\ busy' = p
  /\ Send("archive", p, FALSE, FALSE, problems[p] = "active")
  /\ UNCHANGED <<row, problems, loading, section, builder, modal, consent>>

\* Save Changes or Create Problem; incomplete test cases end in a message.
HandleSaveProblem ==
  /\ Clickable("new") /\ ~submitting /\ editingId # None
  /\ submitting' = TRUE
  /\ Send("save", editingId, FALSE, FALSE, FALSE)
  /\ UNCHANGED <<row, problems, loading, section, editingId, form, modal, busy, consent>>

HandleCreateProblem ==
  /\ Clickable("new") /\ ~submitting /\ editingId = None
  /\ submitting' = TRUE
  /\ Send("create", None, FALSE, FALSE, FALSE)
  /\ UNCHANGED <<row, problems, loading, section, editingId, form, modal, busy, consent>>

\* The effect that leaves the editing of a problem with the builder's section.
LeaveEditingMutant(s) ==   \* the form is left as it was
  /\ editingId' = IF s = "new" THEN editingId ELSE None
  /\ form' = form
LeaveEditing(s) ==
  /\ editingId' = IF s = "new" THEN editingId ELSE None
  /\ form' = IF s # "new" /\ editingId # None THEN None ELSE form

\* A link of the navigation or, under the modal, the history; Cancel Update too.
Go(s) ==
  /\ s # section
  /\ section' = s
  /\ LeaveEditing(s)
  /\ UNCHANGED <<row, problems, loading, submitting, modal, busy, call, consent, calls>>

-----------------------------------------------------------------------------
(* The rest of a handler, when its call returns *)

ListAnswered ==
  /\ loading.sent /\ loading.rows = None
  /\ loading' = [loading EXCEPT !.rows = Listing]
  /\ UNCHANGED <<row, problems, section, builder, modal, busy, call, consent, calls>>

ListArrives ==
  /\ loading.sent /\ loading.rows # None
  /\ problems' = loading.rows
  /\ loading' = [sent |-> FALSE, rows |-> None]
  /\ UNCHANGED <<row, section, builder, modal, busy, call, consent, calls>>

ListFails ==
  /\ loading.sent
  /\ loading' = [sent |-> FALSE, rows |-> None]
  /\ UNCHANGED <<row, problems, section, builder, modal, busy, call, consent, calls>>

\* It returns its answer, or it is rejected, or it or its answer is lost.
Returns(s, kinds, ok) ==
  /\ call[s] # None /\ call[s].kind \in kinds
  /\ ok => call[s].answer # "sent"
Return(s) == call' = [call EXCEPT ![s] = None] /\ UNCHANGED <<row, loading, calls>>

ImpactReturnsMutant(s, ok) ==   \* without the finally block
  /\ Returns(s, {"impactDelete", "impactModify"}, ok)
  /\ modal' = IF ok
              THEN [modal EXCEPT !.impact = call[s].answer, !.loading = FALSE]
              ELSE modal
  /\ consent' = consent
  /\ Return(s)
  /\ UNCHANGED <<problems, section, builder, busy>>
ImpactReturns(s, ok) ==
  /\ Returns(s, {"impactDelete", "impactModify"}, ok)
  /\ LET closes == ~ok /\ call[s].kind = "impactDelete"
     IN  /\ modal' = [modal EXCEPT !.loading = FALSE,
                        !.impact = IF ok THEN call[s].answer ELSE @,
                        !.confirmId = IF closes THEN None ELSE @]
         /\ consent' = IF closes THEN None ELSE consent
  /\ Return(s)
  /\ UNCHANGED <<problems, section, builder, busy>>

LoadedIntoMutant(s) == modal.confirmId   \* the modal's problem by now
LoadedInto(s) == call[s].problem

DetailReturns(s, ok) ==
  /\ Returns(s, {"detail"}, ok)
  /\ IF ok
     THEN /\ editingId' = LoadedInto(s) /\ form' = call[s].problem
          /\ section' = "new"
          /\ modal' = [modal EXCEPT !.confirmId = None, !.impact = None, !.loading = FALSE]
          /\ consent' = None
     ELSE /\ modal' = [modal EXCEPT !.loading = FALSE]
          /\ UNCHANGED <<editingId, form, section, consent>>
  /\ Return(s)
  /\ UNCHANGED <<problems, submitting, busy>>

\* A save leaves the editing of whatever is edited by now.
SaveReturns(s, ok) ==
  /\ Returns(s, {"save"}, ok)
  /\ submitting' = FALSE
  /\ IF ok THEN editingId' = None /\ form' = None ELSE UNCHANGED <<editingId, form>>
  /\ Return(s)
  /\ UNCHANGED <<problems, section, modal, busy, consent>>

\* A creation empties the form, but it leaves no editing.
CreateReturns(s, ok) ==
  /\ Returns(s, {"create"}, ok)
  /\ submitting' = FALSE
  /\ IF ok
     THEN form' = None /\ problems' = [problems EXCEPT ![call[s].problem] = "active"]
     ELSE UNCHANGED <<form, problems>>
  /\ Return(s)
  /\ UNCHANGED <<section, editingId, modal, busy, consent>>

DeleteReturns(s, ok) ==
  /\ Returns(s, {"delete"}, ok)
  /\ problems' = IF ok THEN [problems EXCEPT ![call[s].problem] = "absent"]
                 ELSE problems
  /\ modal' = [modal EXCEPT !.confirmId = None, !.impact = None, !.forceDelete = FALSE]
  /\ consent' = None
  /\ Return(s)
  /\ UNCHANGED <<section, builder, busy>>

ListedMutant(p, answer) == [problems EXCEPT ![p] = answer]   \* filter and append
Listed(p, answer) ==
  [problems EXCEPT ![p] = IF @ = "absent" THEN @ ELSE answer]

ArchiveReturns(s, ok) ==
  /\ Returns(s, {"archive"}, ok)
  /\ problems' = IF ok THEN Listed(call[s].problem, call[s].answer) ELSE problems
  /\ busy' = None
  /\ Return(s)
  /\ UNCHANGED <<section, builder, modal, consent>>

CallReturns(s) ==
  \E ok \in BOOLEAN :
    \/ ImpactReturns(s, ok) \/ DetailReturns(s, ok) \/ SaveReturns(s, ok)
    \/ CreateReturns(s, ok) \/ DeleteReturns(s, ok) \/ ArchiveReturns(s, ok)

Next ==
  \/ \E p \in Problem : \/ GainWork(p) \/ HandleArchiveProblem(p)
                        \/ RequestModifyProblem(p) \/ RequestDeleteProblem(p)
  \/ Tick \/ Cancel \/ ConfirmModify \/ ConfirmDelete
  \/ HandleSaveProblem \/ HandleCreateProblem
  \/ \E s \in {"problems", "new"} : Go(s)
  \/ ListAnswered \/ ListArrives \/ ListFails
  \/ \E s \in Slot : Answered(s) \/ CallReturns(s)

Spec == Init /\ [][Next]_vars

\* Every call returns or fails, and its handler goes on.
Fairness == \A s \in Slot : WF_vars(CallReturns(s))
FairSpec == Spec /\ Fairness

-----------------------------------------------------------------------------
(* Properties *)

TypeOK ==
  /\ row \in [Problem -> Row]
  /\ problems \in [Problem -> Shown]
  /\ loading \in [sent : BOOLEAN, rows : [Problem -> Shown] \cup {None}]
  /\ section \in {"problems", "new"}
  /\ editingId \in Problem \cup {None} /\ form \in Problem \cup {None}
  /\ submitting \in BOOLEAN
  /\ modal \in [mode : {"delete", "modify"}, confirmId : Problem \cup {None},
                impact : {"free", "needsForce", None}, loading : BOOLEAN,
                forceDelete : BOOLEAN, forceModify : BOOLEAN]
  /\ busy \in Problem \cup {None}
  /\ call \in [Slot -> Call \cup {None}]
  /\ consent \in Problem \cup {None}
  /\ calls \in 0..MaxCalls

\* A form that was loaded from a problem is the form of the problem being
\* edited: no late answer and no way out of the builder lets its statement and
\* hidden tests be saved over another problem, or created as a new one.
FormOfEdited == form # None => form = editingId

\* Work of candidates is deleted from here only after the box of the modal was
\* ticked for that very problem, whatever late answers did to the modal.
ForceOnlyWhenTicked ==
  \A s \in Slot : call[s] # None /\ call[s].force => call[s].consent

\* A problem that is deleted and no longer listed is never listed again, by no
\* late answer to an archiving, unless the answer to its own creation is late.
Announced(p) == \E s \in Slot : call[s] # None /\ call[s].kind = "create" /\ call[s].problem = p
RemovedStaysRemoved ==
  [][\A p \in Problem :
       row[p].state = "gone" /\ problems[p] = "absent" /\ ~loading.sent /\ ~Announced(p)
         => problems'[p] = "absent"]_vars

\* The modal does not analyse for ever, whatever fails.
LoadingEnds == modal.loading ~> ~modal.loading
=============================================================================
