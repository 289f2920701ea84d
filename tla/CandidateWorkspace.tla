------------------------- MODULE CandidateWorkspace -------------------------
(***************************************************************************)
(* One browser tab with the workspace of a candidate, or with the preview  *)
(* an administrator opens: the session, the routes, and the component with *)
(* its effects, its polling, its countdown and the drafts it keeps in the  *)
(* browser's storage, over the server's exam and jobs.                     *)
(*                                                                         *)
(* A handler or callback runs to its end, with the render and the effects  *)
(* it causes, before the next one.  A call to the API is sent, is answered *)
(* by the server some time later and arrives, or fails, later still; an    *)
(* effect that is cleaned up ignores the answer of its call.               *)
(*                                                                         *)
(* A definition named ...Mutant is what a plausible bug would make of the  *)
(* definition after it.                                                    *)
(***************************************************************************)
EXTENDS Integers, FiniteSets

CONSTANTS
  Problem,     \* the problems assigned to the candidate
  First,       \* the first of them
  Language,    \* languages of the problems
  Python,      \* the language the editor starts with
  Code,        \* texts the editor may hold
  Default,     \* the starter code
  Kind,        \* kinds of jobs: "submission", "run"
  Job,         \* ids of jobs
  Seconds,     \* length of the exam, which no change of the assignments exceeds
  Grain,       \* ticks of the clock in a second
  MaxDrafts,   \* bound on the drafts that differ from the starter code
  MaxJumps,    \* bound on moves through the browser's history
  MaxChanges,  \* bound on changes of the started exam
  None         \* null

ASSUME WorkspaceAssumption ==
  /\ First \in Problem
  /\ Python \in Language
  /\ Default \in Code
  /\ Kind \subseteq {"submission", "run"}
  /\ Seconds \in Nat \ {0} /\ Grain \in Nat \ {0}
  /\ MaxDrafts \in Nat /\ MaxJumps \in Nat /\ MaxChanges \in Nat
  /\ None \notin Problem \cup Job \cup Nat
  /\ {"login", "list", "home"} \cap Problem = {}

VARIABLES
  role,      \* whose tab it is
  exam,      \* ticks the started exam has left on the server, None before
  job,       \* submissions and custom runs on the server
  drafts,    \* the draft store of the browser
  url,       \* "login", "list", "home" or a problem's page
  checking,  \* getMe is on its way: at boot before any page is shown, or after a login
  page,      \* state of the mounted page of assignments, None when there is none
  ws,        \* state of the mounted workspace, None when there is none
  jumps,     \* moves through the history so far
  changes    \* changes of the started exam so far

frame == <<role, url, checking, page, jumps>>
vars == <<frame, exam, changes, job, drafts, ws>>

ExamStatus == {"not_started", "started", "expired"}
JobStatus == {"queued", "running", "done"}
Pending == {"queued", "running"}
\* An exam as it is answered, with the changes it had seen when it was read.
View == [status : ExamStatus, remaining : 0..Seconds \cup {None}, changes : 0..MaxChanges]
ShownJob == [id : Job, status : JobStatus]

\* A call for the exam, and the problem to open when its answer arrives.
Sent(p) == [answer |-> None, opens |-> p]

IsCandidate == role = "candidate"

-----------------------------------------------------------------------------
(* The server *)

\* toCandidateExamSummary
RemainingSeconds == exam \div Grain
ExamView ==
  IF exam = None THEN [status |-> "not_started", remaining |-> None, changes |-> changes]
  ELSE [status |-> IF RemainingSeconds > 0 THEN "started" ELSE "expired",
        remaining |-> RemainingSeconds, changes |-> changes]

\* A problem assigned late lengthens a started exam or opens it again, one that is
\* deleted shortens it or leaves one that was not started.
AssignmentsChange ==
  /\ exam # None /\ changes < MaxChanges
  /\ exam' \in (0..Seconds * Grain \cup {None}) \ {exam}
  /\ changes' = changes + 1
  /\ UNCHANGED <<frame, job, drafts, ws>>

\* assertCandidateExamCanAccessProblem
Accessible == ~IsCandidate \/ ExamView.status = "started"

JudgeStarts(j) ==
  /\ job[j] # None /\ job[j].status = "queued"
  /\ job' = [job EXCEPT ![j].status = "running"]
  /\ UNCHANGED <<frame, exam, changes, drafts, ws>>

JudgeEnds(j) ==
  /\ job[j] # None /\ job[j].status = "running"
  /\ job' = [job EXCEPT ![j].status = "done"]
  /\ UNCHANGED <<frame, exam, changes, drafts, ws>>

-----------------------------------------------------------------------------
(* The effects of the component, as functions of its state *)

Draft(p, l) == drafts[p][l]

\* The effects that load the problem, its draft and its submissions.
SelectMutant(w, p) ==   \* the cleanup forgets the earlier load
  IF p = w.selected THEN w
  ELSE [w EXCEPT !.selected = p,
                 !.problem  = IF p = None THEN None ELSE @,
                 !.loads    = IF p = None THEN @ ELSE @ \cup {p},
                 !.source   = IF p = None THEN @ ELSE Draft(p, w.language),
                 !.unsaved  = None,
                 !.history  = IF p = None THEN {} ELSE @,
                 !.listing  = p # None]
Select(w, p) ==
  IF p = w.selected THEN w
  ELSE [w EXCEPT !.selected = p,
                 !.problem  = IF p = None THEN None ELSE @,
                 !.loads    = IF p = None THEN {} ELSE {p},
                 !.source   = IF p = None THEN @ ELSE Draft(p, w.language),
                 !.unsaved  = None,
                 !.history  = IF p = None THEN {} ELSE @,
                 !.listing  = p # None]

\* setExam with the effect that starts and clears the interval, which an equal exam
\* leaves alone: that counts as read when the first of the equal ones was.
SameExam(w, v) ==
  w.view # None /\ v.status = w.view.status /\ v.remaining = w.view.remaining
SetExamMutant(w, v) ==   \* the effect that starts the interval runs on mount only
  [w EXCEPT !.view = v, !.remaining = v.remaining,
            !.lag = IF v.status = "started" THEN @ ELSE None]
SetExam(w, v) ==
  [w EXCEPT !.view = IF SameExam(w, v) THEN @ ELSE v, !.remaining = v.remaining,
            !.lag = IF SameExam(w, v) THEN @ ELSE IF v.status = "started" THEN 0 ELSE None]

ApplyExam(w, v, opens) ==
  Select(SetExam(w, v), IF v.status = "started" THEN opens ELSE None)
Expired(v) == [v EXCEPT !.status = "expired", !.remaining = 0]

\* The problem opened with the exam at this address: its own, or else the first.
OpenedMutant(u) == u   \* without the fallback to the first
Opened(u) == IF u \in Problem THEN u ELSE First

\* setSubmission and setCustomRun with the effects that poll and list.
Show(w, k, s) ==
  [w EXCEPT !.shown[k] = s,
            !.poll[k]  = IF s # None /\ s.status \in Pending THEN "timer" ELSE "off",
            !.listing  = @ \/ (k = "submission" /\ w.selected # None /\ s # w.shown[k])]

\* The first render of the component and its first effects.
Mounted(u) ==
  LET p == IF IsCandidate THEN None ELSE u
  IN [view |-> None, examCall |-> IF IsCandidate THEN Sent(Opened(u)) ELSE None, startCall |-> None,
      remaining |-> None, lag |-> None,
      selected |-> p, problem |-> None, loads |-> {p} \ {None},
      language |-> Python, source |-> Default, unsaved |-> None,
      shown |-> [k \in Kind |-> None], poll |-> [k \in Kind |-> "off"],
      creating |-> [k \in Kind |-> None],
      history |-> {}, listing |-> p # None]

\* CandidateRoute or the preview is rendered at this address.
Workplace(u) == u \in Problem \/ (u = "home" /\ IsCandidate)
Home == IF IsCandidate THEN "home" ELSE "list"

Visit(u) == /\ url' = u
            /\ ws' = IF Workplace(u) THEN Mounted(u) ELSE None
            /\ page' = IF u = "list" THEN [view |-> None, loading |-> IsCandidate] ELSE None

Update(w) == ws' = w /\ UNCHANGED <<frame, drafts>>

-----------------------------------------------------------------------------
(* Session and routes *)

Init ==
  /\ role \in {"candidate", "problem_admin"}
  /\ exam = None
  /\ job = [j \in Job |-> None]
  /\ drafts = [p \in Problem |-> [l \in Language |-> Default]]
  /\ url = "login"
  /\ checking = FALSE
  /\ ws = None /\ page = None
  /\ jumps = 0 /\ changes = 0

Login ==
  /\ url = "login"
  /\ Visit(Home)
  /\ checking' = TRUE
  /\ UNCHANGED <<role, exam, changes, job, drafts, jumps>>

Logout ==
  /\ ws # None \/ page # None
  /\ Visit("login")
  /\ checking' = FALSE
  /\ UNCHANGED <<role, exam, changes, job, drafts, jumps>>

\* The page is loaded again: the storage is all that is left.
Reload ==
  /\ url # "login"
  /\ ws' = None /\ page' = None
  /\ checking' = TRUE
  /\ UNCHANGED <<role, exam, changes, job, drafts, url, jumps>>

MeArrives ==
  /\ checking
  /\ checking' = FALSE
  /\ IF ws = None /\ page = None THEN Visit(url) ELSE UNCHANGED <<url, ws, page>>
  /\ UNCHANGED <<role, exam, changes, job, drafts, jumps>>

MeFails ==
  /\ checking
  /\ checking' = FALSE
  /\ Visit("login")
  /\ UNCHANGED <<role, exam, changes, job, drafts, jumps>>

\* The page of the assignments, or an administrator's list of problems.
OpenList ==
  /\ ws # None
  /\ Visit("list")
  /\ UNCHANGED <<role, exam, changes, job, drafts, checking, jumps>>

PageArrives ==
  /\ page # None /\ page.loading
  /\ page' = [view |-> ExamView, loading |-> FALSE]
  /\ UNCHANGED <<role, url, checking, jumps, exam, changes, job, drafts, ws>>

\* The links of the page are there while it shows a running exam.
OpenProblem(p) ==
  /\ page # None
  /\ IsCandidate => page.view # None /\ page.view.status = "started"
  /\ Visit(p)
  /\ UNCHANGED <<role, exam, changes, job, drafts, checking, jumps>>

OpenHome ==
  /\ page # None /\ IsCandidate
  /\ Visit("home")
  /\ UNCHANGED <<role, exam, changes, job, drafts, checking, jumps>>

\* Back or forward over the list: the component stays, initialProblemId changes.
Jump(u) ==
  /\ ws # None /\ IsCandidate /\ u # url /\ Workplace(u)
  /\ jumps < MaxJumps
  /\ jumps' = jumps + 1
  /\ url' = u
  /\ ws' = [ws EXCEPT !.examCall = Sent(Opened(u))]
  /\ UNCHANGED <<role, exam, changes, job, drafts, checking, page>>

-----------------------------------------------------------------------------
(* The exam *)

StartedExam == IF exam = None THEN Seconds * Grain ELSE exam

\* Start on the page of the assignments; the answer may be lost.
StartOnPage ==
  /\ page # None /\ page.view # None /\ page.view.status = "not_started"
  /\ exam' = StartedExam /\ UNCHANGED changes
  /\ page' \in {page, [page EXCEPT !.view = ExamView']}
  /\ UNCHANGED <<role, url, checking, jumps, job, drafts, ws>>

ExamAnswered ==
  /\ ws # None /\ ws.examCall # None /\ ws.examCall.answer = None
  /\ Update([ws EXCEPT !.examCall.answer = ExamView])
  /\ UNCHANGED <<exam, changes, job>>

ExamArrives ==
  /\ ws # None /\ ws.examCall # None /\ ws.examCall.answer # None
  /\ Update(ApplyExam([ws EXCEPT !.examCall = None], ws.examCall.answer, ws.examCall.opens))
  /\ UNCHANGED <<exam, changes, job>>

\* The gate with its button is what a candidate sees before the exam.
AtGate == ws # None /\ IsCandidate /\ ws.view # None /\ ws.view.status = "not_started"

ClickStart ==
  /\ AtGate /\ ws.examCall = None /\ ws.startCall = None
  /\ Update([ws EXCEPT !.startCall = Sent(Opened(url))])
  /\ UNCHANGED <<exam, changes, job>>

StartAnswered ==
  /\ ws # None /\ ws.startCall # None /\ ws.startCall.answer = None
  /\ exam' = StartedExam /\ UNCHANGED changes
  /\ Update([ws EXCEPT !.startCall.answer = ExamView'])
  /\ UNCHANGED job

StartArrives ==
  /\ ws # None /\ ws.startCall # None /\ ws.startCall.answer # None
  /\ LET v == ws.startCall.answer
         w == SetExam([ws EXCEPT !.startCall = None], v)
     IN  Update(IF v.status = "started" THEN Select(w, ws.startCall.opens) ELSE w)
  /\ UNCHANGED <<exam, changes, job>>

\* One second of the local countdown, and the effect that locks at zero.
CountdownMutant ==   \* a second interval runs beside the first
  /\ ws # None /\ ws.lag # None /\ ws.lag * 2 >= Grain
  /\ LET r == IF ws.remaining > 1 THEN ws.remaining - 1 ELSE 0
         w == [ws EXCEPT !.remaining = r, !.lag = 0]
     IN  Update(IF r = 0 THEN ApplyExam(w, Expired(w.view), None) ELSE w)
  /\ UNCHANGED <<exam, changes, job>>
Countdown ==
  /\ ws # None /\ ws.lag # None /\ ws.lag >= Grain
  /\ LET r == IF ws.remaining > 1 THEN ws.remaining - 1 ELSE 0
         w == [ws EXCEPT !.remaining = r, !.lag = @ - Grain]
     IN  Update(IF r = 0 THEN ApplyExam(w, Expired(w.view), None) ELSE w)
  /\ UNCHANGED <<exam, changes, job>>

\* At most one missed second of an interval is made up for.
MaxLag == 2 * Grain - 1

Tick ==
  /\ exam' = IF exam = None \/ exam = 0 THEN exam ELSE exam - 1
  /\ ws' = IF ws # None /\ ws.lag # None /\ ws.lag < MaxLag
           THEN [ws EXCEPT !.lag = @ + 1] ELSE ws
  /\ <<exam', ws'>> # <<exam, ws>>
  /\ UNCHANGED <<frame, changes, job, drafts>>

-----------------------------------------------------------------------------
(* Problem, editor and drafts *)

ProblemArrives(p) ==
  /\ ws # None /\ p \in ws.loads
  /\ LET w == [ws EXCEPT !.loads = @ \ {p}, !.problem = p]
     IN  Update(IF "run" \in Kind THEN Show(w, "run", None) ELSE w)
  /\ UNCHANGED <<exam, changes, job>>

\* The gate hides the editor from a candidate whose exam does not run.
EditorShown == ws # None /\ (IsCandidate => ws.view # None /\ ws.view.status = "started")

WrittenDrafts ==
  Cardinality({d \in Problem \X Language : drafts[d[1]][d[2]] # Default})

SavedDraft(p, l, c) == [drafts EXCEPT ![p][l] = c]

\* The storage may be full or not there: a failing setItem is caught and forgotten, which
\* unsaved remembers of the last key.
Type(c) ==
  /\ EditorShown /\ c # ws.source
  /\ IF IsCandidate /\ ws.selected # None
     THEN \/ /\ drafts' = SavedDraft(ws.selected, ws.language, c)
             /\ ws' = [ws EXCEPT !.source = c, !.unsaved = None]
          \/ /\ UNCHANGED drafts
             /\ ws' = [ws EXCEPT !.source = c, !.unsaved = <<ws.selected, ws.language>>]
     ELSE ws' = [ws EXCEPT !.source = c] /\ UNCHANGED drafts
  /\ WrittenDrafts' <= MaxDrafts
  /\ UNCHANGED <<frame, exam, changes, job>>

ChooseLanguageMutant(l) ==   \* the effect misses the language among its dependencies
  /\ EditorShown /\ l # ws.language /\ ws.problem # None
  /\ Update([ws EXCEPT !.language = l])
  /\ UNCHANGED <<exam, changes, job>>
ChooseLanguage(l) ==
  /\ EditorShown /\ l # ws.language /\ ws.problem # None
  /\ Update([ws EXCEPT !.language = l,
                       !.source = IF IsCandidate /\ ws.selected # None
                                  THEN Draft(ws.selected, l) ELSE @,
                       !.unsaved = None])
  /\ UNCHANGED <<exam, changes, job>>

-----------------------------------------------------------------------------
(* Submissions and custom runs *)

ClickRun(k) ==
  /\ EditorShown /\ ws.problem # None /\ ws.creating[k] = None
  /\ Update([ws EXCEPT !.creating[k] = [problem |-> ws.problem, id |-> None]])
  /\ UNCHANGED <<exam, changes, job>>

CreateJob(k, j) ==
  /\ ws # None /\ ws.creating[k] # None /\ ws.creating[k].id = None
  /\ Accessible
  /\ job[j] = None
  /\ job' = [job EXCEPT ![j] = [kind |-> k, problem |-> ws.creating[k].problem,
                                status |-> "queued"]]
  /\ Update([ws EXCEPT !.creating[k].id = j])
  /\ UNCHANGED <<exam, changes>>

CreatedArrives(k) ==
  /\ ws # None /\ ws.creating[k] # None /\ ws.creating[k].id # None
  /\ Update(Show([ws EXCEPT !.creating[k] = None], k,
                 [id |-> ws.creating[k].id, status |-> "queued"]))
  /\ UNCHANGED <<exam, changes, job>>

PollAnswered(k) ==
  /\ ws # None /\ ws.poll[k] = "timer"
  /\ Update([ws EXCEPT !.poll[k] = job[ws.shown[k].id].status])
  /\ UNCHANGED <<exam, changes, job>>

PollArrivesMutant(k) ==   \* polls again only while the job is queued
  /\ ws # None /\ ws.poll[k] \in JobStatus
  /\ LET s == [ws.shown[k] EXCEPT !.status = ws.poll[k]]
     IN  Update([Show(ws, k, s) EXCEPT !.poll[k] = IF s.status = "queued" THEN @ ELSE "off"])
  /\ UNCHANGED <<exam, changes, job>>
PollArrives(k) ==
  /\ ws # None /\ ws.poll[k] \in JobStatus
  /\ Update(Show(ws, k, [ws.shown[k] EXCEPT !.status = ws.poll[k]]))
  /\ UNCHANGED <<exam, changes, job>>

HistoryOf(p) ==
  {[id |-> j, status |-> job[j].status] :
     j \in {i \in Job : job[i] # None /\ job[i].kind = "submission" /\ job[i].problem = p}}

HistoryArrives ==
  /\ ws # None /\ ws.listing
  /\ Update([ws EXCEPT !.listing = FALSE, !.history = HistoryOf(ws.selected)])
  /\ UNCHANGED <<exam, changes, job>>

\* An item of the submissions, which may be older than the server's.
SelectHistoryItem ==
  /\ EditorShown
  /\ \E s \in ws.history : Update(Show(ws, "submission", s))
  /\ UNCHANGED <<exam, changes, job>>

-----------------------------------------------------------------------------
\* A call is rejected, or it or its answer is lost.
CallFails ==
  /\ ws # None
  /\ \E w \in {[ws EXCEPT !.examCall = None], [ws EXCEPT !.startCall = None],
               [ws EXCEPT !.loads = {}], [ws EXCEPT !.listing = FALSE]}
              \cup {[ws EXCEPT !.creating[k] = None] : k \in Kind}
              \cup {[ws EXCEPT !.poll[k] = "failed"] : k \in {i \in Kind : ws.poll[i] # "off"}} :
       w # ws /\ Update(w)
  /\ UNCHANGED <<exam, changes, job>>

Next ==
  \/ Login \/ Logout \/ Reload \/ MeArrives \/ MeFails \/ OpenList \/ OpenHome
  \/ PageArrives \/ StartOnPage \/ AssignmentsChange
  \/ \E p \in Problem : OpenProblem(p) \/ ProblemArrives(p)
  \/ \E u \in Problem \cup {"home"} : Jump(u)
  \/ ExamAnswered \/ ExamArrives
  \/ ClickStart \/ StartAnswered \/ StartArrives \/ Countdown \/ Tick
  \/ \E c \in Code : Type(c)
  \/ \E l \in Language : ChooseLanguage(l)
  \/ \E k \in Kind : \/ ClickRun(k) \/ CreatedArrives(k) \/ PollAnswered(k) \/ PollArrives(k)
                     \/ \E j \in Job : CreateJob(k, j)
  \/ HistoryArrives \/ SelectHistoryItem \/ CallFails
  \/ \E j \in Job : JudgeStarts(j) \/ JudgeEnds(j)

Spec == Init /\ [][Next]_vars

\* Timers fire, answers arrive or fail, the judge judges.
Fairness ==
  /\ WF_vars(Tick) /\ WF_vars(Countdown)
  /\ \A k \in Kind : WF_vars(PollAnswered(k)) /\ WF_vars(PollArrives(k))
  /\ \A j \in Job : WF_vars(JudgeStarts(j)) /\ WF_vars(JudgeEnds(j))

FairSpec == Spec /\ Fairness

-----------------------------------------------------------------------------
(* Properties *)

Call == [answer : View \cup {None}, opens : Problem] \cup {None}
WorkspaceState ==
  [view : View \cup {None}, examCall : Call, startCall : Call,
   remaining : 0..Seconds \cup {None}, lag : 0..MaxLag \cup {None},
   selected : Problem \cup {None}, problem : Problem \cup {None}, loads : SUBSET Problem,
   language : Language, source : Code, unsaved : (Problem \X Language) \cup {None},
   shown : [Kind -> ShownJob \cup {None}], poll : [Kind -> {"off", "timer", "failed"} \cup JobStatus],
   creating : [Kind -> [problem : Problem, id : Job \cup {None}] \cup {None}],
   history : SUBSET ShownJob, listing : BOOLEAN]

TypeOK ==
  /\ role \in {"candidate", "problem_admin"}
  /\ exam \in 0..Seconds * Grain \cup {None}
  /\ job \in [Job -> [kind : Kind, problem : Problem, status : JobStatus] \cup {None}]
  /\ drafts \in [Problem -> [Language -> Code]]
  /\ url \in {"login", "list", "home"} \cup Problem
  /\ checking \in BOOLEAN
  /\ page \in [view : View \cup {None}, loading : BOOLEAN] \cup {None}
  /\ ws \in WorkspaceState \cup {None}
  /\ jumps \in 0..MaxJumps
  /\ changes \in 0..MaxChanges

\* The editor of a candidate shows the draft kept for the problem and the
\* language it stands for, after every change of either, every reload and
\* every late answer: what is typed next can overwrite no other draft.  It differs
\* only while the last key typed for these two could not be saved.
EditorShowsDraft ==
  ws # None /\ IsCandidate /\ ws.selected # None
    => \/ ws.source = Draft(ws.selected, ws.language)
       \/ ws.unsaved = <<ws.selected, ws.language>>

\* The countdown of the page never locks a candidate out of an exam that
\* still runs on the server, however late the answers and the seconds come, if
\* it was started by an exam read after its last change: nothing tells a page
\* that its exam was lengthened.
LockedOnlyWhenExpired ==
  ws # None /\ ws.view # None /\ ws.view.status = "expired" /\ ws.view.changes = changes
    => ExamView.status = "expired"

\* Once the selected problem is shown, the late answer for another one does
\* not take its place.
LateProblemIgnored ==
  [][ws # None /\ ws' # None /\ ws.selected # None
       /\ ws.problem = ws.selected /\ ws'.selected = ws.selected
     => ws'.problem = ws.problem]_vars

\* A job that is shown as queued or running is shown with its end later,
\* unless a poll fails, something else is shown or the page is left: no status,
\* no late list and no choice in it leaves the page without its next poll.
\* A user who picks submissions again and again may keep the polls from ending.
ShownWaits(k, j) == ws # None /\ ws.shown[k] # None /\ ws.shown[k].id = j
                      /\ ws.shown[k].status \in Pending /\ ws.poll[k] # "failed"
PicksForever == []<><<SelectHistoryItem>>_vars
EndShown ==
  PicksForever \/ \A k \in Kind, j \in Job : ShownWaits(k, j) ~> ~ShownWaits(k, j)

\* A page that shows a running exam does not show it for ever.
ExamShown == ws # None /\ ws.view # None /\ ws.view.status = "started"
CountdownEnds == ExamShown ~> ~ExamShown
=============================================================================
