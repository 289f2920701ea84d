---------------------- MODULE CandidateWorkspaceProofs ----------------------
(* Theorems about CandidateWorkspace, for every set of problems, languages, *)
(* texts and jobs, and every length of the exam.                            *)
EXTENDS CandidateWorkspace, TLAPS

-----------------------------------------------------------------------------
(* What a state of the component may be *)

JobRow == [kind : Kind, problem : Problem, status : JobStatus]
JobIds == {j \in Job : job[j] \in JobRow}

\* The jobs on the page are on the server, and a poll is about a job that is shown.
Known(w, ids) ==
  /\ \A k \in Kind :
       /\ w.shown[k] # None => w.shown[k].id \in ids
       /\ w.creating[k] # None /\ w.creating[k].id # None => w.creating[k].id \in ids
       /\ w.poll[k] \in {"timer"} \cup JobStatus => w.shown[k] # None
  /\ \A s \in w.history : s.id \in ids

\* The exam that has x ticks left has them after r seconds and a part of one.
Within(x, r) == x <= r * Grain + Grain - 1

\* An answer of the server was read after at most the changes there have been, n; read
\* after all of them it is of an exam that has no more left by now.
ViewHolds(v, x, n) ==
  /\ v.changes \in Nat /\ v.changes <= n
  /\ v.status # "not_started" => v.remaining \in Nat
  /\ v.status = "expired" => v.remaining = 0
  /\ v.status # "not_started" /\ v.changes = n => x \in Nat /\ Within(x, v.remaining)

\* What the countdown shows and the part of a second that is not counted yet are
\* at least what the exam has left, now and if the shown answer arrives once more,
\* unless the exam was changed since.
Clock(w, x, n) ==
  /\ w.view # None => ViewHolds(w.view, x, n)
  /\ w.examCall # None /\ w.examCall.answer # None => ViewHolds(w.examCall.answer, x, n)
  /\ w.startCall # None /\ w.startCall.answer # None => ViewHolds(w.startCall.answer, x, n)
  /\ w.lag # None =>
       /\ w.view \in View /\ ViewHolds(w.view, x, n) /\ w.view.status = "started"
       /\ w.remaining \in Nat /\ w.view.remaining \in Nat
       /\ w.view.changes = n =>
            /\ x \in Nat
            /\ x = 0 \/ (Within(x + w.lag, w.remaining) /\ Within(x + w.lag, w.view.remaining))

\* Only the load of the selected problem can arrive.
LoadsSelected(w) == \A p \in w.loads : p = w.selected

Good(w, ids, x, n) ==
  /\ w \in WorkspaceState
  /\ Known(w, ids)
  /\ Clock(w, x, n)
  /\ LoadsSelected(w)

-----------------------------------------------------------------------------
(* The effects keep it *)

LEMMA NoNull ==
  /\ \A p \in Problem : p # None
  /\ \A j \in Job : j # None
  /\ \A n \in Nat : n # None
BY WorkspaceAssumption

LEMMA Numbers ==
  /\ Seconds \in Nat /\ Seconds >= 1 /\ Grain \in Nat /\ Grain >= 1
  /\ MaxLag \in Nat /\ MaxLag = 2 * Grain - 1
BY WorkspaceAssumption DEF MaxLag

LEMMA LessWithin ==
  ASSUME NEW x \in Nat, NEW y \in Nat, y <= x, NEW r \in Nat, Within(x, r)
  PROVE  Within(y, r)
<1> DEFINE m == r * Grain
<1>1. m \in Nat
  BY Numbers
<1>2. x <= m + Grain - 1
  BY DEF Within
<1> HIDE DEF m
<1>3. y <= m + Grain - 1
  BY <1>1, <1>2, Numbers
<1> QED
  BY <1>3 DEF Within, m

\* What the page makes of a countdown that ends.
LEMMA ExpiredView ==
  ASSUME NEW v \in View
  PROVE  /\ Expired(v) \in View /\ Expired(v).status = "expired" /\ Expired(v).remaining = 0
         /\ Expired(v).changes = v.changes
<1> DEFINE z == [v EXCEPT !.status = "expired"]
<1>1. z \in View /\ z.status = "expired" /\ z.changes = v.changes
  BY DEF View, ExamStatus
<1>2. Expired(v) = [z EXCEPT !.remaining = 0]
  BY DEF Expired
<1>3. 0 \in 0..Seconds
  BY Numbers
<1> HIDE DEF z
<1> QED
  BY <1>1, <1>2, <1>3 DEF View

LEMMA SelectGood ==
  ASSUME NEW w, NEW ids, NEW x, NEW n, Good(w, ids, x, n), NEW p \in Problem \cup {None},
         drafts \in [Problem -> [Language -> Code]]
  PROVE  Good(Select(w, p), ids, x, n)
<1> DEFINE s == Select(w, p)
<1>w. w \in WorkspaceState /\ Known(w, ids) /\ Clock(w, x, n) /\ LoadsSelected(w)
  BY DEF Good
<1>1. CASE p = w.selected
  BY <1>1 DEF Select
<1>2. CASE p # w.selected
  <2> DEFINE pr == IF p = None THEN None ELSE w.problem
             lo == IF p = None THEN {} ELSE {p}
             so == IF p = None THEN w.source ELSE Draft(p, w.language)
             hi == IF p = None THEN {} ELSE w.history
             li == p # None
  <2>1. s = [w EXCEPT !.selected = p, !.problem = pr, !.loads = lo, !.source = so,
                      !.unsaved = None, !.history = hi, !.listing = li]
    BY <1>2 DEF Select
  <2>2. /\ pr \in Problem \cup {None} /\ lo \in SUBSET Problem /\ so \in Code
        /\ hi \in SUBSET ShownJob /\ li \in BOOLEAN
    BY <1>w DEF Draft, WorkspaceState
  <2>l. lo = (IF p = None THEN {} ELSE {p}) /\ hi \in {{}, w.history}
    OBVIOUS
  <2> HIDE DEF pr, lo, so, hi, li
  <2>3. s \in WorkspaceState
    <3> DEFINE z == [w EXCEPT !.selected = p, !.problem = pr, !.loads = lo]
    <3>1. z \in WorkspaceState
      BY <2>2, <1>w DEF WorkspaceState
    <3>2. s = [z EXCEPT !.source = so, !.unsaved = None, !.history = hi, !.listing = li]
      BY <2>1
    <3> HIDE DEF z, s
    <3> QED
      BY <2>2, <3>1, <3>2 DEF WorkspaceState
  <2>4. /\ s.shown = w.shown /\ s.creating = w.creating /\ s.poll = w.poll
        /\ s.history \in {{}, w.history} /\ s.view = w.view /\ s.examCall = w.examCall
        /\ s.startCall = w.startCall /\ s.lag = w.lag /\ s.remaining = w.remaining
        /\ s.selected = p /\ s.loads = IF p = None THEN {} ELSE {p}
    BY <2>1, <2>l, <1>w DEF WorkspaceState
  <2> HIDE DEF s
  <2>5. Known(s, ids)
    BY <2>4, <1>w DEF Known
  <2>6. Clock(s, x, n)
    BY <2>4, <1>w DEF Clock
  <2>7. LoadsSelected(s)
    BY <2>4 DEF LoadsSelected
  <2>8. Good(s, ids, x, n)
    BY <2>3, <2>5, <2>6, <2>7 DEF Good
  <2> QED
    BY <2>8 DEF s
<1> QED
  BY <1>1, <1>2

LEMMA SetExamGood ==
  ASSUME NEW w, NEW ids, NEW x, NEW n, Good(w, ids, x, n), NEW v \in View, ViewHolds(v, x, n)
  PROVE  Good(SetExam(w, v), ids, x, n)
<1> DEFINE s == SetExam(w, v)
<1>w. w \in WorkspaceState /\ Known(w, ids) /\ Clock(w, x, n) /\ LoadsSelected(w)
  BY DEF Good
<1> DEFINE b == SameExam(w, v)
           g == IF b THEN w.lag ELSE IF v.status = "started" THEN 0 ELSE None
           u == IF b THEN w.view ELSE v
<1>1. s = [w EXCEPT !.view = u, !.remaining = v.remaining, !.lag = g]
  BY DEF SetExam
<1>b. b => w.view # None /\ v.status = w.view.status /\ v.remaining = w.view.remaining
  BY DEF SameExam
<1>g. g \in 0..MaxLag \cup {None} /\ v.remaining \in 0..Seconds \cup {None}
      /\ u \in View \cup {None}
  BY <1>w, Numbers DEF WorkspaceState, View
<1>l. g = (IF b THEN w.lag ELSE IF v.status = "started" THEN 0 ELSE None)
      /\ u = IF b THEN w.view ELSE v
  OBVIOUS
<1> HIDE DEF b, g, u
<1>2. s \in WorkspaceState
  BY <1>1, <1>g, <1>w DEF WorkspaceState
<1>3. /\ s.shown = w.shown /\ s.creating = w.creating /\ s.poll = w.poll
      /\ s.history = w.history /\ s.examCall = w.examCall
      /\ s.startCall = w.startCall /\ s.remaining = v.remaining
      /\ s.selected = w.selected /\ s.loads = w.loads
      /\ s.view = IF b THEN w.view ELSE v
      /\ s.lag = IF b THEN w.lag ELSE IF v.status = "started" THEN 0 ELSE None
  BY <1>1, <1>l, <1>w DEF WorkspaceState
<1> HIDE DEF s
<1>4. Known(s, ids) /\ LoadsSelected(s)
  BY <1>3, <1>w DEF Known, LoadsSelected
<1>5. ASSUME s.lag # None
      PROVE  /\ s.view \in View /\ ViewHolds(s.view, x, n) /\ s.view.status = "started"
             /\ s.remaining \in Nat /\ s.view.remaining \in Nat
             /\ s.view.changes = n =>
                  /\ x \in Nat
                  /\ x = 0 \/ (Within(x + s.lag, s.remaining)
                                 /\ Within(x + s.lag, s.view.remaining))
  <2>1. CASE b
    BY <2>1, <1>3, <1>5, <1>b, <1>w DEF Clock
  <2>2. CASE ~b
    <3>1. v.status = "started" /\ s.lag = 0 /\ s.view = v
      BY <2>2, <1>3, <1>5
    <3>2. v.remaining \in Nat
      BY <3>1 DEF ViewHolds
    <3>3. ASSUME v.changes = n PROVE x \in Nat /\ Within(x + 0, v.remaining)
      <4>1. x \in Nat /\ Within(x, v.remaining)
        BY <3>1, <3>3 DEF ViewHolds
      <4> QED
        BY <4>1, <3>2 DEF Within
    <3> QED
      BY <3>1, <3>2, <3>3, <1>3
  <2> QED
    BY <2>1, <2>2
<1>6. Clock(s, x, n)
  <2>1. s.view # None => ViewHolds(s.view, x, n)
    BY <1>3, <1>w DEF Clock
  <2> QED
    BY <2>1, <1>3, <1>5, <1>w DEF Clock
<1>7. Good(s, ids, x, n)
  BY <1>2, <1>4, <1>6 DEF Good
<1> QED
  BY <1>7 DEF s

LEMMA ShowGood ==
  ASSUME NEW w, NEW ids, NEW x, NEW n, Good(w, ids, x, n), NEW k \in Kind, NEW j \in ShownJob \cup {None},
         j # None => j.id \in ids
  PROVE  Good(Show(w, k, j), ids, x, n)
<1> DEFINE s == Show(w, k, j)
<1>w. w \in WorkspaceState /\ Known(w, ids) /\ Clock(w, x, n) /\ LoadsSelected(w)
  BY DEF Good
<1> DEFINE b == IF j # None /\ j.status \in Pending THEN "timer" ELSE "off"
<1> DEFINE l == w.listing \/ (k = "submission" /\ w.selected # None /\ j # w.shown[k])
<1>1. s = [w EXCEPT !.shown = [w.shown EXCEPT ![k] = j], !.poll = [w.poll EXCEPT ![k] = b],
                    !.listing = l]
  BY DEF Show
<1>2. l \in BOOLEAN /\ b \in {"off", "timer"} /\ (b = "timer" => j # None)
  BY <1>w DEF WorkspaceState
<1> HIDE DEF b, l
<1>5. w.shown \in [Kind -> ShownJob \cup {None}]
      /\ w.poll \in [Kind -> {"off", "timer", "failed"} \cup JobStatus]
  BY <1>w DEF WorkspaceState
<1> DEFINE f == [w.shown EXCEPT ![k] = j]
           g == [w.poll EXCEPT ![k] = b]
<1>f. f \in [Kind -> ShownJob \cup {None}]
      /\ g \in [Kind -> {"off", "timer", "failed"} \cup JobStatus]
  BY <1>2, <1>5
<1>v. f[k] = j /\ g[k] = b /\ \A i \in Kind \ {k} : f[i] = w.shown[i] /\ g[i] = w.poll[i]
  BY <1>5
<1> HIDE DEF f, g
<1>h. s = [w EXCEPT !.shown = f, !.poll = g, !.listing = l]
  BY <1>1 DEF f, g
<1>3. s \in WorkspaceState
  BY <1>h, <1>2, <1>f, <1>w DEF WorkspaceState
<1>4. /\ s.shown = f /\ s.creating = w.creating /\ s.poll = g
      /\ s.history = w.history /\ s.view = w.view /\ s.examCall = w.examCall
      /\ s.startCall = w.startCall /\ s.lag = w.lag /\ s.remaining = w.remaining
      /\ s.selected = w.selected /\ s.loads = w.loads
  BY <1>h, <1>w DEF WorkspaceState
<1> HIDE DEF s
<1>6. Known(s, ids)
  <2>1. ASSUME NEW i \in Kind
        PROVE  /\ s.shown[i] # None => s.shown[i].id \in ids
               /\ s.poll[i] \in {"timer"} \cup JobStatus => s.shown[i] # None
    <3>1. CASE i = k
      <4>1. s.shown[i] = j /\ s.poll[i] = b
        BY <3>1, <1>4, <1>v
      <4>2. b \in {"timer"} \cup JobStatus => b = "timer"
        BY <1>2 DEF JobStatus
      <4> QED
        BY <4>1, <4>2, <1>2
    <3>2. CASE i # k
      <4>1. s.shown[i] = w.shown[i] /\ s.poll[i] = w.poll[i]
        BY <3>2, <1>4, <1>v
      <4> QED
        BY <4>1, <1>w DEF Known
    <3> QED
      BY <3>1, <3>2
  <2> QED
    BY <2>1, <1>4, <1>w DEF Known
<1>7. Clock(s, x, n) /\ LoadsSelected(s)
  BY <1>4, <1>w DEF Clock, LoadsSelected
<1>8. Good(s, ids, x, n)
  BY <1>3, <1>6, <1>7 DEF Good
<1> QED
  BY <1>8 DEF s

\* A call that is on its way, or gone.
LEMMA CallGood ==
  ASSUME NEW w, NEW ids, NEW x, NEW n, Good(w, ids, x, n), NEW c \in Call,
         c # None /\ c.answer # None => ViewHolds(c.answer, x, n)
  PROVE  Good([w EXCEPT !.examCall = c], ids, x, n) /\ Good([w EXCEPT !.startCall = c], ids, x, n)
<1>w. w \in WorkspaceState /\ Known(w, ids) /\ Clock(w, x, n) /\ LoadsSelected(w)
  BY DEF Good
<1>1. ASSUME NEW s \in {[w EXCEPT !.examCall = c], [w EXCEPT !.startCall = c]}
      PROVE  Good(s, ids, x, n)
  <2>1. s \in WorkspaceState
    BY <1>w DEF WorkspaceState
  <2>2. /\ s.shown = w.shown /\ s.creating = w.creating /\ s.poll = w.poll
        /\ s.history = w.history /\ s.view = w.view /\ s.lag = w.lag /\ s.remaining = w.remaining
        /\ s.selected = w.selected /\ s.loads = w.loads
        /\ s.examCall \in {w.examCall, c} /\ s.startCall \in {w.startCall, c}
    BY <1>w DEF WorkspaceState
  <2>3. Clock(s, x, n)
    BY <2>2, <1>w DEF Clock
  <2> QED
    BY <2>1, <2>2, <2>3, <1>w DEF Good, Known, LoadsSelected
<1> QED
  BY <1>1

\* What is created of each kind.
LEMMA CreatingGood ==
  ASSUME NEW w, NEW ids, NEW x, NEW n, Good(w, ids, x, n), NEW k \in Kind,
         NEW c \in [problem : Problem, id : Job \cup {None}] \cup {None},
         c # None /\ c.id # None => c.id \in ids
  PROVE  Good([w EXCEPT !.creating[k] = c], ids, x, n)
<1> DEFINE s == [w EXCEPT !.creating[k] = c]
<1>w. w \in WorkspaceState /\ Known(w, ids) /\ Clock(w, x, n) /\ LoadsSelected(w)
  BY DEF Good
<1>1. w.creating \in [Kind -> [problem : Problem, id : Job \cup {None}] \cup {None}]
  BY <1>w DEF WorkspaceState
<1>2. s = [w EXCEPT !.creating = [w.creating EXCEPT ![k] = c]]
  OBVIOUS
<1>3. [w.creating EXCEPT ![k] = c]
        \in [Kind -> [problem : Problem, id : Job \cup {None}] \cup {None}]
  BY <1>1
<1>4. s \in WorkspaceState
  BY <1>2, <1>3, <1>w DEF WorkspaceState
<1>5. /\ s.shown = w.shown /\ s.creating = [w.creating EXCEPT ![k] = c] /\ s.poll = w.poll
      /\ s.history = w.history /\ s.view = w.view /\ s.examCall = w.examCall
      /\ s.startCall = w.startCall /\ s.lag = w.lag /\ s.remaining = w.remaining
      /\ s.selected = w.selected /\ s.loads = w.loads
  BY <1>2, <1>w DEF WorkspaceState
<1> HIDE DEF s
<1>6. Known(s, ids)
  BY <1>1, <1>5, <1>w DEF Known
<1>7. Good(s, ids, x, n)
  BY <1>4, <1>5, <1>6, <1>w DEF Good, Clock, LoadsSelected
<1> QED
  BY <1>7 DEF s

\* A poll is answered or fails.
LEMMA PollGood ==
  ASSUME NEW w, NEW ids, NEW x, NEW n, Good(w, ids, x, n), NEW k \in Kind,
         NEW b \in {"failed"} \cup JobStatus, b # "failed" => w.shown[k] # None
  PROVE  Good([w EXCEPT !.poll[k] = b], ids, x, n)
<1> DEFINE s == [w EXCEPT !.poll[k] = b]
<1>w. w \in WorkspaceState /\ Known(w, ids) /\ Clock(w, x, n) /\ LoadsSelected(w)
  BY DEF Good
<1>1. w.poll \in [Kind -> {"off", "timer", "failed"} \cup JobStatus]
  BY <1>w DEF WorkspaceState
<1>2. s = [w EXCEPT !.poll = [w.poll EXCEPT ![k] = b]]
  OBVIOUS
<1>3. [w.poll EXCEPT ![k] = b] \in [Kind -> {"off", "timer", "failed"} \cup JobStatus]
  BY <1>1
<1>4. s \in WorkspaceState
  BY <1>2, <1>3, <1>w DEF WorkspaceState
<1>5. /\ s.shown = w.shown /\ s.creating = w.creating /\ s.poll = [w.poll EXCEPT ![k] = b]
      /\ s.history = w.history /\ s.view = w.view /\ s.examCall = w.examCall
      /\ s.startCall = w.startCall /\ s.lag = w.lag /\ s.remaining = w.remaining
      /\ s.selected = w.selected /\ s.loads = w.loads
  BY <1>2, <1>w DEF WorkspaceState
<1>b. "failed" \notin {"timer"} \cup JobStatus
  BY DEF JobStatus
<1> HIDE DEF s
<1>6. Known(s, ids)
  BY <1>1, <1>5, <1>b, <1>w DEF Known
<1>7. Good(s, ids, x, n)
  BY <1>4, <1>5, <1>6, <1>w DEF Good, Clock, LoadsSelected
<1> QED
  BY <1>7 DEF s

\* Changes of the editor, of the list and of what is loaded.
LEMMA PlainGood ==
  ASSUME NEW w, NEW ids, NEW x, NEW n, Good(w, ids, x, n)
  PROVE  /\ \A c \in Code : Good([w EXCEPT !.source = c], ids, x, n)
         /\ \A c \in Code, u \in (Problem \X Language) \cup {None} :
              Good([w EXCEPT !.source = c, !.unsaved = u], ids, x, n)
         /\ \A l \in Language, c \in Code :
              Good([w EXCEPT !.language = l, !.source = c, !.unsaved = None], ids, x, n)
         /\ Good([w EXCEPT !.loads = {}], ids, x, n)
         /\ \A b \in BOOLEAN : Good([w EXCEPT !.listing = b], ids, x, n)
         /\ \A p \in Problem : p \in w.loads
              => Good([w EXCEPT !.loads = @ \ {p}, !.problem = p], ids, x, n)
         /\ \A h \in SUBSET ShownJob : (\A j \in h : j.id \in ids)
              => Good([w EXCEPT !.listing = FALSE, !.history = h], ids, x, n)
<1>w. w \in WorkspaceState /\ Known(w, ids) /\ Clock(w, x, n) /\ LoadsSelected(w)
  BY DEF Good
<1>k. ASSUME NEW s \in WorkspaceState,
             s.shown = w.shown, s.creating = w.creating, s.poll = w.poll, s.view = w.view,
             s.examCall = w.examCall, s.startCall = w.startCall, s.lag = w.lag,
             s.remaining = w.remaining, s.selected = w.selected, s.loads \subseteq w.loads,
             \A j \in s.history : j.id \in ids
      PROVE  Good(s, ids, x, n)
  <2>1. Known(s, ids)
    BY <1>k, <1>w DEF Known
  <2>2. Clock(s, x, n)
    BY <1>k, <1>w DEF Clock
  <2> QED
    BY <1>k, <2>1, <2>2, <1>w DEF Good, LoadsSelected
<1>h. \A j \in w.history : j.id \in ids
  BY <1>w DEF Known
<1>1. ASSUME NEW c \in Code PROVE Good([w EXCEPT !.source = c], ids, x, n)
  BY <1>k, <1>h, <1>w DEF WorkspaceState
<1>7. ASSUME NEW c \in Code, NEW u \in (Problem \X Language) \cup {None}
      PROVE  Good([w EXCEPT !.source = c, !.unsaved = u], ids, x, n)
  BY <1>k, <1>h, <1>w DEF WorkspaceState
<1>2. ASSUME NEW l \in Language, NEW c \in Code
      PROVE  Good([w EXCEPT !.language = l, !.source = c, !.unsaved = None], ids, x, n)
  BY <1>k, <1>h, <1>w DEF WorkspaceState
<1>3. Good([w EXCEPT !.loads = {}], ids, x, n)
  BY <1>k, <1>h, <1>w DEF WorkspaceState
<1>6. ASSUME NEW b \in BOOLEAN PROVE Good([w EXCEPT !.listing = b], ids, x, n)
  BY <1>k, <1>h, <1>w DEF WorkspaceState
<1>4. ASSUME NEW p \in Problem, p \in w.loads
      PROVE  Good([w EXCEPT !.loads = @ \ {p}, !.problem = p], ids, x, n)
  BY <1>k, <1>h, <1>w DEF WorkspaceState
<1>5. ASSUME NEW h \in SUBSET ShownJob, \A j \in h : j.id \in ids
      PROVE  Good([w EXCEPT !.listing = FALSE, !.history = h], ids, x, n)
  BY <1>5, <1>k, <1>w DEF WorkspaceState
<1> QED
  BY <1>1, <1>2, <1>3, <1>4, <1>5, <1>6, <1>7

\* More jobs on the server, and an exam that starts.
LEMMA LaterGood ==
  ASSUME NEW w, NEW ids, NEW more, NEW x, NEW y, NEW n, Good(w, ids, x, n), ids \subseteq more,
         x = y \/ x \notin Nat
  PROVE  Good(w, more, y, n)
<1>1. Known(w, more)
  BY DEF Good, Known
<1>2. Clock(w, y, n)
  BY DEF Good, Clock, ViewHolds
<1> QED
  BY <1>1, <1>2 DEF Good

\* After a change of the exam no answer on the page was read after all changes.
LEMMA ChangedGood ==
  ASSUME NEW w, NEW ids, NEW x, NEW y, NEW n \in Nat, Good(w, ids, x, n)
  PROVE  Good(w, ids, y, n + 1)
<1>1. ASSUME NEW v, ViewHolds(v, x, n) PROVE ViewHolds(v, y, n + 1) /\ v.changes # n + 1
  BY <1>1 DEF ViewHolds
<1>2. Clock(w, y, n + 1)
  BY <1>1 DEF Good, Clock
<1> QED
  BY <1>2 DEF Good

\* The first render of the component.
LEMMA MountedGood ==
  ASSUME NEW u, IsCandidate \/ u \in Problem, NEW ids, NEW x, NEW n
  PROVE  Good(Mounted(u), ids, x, n)
<1> DEFINE w == Mounted(u)
           p == IF IsCandidate THEN None ELSE u
<1>1. Opened(u) \in Problem
  BY WorkspaceAssumption DEF Opened
<1>2. Sent(Opened(u)) \in Call
  BY <1>1 DEF Sent, Call
<1>3. p \in Problem \cup {None}
  OBVIOUS
<1>4. w = [view |-> None, examCall |-> IF IsCandidate THEN Sent(Opened(u)) ELSE None,
           startCall |-> None, remaining |-> None, lag |-> None,
           selected |-> p, problem |-> None, loads |-> {p} \ {None},
           language |-> Python, source |-> Default, unsaved |-> None,
           shown |-> [k \in Kind |-> None], poll |-> [k \in Kind |-> "off"],
           creating |-> [k \in Kind |-> None],
           history |-> {}, listing |-> p # None]
  BY DEF Mounted
<1> HIDE DEF p
<1>5. (IF IsCandidate THEN Sent(Opened(u)) ELSE None) \in Call /\ None \in Call
  BY <1>2 DEF Call
<1>6. w \in WorkspaceState
  BY <1>3, <1>4, <1>5, WorkspaceAssumption DEF WorkspaceState
<1>7. Known(w, ids)
  BY <1>4 DEF Known, JobStatus
<1>8. Sent(Opened(u)).answer = None
  BY DEF Sent
<1>9. Clock(w, x, n)
  <2>1. /\ w.view = None /\ w.lag = None /\ w.startCall = None
        /\ w.examCall \in {Sent(Opened(u)), None}
    BY <1>4
  <2> QED
    BY <2>1, <1>8 DEF Clock
<1>10. LoadsSelected(w)
  BY <1>4 DEF LoadsSelected
<1> QED
  BY <1>6, <1>7, <1>9, <1>10 DEF Good

-----------------------------------------------------------------------------
(* Types and the clock *)

PageState == [view : View \cup {None}, loading : BOOLEAN]

\* TypeOK, one named part per variable.
RoleType == role \in {"candidate", "problem_admin"}
ExamType == exam \in 0..Seconds * Grain \cup {None}
JobType == job \in [Job -> JobRow \cup {None}]
DraftsType == drafts \in [Problem -> [Language -> Code]]
UrlType == url \in {"login", "list", "home"} \cup Problem
FlagsType == checking \in BOOLEAN /\ jumps \in 0..MaxJumps /\ changes \in 0..MaxChanges
PageType == page \in PageState \cup {None}

WorkspaceGood == ws # None => Good(ws, JobIds, exam, changes)

\* The workspace and the page of the assignments are at different addresses.
OnePage ==
  /\ ws # None => page = None /\ Workplace(url)
  /\ page # None => url = "list"

IInv ==
  /\ RoleType /\ ExamType /\ JobType /\ DraftsType /\ UrlType /\ FlagsType /\ PageType
  /\ WorkspaceGood /\ OnePage

LEMMA Types == IInv => TypeOK
BY DEF IInv, TypeOK, RoleType, ExamType, JobType, DraftsType, UrlType, FlagsType, PageType,
       WorkspaceGood, PageState, JobRow, Good

LEMMA ExamViewHolds ==
  ExamType /\ FlagsType => ExamView \in View /\ ViewHolds(ExamView, exam, changes)
<1> SUFFICES ASSUME ExamType, FlagsType
             PROVE  ExamView \in View /\ ViewHolds(ExamView, exam, changes)
  OBVIOUS
<1>c. changes \in Nat /\ changes \in 0..MaxChanges
  BY WorkspaceAssumption DEF FlagsType
<1>1. CASE exam = None
  BY <1>1, <1>c DEF ExamView, View, ViewHolds, ExamStatus
<1>2. CASE exam # None
  <2> DEFINE r == exam \div Grain
  <2>1. exam \in Nat /\ exam <= Seconds * Grain
    BY <1>2, Numbers DEF ExamType
  <2>2. r \in Nat /\ exam <= r * Grain + Grain - 1 /\ r * Grain <= exam
    BY <2>1, Numbers
  <2>3. r <= Seconds
    <3>1. ASSUME r >= Seconds + 1 PROVE FALSE
      <4>1. r * Grain >= (Seconds + 1) * Grain
        BY <3>1, <2>2, Numbers
      <4>2. (Seconds + 1) * Grain = Seconds * Grain + Grain
        BY Numbers
      <4> QED
        BY <4>1, <4>2, <2>1, <2>2, Numbers
    <3> QED
      BY <3>1, <2>2, Numbers
  <2>4. ExamView = [status |-> IF r > 0 THEN "started" ELSE "expired", remaining |-> r,
                    changes |-> changes]
    BY <1>2 DEF ExamView, RemainingSeconds
  <2> HIDE DEF r
  <2>5. ExamView \in View
    BY <2>2, <2>3, <2>4, <1>c, Numbers DEF View, ExamStatus
  <2>6. ViewHolds(ExamView, exam, changes)
    BY <2>1, <2>2, <2>4, <1>c DEF ViewHolds, Within
  <2> QED
    BY <2>5, <2>6
<1> QED
  BY <1>1, <1>2

LEMMA InitGood == Init => IInv
<1> SUFFICES ASSUME Init PROVE IInv
  OBVIOUS
<1>1. RoleType /\ UrlType
  BY DEF Init, RoleType, UrlType
<1>6. PageType
  BY DEF Init, PageType
<1>5. ExamType
  BY DEF Init, ExamType
<1>3. FlagsType
  <2>1. checking = FALSE /\ jumps = 0 /\ changes = 0
    BY DEF Init
  <2>2. MaxJumps \in Nat /\ MaxChanges \in Nat
    BY WorkspaceAssumption
  <2>3. 0 \in 0..MaxJumps /\ 0 \in 0..MaxChanges
    BY <2>2
  <2> QED
    BY <2>1, <2>3, Zenon DEF FlagsType
<1>4. WorkspaceGood /\ OnePage
  BY DEF Init, WorkspaceGood, OnePage
<1>2. JobType /\ DraftsType
  BY WorkspaceAssumption DEF Init, JobType, DraftsType
<1> QED
  BY <1>1, <1>2, <1>3, <1>4, <1>5, <1>6 DEF IInv

\* What a visit of an address renders.
LEMMA VisitGood ==
  ASSUME NEW u \in {"login", "list", "home"} \cup Problem, Visit(u), RoleType, UNCHANGED role
  PROVE  UrlType' /\ PageType' /\ WorkspaceGood' /\ OnePage'
<1>1. url' = u /\ UrlType'
  BY DEF Visit, UrlType
<1>2. PageType'
  BY DEF Visit, PageType, PageState, IsCandidate
<1>3. ASSUME Workplace(u) PROVE IsCandidate \/ u \in Problem
  BY <1>3 DEF Workplace
<1>4. ws' = IF Workplace(u) THEN Mounted(u) ELSE None
  BY DEF Visit
<1>5. Workplace(u) => \A ids, x, n : Good(Mounted(u), ids, x, n)
  BY <1>3, MountedGood
<1>6. WorkspaceGood'
  BY <1>4, <1>5 DEF WorkspaceGood
<1>7. ~Workplace("list")
  BY WorkspaceAssumption DEF Workplace
<1>8. Workplace(u) => Workplace(url)'
  BY <1>1 DEF Workplace, IsCandidate
<1>9. OnePage'
  BY <1>1, <1>4, <1>7, <1>8 DEF Visit, OnePage
<1> QED
  BY <1>1, <1>2, <1>6, <1>9

\* A step that only changes the state of the mounted component.
LEMMA UpdateGood ==
  ASSUME IInv, ws # None, NEW w, Update(w), Good(w, JobIds', exam', changes'),
         ExamType', JobType', UNCHANGED changes
  PROVE  IInv'
BY DEF Update, frame, IInv, RoleType, DraftsType, UrlType, FlagsType, PageType, WorkspaceGood,
       OnePage, Workplace, IsCandidate

\* Every step keeps the invariant.
LEMMA Step == IInv /\ [Next]_vars => IInv'
<1> SUFFICES ASSUME IInv, [Next]_vars PROVE IInv'
  OBVIOUS
<1>p. /\ RoleType /\ ExamType /\ JobType /\ DraftsType /\ UrlType /\ FlagsType /\ PageType
      /\ WorkspaceGood /\ OnePage
  BY DEF IInv
<1>g. ws # None => Good(ws, JobIds, exam, changes)
  BY <1>p DEF WorkspaceGood
<1>w. ws # None => ws \in WorkspaceState
  BY <1>g DEF Good
<1>v. ExamView \in View /\ ViewHolds(ExamView, exam, changes)
  BY <1>p, ExamViewHolds
<1>ue. UNCHANGED exam => ExamType'
  BY <1>p DEF ExamType
<1>uj. UNCHANGED job => JobType' /\ JobIds' = JobIds
  BY <1>p DEF JobType, JobIds
<1>ud. UNCHANGED drafts => DraftsType'
  BY <1>p DEF DraftsType
<1>ur. UNCHANGED role => RoleType'
  BY <1>p DEF RoleType
<1>c. None \in Call
  BY DEF Call
\* A step of the component between two calls of the server.
<1>k. ASSUME ws # None, NEW w, Update(w), UNCHANGED <<exam, changes, job>>,
             Good(w, JobIds, exam, changes)
      PROVE  IInv'
  BY <1>k, <1>ue, <1>uj, UpdateGood
\* A step that renders another address.
<1>r. ASSUME NEW u \in {"login", "list", "home"} \cup Problem, Visit(u), FlagsType',
             UNCHANGED <<role, exam, job, drafts>>
      PROVE  IInv'
  BY <1>r, <1>p, <1>ue, <1>uj, <1>ud, <1>ur, VisitGood DEF IInv
<1>1. CASE Login
  BY <1>1, <1>r, <1>p DEF Login, Home, FlagsType
<1>2. CASE Logout
  BY <1>2, <1>r, <1>p DEF Logout, FlagsType
<1>3. CASE Reload
  BY <1>3, <1>p, <1>ue, <1>uj, <1>ud, <1>ur DEF Reload, IInv, UrlType, FlagsType, PageType,
     WorkspaceGood, OnePage
<1>4. CASE MeArrives
  <2>1. FlagsType'
    BY <1>4, <1>p DEF MeArrives, FlagsType
  <2>2. CASE ws = None /\ page = None
    BY <1>4, <2>1, <2>2, <1>r, <1>p DEF MeArrives, UrlType
  <2>3. CASE ~(ws = None /\ page = None)
    BY <1>4, <2>1, <2>3, <1>p, <1>ue, <1>uj, <1>ud, <1>ur DEF MeArrives, IInv, UrlType, PageType,
       WorkspaceGood, OnePage, Workplace, IsCandidate
  <2> QED
    BY <2>2, <2>3
<1>5. CASE MeFails
  BY <1>5, <1>r, <1>p DEF MeFails, FlagsType
<1>6. CASE OpenList
  BY <1>6, <1>r, <1>p DEF OpenList, FlagsType
<1>7. CASE OpenHome
  BY <1>7, <1>r, <1>p DEF OpenHome, FlagsType
<1>8. CASE PageArrives
  <2>1. PageType' /\ FlagsType' /\ UrlType'
    BY <1>8, <1>p, <1>v DEF PageArrives, PageType, PageState, FlagsType, UrlType
  <2>2. WorkspaceGood' /\ OnePage'
    BY <1>8, <1>p, <1>uj DEF PageArrives, WorkspaceGood, OnePage
  <2> QED
    BY <1>8, <2>1, <2>2, <1>ue, <1>uj, <1>ud, <1>ur DEF PageArrives, IInv
<1>s. ASSUME exam' = StartedExam PROVE ExamType' /\ (exam = exam' \/ exam \notin Nat)
  BY <1>s, <1>p, Numbers, NoNull DEF StartedExam, ExamType
<1>y. (ExamType /\ FlagsType => ExamView \in View /\ ViewHolds(ExamView, exam, changes))'
  BY ExamViewHolds, PTL
<1>x. ExamType' /\ FlagsType' => ExamView' \in View /\ ViewHolds(ExamView', exam', changes')
  BY <1>y DEF ViewHolds
<1>9. CASE StartOnPage
  <2>1. page # None /\ ws = None /\ url = "list"
    BY <1>9, <1>p DEF StartOnPage, OnePage
  <2>2. page \in PageState /\ ExamType' /\ ExamView' \in View
    BY <1>9, <2>1, <1>p, <1>s, <1>x DEF StartOnPage, PageType, FlagsType
  <2>3. page' \in PageState
    BY <1>9, <2>2 DEF StartOnPage, PageState
  <2>4. PageType' /\ FlagsType' /\ UrlType' /\ WorkspaceGood' /\ OnePage'
    BY <1>9, <2>1, <2>3, <1>p DEF StartOnPage, PageType, FlagsType, UrlType, WorkspaceGood, OnePage
  <2> QED
    BY <1>9, <2>2, <2>4, <1>uj, <1>ud, <1>ur DEF StartOnPage, IInv
<1>10. ASSUME NEW p \in Problem, OpenProblem(p) PROVE IInv'
  BY <1>10, <1>r, <1>p DEF OpenProblem, FlagsType
<1>11. ASSUME NEW p \in Problem, ProblemArrives(p) PROVE IInv'
  <2> DEFINE w == [ws EXCEPT !.loads = @ \ {p}, !.problem = p]
  <2>1. Good(w, JobIds, exam, changes)
    BY <1>11, <1>g, PlainGood DEF ProblemArrives
  <2> HIDE DEF w
  <2>2. "run" \in Kind => Good(Show(w, "run", None), JobIds, exam, changes)
    BY <2>1, ShowGood
  <2> QED
    BY <1>11, <2>1, <2>2, <1>k DEF ProblemArrives, w
<1>12. ASSUME NEW u \in Problem \cup {"home"}, Jump(u) PROVE IInv'
  <2>1. Opened(u) \in Problem
    BY WorkspaceAssumption DEF Opened
  <2>2. Sent(Opened(u)) \in Call /\ Sent(Opened(u)).answer = None
    BY <2>1 DEF Sent, Call
  <2>3. Good(ws', JobIds, exam, changes)
    BY <1>12, <2>2, <1>g, CallGood DEF Jump
  <2>4. WorkspaceGood' /\ OnePage'
    BY <1>12, <2>3, <1>uj, <1>p DEF Jump, WorkspaceGood, OnePage, Workplace, IsCandidate
  <2>5. UrlType' /\ FlagsType' /\ PageType'
    BY <1>12, <1>p, WorkspaceAssumption DEF Jump, UrlType, FlagsType, PageType
  <2> QED
    BY <1>12, <2>4, <2>5, <1>ue, <1>uj, <1>ud, <1>ur DEF Jump, IInv
<1>13. CASE ExamAnswered
  <2> DEFINE c == [ws.examCall EXCEPT !.answer = ExamView]
  <2>1. ws.examCall # None /\ ws.examCall \in Call
    BY <1>13, <1>w DEF ExamAnswered, WorkspaceState
  <2>2. c \in Call /\ c.answer = ExamView
    BY <2>1, <1>v DEF Call
  <2>3. Good([ws EXCEPT !.examCall = c], JobIds, exam, changes)
    BY <1>13, <2>2, <1>g, <1>v, CallGood DEF ExamAnswered
  <2> QED
    BY <1>13, <2>3, <1>k DEF ExamAnswered
<1>14. CASE ExamArrives
  <2> DEFINE w == [ws EXCEPT !.examCall = None]
             v == ws.examCall.answer
             o == ws.examCall.opens
  <2>1. ws.examCall # None /\ ws.examCall \in Call /\ v # None
    BY <1>14, <1>w DEF ExamArrives, WorkspaceState
  <2>2. v \in View /\ o \in Problem
    BY <2>1 DEF Call
  <2>3. ViewHolds(v, exam, changes)
    BY <1>14, <2>1, <1>g DEF ExamArrives, Good, Clock
  <2>4. Good(w, JobIds, exam, changes)
    BY <1>14, <1>g, <1>c, CallGood DEF ExamArrives
  <2>5. Update(ApplyExam(w, v, o))
    BY <1>14 DEF ExamArrives
  <2> HIDE DEF w, v, o
  <2>6. Good(SetExam(w, v), JobIds, exam, changes)
    BY <2>2, <2>3, <2>4, SetExamGood
  <2>7. (IF v.status = "started" THEN o ELSE None) \in Problem \cup {None}
    BY <2>2
  <2>8. Good(ApplyExam(w, v, o), JobIds, exam, changes)
    BY <2>6, <2>7, <1>p, SelectGood DEF ApplyExam, DraftsType
  <2> QED
    BY <1>14, <2>5, <2>8, <1>k DEF ExamArrives
<1>15. CASE ClickStart
  <2>1. Opened(url) \in Problem
    BY WorkspaceAssumption DEF Opened
  <2>2. Sent(Opened(url)) \in Call /\ Sent(Opened(url)).answer = None
    BY <2>1 DEF Sent, Call
  <2>3. ws # None /\ Good([ws EXCEPT !.startCall = Sent(Opened(url))], JobIds, exam, changes)
    BY <1>15, <2>2, <1>g, CallGood DEF ClickStart, AtGate
  <2> QED
    BY <1>15, <2>3, <1>k DEF ClickStart
<1>16. CASE StartAnswered
  <2> DEFINE c == [ws.startCall EXCEPT !.answer = ExamView']
  <2>1. ws.startCall # None /\ ws.startCall \in Call
    BY <1>16, <1>w DEF StartAnswered, WorkspaceState
  <2>2. ExamType' /\ ExamView' \in View /\ ViewHolds(ExamView', exam', changes')
    BY <1>16, <1>p, <1>s, <1>x DEF StartAnswered, Update, frame, FlagsType
  <2>3. c \in Call /\ c.answer = ExamView'
    BY <2>1, <2>2 DEF Call
  <2>4. Good(ws, JobIds', exam', changes')
    <3>1. Good(ws, JobIds, exam, changes) /\ JobIds \subseteq JobIds'
      BY <1>16, <1>g, <1>uj DEF StartAnswered
    <3> QED
      BY <1>16, <3>1, <1>s, LaterGood DEF StartAnswered
  <2>5. Good([ws EXCEPT !.startCall = c], JobIds', exam', changes')
    BY <2>2, <2>3, <2>4, CallGood
  <2> QED
    BY <1>16, <2>2, <2>5, <1>uj, UpdateGood DEF StartAnswered
<1>17. CASE StartArrives
  <2> DEFINE z == [ws EXCEPT !.startCall = None]
             v == ws.startCall.answer
             o == ws.startCall.opens
             w == SetExam(z, v)
  <2>1. ws.startCall # None /\ ws.startCall \in Call /\ v # None
    BY <1>17, <1>w DEF StartArrives, WorkspaceState
  <2>2. v \in View /\ o \in Problem
    BY <2>1 DEF Call
  <2>3. ViewHolds(v, exam, changes)
    BY <1>17, <2>1, <1>g DEF StartArrives, Good, Clock
  <2>4. Good(z, JobIds, exam, changes)
    BY <1>17, <1>g, <1>c, CallGood DEF StartArrives
  <2>5. Update(IF v.status = "started" THEN Select(w, o) ELSE w)
    BY <1>17 DEF StartArrives
  <2> HIDE DEF z, v, o
  <2>6. Good(w, JobIds, exam, changes)
    BY <2>2, <2>3, <2>4, SetExamGood
  <2> HIDE DEF w
  <2>7. Good(Select(w, o), JobIds, exam, changes)
    BY <2>2, <2>6, <1>p, SelectGood DEF DraftsType
  <2> QED
    BY <1>17, <2>5, <2>6, <2>7, <1>k DEF StartArrives
<1>18. CASE Countdown
  <2> DEFINE r == IF ws.remaining > 1 THEN ws.remaining - 1 ELSE 0
             g == ws.lag - Grain
             w == [ws EXCEPT !.remaining = r, !.lag = g]
             Current == ws.view.changes = changes
  <2>1. /\ ws # None /\ ws.lag \in Nat /\ ws.lag <= MaxLag /\ ws.lag >= Grain
        /\ ws.remaining \in Nat /\ ws.remaining <= Seconds /\ ws.view.remaining \in Nat
        /\ ws.view \in View /\ ViewHolds(ws.view, exam, changes) /\ ws.view.status = "started"
        /\ Current =>
             /\ exam \in Nat
             /\ exam = 0 \/ (Within(exam + ws.lag, ws.remaining)
                               /\ Within(exam + ws.lag, ws.view.remaining))
    <3>1. /\ ws # None /\ ws.lag # None /\ ws.lag >= Grain
          /\ ws.lag \in 0..MaxLag \cup {None} /\ ws.remaining \in 0..Seconds \cup {None}
      BY <1>18, <1>w DEF Countdown, WorkspaceState
    <3>2. /\ ws.remaining \in Nat /\ ws.view.remaining \in Nat
          /\ ws.view \in View /\ ViewHolds(ws.view, exam, changes) /\ ws.view.status = "started"
          /\ Current =>
               /\ exam \in Nat
               /\ exam = 0 \/ (Within(exam + ws.lag, ws.remaining)
                                 /\ Within(exam + ws.lag, ws.view.remaining))
      BY <3>1, <1>g DEF Good, Clock
    <3> QED
      BY <3>1, <3>2, Numbers, NoNull
  <2>2. /\ g \in Nat /\ g <= MaxLag /\ r \in Nat /\ r <= Seconds
        /\ Current => exam = 0 \/ (Within(exam + g, r) /\ Within(exam + g, ws.view.remaining))
    <3>1. g \in Nat /\ g <= MaxLag /\ r \in Nat /\ r <= Seconds
      BY <2>1, Numbers
    <3>2. ASSUME Current, exam # 0 PROVE Within(exam + g, ws.view.remaining)
      <4>1. /\ exam \in Nat /\ Within(exam + ws.lag, ws.view.remaining)
            /\ exam + g \in Nat /\ exam + ws.lag \in Nat /\ exam + g <= exam + ws.lag
        BY <2>1, <3>1, <3>2, Numbers
      <4> QED
        BY <4>1, <2>1, LessWithin
    <3>3. ASSUME Current, exam # 0 PROVE Within(exam + g, r)
      <4>4. exam \in Nat
        BY <2>1, <3>3
      <4>1. exam + ws.lag <= ws.remaining * Grain + Grain - 1
        BY <2>1, <3>3 DEF Within
      <4>2. CASE ws.remaining > 1
        <5>1. r * Grain = ws.remaining * Grain - Grain
          BY <4>2, <2>1, Numbers
        <5> QED
          BY <4>1, <4>4, <5>1, <3>1, <2>1, Numbers DEF Within
      <4>3. CASE ~(ws.remaining > 1)
        <5>1. ws.remaining * Grain <= Grain /\ r * Grain = 0
          <6>1. ws.remaining = 0 \/ ws.remaining = 1
            BY <4>3, <2>1
          <6> QED
            BY <6>1, <4>3, Numbers
        <5> QED
          BY <4>1, <4>4, <5>1, <3>1, <2>1, Numbers DEF Within
      <4> QED
        BY <4>2, <4>3
    <3> QED
      BY <3>1, <3>2, <3>3
  <2>3. Update(IF r = 0 THEN ApplyExam(w, Expired(w.view), None) ELSE w)
    BY <1>18 DEF Countdown
  <2>t. /\ ws \in WorkspaceState
        /\ g \in 0..MaxLag \cup {None} /\ r \in 0..Seconds \cup {None}
    BY <2>1, <2>2, <1>w, Numbers
  <2> HIDE DEF r, g
  <2>4. /\ w \in WorkspaceState
        /\ w.shown = ws.shown /\ w.creating = ws.creating /\ w.poll = ws.poll
        /\ w.history = ws.history /\ w.view = ws.view /\ w.examCall = ws.examCall
        /\ w.startCall = ws.startCall /\ w.lag = g /\ w.remaining = r
        /\ w.selected = ws.selected /\ w.loads = ws.loads
    BY <2>t DEF WorkspaceState
  <2> HIDE DEF w
  <2>5. Known(w, JobIds) /\ LoadsSelected(w)
    BY <2>1, <2>4, <1>g DEF Good, Known, LoadsSelected
  <2>6. Clock(w, exam, changes)
    BY <2>1, <2>2, <2>4, <1>g DEF Good, Clock
  <2>7. Good(w, JobIds, exam, changes)
    BY <2>4, <2>5, <2>6 DEF Good
  <2>8. ASSUME r = 0 PROVE Good(ApplyExam(w, Expired(w.view), None), JobIds, exam, changes)
    <3> DEFINE v == Expired(w.view)
    <3>1. ASSUME Current PROVE exam \in Nat /\ Within(exam, 0)
      <4>1. CASE exam = 0
        BY <4>1, Numbers DEF Within
      <4>2. CASE exam # 0
        <5>1. exam \in Nat /\ Within(exam + g, 0) /\ exam <= exam + g /\ exam + g \in Nat
          BY <3>1, <4>2, <2>1, <2>2, <2>8
        <5> QED
          BY <5>1, LessWithin
      <4> QED
        BY <4>1, <4>2
    <3>4. /\ w.view \in View /\ ViewHolds(w.view, exam, changes)
      BY <2>1, <2>4
    <3>5. v \in View /\ v.status = "expired" /\ v.remaining = 0 /\ v.changes = w.view.changes
      BY <3>4, ExpiredView
    <3> HIDE DEF v
    <3>2. ViewHolds(v, exam, changes)
      BY <3>1, <3>4, <3>5, <2>1, <2>4 DEF ViewHolds
    <3>3. Good(SetExam(w, v), JobIds, exam, changes)
      BY <3>2, <3>5, <2>7, SetExamGood
    <3> QED
      BY <3>3, <1>p, SelectGood DEF ApplyExam, DraftsType, v
  <2> QED
    BY <1>18, <2>1, <2>3, <2>7, <2>8, <1>k DEF Countdown
<1>19. CASE Tick
  <2>1. ExamType'
    <3> DEFINE m == Seconds * Grain
    <3>1. exam \in 0..m \cup {None} /\ m \in Nat
      BY <1>p, Numbers DEF ExamType
    <3>2. exam' = IF exam = None \/ exam = 0 THEN exam ELSE exam - 1
      BY <1>19 DEF Tick
    <3> HIDE DEF m
    <3>3. exam' \in 0..m \cup {None}
      BY <3>1, <3>2
    <3> QED
      BY <3>3 DEF ExamType, m
  <2>2. /\ exam' = exam \/ (exam \in Nat /\ exam > 0 /\ exam' = exam - 1)
        /\ exam \in Nat => exam' = IF exam = 0 THEN 0 ELSE exam - 1
    BY <1>19, <1>p, Numbers, NoNull DEF Tick, ExamType
  <2>3. ASSUME NEW v, ViewHolds(v, exam, changes) PROVE ViewHolds(v, exam', changes)
    BY <2>2, <2>3, Numbers DEF ViewHolds, Within
  <2>4. WorkspaceGood'
    <3>1. CASE ws = None
      BY <1>19, <3>1 DEF Tick, WorkspaceGood
    <3>2. CASE ws # None
      <4>1. /\ ws \in WorkspaceState /\ Known(ws, JobIds) /\ Clock(ws, exam, changes)
            /\ LoadsSelected(ws)
        BY <3>2, <1>g DEF Good
      <4> DEFINE g == IF ws.lag # None /\ ws.lag < MaxLag THEN ws.lag + 1 ELSE ws.lag
      <4>2. g \in 0..MaxLag \cup {None} /\ (ws.lag = None => g = None)
            /\ (ws.lag # None => ws.lag \in Nat /\ g \in Nat /\ g <= ws.lag + 1)
        BY <4>1, Numbers, NoNull DEF WorkspaceState
      <4>3. ws' = [ws EXCEPT !.lag = g]
        <5>1. CASE ws.lag # None /\ ws.lag < MaxLag
          BY <1>19, <3>2, <5>1 DEF Tick
        <5>2. CASE ~(ws.lag # None /\ ws.lag < MaxLag)
          BY <1>19, <4>1, <5>2 DEF Tick, WorkspaceState
        <5> QED
          BY <5>1, <5>2
      <4> HIDE DEF g
      <4>4. /\ ws' \in WorkspaceState
            /\ ws'.shown = ws.shown /\ ws'.creating = ws.creating /\ ws'.poll = ws.poll
            /\ ws'.history = ws.history /\ ws'.view = ws.view /\ ws'.examCall = ws.examCall
            /\ ws'.startCall = ws.startCall /\ ws'.lag = g /\ ws'.remaining = ws.remaining
            /\ ws'.selected = ws.selected /\ ws'.loads = ws.loads
        BY <4>2, <4>3, <4>1 DEF WorkspaceState
      <4>5. Known(ws', JobIds) /\ LoadsSelected(ws')
        BY <4>1, <4>4 DEF Known, LoadsSelected
      <4>6. ASSUME ws.lag # None
            PROVE  /\ ws.view \in View /\ ViewHolds(ws.view, exam, changes)
                   /\ ws.view.status = "started"
                   /\ ws.remaining \in Nat /\ ws.view.remaining \in Nat
        BY <4>1, <4>6 DEF Clock
      <4>9. ASSUME ws.lag # None, ws.view.changes = changes
            PROVE  /\ exam' \in Nat
                   /\ exam' = 0 \/ (Within(exam' + g, ws.remaining)
                                      /\ Within(exam' + g, ws.view.remaining))
        <5>1. /\ exam \in Nat
              /\ ws.remaining \in Nat /\ ws.view.remaining \in Nat
              /\ exam = 0 \/ (Within(exam + ws.lag, ws.remaining)
                                /\ Within(exam + ws.lag, ws.view.remaining))
          BY <4>1, <4>9 DEF Clock
        <5>2. exam' \in Nat /\ (exam = 0 => exam' = 0) /\ (exam # 0 => exam' = exam - 1)
          BY <2>2, <5>1
        <5>3. ASSUME exam # 0
              PROVE  Within(exam' + g, ws.remaining) /\ Within(exam' + g, ws.view.remaining)
          <6> DEFINE y == exam' + g
                     z == exam + ws.lag
          <6>1. y \in Nat /\ z \in Nat /\ y <= z
            BY <5>1, <5>2, <5>3, <4>2, <4>9
          <6>2. Within(z, ws.remaining) /\ Within(z, ws.view.remaining)
            BY <5>1, <5>3
          <6> HIDE DEF y, z
          <6>3. Within(y, ws.remaining) /\ Within(y, ws.view.remaining)
            BY <6>1, <6>2, <5>1, LessWithin
          <6> QED
            BY <6>3 DEF y
        <5> QED
          BY <5>1, <5>2, <5>3
      <4>7. Clock(ws', exam', changes)
        BY <4>1, <4>2, <4>4, <4>6, <4>9, <2>3 DEF Clock
      <4>8. Good(ws', JobIds, exam', changes)
        BY <4>4, <4>5, <4>7 DEF Good
      <4> QED
        BY <1>19, <4>8, <1>uj DEF Tick, WorkspaceGood
    <3> QED
      BY <3>1, <3>2
  <2>5. ws' # None => ws # None
    BY <1>19 DEF Tick
  <2>6. OnePage' /\ RoleType' /\ UrlType' /\ FlagsType' /\ PageType'
    BY <1>19, <2>5, <1>p DEF Tick, frame, OnePage, Workplace, IsCandidate, RoleType, UrlType,
       FlagsType, PageType
  <2> QED
    BY <1>19, <2>1, <2>4, <2>6, <1>uj, <1>ud DEF Tick, IInv
<1>20. ASSUME NEW c \in Code, Type(c) PROVE IInv'
  <2> DEFINE at == <<ws.selected, ws.language>>
  <2>4. ws # None /\ None \in (Problem \X Language) \cup {None}
        /\ (ws.selected # None => at \in (Problem \X Language) \cup {None})
    BY <1>20, <1>w DEF Type, EditorShown, WorkspaceState
  <2>5. \/ ws' = [ws EXCEPT !.source = c]
        \/ ws' = [ws EXCEPT !.source = c, !.unsaved = None]
        \/ ws.selected # None /\ ws' = [ws EXCEPT !.source = c, !.unsaved = at]
    BY <1>20 DEF Type
  <2> HIDE DEF at
  <2>1. ws # None /\ Good(ws', JobIds, exam, changes)
    <3>1. CASE ws' = [ws EXCEPT !.source = c]
      BY <3>1, <2>4, <1>g, PlainGood
    <3>2. ASSUME NEW u \in (Problem \X Language) \cup {None},
                 ws' = [ws EXCEPT !.source = c, !.unsaved = u]
          PROVE  ws # None /\ Good(ws', JobIds, exam, changes)
      BY <3>2, <2>4, <1>g, PlainGood
    <3> QED
      BY <3>1, <3>2, <2>4, <2>5
  <2>2. WorkspaceGood' /\ OnePage' /\ RoleType' /\ UrlType' /\ FlagsType' /\ PageType'
    BY <1>20, <2>1, <1>p, <1>uj DEF Type, frame, WorkspaceGood, OnePage, Workplace, IsCandidate,
       RoleType, UrlType, FlagsType, PageType
  <2>3. DraftsType'
    BY <1>20, <1>p, <1>w DEF Type, SavedDraft, DraftsType
  <2> QED
    BY <1>20, <2>2, <2>3, <1>ue, <1>uj DEF Type, IInv
<1>21. ASSUME NEW l \in Language, ChooseLanguage(l) PROVE IInv'
  <2> DEFINE c == IF IsCandidate /\ ws.selected # None THEN Draft(ws.selected, l) ELSE ws.source
  <2>1. ws # None /\ Update([ws EXCEPT !.language = l, !.source = c, !.unsaved = None])
    BY <1>21 DEF ChooseLanguage, EditorShown
  <2>2. c \in Code
    BY <2>1, <1>w, <1>p DEF WorkspaceState, Draft, DraftsType
  <2> HIDE DEF c
  <2>3. Good([ws EXCEPT !.language = l, !.source = c, !.unsaved = None], JobIds, exam, changes)
    BY <2>1, <2>2, <1>g, PlainGood
  <2> QED
    BY <1>21, <2>1, <2>3, <1>k DEF ChooseLanguage
<1>22. ASSUME NEW k \in Kind, ClickRun(k) PROVE IInv'
  <2> DEFINE c == [problem |-> ws.problem, id |-> None]
  <2>1. ws # None /\ Update([ws EXCEPT !.creating[k] = c])
    BY <1>22 DEF ClickRun, EditorShown
  <2>2. c \in [problem : Problem, id : Job \cup {None}] /\ c.id = None
    BY <1>22, <2>1, <1>w DEF ClickRun, WorkspaceState
  <2> HIDE DEF c
  <2>3. Good([ws EXCEPT !.creating[k] = c], JobIds, exam, changes)
    BY <2>1, <2>2, <1>g, CreatingGood
  <2> QED
    BY <1>22, <2>1, <2>3, <1>k DEF ClickRun
<1>23. ASSUME NEW k \in Kind, NEW j \in Job, CreateJob(k, j) PROVE IInv'
  <2> DEFINE c == [ws.creating[k] EXCEPT !.id = j]
  <2>1. /\ ws # None /\ ws.creating[k] \in [problem : Problem, id : Job \cup {None}]
        /\ Update([ws EXCEPT !.creating[k].id = j])
    BY <1>23, <1>w DEF CreateJob, WorkspaceState
  <2>2. [ws EXCEPT !.creating[k].id = j] = [ws EXCEPT !.creating[k] = c]
    OBVIOUS
  <2>3. c \in [problem : Problem, id : Job \cup {None}] /\ c.id = j
    BY <2>1
  <2>4. [kind |-> k, problem |-> ws.creating[k].problem, status |-> "queued"] \in JobRow
    BY <2>1 DEF JobRow, JobStatus
  <2>5. JobType'
    BY <1>23, <2>4, <1>p DEF CreateJob, JobType
  <2>6. JobIds \subseteq JobIds' /\ j \in JobIds'
    BY <1>23, <2>4, <1>p DEF CreateJob, JobIds, JobType
  <2>7. Good(ws, JobIds', exam, changes)
    BY <2>1, <2>6, <1>g, LaterGood
  <2> HIDE DEF c
  <2>8. Good([ws EXCEPT !.creating[k] = c], JobIds', exam, changes)
    BY <2>3, <2>6, <2>7, CreatingGood
  <2>9. UNCHANGED <<exam, changes>> /\ ExamType'
    BY <1>23, <1>ue DEF CreateJob
  <2> QED
    BY <2>1, <2>2, <2>5, <2>8, <2>9, UpdateGood
<1>24. ASSUME NEW k \in Kind, CreatedArrives(k) PROVE IInv'
  <2> DEFINE w == [ws EXCEPT !.creating[k] = None]
             j == [id |-> ws.creating[k].id, status |-> "queued"]
  <2>1. /\ ws # None /\ ws.creating[k] # None /\ ws.creating[k].id # None
        /\ ws.creating[k] \in [problem : Problem, id : Job \cup {None}]
        /\ Update(Show(w, k, j))
    BY <1>24, <1>w DEF CreatedArrives, WorkspaceState
  <2>2. ws.creating[k].id \in JobIds
    BY <2>1, <1>g DEF Good, Known
  <2>3. j \in ShownJob /\ j.id \in JobIds
    BY <2>1, <2>2 DEF ShownJob, JobStatus
  <2>4. Good(w, JobIds, exam, changes)
    BY <2>1, <1>g, CreatingGood
  <2> HIDE DEF w, j
  <2>5. Good(Show(w, k, j), JobIds, exam, changes)
    BY <2>3, <2>4, ShowGood
  <2> QED
    BY <1>24, <2>1, <2>5, <1>k DEF CreatedArrives
<1>25. ASSUME NEW k \in Kind, PollAnswered(k) PROVE IInv'
  <2> DEFINE b == job[ws.shown[k].id].status
  <2>1. ws # None /\ ws.shown[k] # None /\ ws.shown[k].id \in JobIds
    BY <1>25, <1>g DEF PollAnswered, Good, Known
  <2>2. b \in JobStatus
    BY <2>1, <1>p DEF JobIds, JobType, JobRow
  <2> HIDE DEF b
  <2>3. Good([ws EXCEPT !.poll[k] = b], JobIds, exam, changes)
    BY <2>1, <2>2, <1>g, PollGood
  <2> QED
    BY <1>25, <2>1, <2>3, <1>k DEF PollAnswered, b
<1>26. ASSUME NEW k \in Kind, PollArrives(k) PROVE IInv'
  <2> DEFINE j == [ws.shown[k] EXCEPT !.status = ws.poll[k]]
  <2>1. /\ ws # None /\ ws.poll[k] \in JobStatus /\ Update(Show(ws, k, j))
        /\ ws.shown[k] # None /\ ws.shown[k].id \in JobIds
    BY <1>26, <1>g DEF PollArrives, Good, Known
  <2>2. ws.shown[k] \in ShownJob
    BY <2>1, <1>w DEF WorkspaceState
  <2>3. j \in ShownJob /\ j.id \in JobIds
    BY <2>1, <2>2 DEF ShownJob
  <2> HIDE DEF j
  <2>4. Good(Show(ws, k, j), JobIds, exam, changes)
    BY <2>1, <2>3, <1>g, ShowGood
  <2> QED
    BY <1>26, <2>1, <2>4, <1>k DEF PollArrives
<1>27. CASE HistoryArrives
  <2>1. HistoryOf(ws.selected) \in SUBSET ShownJob
    BY <1>p DEF HistoryOf, ShownJob, JobType, JobRow
  <2>2. \A j \in HistoryOf(ws.selected) : j.id \in JobIds
    BY <1>p DEF HistoryOf, JobIds, JobType
  <2>3. Good([ws EXCEPT !.listing = FALSE, !.history = HistoryOf(ws.selected)], JobIds, exam, changes)
    BY <1>27, <2>1, <2>2, <1>g, PlainGood DEF HistoryArrives
  <2> QED
    BY <1>27, <2>3, <1>k DEF HistoryArrives
<1>28. CASE SelectHistoryItem
  <2>1. PICK j \in ws.history : Update(Show(ws, "submission", j))
    BY <1>28 DEF SelectHistoryItem
  <2>2. ws # None /\ j \in ShownJob /\ j.id \in JobIds
    BY <1>28, <1>g DEF SelectHistoryItem, EditorShown, Good, Known, WorkspaceState
  <2>3. CASE "submission" \in Kind
    <3>1. Good(Show(ws, "submission", j), JobIds, exam, changes)
      BY <2>2, <2>3, <1>g, ShowGood
    <3> QED
      BY <1>28, <2>1, <2>2, <3>1, <1>k DEF SelectHistoryItem
  <2>4. CASE "submission" \notin Kind
    <3> DEFINE b == IF j # None /\ j.status \in Pending THEN "timer" ELSE "off"
               l == ws.listing \/ (ws.selected # None /\ j # ws.shown["submission"])
    <3>1. ws \in WorkspaceState /\ l \in BOOLEAN
      BY <2>2, <1>w DEF WorkspaceState
    <3>2. Show(ws, "submission", j)
            = [ws EXCEPT !.shown = [ws.shown EXCEPT !["submission"] = j],
                         !.poll = [ws.poll EXCEPT !["submission"] = b], !.listing = l]
      BY DEF Show
    <3> HIDE DEF b, l
    <3>3. /\ [ws.shown EXCEPT !["submission"] = j] = ws.shown
          /\ [ws.poll EXCEPT !["submission"] = b] = ws.poll
      BY <3>1, <2>4 DEF WorkspaceState
    <3>4. Show(ws, "submission", j) = [ws EXCEPT !.listing = l]
      BY <3>1, <3>2, <3>3 DEF WorkspaceState
    <3>5. Good([ws EXCEPT !.listing = l], JobIds, exam, changes)
      BY <2>2, <3>1, <1>g, PlainGood
    <3> QED
      BY <1>28, <2>1, <2>2, <3>4, <3>5, <1>k DEF SelectHistoryItem
  <2> QED
    BY <2>3, <2>4
<1>29. CASE CallFails
  <2>1. ws # None /\ Good(ws, JobIds, exam, changes)
    BY <1>29, <1>g DEF CallFails
  <2>2. PICK w \in {[ws EXCEPT !.examCall = None], [ws EXCEPT !.startCall = None],
                    [ws EXCEPT !.loads = {}], [ws EXCEPT !.listing = FALSE]}
                   \cup {[ws EXCEPT !.creating[k] = None] : k \in Kind}
                   \cup {[ws EXCEPT !.poll[k] = "failed"] : k \in {i \in Kind : ws.poll[i] # "off"}} :
          Update(w)
    BY <1>29 DEF CallFails
  <2>3. Good(w, JobIds, exam, changes)
    <3>1. CASE w = [ws EXCEPT !.examCall = None] \/ w = [ws EXCEPT !.startCall = None]
      <4>1. /\ Good([ws EXCEPT !.examCall = None], JobIds, exam, changes)
            /\ Good([ws EXCEPT !.startCall = None], JobIds, exam, changes)
        BY <2>1, <1>c, CallGood
      <4> QED
        BY <3>1, <4>1
    <3>2. CASE w = [ws EXCEPT !.loads = {}] \/ w = [ws EXCEPT !.listing = FALSE]
      <4>1. /\ Good([ws EXCEPT !.loads = {}], JobIds, exam, changes)
            /\ Good([ws EXCEPT !.listing = FALSE], JobIds, exam, changes)
        BY <2>1, PlainGood
      <4> QED
        BY <3>2, <4>1
    <3>3. CASE w \in {[ws EXCEPT !.creating[k] = None] : k \in Kind}
      <4>1. PICK k \in Kind : w = [ws EXCEPT !.creating[k] = None]
        BY <3>3
      <4> QED
        BY <4>1, <2>1, CreatingGood
    <3>4. CASE w \in {[ws EXCEPT !.poll[k] = "failed"] : k \in {i \in Kind : ws.poll[i] # "off"}}
      <4>1. PICK k \in Kind : w = [ws EXCEPT !.poll[k] = "failed"]
        BY <3>4
      <4> QED
        BY <4>1, <2>1, PollGood
    <3> QED
      BY <2>2, <3>1, <3>2, <3>3, <3>4
  <2> QED
    BY <1>29, <2>1, <2>2, <2>3, <1>k DEF CallFails
<1>30. ASSUME NEW j \in Job, JudgeStarts(j) \/ JudgeEnds(j) PROVE IInv'
  <2>1. PICK b \in JobStatus : job[j] # None /\ job' = [job EXCEPT ![j].status = b]
    BY <1>30 DEF JudgeStarts, JudgeEnds, JobStatus
  <2>2. /\ job[j] \in JobRow /\ [job[j] EXCEPT !.status = b] \in JobRow
        /\ job' = [job EXCEPT ![j] = [job[j] EXCEPT !.status = b]]
    BY <2>1, <1>p DEF JobType, JobRow
  <2>3. JobType'
    BY <2>2, <1>p DEF JobType
  <2>4. JobIds \subseteq JobIds'
    BY <2>2, <1>p DEF JobIds, JobType
  <2>5. WorkspaceGood'
    BY <1>30, <2>4, <1>g, LaterGood DEF JudgeStarts, JudgeEnds, WorkspaceGood
  <2>6. OnePage' /\ RoleType' /\ UrlType' /\ FlagsType' /\ PageType'
    BY <1>30, <1>p DEF JudgeStarts, JudgeEnds, frame, OnePage, Workplace, IsCandidate, RoleType,
       UrlType, FlagsType, PageType
  <2> QED
    BY <1>30, <2>3, <2>5, <2>6, <1>ue, <1>ud DEF JudgeStarts, JudgeEnds, IInv
<1>32. CASE AssignmentsChange
  <2>1. ExamType'
    BY <1>32 DEF AssignmentsChange, ExamType
  <2>2. changes \in Nat /\ changes' = changes + 1 /\ FlagsType'
    BY <1>32, <1>p, WorkspaceAssumption DEF AssignmentsChange, frame, FlagsType
  <2>3. WorkspaceGood'
    BY <1>32, <2>2, <1>g, <1>uj, ChangedGood DEF AssignmentsChange, WorkspaceGood
  <2>4. OnePage' /\ RoleType' /\ UrlType' /\ PageType'
    BY <1>32, <1>p DEF AssignmentsChange, frame, OnePage, Workplace, IsCandidate, RoleType,
       UrlType, PageType
  <2> QED
    BY <1>32, <2>1, <2>2, <2>3, <2>4, <1>uj, <1>ud DEF AssignmentsChange, IInv
<1>31. CASE UNCHANGED vars
  BY <1>31, <1>p, <1>ue, <1>uj, <1>ud, <1>ur DEF vars, frame, IInv, UrlType, FlagsType, PageType,
     WorkspaceGood, OnePage, Workplace, IsCandidate
<1> QED
  BY <1>1, <1>2, <1>3, <1>4, <1>5, <1>6, <1>7, <1>8, <1>9, <1>10, <1>11, <1>12, <1>13, <1>14,
     <1>15, <1>16, <1>17, <1>18, <1>19, <1>20, <1>21, <1>22, <1>23, <1>24, <1>25, <1>26, <1>27,
     <1>28, <1>29, <1>30, <1>31, <1>32 DEF Next

-----------------------------------------------------------------------------
(* What a step does to the shown problem and the text in the editor *)

\* The editor stands for the draft of the selected problem in this language, but for a
\* key that could not be saved.
Shows(w) ==
  IsCandidate /\ w.selected # None
    => \/ w.source = drafts[w.selected][w.language]
       \/ w.unsaved = <<w.selected, w.language>>

\* From w to s: a shown problem stays while it is selected, and so does its draft.
Kept(w, s) ==
  /\ w.selected # None /\ w.problem = w.selected /\ s.selected = w.selected
       => s.problem = w.problem
  /\ Shows(w) => Shows(s)

Same(w, s) ==
  /\ s.selected = w.selected /\ s.problem = w.problem
  /\ s.source = w.source /\ s.language = w.language /\ s.unsaved = w.unsaved

LEMMA SameKept ==
  ASSUME NEW w, NEW s, Same(w, s)
  PROVE  Kept(w, s) /\ \A x : Kept(s, x) => Kept(w, x)
BY DEF Same, Kept, Shows

LEMMA SelectKept ==
  ASSUME NEW w \in WorkspaceState, NEW p \in Problem \cup {None}
  PROVE  Kept(w, Select(w, p))
<1> DEFINE s == Select(w, p)
<1>1. CASE p = w.selected
  BY <1>1 DEF Select, Kept
<1>2. CASE p # w.selected
  <2>1. s.selected = p /\ s.language = w.language /\ (p # None => s.source = Draft(p, w.language))
    BY <1>2 DEF Select, WorkspaceState
  <2> HIDE DEF s
  <2>2. Kept(w, s)
    BY <1>2, <2>1 DEF Kept, Shows, Draft
  <2> QED
    BY <2>2 DEF s
<1> QED
  BY <1>1, <1>2

LEMMA SetExamSame ==
  ASSUME NEW w \in WorkspaceState, NEW v \in View
  PROVE  SetExam(w, v) \in WorkspaceState /\ Same(w, SetExam(w, v))
<1> DEFINE b == SameExam(w, v)
           g == IF b THEN w.lag ELSE IF v.status = "started" THEN 0 ELSE None
           u == IF b THEN w.view ELSE v
<1>1. SetExam(w, v) = [w EXCEPT !.view = u, !.remaining = v.remaining, !.lag = g]
  BY DEF SetExam
<1>2. g \in 0..MaxLag \cup {None} /\ v.remaining \in 0..Seconds \cup {None}
      /\ u \in View \cup {None}
  BY Numbers DEF WorkspaceState, View
<1> HIDE DEF b, g, u
<1> QED
  BY <1>1, <1>2 DEF WorkspaceState, Same

LEMMA ShowSame ==
  ASSUME NEW w \in WorkspaceState, NEW k, NEW j
  PROVE  Same(w, Show(w, k, j))
BY DEF Show, WorkspaceState, Same

\* What a step promises about the shown problem and the draft in the editor.
LateIgnored ==
  ws # None /\ ws' # None /\ ws.selected # None
    /\ ws.problem = ws.selected /\ ws'.selected = ws.selected
  => ws'.problem = ws.problem
EditorKept == EditorShowsDraft => EditorShowsDraft'

LEMMA UpdateKept ==
  ASSUME ws # None, NEW w, Update(w), Kept(ws, w)
  PROVE  LateIgnored /\ EditorKept
BY DEF Update, frame, Kept, Shows, LateIgnored, EditorKept, EditorShowsDraft, Draft, IsCandidate

LEMMA StepKept == IInv /\ [Next]_vars => LateIgnored /\ EditorKept
<1> SUFFICES ASSUME IInv, [Next]_vars PROVE LateIgnored /\ EditorKept
  OBVIOUS
<1>p. DraftsType /\ UrlType /\ OnePage
  BY DEF IInv
<1>w. ws # None => ws \in WorkspaceState /\ LoadsSelected(ws)
  BY DEF IInv, WorkspaceGood, Good
<1>l. ws # None /\ ws.lag # None => ws.view \in View
  BY DEF IInv, WorkspaceGood, Good, Clock
<1>u. ASSUME ws # None, NEW w, Update(w), Same(ws, w) PROVE LateIgnored /\ EditorKept
  BY <1>u, SameKept, UpdateKept
\* The component goes, or it is mounted where there was none.
<1>n. ASSUME ws = None \/ ws' = None, UNCHANGED <<role, drafts>>,
             ws' # None => \E u : ws' = Mounted(u)
      PROVE  LateIgnored /\ EditorKept
  <2>1. LateIgnored
    BY <1>n DEF LateIgnored
  <2>2. CASE ws' = None
    BY <2>1, <2>2 DEF EditorKept, EditorShowsDraft
  <2>3. CASE ws' # None
    <3>1. PICK u : ws' = Mounted(u)
      BY <2>3, <1>n
    <3>2. IsCandidate => ws'.selected = None
      BY <3>1 DEF Mounted
    <3> QED
      BY <1>n, <2>1, <3>2 DEF EditorKept, EditorShowsDraft, IsCandidate
  <2> QED
    BY <2>1, <2>2, <2>3
<1>r. ASSUME NEW u, Visit(u), ws = None \/ ~Workplace(u), UNCHANGED <<role, drafts>>
      PROVE  LateIgnored /\ EditorKept
  BY <1>r, <1>n DEF Visit
<1>z. ASSUME UNCHANGED <<role, drafts, ws>> PROVE LateIgnored /\ EditorKept
  BY <1>z DEF LateIgnored, EditorKept, EditorShowsDraft, Draft, IsCandidate
<1>o. ~Workplace("login") /\ ~Workplace("list")
  BY WorkspaceAssumption DEF Workplace
<1>1. CASE Login
  BY <1>1, <1>r, <1>p, <1>o DEF Login, OnePage
<1>2. CASE Logout
  BY <1>2, <1>r, <1>o DEF Logout
<1>3. CASE Reload
  BY <1>3, <1>n DEF Reload
<1>4. CASE MeArrives
  BY <1>4, <1>r, <1>z DEF MeArrives
<1>5. CASE MeFails
  BY <1>5, <1>r, <1>o DEF MeFails
<1>6. CASE OpenList
  BY <1>6, <1>r, <1>o DEF OpenList
<1>7. CASE OpenHome
  BY <1>7, <1>r, <1>p DEF OpenHome, OnePage
<1>8. CASE PageArrives
  BY <1>8, <1>z DEF PageArrives
<1>9. CASE StartOnPage
  BY <1>9, <1>z DEF StartOnPage
<1>10. ASSUME NEW p \in Problem, OpenProblem(p) PROVE LateIgnored /\ EditorKept
  BY <1>10, <1>r, <1>p DEF OpenProblem, OnePage
<1>11. ASSUME NEW p \in Problem, ProblemArrives(p) PROVE LateIgnored /\ EditorKept
  <2> DEFINE w == [ws EXCEPT !.loads = @ \ {p}, !.problem = p]
             s == IF "run" \in Kind THEN Show(w, "run", None) ELSE w
  <2>1. ws # None /\ ws \in WorkspaceState /\ p = ws.selected /\ Update(s)
    BY <1>11, <1>w DEF ProblemArrives, LoadsSelected
  <2>2. w \in WorkspaceState
    BY <2>1 DEF WorkspaceState
  <2>3. Kept(ws, w)
    BY <2>1 DEF WorkspaceState, Kept, Shows
  <2> HIDE DEF w
  <2>4. Same(w, s)
    BY <2>2, ShowSame DEF Same
  <2> HIDE DEF s
  <2>5. Kept(ws, s)
    BY <2>3, <2>4 DEF Same, Kept, Shows
  <2> QED
    BY <2>1, <2>5, UpdateKept
<1>12. ASSUME NEW u, Jump(u) PROVE LateIgnored /\ EditorKept
  <2>1. Same(ws, ws') /\ ws # None
    BY <1>12, <1>w DEF Jump, Same, WorkspaceState
  <2> QED
    BY <1>12, <2>1 DEF Jump, Same, LateIgnored, EditorKept, EditorShowsDraft, Draft, IsCandidate
<1>13. CASE ExamAnswered
  <2>1. Same(ws, [ws EXCEPT !.examCall.answer = ExamView])
    BY <1>13, <1>w DEF ExamAnswered, WorkspaceState, Same
  <2> QED
    BY <1>13, <2>1, <1>u DEF ExamAnswered
\* An answer of the server is applied, after a field of its own.
<1>a. ASSUME NEW w \in WorkspaceState, Same(ws, w), NEW v \in View,
             NEW p \in Problem \cup {None}
      PROVE  Kept(ws, SetExam(w, v)) /\ Kept(ws, Select(SetExam(w, v), p))
  <2>1. Same(w, SetExam(w, v)) /\ SetExam(w, v) \in WorkspaceState
    BY SetExamSame
  <2>2. Same(ws, SetExam(w, v))
    BY <1>a, <2>1 DEF Same
  <2>3. Kept(SetExam(w, v), Select(SetExam(w, v), p))
    BY <2>1, SelectKept
  <2> QED
    BY <2>2, <2>3, SameKept
<1>14. CASE ExamArrives
  <2> DEFINE w == [ws EXCEPT !.examCall = None]
             v == ws.examCall.answer
             p == IF v.status = "started" THEN ws.examCall.opens ELSE None
  <2>1. ws # None /\ ws \in WorkspaceState /\ ws.examCall \in Call /\ ws.examCall # None /\ v # None
    BY <1>14, <1>w DEF ExamArrives, WorkspaceState
  <2>2. v \in View /\ p \in Problem \cup {None}
    BY <2>1 DEF Call
  <2>3. w \in WorkspaceState /\ Same(ws, w)
    BY <2>1 DEF WorkspaceState, Call, Same
  <2>4. Update(Select(SetExam(w, v), p))
    BY <1>14 DEF ExamArrives, ApplyExam
  <2> HIDE DEF w, v, p
  <2> QED
    BY <2>1, <2>2, <2>3, <2>4, <1>a, UpdateKept
<1>15. CASE ClickStart
  <2>1. ws # None /\ Same(ws, [ws EXCEPT !.startCall = Sent(Opened(url))])
    BY <1>15, <1>w DEF ClickStart, AtGate, WorkspaceState, Same
  <2> QED
    BY <1>15, <2>1, <1>u DEF ClickStart
<1>16. CASE StartAnswered
  <2>1. Same(ws, [ws EXCEPT !.startCall.answer = ExamView'])
    BY <1>16, <1>w DEF StartAnswered, WorkspaceState, Same
  <2> QED
    BY <1>16, <2>1, <1>u DEF StartAnswered
<1>17. CASE StartArrives
  <2> DEFINE w == [ws EXCEPT !.startCall = None]
             v == ws.startCall.answer
             p == ws.startCall.opens
  <2>1. ws # None /\ ws \in WorkspaceState /\ ws.startCall \in Call /\ ws.startCall # None /\ v # None
    BY <1>17, <1>w DEF StartArrives, WorkspaceState
  <2>2. v \in View /\ p \in Problem \cup {None}
    BY <2>1 DEF Call
  <2>3. w \in WorkspaceState /\ Same(ws, w)
    BY <2>1 DEF WorkspaceState, Call, Same
  <2>4. Update(IF v.status = "started" THEN Select(SetExam(w, v), p) ELSE SetExam(w, v))
    BY <1>17 DEF StartArrives
  <2> HIDE DEF w, v, p
  <2> QED
    BY <2>1, <2>2, <2>3, <2>4, <1>a, UpdateKept
<1>18. CASE Countdown
  <2> DEFINE r == IF ws.remaining > 1 THEN ws.remaining - 1 ELSE 0
             w == [ws EXCEPT !.remaining = r, !.lag = @ - Grain]
  <2>1. ws # None /\ ws \in WorkspaceState
    BY <1>18, <1>w DEF Countdown
  <2>2. Update(IF r = 0 THEN ApplyExam(w, Expired(w.view), None) ELSE w)
    BY <1>18 DEF Countdown
  <2>3. Same(ws, w)
    BY <2>1 DEF WorkspaceState, Same
  <2>4. CASE r = 0
    <3>1. w \in WorkspaceState
      <4> DEFINE g == ws.lag - Grain
      <4>1. ws.lag \in Nat /\ ws.lag >= Grain /\ ws.lag <= MaxLag
        BY <1>18, <2>1, Numbers, NoNull DEF Countdown, WorkspaceState
      <4>2. g \in 0..MaxLag \cup {None} /\ r \in 0..Seconds \cup {None}
        BY <2>4, <4>1, Numbers
      <4>3. w = [ws EXCEPT !.remaining = r, !.lag = g]
        OBVIOUS
      <4> HIDE DEF g, r, w
      <4> QED
        BY <2>1, <4>2, <4>3 DEF WorkspaceState
    <3> DEFINE v == Expired(w.view)
    <3>2. v \in View
      <4>1. w.view = ws.view
        BY <2>1 DEF WorkspaceState
      <4>2. w.view \in View
        BY <4>1, <1>18, <1>l DEF Countdown
      <4> HIDE DEF w
      <4> QED
        BY <4>2, ExpiredView
    <3>4. v.status # "started"
      BY <2>1, <1>18, <1>l, ExpiredView DEF Countdown, WorkspaceState
    <3> HIDE DEF w, r
    <3>3. Update(Select(SetExam(w, v), None))
      BY <2>2, <2>4 DEF ApplyExam
    <3> HIDE DEF v
    <3> QED
      BY <2>1, <2>3, <3>1, <3>2, <3>3, <1>a, UpdateKept
  <2>5. CASE r # 0
    BY <2>1, <2>2, <2>3, <2>5, <1>u
  <2> QED
    BY <2>4, <2>5
<1>19. CASE Tick
  <2>1. CASE ws' = ws
    BY <1>19, <2>1, <1>z DEF Tick, frame
  <2>2. CASE ws # None /\ ws' = [ws EXCEPT !.lag = @ + 1]
    <3>1. Same(ws, ws')
      BY <2>2, <1>w DEF WorkspaceState, Same
    <3> QED
      BY <1>19, <2>2, <3>1 DEF Tick, frame, Same, LateIgnored, EditorKept, EditorShowsDraft, Draft,
         IsCandidate
  <2> QED
    BY <1>19, <2>1, <2>2 DEF Tick
<1>20. ASSUME NEW c \in Code, Type(c) PROVE LateIgnored /\ EditorKept
  <2>1. /\ ws # None /\ ws \in WorkspaceState /\ role' = role
        /\ ws'.selected = ws.selected /\ ws'.problem = ws.problem /\ ws'.source = c
        /\ ws'.language = ws.language
    BY <1>20, <1>w DEF Type, EditorShown, frame, WorkspaceState
  <2>2. LateIgnored
    BY <2>1 DEF LateIgnored
  <2>3. ASSUME IsCandidate, ws.selected # None
        PROVE  drafts'[ws.selected][ws.language] = c \/ ws'.unsaved = <<ws.selected, ws.language>>
    <3>1. CASE drafts' = SavedDraft(ws.selected, ws.language, c)
      <4>1. ws.selected \in Problem /\ ws.language \in Language
        BY <2>1, <2>3 DEF WorkspaceState
      <4> QED
        BY <3>1, <4>1, <1>p DEF SavedDraft, DraftsType
    <3>2. CASE ws' = [ws EXCEPT !.source = c, !.unsaved = <<ws.selected, ws.language>>]
      BY <3>2, <2>1 DEF WorkspaceState
    <3> QED
      BY <1>20, <2>3, <3>1, <3>2 DEF Type
  <2> QED
    BY <2>1, <2>2, <2>3 DEF EditorKept, EditorShowsDraft, Draft, IsCandidate
<1>21. ASSUME NEW l \in Language, ChooseLanguage(l) PROVE LateIgnored /\ EditorKept
  <2> DEFINE w == [ws EXCEPT !.language = l,
                             !.source = IF IsCandidate /\ ws.selected # None
                                        THEN Draft(ws.selected, l) ELSE @,
                             !.unsaved = None]
  <2>1. ws # None /\ Update(w)
    BY <1>21 DEF ChooseLanguage, EditorShown
  <2>2. /\ w.selected = ws.selected /\ w.problem = ws.problem /\ w.language = l
        /\ IsCandidate /\ ws.selected # None => w.source = Draft(ws.selected, l)
    BY <2>1, <1>w DEF WorkspaceState
  <2> HIDE DEF w
  <2>3. Kept(ws, w)
    BY <2>2 DEF Kept, Shows, Draft
  <2> QED
    BY <2>1, <2>3, UpdateKept
<1>22. ASSUME NEW k \in Kind, ClickRun(k) PROVE LateIgnored /\ EditorKept
  <2>1. ws # None /\ Same(ws, [ws EXCEPT !.creating[k] = [problem |-> ws.problem, id |-> None]])
    BY <1>22, <1>w DEF ClickRun, EditorShown, WorkspaceState, Same
  <2> QED
    BY <1>22, <2>1, <1>u DEF ClickRun
<1>23. ASSUME NEW k \in Kind, NEW j \in Job, CreateJob(k, j) PROVE LateIgnored /\ EditorKept
  <2>1. ws # None /\ Same(ws, [ws EXCEPT !.creating[k].id = j])
    BY <1>23, <1>w DEF CreateJob, WorkspaceState, Same
  <2> QED
    BY <1>23, <2>1, <1>u DEF CreateJob
<1>24. ASSUME NEW k \in Kind, CreatedArrives(k) PROVE LateIgnored /\ EditorKept
  <2> DEFINE w == [ws EXCEPT !.creating[k] = None]
             j == [id |-> ws.creating[k].id, status |-> "queued"]
  <2>1. ws # None /\ ws \in WorkspaceState /\ Update(Show(w, k, j))
    BY <1>24, <1>w DEF CreatedArrives
  <2>2. w \in WorkspaceState /\ Same(ws, w)
    <3> DEFINE f == [ws.creating EXCEPT ![k] = None]
    <3>1. w = [ws EXCEPT !.creating = f]
      OBVIOUS
    <3>2. f \in [Kind -> [problem : Problem, id : Job \cup {None}] \cup {None}]
      BY <2>1 DEF WorkspaceState
    <3> HIDE DEF f
    <3> QED
      BY <2>1, <3>1, <3>2 DEF WorkspaceState, Same
  <2> HIDE DEF w, j
  <2>3. Same(ws, Show(w, k, j))
    BY <2>2, ShowSame DEF Same
  <2> QED
    BY <2>1, <2>3, <1>u
<1>25. ASSUME NEW k \in Kind, PollAnswered(k) PROVE LateIgnored /\ EditorKept
  <2>1. ws # None /\ Same(ws, [ws EXCEPT !.poll[k] = job[ws.shown[k].id].status])
    BY <1>25, <1>w DEF PollAnswered, WorkspaceState, Same
  <2> QED
    BY <1>25, <2>1, <1>u DEF PollAnswered
<1>26. ASSUME NEW k \in Kind, PollArrives(k) PROVE LateIgnored /\ EditorKept
  <2>1. ws # None /\ Same(ws, Show(ws, k, [ws.shown[k] EXCEPT !.status = ws.poll[k]]))
    BY <1>26, <1>w, ShowSame DEF PollArrives
  <2> QED
    BY <1>26, <2>1, <1>u DEF PollArrives
<1>27. CASE HistoryArrives
  <2>1. ws # None /\ Same(ws, [ws EXCEPT !.listing = FALSE, !.history = HistoryOf(ws.selected)])
    BY <1>27, <1>w DEF HistoryArrives, WorkspaceState, Same
  <2> QED
    BY <1>27, <2>1, <1>u DEF HistoryArrives
<1>28. CASE SelectHistoryItem
  <2>1. PICK j \in ws.history : Update(Show(ws, "submission", j))
    BY <1>28 DEF SelectHistoryItem
  <2>2. ws # None /\ Same(ws, Show(ws, "submission", j))
    BY <1>28, <1>w, ShowSame DEF SelectHistoryItem, EditorShown
  <2> QED
    BY <2>1, <2>2, <1>u
<1>29. CASE CallFails
  <2>1. ws # None /\ ws \in WorkspaceState
    BY <1>29, <1>w DEF CallFails
  <2>2. PICK w \in {[ws EXCEPT !.examCall = None], [ws EXCEPT !.startCall = None],
                    [ws EXCEPT !.loads = {}], [ws EXCEPT !.listing = FALSE]}
                   \cup {[ws EXCEPT !.creating[k] = None] : k \in Kind}
                   \cup {[ws EXCEPT !.poll[k] = "failed"] : k \in {i \in Kind : ws.poll[i] # "off"}} :
          Update(w)
    BY <1>29 DEF CallFails
  <2>3. Same(ws, w)
    <3>1. CASE w = [ws EXCEPT !.examCall = None] \/ w = [ws EXCEPT !.startCall = None]
      BY <3>1, <2>1 DEF WorkspaceState, Same
    <3>2. CASE w = [ws EXCEPT !.loads = {}] \/ w = [ws EXCEPT !.listing = FALSE]
      BY <3>2, <2>1 DEF WorkspaceState, Same
    <3>3. CASE w \in {[ws EXCEPT !.creating[k] = None] : k \in Kind}
      <4>1. PICK k \in Kind : w = [ws EXCEPT !.creating[k] = None]
        BY <3>3
      <4> QED
        BY <4>1, <2>1 DEF WorkspaceState, Same
    <3>4. CASE w \in {[ws EXCEPT !.poll[k] = "failed"] : k \in {i \in Kind : ws.poll[i] # "off"}}
      <4>1. PICK k \in Kind : w = [ws EXCEPT !.poll[k] = "failed"]
        BY <3>4
      <4> QED
        BY <4>1, <2>1 DEF WorkspaceState, Same
    <3> QED
      BY <2>2, <3>1, <3>2, <3>3, <3>4
  <2> QED
    BY <2>1, <2>2, <2>3, <1>u
<1>30. ASSUME NEW j \in Job, JudgeStarts(j) \/ JudgeEnds(j) PROVE LateIgnored /\ EditorKept
  BY <1>30, <1>z DEF JudgeStarts, JudgeEnds, frame
<1>32. CASE AssignmentsChange
  BY <1>32, <1>z DEF AssignmentsChange, frame
<1>31. CASE UNCHANGED vars
  BY <1>31, <1>z DEF vars, frame
<1> QED
  BY <1>1, <1>2, <1>3, <1>4, <1>5, <1>6, <1>7, <1>8, <1>9, <1>10, <1>11, <1>12, <1>13, <1>14,
     <1>15, <1>16, <1>17, <1>18, <1>19, <1>20, <1>21, <1>22, <1>23, <1>24, <1>25, <1>26, <1>27,
     <1>28, <1>29, <1>30, <1>31, <1>32 DEF Next

-----------------------------------------------------------------------------
(* Theorems *)

\* Every variable has its type in every state: the state of the component, the
\* calls on their way, the jobs and the drafts.
THEOREM TypeCorrect == Spec => []TypeOK
<1>1. Init => IInv
  BY InitGood
<1>2. IInv /\ [Next]_vars => IInv'
  BY Step
<1>3. IInv => TypeOK
  BY Types
<1> QED
  BY <1>1, <1>2, <1>3, PTL DEF Spec

\* A page whose exam was read after its last change never locks a candidate out
\* of an exam that still runs on the server, for an exam of any length and answers
\* and seconds of any delay, and though changes of the assignments lengthen other
\* exams, shorten them or open them again.
THEOREM LockedOnlyWhenExpiredCorrect == Spec => []LockedOnlyWhenExpired
<1>1. Init => IInv
  BY InitGood
<1>2. IInv /\ [Next]_vars => IInv'
  BY Step
<1>3. IInv => LockedOnlyWhenExpired
  <2> SUFFICES ASSUME IInv, ws # None, ws.view # None, ws.view.status = "expired",
                      ws.view.changes = changes
               PROVE  ExamView.status = "expired"
    BY DEF LockedOnlyWhenExpired
  <2>1. exam \in Nat /\ ws.view.remaining = 0 /\ Within(exam, 0)
    BY DEF IInv, WorkspaceGood, Good, Clock, ViewHolds
  <2>2. exam <= Grain - 1
    BY <2>1, Numbers DEF Within
  <2>3. exam \div Grain = 0
    BY <2>1, <2>2, Numbers
  <2> QED
    BY <2>1, <2>3, NoNull DEF ExamView, RemainingSeconds
<1> QED
  BY <1>1, <1>2, <1>3, PTL DEF Spec

\* The late answer for another problem never takes the place of the selected
\* one once that is shown: a problem's load is forgotten when it is no longer
\* selected, so what arrives is the load of the selected one.
THEOREM LateProblemIgnoredCorrect == Spec => LateProblemIgnored
<1>1. Init => IInv
  BY InitGood
<1>2. IInv /\ [Next]_vars => IInv'
  BY Step
<1>3. IInv /\ [Next]_vars => [LateIgnored]_vars
  BY StepKept
<1>4. LateProblemIgnored <=> [][LateIgnored]_vars
  BY DEF LateProblemIgnored, LateIgnored
<1> QED
  BY <1>1, <1>2, <1>3, <1>4, PTL DEF Spec

\* The editor of a candidate shows the draft kept for the problem and the
\* language it stands for, through every route, answer, choice and key, but for a
\* key typed for the two that the storage refused.
THEOREM EditorShowsDraftCorrect == Spec => []EditorShowsDraft
<1>1. Init => IInv /\ EditorShowsDraft
  BY InitGood DEF Init, EditorShowsDraft
<1>2. IInv /\ [Next]_vars => IInv'
  BY Step
<1>3. IInv /\ EditorShowsDraft /\ [Next]_vars => EditorShowsDraft'
  BY StepKept DEF EditorKept
<1> QED
  BY <1>1, <1>2, <1>3, PTL DEF Spec
=============================================================================
