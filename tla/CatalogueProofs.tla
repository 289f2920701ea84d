-------------------------- MODULE CatalogueProofs --------------------------
(* Theorems about Catalogue, for every set of accounts, problems, processes, *)
(* handlers and workers.                                                     *)
EXTENDS Catalogue, TLAPS

-----------------------------------------------------------------------------
(* Types *)

Account == [email : Email, password : {"default", "own"}]
ApiState == [stage : {"down", "seeding", "up"}, users : SUBSET SeedUser,
             problems : SUBSET SeedProblem, tests : SUBSET SeedProblem,
             assignments : SUBSET SeedProblem]
AssignmentRow == [by : User, id : {"seed", "other"}]
CreationOf == [author : User, problem : Problem, number : Nat]
ProblemRow(n) == [author : User, save : 0..n]
ClaimUpTo(n) == [problem : Problem, save : 0..n, tests : SUBSET (0..n), fetched : BOOLEAN]

\* TypeOK, one named part per table.
AccountType == account \in [User -> Account \cup {None}]
ProblemType == problem \in [Problem -> ProblemRow(saves) \cup {None}]
TestsType == tests \in [Problem -> SUBSET (0..saves)]
NumberType == number \in [Problem -> Nat]
AssignmentType == assignment \in [SeedProblem -> AssignmentRow \cup {None}]
RequestType == request \in [Handler -> CreationOf \cup {Idle}]
ClaimType == claim \in [Worker -> ClaimUpTo(saves) \cup {Idle}]
ApiType == api \in [Process -> ApiState]
CountType == saves \in 0..MaxSaves /\ crashes \in 0..MaxCrashes
DeletionType == deleting \in User \cup {None} /\ lost \subseteq Process
RowsGo ==
  \A p \in Problem :
    /\ problem[p] = None => tests[p] = {} /\ number[p] = 0
    /\ problem[p] # None /\ problem[p].save = 0 => p \in SeedProblem

TypedRows ==
  /\ AccountType /\ ProblemType /\ TestsType /\ NumberType /\ RequestType
  /\ ClaimType /\ ApiType /\ CountType /\ RowsGo /\ AssignmentType /\ DeletionType

LEMMA TypeParts == TypeOK <=> TypedRows
BY DEF TypedRows, TypeOK, AccountType, ProblemType, TestsType, NumberType, RequestType, ClaimType,
       ApiType, CountType, RowsGo, Account, ApiState, CreationOf, ProblemRow, ClaimUpTo,
       AssignmentType, AssignmentRow, DeletionType

\* What a row is distinguishes it from its absence.
LEMMA RowsAreThere ==
  /\ None \notin Account /\ None \notin AssignmentRow
  /\ \A n \in Nat : None \notin ProblemRow(n) /\ Idle \notin ClaimUpTo(n)
  /\ Idle \notin CreationOf
<1>1. None \notin Account /\ None \notin AssignmentRow
  BY CatalogueAssumption DEF Account, AssignmentRow
<1>2. Idle \notin CreationOf
  BY CatalogueAssumption DEF CreationOf
<1>3. ASSUME NEW n \in Nat PROVE None \notin ProblemRow(n)
  <2>1. ProblemRow(n) \subseteq [author : User, save : Nat]
    BY <1>3 DEF ProblemRow
  <2> QED
    BY <2>1, CatalogueAssumption
<1>4. ASSUME NEW n \in Nat PROVE Idle \notin ClaimUpTo(n)
  <2>1. ClaimUpTo(n) \subseteq [problem : Problem, save : Nat, tests : SUBSET Nat, fetched : BOOLEAN]
    BY <1>4 DEF ClaimUpTo
  <2> QED
    BY <2>1, CatalogueAssumption
<1> QED
  BY <1>1, <1>2, <1>3, <1>4

\* What was typed before a save is typed after it.
LEMMA OneMoreSave ==
  ASSUME NEW n \in Nat
  PROVE  /\ ProblemRow(n) \subseteq ProblemRow(n + 1)
         /\ SUBSET (0..n) \subseteq SUBSET (0..(n + 1))
         /\ ClaimUpTo(n) \subseteq ClaimUpTo(n + 1)
<1>1. 0..n \subseteq 0..(n + 1)
  OBVIOUS
<1>2. SUBSET (0..n) \subseteq SUBSET (0..(n + 1))
  BY <1>1
<1> QED
  BY <1>1, <1>2 DEF ProblemRow, ClaimUpTo

LEMMA InitTypes == Init => TypeOK
<1> SUFFICES ASSUME Init PROVE TypeOK
  OBVIOUS
<1>1. Down \in ApiState
  BY DEF Down, ApiState
<1>2. AccountType /\ ProblemType /\ NumberType /\ RequestType /\ ClaimType
  BY DEF Init, AccountType, ProblemType, NumberType, RequestType, ClaimType
<1>3. TestsType
  BY DEF Init, TestsType
<1>4. ApiType
  BY <1>1 DEF Init, ApiType
<1>5. CountType
  BY CatalogueAssumption DEF Init, CountType
<1>6. RowsGo
  BY DEF Init, RowsGo
<1>7. AssignmentType /\ DeletionType
  BY DEF Init, AssignmentType, DeletionType
<1> QED
  BY <1>2, <1>3, <1>4, <1>5, <1>6, <1>7, TypeParts DEF TypedRows

\* A save by a creation or an update types all tables.
LEMMA SaveTypes ==
  ASSUME TypeOK, NEW p \in Problem, NEW u \in User,
         saves < MaxSaves, saves' = saves + 1,
         problem' = [problem EXCEPT ![p] = [author |-> u, save |-> saves + 1]],
         tests' = [tests EXCEPT ![p] = {saves + 1}],
         UNCHANGED <<claim, crashes>>
  PROVE  ProblemType' /\ TestsType' /\ ClaimType' /\ CountType'
<1>1. saves \in Nat /\ CountType'
  BY CatalogueAssumption, TypeParts DEF TypedRows, CountType
<1>2. problem \in [Problem -> ProblemRow(saves + 1) \cup {None}]
  BY <1>1, TypeParts, OneMoreSave DEF TypedRows, ProblemType
<1>3. [author |-> u, save |-> saves + 1] \in ProblemRow(saves + 1)
  BY <1>1 DEF ProblemRow
<1>4. ProblemType'
  BY <1>2, <1>3 DEF ProblemType
<1>5. tests \in [Problem -> SUBSET (0..(saves + 1))]
  BY <1>1, TypeParts, OneMoreSave DEF TypedRows, TestsType
<1>6. {saves + 1} \in SUBSET (0..(saves + 1))
  BY <1>1
<1>7. TestsType'
  BY <1>5, <1>6 DEF TestsType
<1>8. ClaimType'
  BY <1>1, TypeParts, OneMoreSave DEF TypedRows, ClaimType
<1> QED
  BY <1>1, <1>4, <1>7, <1>8

\* Every step preserves the types.
LEMMA TypeStep == TypeOK /\ [Next]_vars => TypeOK'
<1> SUFFICES ASSUME TypeOK, [Next]_vars PROVE TypeOK'
  OBVIOUS
<1>p. /\ AccountType /\ ProblemType /\ TestsType /\ NumberType /\ RequestType
      /\ ClaimType /\ ApiType /\ CountType /\ RowsGo /\ AssignmentType /\ DeletionType
  BY TypeParts DEF TypedRows
<1>d. Down \in ApiState /\ Starting \in ApiState
  BY DEF Down, Starting, ApiState
<1>f. ASSUME NEW a \in Process, StartFails(a) PROVE ApiType'
  BY <1>p, <1>d, <1>f DEF ApiType, StartFails
<1>r. saves \in Nat
  BY <1>p, CatalogueAssumption DEF CountType
<1>t. \A p \in Problem : problem[p] # None => problem[p] \in ProblemRow(saves)
  BY <1>p DEF ProblemType
<1>h. \A h \in Handler : request[h] # Idle => request[h] \in CreationOf
  BY <1>p DEF RequestType
<1>i. ASSUME NEW h \in Handler, request' = [request EXCEPT ![h] = Idle] PROVE RequestType'
  BY <1>p, <1>i DEF RequestType
<1> SUFFICES TypedRows'
  BY TypeParts, PTL
<1>ua. UNCHANGED account => AccountType'
  BY <1>p DEF AccountType
<1>up. UNCHANGED <<problem, saves>> => ProblemType'
  BY <1>p DEF ProblemType
<1>ut. UNCHANGED <<tests, saves>> => TestsType'
  BY <1>p DEF TestsType
<1>un. UNCHANGED number => NumberType'
  BY <1>p DEF NumberType
<1>uh. UNCHANGED request => RequestType'
  BY <1>p DEF RequestType
<1>uc. UNCHANGED <<claim, saves>> => ClaimType'
  BY <1>p DEF ClaimType
<1>ui. UNCHANGED api => ApiType'
  BY <1>p DEF ApiType
<1>us. UNCHANGED <<saves, crashes>> => CountType'
  BY <1>p DEF CountType
<1>ur. UNCHANGED <<problem, tests, number>> => RowsGo'
  BY <1>p DEF RowsGo
<1>ug. UNCHANGED assignment => AssignmentType'
  BY <1>p DEF AssignmentType
<1>ul. UNCHANGED <<deleting, lost>> => DeletionType'
  BY <1>p DEF DeletionType
<1> USE DEF tables, rows, work, starts
<1>1. ASSUME NEW a \in Process, Start(a) PROVE TypedRows'
  <2>1. ApiType'
    BY <1>1, <1>p, <1>d DEF ApiType, Start
  <2>2. DeletionType'
    BY <1>1, <1>p DEF DeletionType, Start
  <2> QED
    BY <1>1, <2>1, <2>2, <1>ua, <1>up, <1>ut, <1>un, <1>uh, <1>uc, <1>us, <1>ur, <1>ug, <1>ul
    DEF Start, TypedRows
<1>2. ASSUME NEW a \in Process, NEW u \in SeedUser, SeedUserRow(a, u) PROVE TypedRows'
  <2>1. SeededAccount[u] \in Account /\ u \in User
    BY CatalogueAssumption DEF SeededAccount, Account
  <2>2. AccountType'
    BY <1>2, <1>p, <2>1 DEF AccountType, SeedUserRow, AccountAfterSeed
  <2>3. ASSUME api' = [api EXCEPT ![a].users = @ \ {u}] PROVE ApiType'
    BY <1>p, <2>3 DEF ApiType, ApiState
  <2>4. ApiType'
    BY <1>2, <1>f, <2>3 DEF SeedUserRow
  <2> QED
    BY <1>2, <2>2, <2>4, <1>up, <1>ut, <1>un, <1>uh, <1>uc, <1>us, <1>ur, <1>ug, <1>ul
    DEF SeedUserRow, TypedRows
<1>3. ASSUME NEW a \in Process, NEW p \in SeedProblem, SeedProblemRow(a, p) PROVE TypedRows'
  <2>1. [author |-> SeedAdmin, save |-> 0] \in ProblemRow(saves) /\ p \in Problem
    BY <1>r, CatalogueAssumption DEF ProblemRow
  <2>2. ProblemType'
    BY <1>3, <1>p, <2>1 DEF ProblemType, SeedProblemRow
  <2>3. ASSUME api' = [api EXCEPT ![a].problems = @ \ {p}, ![a].tests = {p}] PROVE ApiType'
    <3>1. api' = [api EXCEPT ![a] = [api[a] EXCEPT !.problems = @ \ {p}, !.tests = {p}]]
      BY <2>3, <1>p DEF ApiType, ApiState
    <3>2. [api[a] EXCEPT !.problems = @ \ {p}, !.tests = {p}] \in ApiState
      BY <1>p DEF ApiType, ApiState
    <3> QED
      BY <1>p, <3>1, <3>2 DEF ApiType
  <2>4. ApiType'
    BY <1>3, <1>f, <2>3 DEF SeedProblemRow
  <2>5. RowsGo'
    <3>1. ASSUME NEW q \in Problem
          PROVE  /\ problem'[q] = None => problem[q] = None
                 /\ problem'[q] # None /\ problem'[q].save = 0 => q \in SeedProblem
      BY <1>3, <1>p, <2>1 DEF RowsGo, ProblemType, SeedProblemRow
    <3> QED
      BY <1>3, <1>p, <3>1 DEF RowsGo, SeedProblemRow
  <2> QED
    BY <1>3, <2>2, <2>4, <2>5, <1>ua, <1>ut, <1>un, <1>uh, <1>uc, <1>us, <1>ug, <1>ul
    DEF SeedProblemRow, TypedRows
<1>4. ASSUME NEW a \in Process, NEW p \in SeedProblem, SeedTestCases(a, p) PROVE TypedRows'
  <2>1. TestsType'
    BY <1>4, <1>p, <1>r, CatalogueAssumption DEF TestsType, SeedTestCases
  <2>2. ASSUME api' = [api EXCEPT ![a].tests = {}] PROVE ApiType'
    BY <1>p, <2>2 DEF ApiType, ApiState
  <2>3. ApiType'
    BY <1>4, <1>f, <2>2 DEF SeedTestCases
  <2>4. RowsGo'
    BY <1>4, <1>p, CatalogueAssumption DEF RowsGo, SeedTestCases, TestsType
  <2> QED
    BY <1>4, <2>1, <2>3, <2>4, <1>ua, <1>up, <1>un, <1>uh, <1>uc, <1>us, <1>ug, <1>ul
    DEF SeedTestCases, TypedRows
<1>5. ASSUME NEW a \in Process, FinishSeed(a) PROVE TypedRows'
  <2>1. ASSUME api' = [api EXCEPT ![a].stage = "up"] PROVE ApiType'
    BY <1>p, <2>1 DEF ApiType, ApiState
  <2>2. ApiType'
    BY <1>5, <1>f, <2>1 DEF FinishSeed
  <2> QED
    BY <1>5, <2>2, <1>ua, <1>up, <1>ut, <1>un, <1>uh, <1>uc, <1>us, <1>ur, <1>ug, <1>ul
    DEF FinishSeed, TypedRows
<1>6. ASSUME NEW a \in Process, Crash(a) PROVE TypedRows'
  <2>1. ApiType'
    BY <1>6, <1>p, <1>d DEF ApiType, Crash
  <2>2. CountType'
    BY <1>6, <1>p, CatalogueAssumption DEF CountType, Crash
  <2> QED
    BY <1>6, <2>1, <2>2, <1>ua, <1>up, <1>ut, <1>un, <1>uh, <1>uc, <1>ur, <1>ug, <1>ul
    DEF Crash, TypedRows
<1>7. ASSUME NEW u \in User, AccountStep(u) PROVE TypedRows'
  <2>1. ASSUME NEW e \in Email, CreateUser(u, e) PROVE TypedRows'
    <3>1. AccountType'
      BY <2>1, <1>p DEF AccountType, Account, CreateUser
    <3> QED
      BY <2>1, <3>1, <1>up, <1>ut, <1>un, <1>uh, <1>uc, <1>ui, <1>us, <1>ur, <1>ug, <1>ul
      DEF CreateUser, TypedRows
  <2>2. ASSUME UpdateUserPassword(u) PROVE TypedRows'
    <3>1. AccountType'
      BY <2>2, <1>p DEF AccountType, Account, UpdateUserPassword
    <3> QED
      BY <2>2, <3>1, <1>up, <1>ut, <1>un, <1>uh, <1>uc, <1>ui, <1>us, <1>ur, <1>ug, <1>ul
      DEF UpdateUserPassword, TypedRows
  <2>3. ASSUME CheckUserReferences(u) PROVE TypedRows'
    <3>1. DeletionType'
      BY <2>3, <1>p DEF DeletionType, CheckUserReferences
    <3> QED
      BY <2>3, <3>1, <1>ua, <1>up, <1>ut, <1>un, <1>uh, <1>uc, <1>ui, <1>us, <1>ur, <1>ug
      DEF CheckUserReferences, TypedRows
  <2>4. ASSUME DeleteUser(u) PROVE TypedRows'
    <3>1. AccountType' /\ DeletionType'
      BY <2>4, <1>p DEF AccountType, DeletionType, PastUser, DeleteUser
    <3>2. CountType'
      BY <2>4, <1>us DEF DeleteUser
    <3> QED
      BY <2>4, <3>1, <3>2, <1>up, <1>ut, <1>un, <1>uh, <1>uc, <1>ui, <1>ur, <1>ug
      DEF DeleteUser, TypedRows
  <2>5. ASSUME NEW p \in SeedProblem, CreateAssignment(p, u) PROVE TypedRows'
    <3>1. AssignmentType'
      BY <2>5, <1>p DEF AssignmentType, AssignmentRow, CreateAssignment
    <3> QED
      BY <2>5, <3>1, <1>ua, <1>up, <1>ut, <1>un, <1>uh, <1>uc, <1>ui, <1>us, <1>ur, <1>ul
      DEF CreateAssignment, TypedRows
  <2> QED
    BY <1>7, <2>1, <2>2, <2>3, <2>4, <2>5 DEF AccountStep
<1>8. ASSUME NEW h \in Handler, NEW p \in Problem, NEW u \in User, CreateProblem(h, p, u)
      PROVE  TypedRows'
  <2>1. RequestType'
    BY <1>8, <1>p DEF RequestType, CreationOf, CreateProblem
  <2> QED
    BY <1>8, <2>1, <1>ua, <1>up, <1>ut, <1>un, <1>uc, <1>ui, <1>us, <1>ur, <1>ug, <1>ul
    DEF CreateProblem, TypedRows
<1>9. ASSUME NEW h \in Handler, PickNumber(h) PROVE TypedRows'
  <2>1. PICK n \in 1..Cardinality(Problem) : request' = [request EXCEPT ![h].number = n]
    BY <1>9 DEF PickNumber
  <2>2. RequestType'
    BY <1>9, <1>p, <1>h, <2>1 DEF RequestType, CreationOf, PickNumber
  <2> QED
    BY <1>9, <2>2, <1>ua, <1>up, <1>ut, <1>un, <1>uc, <1>ui, <1>us, <1>ur, <1>ug, <1>ul
    DEF PickNumber, TypedRows
<1>10. ASSUME NEW h \in Handler, CommitProblem(h) PROVE TypedRows'
  <2> DEFINE p == request[h].problem
  <2>1. p \in Problem /\ request[h].author \in User /\ request[h].number \in Nat
    BY <1>10, <1>h DEF CreationOf, CommitProblem
  <2>2. ProblemType' /\ TestsType' /\ ClaimType' /\ CountType'
    BY <1>10, <2>1, SaveTypes DEF CommitProblem
  <2>3. NumberType'
    BY <1>10, <1>p, <2>1 DEF NumberType, CommitProblem
  <2>4. RequestType'
    BY <1>10, <1>i DEF CommitProblem
  <2>5. RowsGo'
    <3>1. ASSUME NEW q \in Problem, q # p
          PROVE  problem'[q] = problem[q] /\ tests'[q] = tests[q] /\ number'[q] = number[q]
      BY <1>10, <1>p, <3>1 DEF CommitProblem, ProblemType, TestsType, NumberType
    <3>2. [author |-> request[h].author, save |-> saves + 1] \in ProblemRow(saves + 1)
      BY <1>r, <2>1 DEF ProblemRow
    <3>3. problem'[p] # None /\ problem'[p].save = saves + 1
      BY <1>10, <1>p, <1>r, <2>1, <3>2, RowsAreThere DEF CommitProblem, ProblemType
    <3> HIDE DEF p
    <3> QED
      BY <1>p, <1>r, <3>1, <3>3 DEF RowsGo
  <2> QED
    BY <1>10, <2>2, <2>3, <2>4, <2>5, <1>ua, <1>ui, <1>ug, <1>ul
    DEF CommitProblem, TypedRows
<1>11. ASSUME NEW h \in Handler, Rollback(h) PROVE TypedRows'
  BY <1>11, <1>i, <1>ua, <1>up, <1>ut, <1>un, <1>uc, <1>ui, <1>us, <1>ur, <1>ug, <1>ul
    DEF Rollback, TypedRows
<1>12. ASSUME NEW p \in Problem, UpdateProblem(p) PROVE TypedRows'
  <2>1. problem[p] \in ProblemRow(saves) /\ problem[p].author \in User
    BY <1>12, <1>t DEF ProblemRow, UpdateProblem
  <2>2. problem' = [problem EXCEPT ![p] = [author |-> problem[p].author, save |-> saves + 1]]
    <3>1. [problem[p] EXCEPT !.save = saves + 1] = [author |-> problem[p].author, save |-> saves + 1]
      BY <2>1 DEF ProblemRow
    <3> QED
      BY <1>12, <1>p, <3>1 DEF UpdateProblem, ProblemType
  <2>3. ProblemType' /\ TestsType' /\ ClaimType' /\ CountType'
    BY <1>12, <2>1, <2>2, SaveTypes DEF UpdateProblem, SavedTests
  <2>4. RowsGo'
    <3>1. [author |-> problem[p].author, save |-> saves + 1] \in ProblemRow(saves + 1)
      BY <1>r, <2>1 DEF ProblemRow
    <3>2. problem'[p] # None /\ problem'[p].save = saves + 1
      BY <1>p, <1>r, <2>2, <3>1, RowsAreThere DEF ProblemType
    <3>3. ASSUME NEW q \in Problem, q # p
          PROVE  problem'[q] = problem[q] /\ tests'[q] = tests[q] /\ number'[q] = number[q]
      BY <1>12, <1>p, <2>2, <3>3 DEF UpdateProblem, ProblemType, TestsType
    <3> QED
      BY <1>12, <1>p, <1>r, <3>2, <3>3 DEF RowsGo
  <2> QED
    BY <1>12, <2>3, <2>4, <1>ua, <1>un, <1>uh, <1>ui, <1>ug, <1>ul
    DEF UpdateProblem, TypedRows
<1>13. ASSUME NEW p \in Problem, DeleteProblem(p) PROVE TypedRows'
  <2>1. ProblemType' /\ TestsType' /\ NumberType'
    BY <1>13, <1>p DEF ProblemType, TestsType, NumberType, DeleteProblem, RemainingNumbers
  <2>2. RowsGo'
    BY <1>13, <1>p
    DEF RowsGo, ProblemType, TestsType, NumberType, DeleteProblem, RemainingNumbers
  <2>3. AssignmentType' /\ DeletionType'
    BY <1>13, <1>p DEF AssignmentType, DeletionType, PastProblem, DeleteProblem
  <2> QED
    BY <1>13, <2>1, <2>2, <2>3, <1>ua, <1>uh, <1>uc, <1>ui, <1>us, <1>ug, <1>ul
    DEF DeleteProblem, TypedRows
<1>14. ASSUME NEW w \in Worker, NEW p \in Problem, ClaimSubmission(w, p) PROVE TypedRows'
  <2>1. [problem |-> p, save |-> problem[p].save, tests |-> {}, fetched |-> FALSE]
          \in ClaimUpTo(saves)
    BY <1>14, <1>t DEF ClaimSubmission, ProblemRow, ClaimUpTo
  <2>2. ClaimType'
    BY <1>14, <1>p, <2>1 DEF ClaimSubmission, ClaimType
  <2> QED
    BY <1>14, <2>2, <1>ua, <1>up, <1>ut, <1>un, <1>uh, <1>ui, <1>us, <1>ur, <1>ug, <1>ul
    DEF ClaimSubmission, TypedRows
<1>15. ASSUME NEW w \in Worker, FetchHiddenTestCases(w) PROVE TypedRows'
  <2>1. claim[w] \in ClaimUpTo(saves)
    BY <1>15, <1>p DEF FetchHiddenTestCases, ClaimType
  <2>2. [claim[w] EXCEPT !.tests = tests[claim[w].problem], !.fetched = TRUE] \in ClaimUpTo(saves)
    BY <1>p, <2>1 DEF ClaimUpTo, TestsType
  <2>3. claim' = [claim EXCEPT ![w] =
                   [claim[w] EXCEPT !.tests = tests[claim[w].problem], !.fetched = TRUE]]
    BY <1>15, <1>p, <2>1 DEF FetchHiddenTestCases, ClaimType, ClaimUpTo
  <2>4. ClaimType'
    BY <1>15, <1>p, <2>2, <2>3 DEF FetchHiddenTestCases, ClaimType
  <2> QED
    BY <1>15, <2>4, <1>ua, <1>up, <1>ut, <1>un, <1>uh, <1>ui, <1>us, <1>ur, <1>ug, <1>ul
    DEF FetchHiddenTestCases, TypedRows
<1>16. ASSUME NEW w \in Worker, EndClaim(w) PROVE TypedRows'
  <2>1. ClaimType'
    BY <1>16, <1>p DEF EndClaim, ClaimType
  <2> QED
    BY <1>16, <2>1, <1>ua, <1>up, <1>ut, <1>un, <1>uh, <1>ui, <1>us, <1>ur, <1>ug, <1>ul
    DEF EndClaim, TypedRows
<1>17. ASSUME NEW a \in Process, NEW p \in SeedProblem, SeedAssignmentRow(a, p)
       PROVE  TypedRows'
  <2>1. SeededAssignment \in AssignmentRow
    BY CatalogueAssumption DEF SeededAssignment, AssignmentRow
  <2>2. AssignmentType'
    BY <1>17, <1>p, <2>1 DEF AssignmentType, SeedAssignmentRow
  <2>3. ASSUME api' = [api EXCEPT ![a].assignments = @ \ {p}] PROVE ApiType'
    BY <1>p, <2>3 DEF ApiType, ApiState
  <2>4. ApiType'
    BY <1>17, <1>f, <2>3 DEF SeedAssignmentRow
  <2> QED
    BY <1>17, <2>2, <2>4, <1>ua, <1>up, <1>ut, <1>un, <1>uh, <1>uc, <1>us, <1>ur, <1>ul
    DEF SeedAssignmentRow, TypedRows
<1>18. ASSUME DeleteUserFails PROVE TypedRows'
  <2>1. DeletionType'
    BY <1>18, <1>p DEF DeletionType, DeleteUserFails
  <2> QED
    BY <1>18, <2>1, <1>ua, <1>up, <1>ut, <1>un, <1>uh, <1>uc, <1>ui, <1>us, <1>ur, <1>ug
    DEF DeleteUserFails, TypedRows
<1>19. ASSUME UNCHANGED vars PROVE TypedRows'
  BY <1>19, <1>ua, <1>up, <1>ut, <1>un, <1>uh, <1>uc, <1>ui, <1>us, <1>ur, <1>ug, <1>ul
    DEF vars, TypedRows
<1> QED
  BY <1>1, <1>2, <1>3, <1>4, <1>5, <1>6, <1>7, <1>8, <1>9, <1>10, <1>11, <1>12, <1>13, <1>14,
     <1>15, <1>16, <1>17, <1>18, <1>19 DEF Next, SeedStep, CreationStep, ClaimStep

\* Every table holds rows of its shape, whatever happens.
THEOREM TypeCorrect == Spec => []TypeOK
<1>1. Init => TypeOK
  BY InitTypes
<1>2. TypeOK /\ [Next]_vars => TypeOK'
  BY TypeStep
<1> QED
  BY <1>1, <1>2, PTL DEF Spec

-----------------------------------------------------------------------------
(* Accounts and what refers to them *)

AuthorsStand == \A p \in Problem : problem[p] # None => account[problem[p].author] # None
CreatorsStand == \A h \in Handler : request[h] # Idle => account[request[h].author] # None
EmailsDistinct ==
  \A u, v \in User :
    account[u] # None /\ account[v] # None /\ account[u].email = account[v].email => u = v

AssignmentsStand ==
  \A p \in SeedProblem : assignment[p] # None =>
    problem[p] # None /\ account[SeedCandidate] # None /\ account[assignment[p].by] # None
RowsStand == AuthorsStand /\ CreatorsStand /\ EmailsDistinct /\ AssignmentsStand

LEMMA AccountsParts == AccountsStand <=> RowsStand
BY DEF AccountsStand, RowsStand, AuthorsStand, CreatorsStand, EmailsDistinct, AssignmentsStand

LEMMA AssignmentRefers ==
  ASSUME TypeOK, NEW p \in SeedProblem, assignment[p] # None
  PROVE  SeedCandidate \in User /\ assignment[p].by \in User
<1>1. AssignmentType
  BY TypeParts DEF TypedRows
<1> QED
  BY <1>1, CatalogueAssumption DEF AssignmentType, AssignmentRow

\* A new account with an address nobody has keeps addresses apart.
LEMMA NewAccount ==
  ASSUME TypeOK, AccountsStand, NEW u \in User, NEW r \in Account,
         account[u] = None, ~EmailUsed(r.email),
         account' = [account EXCEPT ![u] = r],
         UNCHANGED <<problem, request, assignment>>
  PROVE  AccountsStand'
<1>1. /\ AccountType /\ ProblemType /\ RequestType
      /\ AuthorsStand /\ CreatorsStand /\ EmailsDistinct /\ AssignmentsStand
  BY TypeParts, AccountsParts DEF TypedRows, RowsStand
<1>2. \A v \in User : account'[v] = IF v = u THEN r ELSE account[v]
  BY <1>1 DEF AccountType
<1>3. \A v \in User : account[v] # None => account'[v] = account[v]
  BY <1>2
<1>4. \A p \in Problem : problem[p] # None => problem[p].author \in User
  BY <1>1 DEF ProblemType, ProblemRow
<1>5. AuthorsStand'
  BY <1>1, <1>3, <1>4 DEF AuthorsStand
<1>6. \A h \in Handler : request[h] # Idle => request[h].author \in User
  BY <1>1 DEF RequestType, CreationOf
<1>7. CreatorsStand'
  BY <1>1, <1>3, <1>6 DEF CreatorsStand
<1>8. EmailsDistinct'
  BY <1>1, <1>2 DEF EmailsDistinct, EmailUsed
<1>9. AssignmentsStand'
  BY <1>1, <1>3, AssignmentRefers DEF AssignmentsStand
<1>10. RowsStand' => AccountsStand'
  BY AccountsParts, PTL
<1> QED
  BY <1>5, <1>7, <1>8, <1>9, <1>10 DEF RowsStand

\* Steps that leave accounts alone, and by which a problem or a creation gets an author
\* only if that author has an account, and an assignment appears only with all it refers to.
LEMMA AuthorsWithAccounts ==
  ASSUME TypeOK, AccountsStand, UNCHANGED account,
         \A p \in Problem : problem'[p] # None =>
           account[problem'[p].author] # None \/ problem'[p] = problem[p],
         \A h \in Handler : request'[h] # Idle =>
           account[request'[h].author] # None \/ request'[h] = request[h],
         \A p \in SeedProblem : assignment'[p] # None =>
           \/ assignment'[p] = assignment[p] /\ (problem[p] # None => problem'[p] # None)
           \/ problem'[p] # None /\ account[SeedCandidate] # None /\ account[assignment'[p].by] # None
  PROVE  AccountsStand'
<1>1. AuthorsStand /\ CreatorsStand /\ EmailsDistinct /\ AssignmentsStand
  BY AccountsParts DEF RowsStand
<1>2. AuthorsStand' /\ CreatorsStand' /\ EmailsDistinct'
  BY <1>1 DEF AuthorsStand, CreatorsStand, EmailsDistinct
<1>3. AssignmentsStand'
  BY <1>1 DEF AssignmentsStand
<1>4. RowsStand' => AccountsStand'
  BY AccountsParts, PTL
<1> QED
  BY <1>2, <1>3, <1>4 DEF RowsStand

\* Every step keeps authors and addresses.
LEMMA AccountsStep == TypeOK /\ AccountsStand /\ [Next]_vars => AccountsStand'
<1> SUFFICES ASSUME TypeOK, AccountsStand, [Next]_vars PROVE AccountsStand'
  OBVIOUS
<1>p. /\ AccountType /\ ProblemType /\ RequestType
      /\ AuthorsStand /\ CreatorsStand /\ EmailsDistinct /\ AssignmentsStand
      /\ AssignmentType
  BY TypeParts, AccountsParts DEF TypedRows, RowsStand
<1>c. RowsStand' => AccountsStand'
  BY AccountsParts, PTL
<1>t. \A p \in Problem : problem[p] # None => problem[p] \in ProblemRow(saves)
  BY <1>p DEF ProblemType
<1>h. \A h \in Handler : request[h] # Idle => request[h] \in CreationOf
  BY <1>p DEF RequestType
<1>n. saves \in Nat
  BY TypeParts, CatalogueAssumption DEF TypedRows, CountType
<1>s. SeedProblem \subseteq Problem
  BY CatalogueAssumption
<1>u. UNCHANGED <<account, problem, request, assignment>> => AccountsStand'
  BY DEF AccountsStand
<1> USE DEF tables, rows, work, starts
<1>1. ASSUME NEW a \in Process, NEW u \in SeedUser, SeedUserRow(a, u) PROVE AccountsStand'
  <2>1. u \in User /\ SeededAccount[u] \in Account /\ SeededAccount[u].email = SeedEmail[u]
    BY CatalogueAssumption DEF SeededAccount, Account
  <2>2. CASE account[u] = None /\ ~EmailUsed(SeedEmail[u])
    <3>1. account' = [account EXCEPT ![u] = SeededAccount[u]] /\ UNCHANGED <<problem, request, assignment>>
      BY <1>1, <2>2 DEF SeedUserRow, AccountAfterSeed
    <3> QED
      BY <2>1, <2>2, <3>1, NewAccount
  <2>3. CASE ~(account[u] = None /\ ~EmailUsed(SeedEmail[u]))
    <3>1. UNCHANGED account
      BY <1>1, <1>p, <2>3 DEF SeedUserRow, AccountAfterSeed, AccountType
    <3> QED
      BY <1>1, <1>u, <3>1 DEF SeedUserRow
  <2> QED
    BY <2>2, <2>3
<1>2. ASSUME NEW a \in Process, NEW p \in SeedProblem, SeedProblemRow(a, p) PROVE AccountsStand'
  <2>1. \A q \in Problem : problem'[q] # None =>
          account[problem'[q].author] # None \/ problem'[q] = problem[q]
    BY <1>2, <1>p DEF SeedProblemRow, MayBeThere, ProblemType
  <2>2. \A q \in Problem : problem[q] # None => problem'[q] # None
    BY <1>2, <1>p DEF SeedProblemRow, ProblemType
  <2> QED
    BY <1>2, <1>s, <2>1, <2>2, AuthorsWithAccounts DEF SeedProblemRow
<1>3. ASSUME NEW u \in User, NEW e \in Email, CreateUser(u, e) PROVE AccountsStand'
  <2>1. [email |-> e, password |-> "own"] \in Account
    BY DEF Account
  <2> QED
    BY <1>3, <2>1, NewAccount DEF CreateUser
<1>4. ASSUME NEW u \in User, UpdateUserPassword(u) PROVE AccountsStand'
  <2>1. account[u] \in Account
    BY <1>4, <1>p DEF AccountType, UpdateUserPassword
  <2>2. [account[u] EXCEPT !.password = "own"] \in Account
    BY <2>1 DEF Account
  <2>3. account'[u] # None /\ account'[u].email = account[u].email
    BY <1>4, <1>p, <2>1, <2>2, RowsAreThere DEF AccountType, UpdateUserPassword, Account
  <2>4. \A v \in User : v # u => account'[v] = account[v]
    BY <1>4, <1>p DEF AccountType, UpdateUserPassword
  <2>5. account[u] # None /\ UNCHANGED <<problem, request, assignment>>
    BY <1>4 DEF UpdateUserPassword
  <2>6. AuthorsStand'
    BY <1>p, <1>t, <2>3, <2>4, <2>5 DEF AuthorsStand, ProblemRow
  <2>7. CreatorsStand'
    BY <1>p, <1>h, <2>3, <2>4, <2>5 DEF CreatorsStand, CreationOf
  <2>8. EmailsDistinct'
    BY <1>p, <2>3, <2>4, <2>5 DEF EmailsDistinct
  <2>9. AssignmentsStand'
    BY <1>p, <2>3, <2>4, <2>5, AssignmentRefers DEF AssignmentsStand
  <2> QED
    BY <2>6, <2>7, <2>8, <2>9, <1>c DEF RowsStand
<1>5. ASSUME NEW u \in User, DeleteUser(u) PROVE AccountsStand'
  <2>1. \A v \in User : account'[v] = IF v = u THEN None ELSE account[v]
    BY <1>5, <1>p DEF AccountType, DeleteUser
  <2>2. /\ ~HasUserReferences(u) /\ UNCHANGED <<problem, request, assignment>>
        /\ \A h \in Handler : request[h] # Idle => request[h].author # u
    BY <1>5 DEF DeleteUser, ForeignKeysHold
  <2>3. AuthorsStand'
    BY <1>p, <1>t, <2>1, <2>2 DEF AuthorsStand, ProblemRow, HasUserReferences
  <2>4. CreatorsStand'
    BY <1>p, <1>h, <2>1, <2>2 DEF CreatorsStand, CreationOf
  <2>5. EmailsDistinct'
    BY <1>p, <2>1 DEF EmailsDistinct
  <2>6. AssignmentsStand'
    BY <1>p, <2>1, <2>2, AssignmentRefers DEF AssignmentsStand, HasUserReferences
  <2> QED
    BY <2>3, <2>4, <2>5, <2>6, <1>c DEF RowsStand
<1>6. ASSUME NEW h \in Handler, NEW p \in Problem, NEW u \in User, CreateProblem(h, p, u)
      PROVE  AccountsStand'
  <2>1. \A k \in Handler : request'[k] # Idle =>
          account[request'[k].author] # None \/ request'[k] = request[k]
    BY <1>6, <1>p DEF CreateProblem, RequestType
  <2> QED
    BY <1>6, <2>1, AuthorsWithAccounts DEF CreateProblem
<1>7. ASSUME NEW h \in Handler, PickNumber(h) PROVE AccountsStand'
  <2>1. PICK n \in 1..Cardinality(Problem) : request' = [request EXCEPT ![h].number = n]
    BY <1>7 DEF PickNumber
  <2>2. request[h] \in CreationOf /\ account[request[h].author] # None
    BY <1>7, <1>p, <1>h DEF PickNumber, CreatorsStand
  <2>3. \A k \in Handler : request'[k] # Idle =>
          account[request'[k].author] # None \/ request'[k] = request[k]
    BY <1>p, <2>1, <2>2 DEF RequestType, CreationOf
  <2> QED
    BY <1>7, <2>3, AuthorsWithAccounts DEF PickNumber
<1>8. ASSUME NEW h \in Handler, CommitProblem(h) PROVE AccountsStand'
  <2>1. account[request[h].author] # None
    BY <1>8, <1>p DEF CommitProblem, CreatorsStand
  <2>2. \A q \in Problem : problem'[q] # None =>
          account[problem'[q].author] # None \/ problem'[q] = problem[q]
    BY <1>8, <1>p, <2>1 DEF CommitProblem, ProblemType
  <2>3. \A k \in Handler : request'[k] # Idle => request'[k] = request[k]
    BY <1>8, <1>p DEF CommitProblem, RequestType
  <2>4. request[h] \in CreationOf /\ saves \in Nat
    BY <1>8, <1>h, <1>n DEF CommitProblem
  <2>5. [author |-> request[h].author, save |-> saves + 1] \in ProblemRow(saves + 1)
    BY <2>4 DEF CreationOf, ProblemRow
  <2>6. \A q \in Problem : problem[q] # None => problem'[q] # None
    BY <1>8, <1>p, <2>4, <2>5, RowsAreThere DEF CommitProblem, ProblemType
  <2> QED
    BY <1>8, <1>s, <2>2, <2>3, <2>6, AuthorsWithAccounts DEF CommitProblem
<1>9. ASSUME NEW h \in Handler, Rollback(h) PROVE AccountsStand'
  <2>1. \A k \in Handler : request'[k] # Idle => request'[k] = request[k]
    BY <1>9, <1>p DEF Rollback, RequestType
  <2> QED
    BY <1>9, <2>1, AuthorsWithAccounts DEF Rollback
<1>10. ASSUME NEW p \in Problem, UpdateProblem(p) PROVE AccountsStand'
  <2>1. problem[p] \in ProblemRow(saves) /\ account[problem[p].author] # None
    BY <1>10, <1>p, <1>t DEF UpdateProblem, AuthorsStand
  <2>2. \A q \in Problem : problem'[q] # None =>
          account[problem'[q].author] # None \/ problem'[q] = problem[q]
    BY <1>10, <1>p, <2>1 DEF UpdateProblem, ProblemType, ProblemRow
  <2>3. [problem[p] EXCEPT !.save = saves + 1] \in ProblemRow(saves + 1)
    BY <1>n, <2>1 DEF ProblemRow
  <2>4. \A q \in Problem : problem[q] # None => problem'[q] # None
    BY <1>10, <1>p, <1>n, <2>3, RowsAreThere DEF UpdateProblem, ProblemType
  <2> QED
    BY <1>10, <1>s, <2>2, <2>4, AuthorsWithAccounts DEF UpdateProblem
<1>11. ASSUME NEW p \in Problem, DeleteProblem(p) PROVE AccountsStand'
  <2>1. \A q \in Problem : problem'[q] # None => problem'[q] = problem[q]
    BY <1>11, <1>p DEF DeleteProblem, ProblemType
  <2>2. \A q \in SeedProblem : assignment'[q] # None =>
          assignment'[q] = assignment[q] /\ (problem[q] # None => problem'[q] # None)
    BY <1>11, <1>p, <1>s DEF DeleteProblem, ProblemType
  <2> QED
    BY <1>11, <2>1, <2>2, AuthorsWithAccounts DEF DeleteProblem
<1>12. ASSUME NEW a \in Process,
              Start(a) \/ Crash(a) \/ FinishSeed(a) \/ \E p \in SeedProblem : SeedTestCases(a, p)
       PROVE  AccountsStand'
  BY <1>12, <1>u DEF Start, Crash, FinishSeed, SeedTestCases
<1>13. ASSUME NEW w \in Worker, ClaimStep(w) PROVE AccountsStand'
  BY <1>13, <1>u DEF ClaimStep, ClaimSubmission, FetchHiddenTestCases, EndClaim
<1>14. ASSUME NEW u \in User, CheckUserReferences(u) PROVE AccountsStand'
  BY <1>14, <1>u DEF CheckUserReferences
<1>15. ASSUME NEW p \in SeedProblem, NEW u \in User, CreateAssignment(p, u) PROVE AccountsStand'
  <2>1. \A q \in SeedProblem : assignment'[q] # None =>
          assignment'[q] = assignment[q] \/ (q = p /\ assignment'[q].by = u)
    BY <1>15, <1>p DEF CreateAssignment, AssignmentType
  <2> QED
    BY <1>15, <2>1, AuthorsWithAccounts DEF CreateAssignment
<1>16. ASSUME NEW a \in Process, NEW p \in SeedProblem, SeedAssignmentRow(a, p)
       PROVE  AccountsStand'
  <2>1. \A q \in SeedProblem : assignment'[q] # None =>
          \/ assignment'[q] = assignment[q]
          \/ /\ q = p /\ assignment'[q] = SeededAssignment
             /\ MayBeAssigned(p) /\ ~Seeded(p)
    BY <1>16, <1>p DEF SeedAssignmentRow, AssignmentType
  <2> QED
    BY <1>16, <2>1, AuthorsWithAccounts
    DEF SeedAssignmentRow, SeededAssignment, MayBeAssigned
<1>17. ASSUME DeleteUserFails PROVE AccountsStand'
  BY <1>17, <1>u DEF DeleteUserFails
<1>18. ASSUME UNCHANGED vars PROVE AccountsStand'
  BY <1>18, <1>u DEF vars
<1> QED
  BY <1>1, <1>2, <1>3, <1>4, <1>5, <1>6, <1>7, <1>8, <1>9, <1>10, <1>11, <1>12, <1>13, <1>14,
     <1>15, <1>16, <1>17, <1>18 DEF Next, SeedStep, AccountStep, CreationStep

\* No account disappears under a problem or a creation, whatever is deleted, seeded and
\* created at the same time, and no two accounts share an address.
THEOREM AccountsCorrect == Spec => []AccountsStand
<1>1. Init => AccountsStand
  BY DEF Init, AccountsStand
<1>2. TypeOK /\ AccountsStand /\ [Next]_vars => AccountsStand'
  BY AccountsStep
<1> QED
  BY <1>1, <1>2, TypeCorrect, PTL DEF Spec

-----------------------------------------------------------------------------
(* Display numbers *)

Picked(h) == request[h] # Idle /\ request[h].number > 0
OnePicks == \A h, k \in Handler : Picked(h) /\ Picked(k) => h = k
SmallestFree(n) == ~NumberTaken(n) /\ \A m \in 1..(n - 1) : NumberTaken(m)

\* The inductive invariant: only the holder of the lock has picked a number, and that
\* number is the smallest one that is free.
NumbersInv == OnePicks /\ \A h \in Handler : Picked(h) => SmallestFree(request[h].number)

LEMMA NumbersGoal == NumbersInv => PickedNumbersStand
<1> SUFFICES ASSUME NumbersInv, NEW h \in Handler, Picked(h)
             PROVE  /\ SmallestFree(request[h].number)
                    /\ \A k \in Handler \ {h} :
                         request[k] # Idle => request[k].number # request[h].number
  BY DEF PickedNumbersStand, Picked, SmallestFree
<1>1. SmallestFree(request[h].number)
  BY DEF NumbersInv
<1>2. \A k \in Handler \ {h} : ~Picked(k)
  BY DEF NumbersInv, OnePicks
<1> QED
  BY <1>1, <1>2 DEF Picked

\* Steps that leave the numbers alone and by which nobody picks one.
LEMMA NoPick ==
  ASSUME NumbersInv, UNCHANGED number,
         \A h \in Handler : Picked(h)' => Picked(h) /\ request'[h] = request[h]
  PROVE  NumbersInv'
<1>1. OnePicks'
  BY DEF NumbersInv, OnePicks
<1>2. \A h \in Handler : Picked(h)' => SmallestFree(request[h].number)'
  BY DEF NumbersInv, SmallestFree, NumberTaken
<1> QED
  BY <1>1, <1>2 DEF NumbersInv

\* Every step keeps the lock and what it protects.
LEMMA NumbersStep == TypeOK /\ NumbersInv /\ [Next]_vars => NumbersInv'
<1> SUFFICES ASSUME TypeOK, NumbersInv, [Next]_vars PROVE NumbersInv'
  OBVIOUS
<1>p. RequestType /\ NumberType
  BY TypeParts DEF TypedRows
<1>u. ASSUME UNCHANGED <<number, request>> PROVE NumbersInv'
  BY <1>u, NoPick DEF Picked
<1> USE DEF tables, rows, work, starts
<1>1. ASSUME NEW h \in Handler, NEW p \in Problem, NEW u \in User, CreateProblem(h, p, u)
      PROVE  NumbersInv'
  <2>1. \A k \in Handler : Picked(k)' => Picked(k) /\ request'[k] = request[k]
    BY <1>1, <1>p DEF CreateProblem, RequestType, Picked
  <2> QED
    BY <1>1, <2>1, NoPick DEF CreateProblem
<1>2. ASSUME NEW h \in Handler, PickNumber(h) PROVE NumbersInv'
  <2>1. PICK n \in 1..Cardinality(Problem) :
          SmallestFree(n) /\ request' = [request EXCEPT ![h].number = n]
    BY <1>2 DEF PickNumber, SmallestFree
  <2>2. \A k \in Handler : ~Picked(k)
    BY <1>2 DEF PickNumber, NumbersLocked, Picked
  <2>3. \A k \in Handler : Picked(k)' => k = h
    BY <1>p, <2>1, <2>2 DEF Picked, RequestType
  <2>4. request[h] \in CreationOf
    BY <1>2, <1>p DEF PickNumber, RequestType
  <2>5. request'[h].number = n
    BY <1>p, <2>1, <2>4 DEF RequestType, CreationOf
  <2>6. SmallestFree(n)'
    BY <1>2, <2>1 DEF SmallestFree, NumberTaken, PickNumber
  <2>7. \A k \in Handler : Picked(k)' => SmallestFree(request[k].number)'
    BY <2>3, <2>5, <2>6 DEF SmallestFree, NumberTaken
  <2>8. OnePicks'
    BY <2>3 DEF OnePicks
  <2> QED
    BY <2>7, <2>8 DEF NumbersInv
<1>3. ASSUME NEW h \in Handler, CommitProblem(h) PROVE NumbersInv'
  <2>1. \A k \in Handler : k # h => ~Picked(k)
    BY <1>3 DEF CommitProblem, NumbersInv, OnePicks, Picked
  <2>2. \A k \in Handler : ~Picked(k)'
    BY <1>3, <1>p, <2>1 DEF CommitProblem, RequestType, Picked
  <2> QED
    BY <2>2 DEF NumbersInv, OnePicks
<1>4. ASSUME NEW h \in Handler, Rollback(h) PROVE NumbersInv'
  <2>1. \A k \in Handler : Picked(k)' => Picked(k) /\ request'[k] = request[k]
    BY <1>4, <1>p DEF Rollback, RequestType, Picked
  <2> QED
    BY <1>4, <2>1, NoPick DEF Rollback
<1>5. ASSUME NEW p \in Problem, DeleteProblem(p) PROVE NumbersInv'
  <2>1. \A k \in Handler : ~Picked(k)
    BY <1>5 DEF DeleteProblem, NumbersLocked, Picked
  <2>2. \A k \in Handler : ~Picked(k)'
    BY <1>5, <2>1 DEF DeleteProblem, Picked
  <2> QED
    BY <2>2 DEF NumbersInv, OnePicks
<1>6. ASSUME NEW p \in Problem, UpdateProblem(p) PROVE NumbersInv'
  BY <1>6, <1>u DEF UpdateProblem
<1>7. ASSUME NEW a \in Process, Start(a) \/ SeedStep(a) \/ Crash(a) PROVE NumbersInv'
  BY <1>7, <1>u
  DEF Start, Crash, SeedStep, SeedUserRow, SeedProblemRow, SeedTestCases, SeedAssignmentRow,
      FinishSeed
<1>8. ASSUME DeleteUserFails \/ \E u \in User : AccountStep(u) PROVE NumbersInv'
  BY <1>8, <1>u
  DEF AccountStep, CreateUser, UpdateUserPassword, CheckUserReferences, DeleteUser,
      DeleteUserFails, CreateAssignment
<1>9. ASSUME NEW w \in Worker, ClaimStep(w) PROVE NumbersInv'
  BY <1>9, <1>u DEF ClaimStep, ClaimSubmission, FetchHiddenTestCases, EndClaim
<1>10. ASSUME UNCHANGED vars PROVE NumbersInv'
  BY <1>10, <1>u DEF vars
<1> QED
  BY <1>1, <1>2, <1>3, <1>4, <1>5, <1>6, <1>7, <1>8, <1>9, <1>10 DEF Next, CreationStep

\* A creation commits the number it picked without conflict and leaves no gap.
THEOREM NumbersCorrect == Spec => []PickedNumbersStand
<1>1. Init => NumbersInv
  BY DEF Init, NumbersInv, OnePicks, Picked
<1>2. TypeOK /\ NumbersInv /\ [Next]_vars => NumbersInv'
  BY NumbersStep
<1> QED
  BY <1>1, <1>2, TypeCorrect, NumbersGoal, PTL DEF Spec

-----------------------------------------------------------------------------
(* Saves, tests and claims *)

\* The tests of a problem are those of its save, but for those of the seed.
TestsOfSave ==
  \A p \in Problem : problem[p] # None =>
    /\ tests[p] \subseteq {0, problem[p].save}
    /\ problem[p].save > 0 => problem[p].save \in tests[p]

\* A claim that has yet to read the tests keeps its problem, which is only saved anew.
ClaimsHold ==
  \A w \in Worker : claim[w] # Idle /\ ~claim[w].fetched =>
    /\ problem[claim[w].problem] # None
    /\ problem[claim[w].problem].save >= claim[w].save

SavesInv == TestsOfSave /\ ClaimsHold /\ JudgedByOneSave

\* What a step may do to the problems: a problem that no unread claim needs disappears,
\* a save replaces the tests, and the rest keep their tests but for those of the seed.
Kept(p) == problem'[p] = problem[p] /\ tests'[p] \in {tests[p], tests[p] \cup {0}}
Gone(p) ==
  /\ problem'[p] = None
  /\ \A w \in Worker : claim[w] # Idle /\ ~claim[w].fetched => claim[w].problem # p
Saved(p) == problem'[p] # None /\ problem'[p].save = saves + 1 /\ tests'[p] = {saves + 1}
SeedInserts(p) ==
  problem[p] = None /\ problem'[p] # None /\ problem'[p].save = 0 /\ tests'[p] = tests[p]

LEMMA ProblemEffect ==
  ASSUME TypeOK, SavesInv, UNCHANGED claim,
         \A p \in Problem : Kept(p) \/ Gone(p) \/ Saved(p) \/ SeedInserts(p)
  PROVE  SavesInv'
<1>p. ProblemType /\ TestsType /\ ClaimType /\ RowsGo /\ saves \in Nat
  BY TypeParts, CatalogueAssumption DEF TypedRows, CountType
<1>t. \A p \in Problem : problem[p] # None => problem[p].save \in 0..saves
  BY <1>p DEF ProblemType, ProblemRow
<1>c. \A w \in Worker : claim[w] # Idle =>
        claim[w].problem \in Problem /\ claim[w].save \in 0..saves
  BY <1>p DEF ClaimType, ClaimUpTo
<1>1. TestsOfSave'
  BY <1>p, <1>t DEF SavesInv, TestsOfSave, Kept, Gone, Saved, SeedInserts, RowsGo
<1>2. ClaimsHold'
  BY <1>p, <1>t, <1>c DEF SavesInv, ClaimsHold, Kept, Gone, Saved, SeedInserts
<1>3. JudgedByOneSave'
  BY DEF SavesInv, JudgedByOneSave
<1> QED
  BY <1>1, <1>2, <1>3 DEF SavesInv

\* Every step keeps what claims read.
LEMMA SavesStep == TypeOK /\ SavesInv /\ [Next]_vars => SavesInv'
<1> SUFFICES ASSUME TypeOK, SavesInv, [Next]_vars PROVE SavesInv'
  OBVIOUS
<1>p. ProblemType /\ TestsType /\ ClaimType /\ RowsGo /\ RequestType /\ saves \in Nat
  BY TypeParts, CatalogueAssumption DEF TypedRows, CountType
<1>t. \A p \in Problem : problem[p] # None => problem[p] \in ProblemRow(saves)
  BY <1>p DEF ProblemType
<1>c. \A w \in Worker : claim[w] # Idle => claim[w] \in ClaimUpTo(saves)
  BY <1>p DEF ClaimType
<1>u. ASSUME UNCHANGED <<problem, tests, claim>> PROVE SavesInv'
  BY <1>u DEF SavesInv, TestsOfSave, ClaimsHold, JudgedByOneSave
<1> USE DEF tables, rows, work, starts
<1>1. ASSUME NEW a \in Process, NEW p \in SeedProblem, SeedProblemRow(a, p) PROVE SavesInv'
  <2>1. [author |-> SeedAdmin, save |-> 0] \in ProblemRow(saves)
    BY <1>p, CatalogueAssumption DEF ProblemRow
  <2>2. \A q \in Problem : Kept(q) \/ SeedInserts(q)
    BY <1>1, <1>p, <2>1, RowsAreThere DEF SeedProblemRow, ProblemType, Kept, SeedInserts
  <2> QED
    BY <1>1, <2>2, ProblemEffect DEF SeedProblemRow
<1>2. ASSUME NEW a \in Process, NEW p \in SeedProblem, SeedTestCases(a, p) PROVE SavesInv'
  <2>1. \A q \in Problem : Kept(q)
    BY <1>2, <1>p DEF SeedTestCases, TestsType, Kept
  <2> QED
    BY <1>2, <2>1, ProblemEffect DEF SeedTestCases
<1>3. ASSUME NEW h \in Handler, CommitProblem(h) PROVE SavesInv'
  <2> DEFINE p == request[h].problem
  <2>1. p \in Problem /\ request[h].author \in User
    BY <1>3, <1>p DEF CommitProblem, RequestType, CreationOf
  <2>2. [author |-> request[h].author, save |-> saves + 1] \in ProblemRow(saves + 1)
    BY <1>p, <2>1 DEF ProblemRow
  <2>3. \A q \in Problem : Kept(q) \/ Saved(q)
    BY <1>3, <1>p, <2>1, <2>2, RowsAreThere DEF CommitProblem, ProblemType, TestsType, Kept, Saved
  <2> QED
    BY <1>3, <2>3, ProblemEffect DEF CommitProblem
<1>4. ASSUME NEW p \in Problem, UpdateProblem(p) PROVE SavesInv'
  <2>1. problem[p] \in ProblemRow(saves)
    BY <1>4, <1>t DEF UpdateProblem
  <2>2. /\ [problem[p] EXCEPT !.save = saves + 1] \in ProblemRow(saves + 1)
        /\ [problem[p] EXCEPT !.save = saves + 1].save = saves + 1
    BY <1>p, <2>1 DEF ProblemRow
  <2>3. Saved(p)
    BY <1>4, <1>p, <2>2, RowsAreThere DEF UpdateProblem, SavedTests, ProblemType, TestsType, Saved
  <2>4. \A q \in Problem : q # p => Kept(q)
    BY <1>4, <1>p DEF UpdateProblem, ProblemType, TestsType, Kept
  <2> QED
    BY <1>4, <2>3, <2>4, ProblemEffect DEF UpdateProblem
<1>5. ASSUME NEW p \in Problem, DeleteProblem(p) PROVE SavesInv'
  <2>1. Gone(p)
    BY <1>5, <1>p DEF DeleteProblem, ProblemType, Gone
  <2>2. \A q \in Problem : q # p => Kept(q)
    BY <1>5, <1>p DEF DeleteProblem, ProblemType, TestsType, Kept
  <2> QED
    BY <1>5, <2>1, <2>2, ProblemEffect DEF DeleteProblem
<1>6. ASSUME NEW w \in Worker, NEW p \in Problem, ClaimSubmission(w, p) PROVE SavesInv'
  <2> DEFINE c == [problem |-> p, save |-> problem[p].save, tests |-> {}, fetched |-> FALSE]
  <2>1. problem[p].save \in Nat
    BY <1>6, <1>p, <1>t DEF ClaimSubmission, ProblemRow
  <2>2. \A v \in Worker : claim'[v] = IF v = w THEN c ELSE claim[v]
    BY <1>6, <1>p DEF ClaimSubmission, ClaimType
  <2>3. TestsOfSave'
    BY <1>6 DEF ClaimSubmission, SavesInv, TestsOfSave
  <2>4. ClaimsHold'
    BY <1>6, <2>1, <2>2 DEF ClaimSubmission, SavesInv, ClaimsHold
  <2>5. JudgedByOneSave'
    BY <2>2 DEF SavesInv, JudgedByOneSave
  <2> QED
    BY <2>3, <2>4, <2>5 DEF SavesInv
<1>7. ASSUME NEW w \in Worker, FetchHiddenTestCases(w) PROVE SavesInv'
  <2> DEFINE p == claim[w].problem
  <2>1. /\ claim[w] \in ClaimUpTo(saves) /\ p \in Problem /\ claim[w].save \in Nat
        /\ problem[p] # None /\ problem[p].save >= claim[w].save
    BY <1>7, <1>p, <1>c DEF FetchHiddenTestCases, SavesInv, ClaimsHold, ClaimUpTo
  <2>2. problem[p].save \in Nat
    BY <1>p, <1>t, <2>1 DEF ProblemRow
  <2>3. /\ claim'[w].fetched /\ claim'[w].save = claim[w].save
        /\ claim'[w].tests = tests[p]
    BY <1>7, <1>p, <2>1 DEF FetchHiddenTestCases, ClaimType, ClaimUpTo
  <2>4. \A v \in Worker : v # w => claim'[v] = claim[v]
    BY <1>7, <1>p DEF FetchHiddenTestCases, ClaimType
  <2>5. TestsOfSave'
    BY <1>7 DEF FetchHiddenTestCases, SavesInv, TestsOfSave
  <2>6. ClaimsHold'
    BY <1>7, <2>3, <2>4 DEF FetchHiddenTestCases, SavesInv, ClaimsHold
  <2>7. claim[w].save > 0 => tests[p] \ {0} = {problem[p].save} /\ problem[p].save \in tests[p]
    BY <2>1, <2>2 DEF SavesInv, TestsOfSave
  <2>8. JudgedByOneSave'
    BY <2>1, <2>3, <2>4, <2>7 DEF SavesInv, JudgedByOneSave
  <2> QED
    BY <2>5, <2>6, <2>8 DEF SavesInv
<1>8. ASSUME NEW w \in Worker, EndClaim(w) PROVE SavesInv'
  <2>1. \A v \in Worker : claim'[v] = IF v = w THEN Idle ELSE claim[v]
    BY <1>8, <1>p DEF EndClaim, ClaimType
  <2> QED
    BY <1>8, <2>1 DEF EndClaim, SavesInv, TestsOfSave, ClaimsHold, JudgedByOneSave
<1>9. ASSUME NEW a \in Process,
             \/ Start(a) \/ Crash(a) \/ FinishSeed(a)
             \/ \E u \in SeedUser : SeedUserRow(a, u)
             \/ \E p \in SeedProblem : SeedAssignmentRow(a, p)
      PROVE  SavesInv'
  BY <1>9, <1>u DEF Start, Crash, FinishSeed, SeedUserRow, SeedAssignmentRow
<1>10. ASSUME DeleteUserFails \/ \E u \in User : AccountStep(u) PROVE SavesInv'
  BY <1>10, <1>u
  DEF AccountStep, CreateUser, UpdateUserPassword, CheckUserReferences, DeleteUser,
      DeleteUserFails, CreateAssignment
<1>11. ASSUME NEW h \in Handler,
              PickNumber(h) \/ Rollback(h) \/ \E p \in Problem, u \in User : CreateProblem(h, p, u)
       PROVE  SavesInv'
  BY <1>11, <1>u DEF PickNumber, Rollback, CreateProblem
<1>12. ASSUME UNCHANGED vars PROVE SavesInv'
  BY <1>12, <1>u DEF vars
<1> QED
  BY <1>1, <1>2, <1>3, <1>4, <1>5, <1>6, <1>7, <1>8, <1>9, <1>10, <1>11, <1>12
  DEF Next, SeedStep, CreationStep, ClaimStep

\* A claim's two reads, whatever is saved, seeded and deleted between them, never mix the
\* tests of two saves and never read older tests than limits.
THEOREM JudgedByOneSaveCorrect == Spec => []JudgedByOneSave
<1>1. Init => SavesInv
  BY DEF Init, SavesInv, TestsOfSave, ClaimsHold, JudgedByOneSave
<1>2. TypeOK /\ SavesInv /\ [Next]_vars => SavesInv'
  BY SavesStep
<1>3. SavesInv => JudgedByOneSave
  BY DEF SavesInv
<1> QED
  BY <1>1, <1>2, <1>3, TypeCorrect, PTL DEF Spec

-----------------------------------------------------------------------------
(* Starts *)

\* A start changes no existing row: nothing an administrator did is undone by it, except
\* that deleted seed rows come back.
THEOREM SeedKeepsChangesCorrect == Spec => SeedKeepsChanges
<1> DEFINE Keeps ==
      /\ \A u \in User : account[u] # None => account'[u] = account[u]
      /\ \A p \in Problem :
           /\ problem[p] # None => problem'[p] = problem[p]
           /\ number'[p] = number[p]
           /\ tests[p] \subseteq tests'[p]
      /\ \A p \in SeedProblem : assignment[p] # None => assignment'[p] = assignment[p]
<1>1. ASSUME TypeOK, NEW a \in Process, SeedStep(a) PROVE Keeps
  <2> USE DEF tables, rows
  <2>1. AccountType /\ ProblemType /\ TestsType /\ AssignmentType
    BY <1>1, TypeParts DEF TypedRows
  <2>2. ASSUME NEW u \in SeedUser, SeedUserRow(a, u) PROVE Keeps
    BY <2>1, <2>2 DEF SeedUserRow, AccountAfterSeed, AccountType
  <2>3. ASSUME NEW p \in SeedProblem, SeedProblemRow(a, p) PROVE Keeps
    BY <2>1, <2>3 DEF SeedProblemRow, ProblemType
  <2>4. ASSUME NEW p \in SeedProblem, SeedTestCases(a, p) PROVE Keeps
    BY <2>1, <2>4 DEF SeedTestCases, TestsType
  <2>5. ASSUME FinishSeed(a) PROVE Keeps
    BY <2>5 DEF FinishSeed
  <2>6. ASSUME NEW p \in SeedProblem, SeedAssignmentRow(a, p) PROVE Keeps
    BY <2>1, <2>6 DEF SeedAssignmentRow, AssignmentType, Seeded, MayBeAssigned
  <2> QED
    BY <1>1, <2>2, <2>3, <2>4, <2>5, <2>6 DEF SeedStep
<1>2. TypeOK => [(\E a \in Process : SeedStep(a)) => Keeps]_vars
  BY <1>1
<1> QED
  BY <1>2, TypeCorrect, PTL DEF SeedKeepsChanges

\* What a start has seen or inserted is there unless the start is marked for it, and it
\* inserts tests only of a problem it is past.
RowsPast(a) ==
  api[a].stage = "seeding" /\ a \notin lost =>
    /\ \A u \in SeedUser \ api[a].users : account[u] # None
    /\ \A p \in SeedProblem \ api[a].problems : problem[p] # None
TestsPast(a) == api[a].tests \cap api[a].problems = {}
StartsInv == \A a \in Process : RowsPast(a) /\ TestsPast(a)

\* A start fails on a row that is there under another name, or on one it has lost.
LEMMA StartsGoal ==
  ASSUME TypeOK, StartsInv, [Next]_vars, NEW a \in Process,
         api[a].stage = "seeding", api'[a].stage = "down", crashes' = crashes
  PROVE  SeedEmailLost \/ SeedAssignmentTaken \/ a \in lost
<1> SUFFICES ASSUME a \notin lost PROVE SeedEmailLost \/ SeedAssignmentTaken
  OBVIOUS
<1> USE DEF tables, rows, work, starts
<1>p. ApiType /\ CountType /\ AssignmentType
  BY TypeParts DEF TypedRows
<1>s. api[a] \in ApiState /\ SeedProblem \subseteq Problem /\ SeedUser \subseteq User
  BY <1>p, CatalogueAssumption DEF ApiType
<1>i. RowsPast(a) /\ TestsPast(a)
  BY DEF StartsInv
<1>c. api'[a] # api[a]
  OBVIOUS
<1>1. ASSUME NEW b \in Process, Start(b) PROVE FALSE
  <2>1. a # b
    BY <1>1 DEF Start, Down
  <2> QED
    BY <1>1, <1>p, <1>c, <2>1 DEF Start, ApiType
<1>2. ASSUME NEW b \in Process, NEW u \in SeedUser, SeedUserRow(b, u) PROVE SeedEmailLost
  <2>1. CASE account[u] = None /\ EmailUsed(SeedEmail[u])
    BY <2>1 DEF SeedEmailLost
  <2>2. CASE ~(account[u] = None /\ EmailUsed(SeedEmail[u]))
    BY <1>2, <1>p, <2>2 DEF SeedUserRow, ApiType, ApiState
  <2> QED
    BY <2>1, <2>2
<1>3. ASSUME NEW b \in Process, NEW p \in SeedProblem, SeedProblemRow(b, p) PROVE FALSE
  <2>1. api' # [api EXCEPT ![b].problems = @ \ {p}, ![b].tests = {p}]
    <3> SUFFICES ASSUME api' = [api EXCEPT ![b].problems = @ \ {p}, ![b].tests = {p}]
                 PROVE  FALSE
      OBVIOUS
    <3>1. [api[b] EXCEPT !.problems = @ \ {p}, !.tests = {p}].stage = api[b].stage
      BY <1>p DEF ApiType, ApiState
    <3> QED
      BY <1>p, <3>1 DEF ApiType, ApiState
  <2>2. StartFails(b) /\ ~MayBeThere(p)
    BY <1>3, <2>1 DEF SeedProblemRow
  <2>3. a = b
    BY <1>p, <1>c, <2>2 DEF StartFails, ApiType
  <2>4. account[SeedAdmin] # None
    BY <1>3, <1>i, <2>3, CatalogueAssumption DEF RowsPast, SeedProblemRow
  <2> QED
    BY <2>2, <2>4 DEF MayBeThere
<1>4. ASSUME NEW b \in Process, NEW p \in SeedProblem, SeedTestCases(b, p) PROVE FALSE
  <2>1. api' # [api EXCEPT ![b].tests = {}]
    BY <1>p DEF ApiType, ApiState
  <2>2. StartFails(b) /\ problem[p] = None /\ p \in api[b].tests
    BY <1>4, <2>1 DEF SeedTestCases
  <2>3. a = b
    BY <1>p, <1>c, <2>2 DEF StartFails, ApiType
  <2> QED
    BY <1>i, <2>2, <2>3 DEF RowsPast, TestsPast
<1>5. ASSUME NEW b \in Process, NEW p \in SeedProblem, SeedAssignmentRow(b, p)
      PROVE  SeedAssignmentTaken
  <2>1. api' # [api EXCEPT ![b].assignments = @ \ {p}]
    BY <1>p DEF ApiType, ApiState
  <2>2. StartFails(b) /\ ~MayBeAssigned(p) /\ api[b].users = {} /\ api[b].problems = {}
    BY <1>5, <2>1 DEF SeedAssignmentRow
  <2>3. a = b
    BY <1>p, <1>c, <2>2 DEF StartFails, ApiType
  <2>4. /\ problem[p] # None
        /\ account[SeedCandidate] # None /\ account[SeedInterviewer] # None
    BY <1>i, <2>2, <2>3, CatalogueAssumption DEF RowsPast
  <2> QED
    BY <2>2, <2>4 DEF MayBeAssigned, SeedAssignmentTaken
<1>6. ASSUME NEW b \in Process, FinishSeed(b) PROVE FALSE
  <2>1. api' = [api EXCEPT ![b].stage = "up"]
    BY <1>6 DEF FinishSeed
  <2> QED
    BY <1>p, <2>1 DEF ApiType, ApiState
<1>7. ASSUME NEW b \in Process, Crash(b) PROVE FALSE
  BY <1>7, <1>p DEF Crash, CountType
<1>8. ASSUME NEW u \in User, AccountStep(u) PROVE FALSE
  BY <1>8, <1>c DEF AccountStep, CreateUser, UpdateUserPassword, CheckUserReferences, DeleteUser,
                    CreateAssignment
<1>9. ASSUME NEW h \in Handler, CreationStep(h) PROVE FALSE
  BY <1>9, <1>c DEF CreationStep, CreateProblem, PickNumber, CommitProblem, Rollback
<1>10. ASSUME NEW p \in Problem, UpdateProblem(p) \/ DeleteProblem(p) PROVE FALSE
  BY <1>10, <1>c DEF UpdateProblem, DeleteProblem
<1>11. ASSUME NEW w \in Worker, ClaimStep(w) PROVE FALSE
  BY <1>11, <1>c DEF ClaimStep, ClaimSubmission, FetchHiddenTestCases, EndClaim
<1>12. ASSUME DeleteUserFails \/ UNCHANGED vars PROVE FALSE
  BY <1>12, <1>c DEF DeleteUserFails, vars
<1> QED
  BY <1>1, <1>2, <1>3, <1>4, <1>5, <1>6, <1>7, <1>8, <1>9, <1>10, <1>11, <1>12 DEF Next, SeedStep

\* Steps of others than a start: every row stays, or the starts that are past it are marked.
LEMMA RowsStay ==
  ASSUME StartsInv, UNCHANGED api, lost \subseteq lost',
         \A u \in SeedUser : account[u] # None => account'[u] # None \/ PastUser(u) \subseteq lost',
         \A p \in SeedProblem :
           problem[p] # None => problem'[p] # None \/ PastProblem(p) \subseteq lost'
  PROVE  StartsInv'
<1>1. ASSUME NEW a \in Process, api[a].stage = "seeding", a \notin lost'
      PROVE  /\ \A u \in SeedUser \ api[a].users : account'[u] # None
             /\ \A p \in SeedProblem \ api[a].problems : problem'[p] # None
  <2>1. RowsPast(a) /\ a \notin lost
    BY <1>1 DEF StartsInv
  <2>2. ASSUME NEW u \in SeedUser \ api[a].users PROVE account'[u] # None
    <3>1. account[u] # None /\ a \in PastUser(u)
      BY <1>1, <2>1, <2>2 DEF RowsPast, PastUser
    <3> QED
      BY <1>1, <3>1
  <2>3. ASSUME NEW p \in SeedProblem \ api[a].problems PROVE problem'[p] # None
    <3>1. problem[p] # None /\ a \in PastProblem(p)
      BY <1>1, <2>1, <2>3 DEF RowsPast, PastProblem
    <3> QED
      BY <1>1, <3>1
  <2> QED
    BY <2>2, <2>3
<1> QED
  BY <1>1 DEF StartsInv, RowsPast, TestsPast

\* Steps of a start that take no row away.
LEMMA StartSteps ==
  ASSUME StartsInv, NEW a \in Process,
         \A b \in Process \ {a} : api'[b] = api[b] /\ (b \in lost => b \in lost'),
         \A u \in SeedUser : account[u] # None => account'[u] # None,
         \A p \in SeedProblem : problem[p] # None => problem'[p] # None,
         RowsPast(a)', TestsPast(a)'
  PROVE  StartsInv'
<1>1. ASSUME NEW b \in Process \ {a} PROVE RowsPast(b)' /\ TestsPast(b)'
  <2>1. RowsPast(b) /\ TestsPast(b)
    BY DEF StartsInv
  <2> QED
    BY <2>1, <1>1 DEF RowsPast, TestsPast
<1> QED
  BY <1>1 DEF StartsInv

\* Every step keeps what starts rely on, or marks them.
LEMMA StartsStep == TypeOK /\ StartsInv /\ [Next]_vars => StartsInv'
<1> SUFFICES ASSUME TypeOK, StartsInv, [Next]_vars PROVE StartsInv'
  OBVIOUS
<1> USE DEF tables, rows, work, starts
<1>p. AccountType /\ ProblemType /\ RequestType /\ ApiType /\ saves \in Nat
  BY TypeParts, CatalogueAssumption DEF TypedRows, CountType
<1>s. SeedProblem \subseteq Problem /\ SeedUser \subseteq User
  BY CatalogueAssumption
<1>i. \A a \in Process : RowsPast(a) /\ TestsPast(a)
  BY DEF StartsInv
<1>u. UNCHANGED <<account, problem, api, lost>> => StartsInv'
  BY DEF StartsInv, RowsPast, TestsPast
<1>d. ASSUME NEW a \in Process, UNCHANGED <<account, problem>>,
             api' = [api EXCEPT ![a] = Down], UNCHANGED lost
      PROVE  StartsInv'
  <2>1. api'[a] = Down /\ \A b \in Process \ {a} : api'[b] = api[b]
    BY <1>p, <1>d DEF ApiType
  <2>2. RowsPast(a)' /\ TestsPast(a)'
    BY <2>1 DEF RowsPast, TestsPast, Down
  <2> QED
    BY <1>d, <2>1, <2>2, StartSteps
<1>1. ASSUME NEW a \in Process, Start(a) PROVE StartsInv'
  <2>1. api'[a] = Starting /\ \A b \in Process \ {a} : api'[b] = api[b]
    BY <1>1, <1>p DEF Start, ApiType
  <2>2. RowsPast(a)' /\ TestsPast(a)'
    BY <2>1 DEF RowsPast, TestsPast, Starting
  <2> QED
    BY <1>1, <2>1, <2>2, StartSteps DEF Start
<1>2. ASSUME NEW a \in Process, NEW u \in SeedUser, SeedUserRow(a, u) PROVE StartsInv'
  <2>1. CASE StartFails(a) /\ UNCHANGED account
    BY <1>2, <1>d, <2>1 DEF SeedUserRow, StartFails
  <2>2. CASE /\ account' = [account EXCEPT ![u] = AccountAfterSeed(u)]
             /\ api' = [api EXCEPT ![a].users = @ \ {u}]
    <3>1. SeededAccount[u] \in Account /\ u \in User
      BY CatalogueAssumption DEF SeededAccount, Account
    <3>2. account'[u] # None
      BY <1>p, <2>2, <3>1, RowsAreThere DEF AccountAfterSeed, AccountType
    <3>3. \A v \in User : v # u => account'[v] = account[v]
      BY <1>p, <2>2 DEF AccountType
    <3>4. /\ api'[a].stage = api[a].stage /\ api'[a].users = api[a].users \ {u}
          /\ api'[a].problems = api[a].problems /\ api'[a].tests = api[a].tests
          /\ \A b \in Process \ {a} : api'[b] = api[b]
      BY <1>p, <2>2 DEF ApiType, ApiState
    <3>5. UNCHANGED <<problem, lost>>
      BY <1>2 DEF SeedUserRow
    <3>6. RowsPast(a)' /\ TestsPast(a)'
      BY <1>i, <1>s, <3>2, <3>3, <3>4, <3>5 DEF RowsPast, TestsPast
    <3> QED
      BY <1>s, <3>2, <3>3, <3>4, <3>5, <3>6, StartSteps
  <2> QED
    BY <1>2, <2>1, <2>2 DEF SeedUserRow
<1>3. ASSUME NEW a \in Process, NEW p \in SeedProblem, SeedProblemRow(a, p) PROVE StartsInv'
  <2>1. CASE ~MayBeThere(p)
    BY <1>3, <1>d, <2>1 DEF SeedProblemRow, StartFails
  <2>2. CASE MayBeThere(p)
    <3>1. [author |-> SeedAdmin, save |-> 0] \in ProblemRow(saves) /\ p \in Problem
      BY <1>p, CatalogueAssumption DEF ProblemRow
    <3>2. problem'[p] # None
      BY <1>3, <1>p, <2>2, <3>1, RowsAreThere DEF SeedProblemRow, ProblemType
    <3>3. \A q \in Problem : q # p => problem'[q] = problem[q]
      BY <1>3, <1>p, <2>2 DEF SeedProblemRow, ProblemType
    <3>4. api' = [api EXCEPT ![a] = [api[a] EXCEPT !.problems = @ \ {p}, !.tests = {p}]]
      BY <1>3, <1>p, <2>2 DEF SeedProblemRow, ApiType, ApiState
    <3>5. /\ api'[a].stage = api[a].stage /\ api'[a].users = api[a].users
          /\ api'[a].problems = api[a].problems \ {p} /\ api'[a].tests = {p}
          /\ \A b \in Process \ {a} : api'[b] = api[b]
      BY <1>p, <3>4 DEF ApiType, ApiState
    <3>6. UNCHANGED <<account, lost>>
      BY <1>3 DEF SeedProblemRow
    <3>7. RowsPast(a)' /\ TestsPast(a)'
      BY <1>i, <1>s, <3>2, <3>3, <3>5, <3>6 DEF RowsPast, TestsPast
    <3> QED
      BY <1>s, <3>2, <3>3, <3>5, <3>6, <3>7, StartSteps
  <2> QED
    BY <2>1, <2>2
<1>4. ASSUME NEW a \in Process, NEW p \in SeedProblem, SeedTestCases(a, p) PROVE StartsInv'
  <2>1. CASE StartFails(a)
    BY <1>4, <1>d, <2>1 DEF SeedTestCases, StartFails
  <2>2. CASE api' = [api EXCEPT ![a].tests = {}]
    <3>1. /\ api'[a].stage = api[a].stage /\ api'[a].users = api[a].users
          /\ api'[a].problems = api[a].problems /\ api'[a].tests = {}
          /\ \A b \in Process \ {a} : api'[b] = api[b]
      BY <1>p, <2>2 DEF ApiType, ApiState
    <3>2. UNCHANGED <<account, problem, lost>>
      BY <1>4 DEF SeedTestCases
    <3>3. RowsPast(a)' /\ TestsPast(a)'
      BY <1>i, <3>1, <3>2 DEF RowsPast, TestsPast
    <3> QED
      BY <3>1, <3>2, <3>3, StartSteps
  <2> QED
    BY <1>4, <2>1, <2>2 DEF SeedTestCases
<1>5. ASSUME NEW a \in Process, NEW p \in SeedProblem, SeedAssignmentRow(a, p) PROVE StartsInv'
  <2>1. CASE StartFails(a)
    BY <1>5, <1>d, <2>1 DEF SeedAssignmentRow, StartFails
  <2>2. CASE api' = [api EXCEPT ![a].assignments = @ \ {p}]
    <3>1. /\ api'[a].stage = api[a].stage /\ api'[a].users = api[a].users
          /\ api'[a].problems = api[a].problems /\ api'[a].tests = api[a].tests
          /\ \A b \in Process \ {a} : api'[b] = api[b]
      BY <1>p, <2>2 DEF ApiType, ApiState
    <3>2. UNCHANGED <<account, problem, lost>>
      BY <1>5 DEF SeedAssignmentRow
    <3>3. RowsPast(a)' /\ TestsPast(a)'
      BY <1>i, <3>1, <3>2 DEF RowsPast, TestsPast
    <3> QED
      BY <3>1, <3>2, <3>3, StartSteps
  <2> QED
    BY <1>5, <2>1, <2>2 DEF SeedAssignmentRow
<1>6. ASSUME NEW a \in Process, FinishSeed(a) PROVE StartsInv'
  <2>1. api' = [api EXCEPT ![a].stage = "up"] /\ UNCHANGED <<account, problem, lost>>
    BY <1>6 DEF FinishSeed
  <2>2. /\ api'[a].stage = "up" /\ api'[a].problems = api[a].problems
        /\ api'[a].tests = api[a].tests /\ \A b \in Process \ {a} : api'[b] = api[b]
    BY <1>p, <2>1 DEF ApiType, ApiState
  <2>3. RowsPast(a)' /\ TestsPast(a)'
    BY <1>i, <2>2 DEF RowsPast, TestsPast
  <2> QED
    BY <2>1, <2>2, <2>3, StartSteps
<1>7. ASSUME NEW a \in Process, Crash(a) PROVE StartsInv'
  BY <1>7, <1>d DEF Crash
<1>8. ASSUME NEW u \in User, NEW e \in Email, CreateUser(u, e) PROVE StartsInv'
  <2>1. \A v \in User : account[v] # None => account'[v] # None
    BY <1>8, <1>p DEF CreateUser, AccountType
  <2> QED
    BY <1>8, <1>s, <2>1, RowsStay DEF CreateUser
<1>9. ASSUME NEW u \in User, UpdateUserPassword(u) PROVE StartsInv'
  <2>1. account[u] \in Account
    BY <1>9, <1>p DEF UpdateUserPassword, AccountType
  <2>2. [account[u] EXCEPT !.password = "own"] \in Account
    BY <2>1 DEF Account
  <2>3. \A v \in User : account[v] # None => account'[v] # None
    BY <1>9, <1>p, <2>2, RowsAreThere DEF UpdateUserPassword, AccountType
  <2> QED
    BY <1>9, <1>s, <2>3, RowsStay DEF UpdateUserPassword
<1>10. ASSUME NEW u \in User, DeleteUser(u) PROVE StartsInv'
  <2>1. \A v \in User : account[v] # None => account'[v] # None \/ PastUser(v) \subseteq lost'
    BY <1>10, <1>p DEF DeleteUser, AccountType
  <2> QED
    BY <1>10, <1>s, <2>1, RowsStay DEF DeleteUser
<1>11. ASSUME NEW h \in Handler, CommitProblem(h) PROVE StartsInv'
  <2>1. request[h] \in CreationOf
    BY <1>11, <1>p DEF CommitProblem, RequestType
  <2>2. [author |-> request[h].author, save |-> saves + 1] \in ProblemRow(saves + 1)
    BY <1>p, <2>1 DEF CreationOf, ProblemRow
  <2>3. \A q \in Problem : problem[q] # None => problem'[q] # None
    BY <1>11, <1>p, <2>2, RowsAreThere DEF CommitProblem, ProblemType
  <2> QED
    BY <1>11, <1>s, <2>3, RowsStay DEF CommitProblem
<1>12. ASSUME NEW p \in Problem, UpdateProblem(p) PROVE StartsInv'
  <2>1. problem[p] \in ProblemRow(saves)
    BY <1>12, <1>p DEF UpdateProblem, ProblemType
  <2>2. [problem[p] EXCEPT !.save = saves + 1] \in ProblemRow(saves + 1)
    BY <1>p, <2>1 DEF ProblemRow
  <2>3. \A q \in Problem : problem[q] # None => problem'[q] # None
    BY <1>12, <1>p, <2>2, RowsAreThere DEF UpdateProblem, ProblemType
  <2> QED
    BY <1>12, <1>s, <2>3, RowsStay DEF UpdateProblem
<1>13. ASSUME NEW p \in Problem, DeleteProblem(p) PROVE StartsInv'
  <2>1. \A q \in Problem : problem[q] # None => problem'[q] # None \/ PastProblem(q) \subseteq lost'
    BY <1>13, <1>p DEF DeleteProblem, ProblemType
  <2> QED
    BY <1>13, <1>s, <2>1, RowsStay DEF DeleteProblem
<1>14. ASSUME NEW u \in User,
              CheckUserReferences(u) \/ \E p \in SeedProblem : CreateAssignment(p, u)
       PROVE  StartsInv'
  BY <1>14, <1>u DEF CheckUserReferences, CreateAssignment
<1>15. ASSUME NEW h \in Handler,
              PickNumber(h) \/ Rollback(h) \/ \E p \in Problem, u \in User : CreateProblem(h, p, u)
       PROVE  StartsInv'
  BY <1>15, <1>u DEF PickNumber, Rollback, CreateProblem
<1>16. ASSUME NEW w \in Worker, ClaimStep(w) PROVE StartsInv'
  BY <1>16, <1>u DEF ClaimStep, ClaimSubmission, FetchHiddenTestCases, EndClaim
<1>17. ASSUME DeleteUserFails \/ UNCHANGED vars PROVE StartsInv'
  BY <1>17, <1>u DEF DeleteUserFails, vars
<1> QED
  BY <1>1, <1>2, <1>3, <1>4, <1>5, <1>6, <1>7, <1>8, <1>9, <1>10, <1>11, <1>12, <1>13, <1>14,
     <1>15, <1>16, <1>17 DEF Next, SeedStep, AccountStep, CreationStep

\* Whatever other starts inserted or left out and whatever was deleted before, a start
\* fails only on an address or an assignment of the seed that somebody else has taken, or
\* on a row deleted while it runs.
THEOREM StartsSucceedCorrect == Spec => StartsSucceed
<1> DEFINE Succeeds ==
      \A a \in Process :
        api[a].stage = "seeding" /\ api'[a].stage = "down" /\ crashes' = crashes
          => SeedEmailLost \/ SeedAssignmentTaken \/ a \in lost
<1>1. Init => StartsInv
  BY DEF Init, StartsInv, RowsPast, TestsPast, Down
<1>2. TypeOK /\ StartsInv /\ [Next]_vars => StartsInv'
  BY StartsStep
<1>3. TypeOK /\ StartsInv /\ [Next]_vars => [Succeeds]_vars
  BY StartsGoal
<1> QED
  BY <1>1, <1>2, <1>3, TypeCorrect, PTL DEF Spec, StartsSucceed
=============================================================================
