----------------------------- MODULE Catalogue -----------------------------
(***************************************************************************)
(* The rows that outlive a start of the API: accounts, problems with their *)
(* display numbers and hidden test cases, what administrators do to them,  *)
(* what every start of an API process inserts, and what the claim of a     *)
(* submission reads of them.  Of the assignments only those of the seed's  *)
(* candidate and problems are here; the others, candidates' work and the   *)
(* checks before a deletion are in Exam.                                   *)
(*                                                                         *)
(* A transaction takes effect at its commit.  Ids are UUIDs; a deleted id  *)
(* that is used again stands for a new one.  Seed ids are literals.  Roles *)
(* are left out, but the seed's candidate writes and assigns no problems.  *)
(*                                                                         *)
(* A definition named ...Mutant is what a plausible bug would make of the  *)
(* definition after it.                                                    *)
(***************************************************************************)
EXTENDS Integers, FiniteSets

CONSTANTS
  User, Email,     \* account ids, addresses
  SeedUser,        \* ids of seed.users
  SeedEmail,       \* their addresses
  Problem,
  SeedProblem,     \* ids of seed.problems
  SeedAdmin,       \* createdBy of the seed problems
  SeedCandidate,   \* the seed assigns each of its problems to this account,
  SeedInterviewer, \* by this one
  Process,         \* API processes
  Handler,         \* creations of problems in progress at the same time
  Worker,          \* claims of submissions at the same time
  MaxSaves,        \* bound on created and updated problems
  MaxCrashes,      \* bound on crashes of API processes
  None, Idle

ASSUME CatalogueAssumption ==
  /\ SeedUser \subseteq User /\ SeedEmail \in [SeedUser -> Email]
  /\ SeedProblem \subseteq Problem /\ IsFiniteSet(Problem)
  /\ {SeedAdmin, SeedCandidate, SeedInterviewer} \subseteq SeedUser
  /\ MaxSaves \in Nat /\ MaxCrashes \in Nat
  /\ None \notin User
  /\ None \notin [by : User, id : {"seed", "other"}]
  /\ None \notin [email : Email, password : {"default", "own"}]
  /\ None \notin [author : User, save : Nat]
  /\ Idle \notin [author : User, problem : Problem, number : Nat]
  /\ Idle \notin [problem : Problem, save : Nat, tests : SUBSET Nat, fetched : BOOLEAN]

VARIABLES
  account,   \* row of users of each id
  problem,   \* row of problems: its author, and the save its content is from
  tests,     \* rows of test_cases of each problem, as the saves they are from
  number,    \* row of problem_display_numbers, 0 if there is none
  assignment, \* row of assignments of the seed's candidate and each seed problem
  saves,     \* number of saves so far; the seed's content is save 0
  deleting,  \* the account a deletion has checked, None if there is none
  request,   \* createProblem transactions in progress
  claim,     \* what each worker has read for the submission it claimed
  api,       \* API processes, with the seed rows a starting one has yet to insert
  lost,      \* history: those of them whose start has lost a row it had seen or inserted
  crashes

rows == <<problem, tests, number, assignment, saves>>
tables == <<account, rows>>
work == <<request, claim>>
starts == <<api, lost, crashes>>
vars == <<tables, deleting, work, starts>>

Down == [stage |-> "down", users |-> {}, problems |-> {}, tests |-> {}, assignments |-> {}]
Starting == [stage |-> "seeding", users |-> SeedUser, problems |-> SeedProblem, tests |-> {},
             assignments |-> SeedProblem]

\* Migrations have run on an empty database.
Init ==
  /\ account = [u \in User |-> None]
  /\ problem = [p \in Problem |-> None]
  /\ tests = [p \in Problem |-> {}]
  /\ number = [p \in Problem |-> 0]
  /\ assignment = [p \in SeedProblem |-> None]
  /\ saves = 0
  /\ deleting = None
  /\ request = [h \in Handler |-> Idle]
  /\ claim = [w \in Worker |-> Idle]
  /\ api = [a \in Process |-> Down]
  /\ lost = {}
  /\ crashes = 0

Serving == \E a \in Process : api[a].stage = "up"

-----------------------------------------------------------------------------
(* Accounts *)

EmailUsed(e) == \E u \in User : account[u] # None /\ account[u].email = e

CreateUser(u, e) ==
  /\ Serving
  /\ u \notin SeedUser /\ account[u] = None
  /\ ~EmailUsed(e)
  /\ account' = [account EXCEPT ![u] = [email |-> e, password |-> "own"]]
  /\ UNCHANGED <<rows, deleting, work, starts>>

UpdateUserPassword(u) ==
  /\ Serving
  /\ account[u] # None
  /\ account' = [account EXCEPT ![u].password = "own"]
  /\ UNCHANGED <<rows, deleting, work, starts>>

HasUserReferences(u) ==
  \/ \E p \in Problem : problem[p] # None /\ problem[p].author = u
  \/ \E p \in SeedProblem : assignment[p] # None /\ u \in {SeedCandidate, assignment[p].by}

\* Somebody deletes an account, but not the own one.  Of one that is not there it has no
\* effect, and of one that rows of Exam refer to it ends here or by a foreign key.
CheckUserReferences(u) ==
  /\ Serving
  /\ \E v \in User \ {u} : account[v] # None
  /\ account[u] # None
  /\ deleting = None /\ ~HasUserReferences(u)
  /\ deleting' = u
  /\ UNCHANGED <<tables, work, starts>>

ForeignKeysHoldMutant(u) == ~\E p \in Problem : problem[p] # None /\ problem[p].author = u
ForeignKeysHold(u) == ~HasUserReferences(u)   \* the foreign keys check the same columns

\* The starts that have inserted the row, or found it.
PastUser(u) == {a \in Process : api[a].stage = "seeding" /\ u \in SeedUser \ api[a].users}
PastProblem(p) ==
  {a \in Process : api[a].stage = "seeding" /\ p \in SeedProblem \ api[a].problems}

\* The delete waits for a creation, which locks its author's row.
DeleteUser(u) ==
  /\ deleting = u
  /\ \A h \in Handler : request[h] # Idle => request[h].author # u
  /\ ForeignKeysHold(u)
  /\ account' = [account EXCEPT ![u] = None]
  /\ lost' = lost \cup PastUser(u)
  /\ deleting' = None
  /\ UNCHANGED <<rows, work, api, crashes>>

\* A foreign key, another error, or the end of the API process.
DeleteUserFails ==
  /\ deleting # None
  /\ deleting' = None
  /\ UNCHANGED <<tables, work, starts>>

-----------------------------------------------------------------------------
(* Start of an API process: every start inserts the seed rows that are missing, one *)
(* statement per row.  The order of the rows of one kind is left open.              *)

Start(a) ==
  /\ api[a] = Down
  /\ api' = [api EXCEPT ![a] = Starting]
  /\ lost' = lost \ {a}
  /\ UNCHANGED <<tables, deleting, work, crashes>>

StartFails(a) == api' = [api EXCEPT ![a] = Down]

SeededAccount == [u \in SeedUser |-> [email |-> SeedEmail[u], password |-> "default"]]

AccountAfterSeedMutant(u) == SeededAccount[u]   \* on conflict do update
AccountAfterSeed(u) == IF account[u] = None THEN SeededAccount[u] ELSE account[u]

\* On conflict (id) do nothing says nothing of the unique email.
SeedUserRow(a, u) ==
  /\ api[a].stage = "seeding" /\ u \in api[a].users
  /\ IF account[u] = None /\ EmailUsed(SeedEmail[u])
       THEN StartFails(a) /\ UNCHANGED account
       ELSE /\ account' = [account EXCEPT ![u] = AccountAfterSeed(u)]
            /\ api' = [api EXCEPT ![a].users = @ \ {u}]
  /\ UNCHANGED <<rows, deleting, work, lost, crashes>>

MayBeThereMutant(p) == account[SeedAdmin] # None /\ problem[p] = None   \* a plain insert
\* The row of a seed problem is there or can be inserted: its author exists.
MayBeThere(p) == problem[p] # None \/ account[SeedAdmin] # None

\* Seed problems get no display number.
SeedProblemRow(a, p) ==
  /\ api[a].stage = "seeding" /\ api[a].users = {} /\ api[a].tests = {}
  /\ p \in api[a].problems
  /\ IF MayBeThere(p)
       THEN /\ problem' = [problem EXCEPT ![p] =
                            IF @ = None THEN [author |-> SeedAdmin, save |-> 0] ELSE @]
            /\ api' = [api EXCEPT ![a].problems = @ \ {p}, ![a].tests = {p}]
       ELSE StartFails(a) /\ UNCHANGED problem
  /\ UNCHANGED <<account, tests, number, assignment, saves, deleting, work, lost, crashes>>

SeedTestCases(a, p) ==
  /\ api[a].stage = "seeding" /\ p \in api[a].tests
  /\ IF problem[p] # None
       THEN /\ tests' = [tests EXCEPT ![p] = @ \cup {0}]
            /\ api' = [api EXCEPT ![a].tests = {}]
       ELSE StartFails(a) /\ UNCHANGED tests
  /\ UNCHANGED <<account, problem, number, assignment, saves, deleting, work, lost, crashes>>

SeededAssignment == [by |-> SeedInterviewer, id |-> "seed"]
Seeded(p) == assignment[p] # None /\ assignment[p].id = "seed"

\* Of the candidate and the problem there is at most one assignment, whatever its id.
MayBeAssigned(p) ==
  \/ Seeded(p)
  \/ /\ assignment[p] = None /\ problem[p] # None
     /\ account[SeedCandidate] # None /\ account[SeedInterviewer] # None

SeedAssignmentRow(a, p) ==
  /\ api[a].stage = "seeding"
  /\ api[a].users = {} /\ api[a].problems = {} /\ api[a].tests = {}
  /\ p \in api[a].assignments
  /\ IF MayBeAssigned(p)
       THEN /\ assignment' = [assignment EXCEPT ![p] = IF Seeded(p) THEN @ ELSE SeededAssignment]
            /\ api' = [api EXCEPT ![a].assignments = @ \ {p}]
       ELSE StartFails(a) /\ UNCHANGED assignment
  /\ UNCHANGED <<account, problem, tests, number, saves, deleting, work, lost, crashes>>

FinishSeed(a) ==
  /\ api[a].stage = "seeding"
  /\ api[a].users = {} /\ api[a].problems = {} /\ api[a].tests = {}
  /\ api[a].assignments = {}
  /\ api' = [api EXCEPT ![a].stage = "up"]
  /\ UNCHANGED <<tables, deleting, work, lost, crashes>>

Crash(a) ==
  /\ api[a] # Down
  /\ crashes < MaxCrashes
  /\ api' = [api EXCEPT ![a] = Down]
  /\ crashes' = crashes + 1
  /\ UNCHANGED <<tables, deleting, work, lost>>

-----------------------------------------------------------------------------
(* Problems *)

CreateProblem(h, p, u) ==
  /\ Serving
  /\ request[h] = Idle
  /\ p \notin SeedProblem /\ problem[p] = None
  /\ \A k \in Handler : request[k] # Idle => request[k].problem # p
  /\ u # SeedCandidate /\ account[u] # None
  /\ request' = [request EXCEPT ![h] = [author |-> u, problem |-> p, number |-> 0]]
  /\ UNCHANGED <<tables, deleting, claim, starts>>

\* LOCK TABLE problem_display_numbers: from there to the end of the transaction nobody
\* else inserts or deletes numbers.
NumbersLockedMutant == FALSE   \* forgets the lock
NumbersLocked == \E h \in Handler : request[h] # Idle /\ request[h].number > 0

NumberTaken(n) == \E p \in Problem : number[p] = n

PickNumber(h) ==
  /\ request[h] # Idle /\ request[h].number = 0
  /\ ~NumbersLocked
  /\ \E n \in 1..Cardinality(Problem) :
       /\ ~NumberTaken(n)
       /\ \A m \in 1..(n - 1) : NumberTaken(m)
       /\ request' = [request EXCEPT ![h].number = n]
  /\ UNCHANGED <<tables, deleting, claim, starts>>

CommitProblem(h) ==
  /\ request[h] # Idle /\ request[h].number > 0
  /\ saves < MaxSaves
  /\ LET p == request[h].problem IN
     /\ problem' = [problem EXCEPT ![p] = [author |-> request[h].author, save |-> saves + 1]]
     /\ tests' = [tests EXCEPT ![p] = {saves + 1}]
     /\ number' = [number EXCEPT ![p] = request[h].number]
  /\ saves' = saves + 1
  /\ request' = [request EXCEPT ![h] = Idle]
  /\ UNCHANGED <<account, assignment, deleting, claim, starts>>

\* An error, or the end of the API process: the transaction rolls back.
Rollback(h) ==
  /\ request[h] # Idle
  /\ request' = [request EXCEPT ![h] = Idle]
  /\ UNCHANGED <<tables, deleting, claim, starts>>

SavedTestsMutant(p, s) == tests[p] \cup {s}   \* forgets to delete the old ones
SavedTests(p, s) == {s}

\* One transaction, and the row lock of the problem keeps two of them apart.
UpdateProblem(p) ==
  /\ Serving
  /\ problem[p] # None
  /\ saves < MaxSaves
  /\ problem' = [problem EXCEPT ![p].save = saves + 1]
  /\ tests' = [tests EXCEPT ![p] = SavedTests(p, saves + 1)]
  /\ saves' = saves + 1
  /\ UNCHANGED <<account, number, assignment, deleting, work, starts>>

RemainingNumbersMutant(p) == number   \* without on delete cascade
RemainingNumbers(p) == [number EXCEPT ![p] = 0]

\* An interviewer assigns a seed problem to the seed's candidate.  The checks before are
\* in Exam; the insert meets the foreign keys and the unique candidate and problem.
CreateAssignment(p, u) ==
  /\ Serving
  /\ u # SeedCandidate /\ account[u] # None /\ account[SeedCandidate] # None
  /\ problem[p] # None /\ assignment[p] = None
  /\ assignment' = [assignment EXCEPT ![p] = [by |-> u, id |-> "other"]]
  /\ UNCHANGED <<account, problem, tests, number, saves, deleting, work, starts>>

\* Waits for the numbers, and for a claim that holds a submission of the problem.  With
\* assignments it is a forced deletion, which takes them along.
DeleteProblem(p) ==
  /\ Serving
  /\ problem[p] # None
  /\ ~NumbersLocked
  /\ \A w \in Worker : claim[w] # Idle => claim[w].fetched \/ claim[w].problem # p
  /\ problem' = [problem EXCEPT ![p] = None]
  /\ tests' = [tests EXCEPT ![p] = {}]
  /\ number' = RemainingNumbers(p)
  /\ assignment' = [q \in SeedProblem |-> IF q = p THEN None ELSE assignment[q]]
  /\ lost' = lost \cup PastProblem(p)
  /\ UNCHANGED <<account, saves, deleting, work, api, crashes>>

-----------------------------------------------------------------------------
(* The claim of a submission reads the problem and its tests in two statements *)

ClaimSubmission(w, p) ==
  /\ claim[w] = Idle
  /\ problem[p] # None
  /\ claim' = [claim EXCEPT ![w] =
                [problem |-> p, save |-> problem[p].save, tests |-> {}, fetched |-> FALSE]]
  /\ UNCHANGED <<tables, deleting, request, starts>>

FetchHiddenTestCases(w) ==
  /\ claim[w] # Idle /\ ~claim[w].fetched
  /\ claim' = [claim EXCEPT ![w].tests = tests[claim[w].problem], ![w].fetched = TRUE]
  /\ UNCHANGED <<tables, deleting, request, starts>>

EndClaim(w) ==
  /\ claim[w] # Idle
  /\ claim' = [claim EXCEPT ![w] = Idle]
  /\ UNCHANGED <<tables, deleting, request, starts>>

-----------------------------------------------------------------------------
SeedStep(a) ==
  \/ \E u \in SeedUser : SeedUserRow(a, u)
  \/ \E p \in SeedProblem :
       SeedProblemRow(a, p) \/ SeedTestCases(a, p) \/ SeedAssignmentRow(a, p)
  \/ FinishSeed(a)

AccountStep(u) ==
  \/ \E e \in Email : CreateUser(u, e)
  \/ UpdateUserPassword(u)
  \/ CheckUserReferences(u)
  \/ DeleteUser(u)
  \/ \E p \in SeedProblem : CreateAssignment(p, u)

CreationStep(h) ==
  \/ \E p \in Problem, u \in User : CreateProblem(h, p, u)
  \/ PickNumber(h)
  \/ CommitProblem(h)
  \/ Rollback(h)

ClaimStep(w) ==
  \/ \E p \in Problem : ClaimSubmission(w, p)
  \/ FetchHiddenTestCases(w)
  \/ EndClaim(w)

Next ==
  \/ \E a \in Process : Start(a) \/ SeedStep(a) \/ Crash(a)
  \/ \E u \in User : AccountStep(u)
  \/ DeleteUserFails
  \/ \E h \in Handler : CreationStep(h)
  \/ \E p \in Problem : UpdateProblem(p) \/ DeleteProblem(p)
  \/ \E w \in Worker : ClaimStep(w)

Spec == Init /\ [][Next]_vars

-----------------------------------------------------------------------------
(* Properties *)

\* Every row, transaction, claim and process has the shape the tables and handlers give
\* it; only seed problems have content of the seed, and deleted problems have no tests
\* and no number.
TypeOK ==
  /\ account \in [User -> [email : Email, password : {"default", "own"}] \cup {None}]
  /\ problem \in [Problem -> [author : User, save : 0..saves] \cup {None}]
  /\ tests \in [Problem -> SUBSET (0..saves)]
  /\ number \in [Problem -> Nat]
  /\ assignment \in [SeedProblem -> [by : User, id : {"seed", "other"}] \cup {None}]
  /\ saves \in 0..MaxSaves
  /\ deleting \in User \cup {None}
  /\ request \in [Handler -> [author : User, problem : Problem, number : Nat] \cup {Idle}]
  /\ claim \in [Worker -> [problem : Problem, save : 0..saves, tests : SUBSET (0..saves),
                            fetched : BOOLEAN] \cup {Idle}]
  /\ api \in [Process -> [stage : {"down", "seeding", "up"}, users : SUBSET SeedUser,
                           problems : SUBSET SeedProblem, tests : SUBSET SeedProblem,
                           assignments : SUBSET SeedProblem]]
  /\ lost \subseteq Process
  /\ crashes \in 0..MaxCrashes
  /\ \A p \in Problem :
       /\ problem[p] = None => tests[p] = {} /\ number[p] = 0
       /\ problem[p] # None /\ problem[p].save = 0 => p \in SeedProblem

\* Rows of accounts, problems and assignments refer to each other as long as they exist:
\* the author of every problem, and of every problem being created, and both accounts of
\* every assignment are there, whatever was created since a deletion checked for it, and
\* no two accounts have the same address.
AccountsStand ==
  /\ \A p \in Problem : problem[p] # None => account[problem[p].author] # None
  /\ \A p \in SeedProblem : assignment[p] # None =>
       problem[p] # None /\ account[SeedCandidate] # None /\ account[assignment[p].by] # None
  /\ \A h \in Handler : request[h] # Idle => account[request[h].author] # None
  /\ \A u, v \in User :
       account[u] # None /\ account[v] # None /\ account[u].email = account[v].email => u = v

\* The number a creation picked is, until it commits, the smallest one nobody has and
\* nobody else picked, whatever is created and deleted meanwhile: no creation fails on
\* the unique number, and no gap is left below it.
PickedNumbersStand ==
  \A h \in Handler : request[h] # Idle /\ request[h].number > 0 =>
    /\ ~NumberTaken(request[h].number)
    /\ \A n \in 1..(request[h].number - 1) : NumberTaken(n)
    /\ \A k \in Handler \ {h} : request[k] # Idle => request[k].number # request[h].number

\* A submission of a problem an administrator saved is judged by the tests of one save,
\* which is that of the time limit it read or a later one, whatever is updated or
\* deleted between the two reads; seed tests may come on top.
JudgedByOneSave ==
  \A w \in Worker :
    claim[w] # Idle /\ claim[w].fetched /\ claim[w].save > 0 =>
      \E s \in claim[w].tests : s >= claim[w].save /\ claim[w].tests \ {0} = {s}

\* What a start of the API inserts changes no row that exists, and takes none away.
SeedKeepsChanges ==
  [][ (\E a \in Process : SeedStep(a)) =>
        /\ \A u \in User : account[u] # None => account'[u] = account[u]
        /\ \A p \in Problem :
             /\ problem[p] # None => problem'[p] = problem[p]
             /\ number'[p] = number[p]
             /\ tests[p] \subseteq tests'[p]
        /\ \A p \in SeedProblem : assignment[p] # None => assignment'[p] = assignment[p] ]_vars

\* An account that is not of the seed has the address of a missing account of the seed.
SeedEmailLost == \E u \in SeedUser : account[u] = None /\ EmailUsed(SeedEmail[u])

\* The seed's candidate has one of its problems by another assignment than the seed's.
SeedAssignmentTaken == \E p \in SeedProblem : assignment[p] # None /\ ~Seeded(p)

\* However earlier starts ended, whatever they had inserted and whatever was changed or
\* deleted since, a start ends with the process serving or crashing unless the address of
\* a seed account or an assignment of the seed is taken, which every start fails on, or a
\* row it had seen or inserted is deleted meanwhile, which the next one inserts.
StartsSucceed ==
  [][ \A a \in Process :
        api[a].stage = "seeding" /\ api'[a].stage = "down" /\ crashes' = crashes
          => SeedEmailLost \/ SeedAssignmentTaken \/ a \in lost ]_vars
=============================================================================
