------------------------- MODULE SandboxRunProofs -------------------------
(***************************************************************************)
(* That the verdict of an execution says what its programs did, for every  *)
(* number of cases, output limit and pipe.  The argument: an exited client *)
(* stands for a container that printed all it had to, a killed one for a   *)
(* limit that was exceeded and a failed one for docker, so what close      *)
(* finds once the pipe is empty decides what the program of this command   *)
(* did; what the earlier ones did is in passed.                            *)
(***************************************************************************)
EXTENDS SandboxRun, FiniteSetTheorems, TLAPS

\* Only an ended execution has a verdict.
NoVerdictYet == stage # "ended" => verdict = "none"

StageOfChild ==
  /\ stage = "image" => child = "none" /\ passed = {} /\ at = 0 /\ pipe = 0 /\ read = 0
  /\ stage = "running" => child \in {"running", "exited", "failed", "killed"}
  /\ child = "running" => stage = "running"

\* A program prints no more than it has, unless it prints for ever.
PrintedAtMost == behaviour[at] # "floods" => pipe + read <= Length(behaviour[at])

ExitedMeansPrinted ==
  child = "exited" =>
    /\ Ends(behaviour[at])
    /\ OverLimit \/ pipe + read >= Length(behaviour[at])

KilledMeansLimit == child = "killed" => TimedOut

\* A command starts only after the ones before it ended well.
EarlierCommands ==
  stage = "running" =>
    /\ \A c \in 0..(at - 1) : EndsWell(c)
    /\ \A c \in 1..Cases : c \in passed <=> c < at /\ behaviour[c] = "right"

IInv ==
  /\ TypeOK
  /\ NoVerdictYet /\ StageOfChild
  /\ PrintedAtMost /\ ExitedMeansPrinted /\ KilledMeansLimit
  /\ EarlierCommands
  /\ VerdictFromRuns

-----------------------------------------------------------------------------
LEMMA LengthFacts ==
  ASSUME NEW b \in Behaviour
  PROVE  /\ Length(b) \in Nat
         /\ Length(b) = OutputLimit + 1 <=> b \in {"noisy", "floods", "stalls"}
         /\ b \notin {"noisy", "floods", "stalls"} => Length(b) <= OutputLimit
         /\ b \in {"right", "wrong", "fails"} => Length(b) = OutputLimit
BY SandboxAssumption DEF Behaviour, Length

\* The score is 100 exactly when all cases passed (executor.ts:131).
LEMMA FullScore ==
  ASSUME NEW s \in 0..100, NEW p \in 0..Cases, IsScore(s, p, Cases)
  PROVE  s = 100 <=> p = Cases
<1>1. ASSUME s = 100 PROVE p = Cases
  BY <1>1, SandboxAssumption DEF IsScore
<1>2. ASSUME p = Cases, s # 100 PROVE FALSE
  <2> DEFINE d == 100 - s
  <2>1. d \in Nat /\ d >= 1 /\ 100 * Cases - s * Cases = d * Cases
    BY <1>2, SandboxAssumption
  <2>2. 2 * (d * Cases) <= Cases
    BY <1>2, <2>1 DEF IsScore
  <2> HIDE DEF d
  <2>3. d * Cases >= Cases
    BY <2>1, SandboxAssumption
  <2> QED BY <2>1, <2>2, <2>3, SandboxAssumption
<1> QED BY <1>1, <1>2

LEMMA CountOfCases ==
  ASSUME NEW P \in SUBSET (1..Cases)
  PROVE  Cardinality(P) \in 0..Cases /\ (Cardinality(P) = Cases <=> P = 1..Cases)
<1>1. IsFiniteSet(1..Cases) /\ Cardinality(1..Cases) = Cases
  <2>1. Cases \in Int /\ 1 \in Int /\ ~(1 > Cases)
    BY SandboxAssumption
  <2>2. /\ IsFiniteSet(1..Cases)
        /\ Cardinality(1..Cases) = IF 1 > Cases THEN 0 ELSE Cases - 1 + 1
    BY <2>1, FS_Interval
  <2> QED BY <2>1, <2>2
<1>2. /\ IsFiniteSet(P) /\ Cardinality(P) <= Cases /\ Cardinality(P) \in Nat
      /\ Cardinality(P) = Cases => P = 1..Cases
  BY <1>1, FS_Subset, FS_CardinalityType
<1> QED BY <1>1, <1>2, SandboxAssumption

LEMMA ScoreOfPassed ==
  ASSUME NEW P \in SUBSET (1..Cases), NEW s \in 0..100, IsScore(s, Cardinality(P), Cases)
  PROVE  s = 100 <=> P = 1..Cases
BY CountOfCases, FullScore

LEMMA InitInv == Init => IInv
<1> SUFFICES ASSUME Init PROVE IInv
  OBVIOUS
<1>1. 0 \in Command /\ behaviour[0] \in Behaviour
  BY SandboxAssumption DEF Init, Command
<1>2. Length(behaviour[0]) >= 0
  BY <1>1, LengthFacts
<1>3. TypeOK
  BY SandboxAssumption DEF Init, TypeOK, Command, Verdict
<1>4. PrintedAtMost
  BY <1>2 DEF Init, PrintedAtMost
<1> QED
  BY <1>3, <1>4 DEF Init, IInv, NoVerdictYet, StageOfChild, ExitedMeansPrinted,
     KilledMeansLimit, EarlierCommands, VerdictFromRuns

-----------------------------------------------------------------------------
(* Three kinds of steps: a command goes on, the execution ends, a command starts. *)

LEMMA CommandGoesOn ==
  ASSUME IInv, UNCHANGED <<behaviour, stage, at, passed, verdict, score>>,
         timer' = timer \/ stage = "running",
         (child' = "failed") = (child = "failed") \/ stage = "running",
         TypeOK', StageOfChild', PrintedAtMost', ExitedMeansPrinted', KilledMeansLimit'
  PROVE  IInv'
<1>1. NoVerdictYet'
  BY DEF IInv, NoVerdictYet
<1>2. EarlierCommands'
  BY DEF IInv, EarlierCommands, EndsWell
<1>3. CASE verdict = "none"
  <2>1. VerdictFromRuns'
    BY <1>3 DEF VerdictFromRuns
  <2> QED BY <1>1, <1>2, <2>1 DEF IInv
<1>4. CASE verdict # "none"
  <2>1. timer' = timer /\ (child' = "failed") = (child = "failed")
    BY <1>4 DEF IInv, NoVerdictYet
  <2>2. VerdictFromRuns'
    BY <2>1 DEF IInv, VerdictFromRuns, EndsWell, TooMuch
  <2> QED BY <1>1, <1>2, <2>2 DEF IInv
<1> QED BY <1>3, <1>4

LEMMA ExecutionIsOver ==
  ASSUME IInv, NEW v \in Verdict \ {"none"}, NEW s \in 0..100, EndWith(v, s),
         UNCHANGED <<behaviour, container, cleanup>>, passed' \subseteq 1..Cases,
         VerdictFromRuns'
  PROVE  IInv'
<1>1. TypeOK'
  BY DEF IInv, TypeOK, EndWith
<1>2. NoVerdictYet' /\ StageOfChild' /\ EarlierCommands'
  BY DEF EndWith, NoVerdictYet, StageOfChild, EarlierCommands
<1>3. PrintedAtMost'
  BY DEF IInv, EndWith, PrintedAtMost
<1>4. ExitedMeansPrinted' /\ KilledMeansLimit'
  BY DEF EndWith, ExitedMeansPrinted, KilledMeansLimit
<1> QED BY <1>1, <1>2, <1>3, <1>4 DEF IInv

LEMMA CommandStarts ==
  ASSUME IInv, stage # "ended", NEW c \in Command, RunCommand(c),
         UNCHANGED <<behaviour, container, cleanup, verdict, score>>,
         passed' \subseteq 1..Cases, EarlierCommands'
  PROVE  IInv'
<1>1. TypeOK'
  BY SandboxAssumption DEF IInv, TypeOK, RunCommand
<1>2. verdict = "none" /\ NoVerdictYet' /\ StageOfChild' /\ VerdictFromRuns'
  BY DEF IInv, RunCommand, NoVerdictYet, StageOfChild, VerdictFromRuns
<1>3. PrintedAtMost'
  <2>1. behaviour[c] \in Behaviour
    BY DEF IInv, TypeOK
  <2>2. Length(behaviour[c]) >= 0
    BY <2>1, LengthFacts
  <2> QED BY <2>2 DEF RunCommand, PrintedAtMost
<1>4. ExitedMeansPrinted' /\ KilledMeansLimit'
  BY DEF RunCommand, ExitedMeansPrinted, KilledMeansLimit
<1> QED BY <1>1, <1>2, <1>3, <1>4 DEF IInv

-----------------------------------------------------------------------------
(* What close finds *)

\* The end of a command that no limit stopped tells what its program did.
LEMMA EndTellsBehaviour ==
  ASSUME IInv, stage = "running", Closable, ~TimedOut
  PROVE  \/ child = "failed"
         \/ /\ child = "exited" /\ behaviour[at] \in {"right", "wrong", "fails"}
            /\ read = OutputLimit
<1>1. at \in Command /\ behaviour[at] \in Behaviour /\ read \in Nat /\ pipe = 0
  BY SandboxAssumption DEF IInv, TypeOK, Closable
<1> SUFFICES ASSUME child # "failed"
             PROVE  /\ child = "exited" /\ behaviour[at] \in {"right", "wrong", "fails"}
                    /\ read = OutputLimit
  OBVIOUS
<1>2. child = "exited"
  BY DEF IInv, KilledMeansLimit, Closable
<1>3. read <= OutputLimit
  BY <1>1, SandboxAssumption DEF TimedOut, OverLimit
<1>4. Ends(behaviour[at]) /\ read >= Length(behaviour[at])
  BY <1>1, <1>2 DEF IInv, ExitedMeansPrinted, TimedOut
<1>5. behaviour[at] \notin {"noisy", "floods", "stalls"}
  BY <1>1, <1>3, <1>4, LengthFacts, SandboxAssumption
<1>6. behaviour[at] \in {"right", "wrong", "fails"}
  BY <1>1, <1>4, <1>5 DEF Ends, Behaviour
<1>7. Length(behaviour[at]) = OutputLimit
  BY <1>1, <1>6, LengthFacts
<1> QED BY <1>1, <1>2, <1>3, <1>4, <1>6, <1>7, SandboxAssumption

\* Only a program that prints more than the limit exceeds it.
LEMMA OverLimitBehaviour ==
  ASSUME IInv, OverLimit
  PROVE  TooMuch(at)
<1> USE DEF TooMuch
<1>1. at \in Command /\ behaviour[at] \in Behaviour /\ read \in Nat /\ pipe \in Nat
  BY SandboxAssumption DEF IInv, TypeOK
<1>2. CASE behaviour[at] = "floods"
  BY <1>2
<1>3. CASE behaviour[at] # "floods"
  <2>1. pipe + read <= Length(behaviour[at])
    BY <1>3 DEF IInv, PrintedAtMost
  <2>2. ~(Length(behaviour[at]) <= OutputLimit)
    BY <1>1, <2>1, LengthFacts, SandboxAssumption DEF OverLimit
  <2> QED BY <1>1, <2>2, LengthFacts
<1> QED BY <1>2, <1>3

\* After a command that ended well, passed says so of all commands so far.
LEMMA PassedSoFar ==
  ASSUME IInv, stage = "running", Closable, ~TimedOut, ExitedZero
  PROVE  /\ PassedNow \subseteq 1..Cases
         /\ \A c \in 0..at : EndsWell(c)
         /\ \A c \in 1..Cases : c \in PassedNow <=> c <= at /\ behaviour[c] = "right"
<1>1. at \in 0..Cases /\ passed \subseteq 1..Cases
  BY DEF IInv, TypeOK, Command
<1>2. behaviour[at] \in {"right", "wrong"} /\ read = OutputLimit
  BY EndTellsBehaviour DEF ExitedZero
<1>3. ExpectedOutput <=> behaviour[at] = "right"
  <2>1. Length("right") = OutputLimit
    BY LengthFacts DEF Behaviour
  <2> QED BY <1>2, <2>1 DEF ExpectedOutput
<1>4. PassedNow \subseteq 1..Cases
  BY <1>1, SandboxAssumption DEF PassedNow
<1>5. \A c \in 0..at : EndsWell(c)
  BY <1>1, <1>2, SandboxAssumption DEF IInv, EarlierCommands, EndsWell
<1>6. ASSUME NEW c \in 1..Cases
      PROVE  c \in PassedNow <=> c <= at /\ behaviour[c] = "right"
  <2>1. c \in passed <=> c < at /\ behaviour[c] = "right"
    BY DEF IInv, EarlierCommands
  <2>2. c \in PassedNow <=> c \in passed \/ (c = at /\ behaviour[c] = "right")
    BY <1>1, <1>3, SandboxAssumption DEF PassedNow
  <2> QED BY <1>1, <2>1, <2>2, SandboxAssumption
<1> QED BY <1>4, <1>5, <1>6

-----------------------------------------------------------------------------
(* One lemma per handler that does more than end the execution *)

LEMMA ContainerPrintsInv == IInv /\ ContainerPrints => IInv'
<1> SUFFICES ASSUME IInv, ContainerPrints PROVE IInv'
  OBVIOUS
<1>1. /\ at \in Command /\ behaviour[at] \in Behaviour
      /\ pipe \in 0..PipeSize /\ read \in Nat /\ pipe < PipeSize
  BY SandboxAssumption DEF IInv, TypeOK, ContainerPrints
<1>2. TypeOK'
  BY <1>1, SandboxAssumption DEF IInv, TypeOK, ContainerPrints
<1>3. PrintedAtMost'
  BY <1>1, LengthFacts DEF IInv, PrintedAtMost, ContainerPrints, PrintsMore, Printed
<1>4. StageOfChild' /\ ExitedMeansPrinted' /\ KilledMeansLimit'
  BY DEF IInv, StageOfChild, ExitedMeansPrinted, KilledMeansLimit, ContainerPrints
<1> QED
  BY <1>2, <1>3, <1>4, CommandGoesOn DEF ContainerPrints

LEMMA ContainerEndsInv ==
  ASSUME IInv, NEW c \in Command, ContainerEnds(c)
  PROVE  IInv'
<1>1. /\ at \in Command /\ behaviour[at] \in Behaviour
      /\ pipe \in Nat /\ read \in Nat
  BY SandboxAssumption DEF IInv, TypeOK
<1>2. TypeOK'
  BY DEF IInv, TypeOK, ContainerEnds
<1>3. StageOfChild' /\ PrintedAtMost' /\ KilledMeansLimit'
  BY DEF IInv, StageOfChild, PrintedAtMost, KilledMeansLimit, TimedOut, OverLimit, ContainerEnds
<1>4. ExitedMeansPrinted'
  <2>1. CASE c = at /\ child = "running"
    <3>1. Ends(behaviour[at]) /\ ~(pipe + read < Length(behaviour[at]))
      BY <2>1 DEF ContainerEnds, PrintsMore, Printed
    <3>2. pipe + read >= Length(behaviour[at])
      BY <1>1, <3>1, LengthFacts
    <3> QED BY <3>1, <3>2 DEF ContainerEnds, ExitedMeansPrinted
  <2>2. CASE ~(c = at /\ child = "running")
    BY <2>2 DEF IInv, ExitedMeansPrinted, OverLimit, ContainerEnds
  <2> QED BY <2>1, <2>2
<1> QED
  BY <1>2, <1>3, <1>4, CommandGoesOn DEF ContainerEnds

LEMMA ReadChunkInv == IInv /\ ReadChunk => IInv'
<1> SUFFICES ASSUME IInv, ReadChunk PROVE IInv'
  OBVIOUS
<1>1. /\ at \in Command /\ behaviour[at] \in Behaviour
      /\ pipe \in 0..PipeSize /\ read \in 0..(OutputLimit + 1) /\ pipe > 0
  BY DEF IInv, TypeOK, ReadChunk
<1>2. /\ Length(behaviour[at]) \in Nat
      /\ pipe' = pipe - 1
      /\ OverLimit => read' = read
      /\ ~OverLimit => read' = read + 1
  BY <1>1, LengthFacts DEF ReadChunk
<1>3. TypeOK'
  BY <1>1, <1>2, SandboxAssumption DEF IInv, TypeOK, ReadChunk, Killed, OverLimit
<1>4. StageOfChild'
  <2>1. stage # "image"
    BY DEF IInv, StageOfChild, ReadChunk
  <2> QED BY <2>1 DEF IInv, StageOfChild, ReadChunk, Killed
<1>5. PrintedAtMost'
  <2>1. pipe' + read' <= pipe + read
    BY <1>1, <1>2, SandboxAssumption
  <2> QED
    BY <1>1, <1>2, <2>1, SandboxAssumption DEF IInv, PrintedAtMost, ReadChunk
<1>6. ExitedMeansPrinted'
  <2>1. OverLimit => OverLimit'
    BY <1>2 DEF OverLimit
  <2>2. ~OverLimit => pipe' + read' = pipe + read
    BY <1>1, <1>2, SandboxAssumption
  <2>3. child' = "exited" => child = "exited"
    BY DEF ReadChunk, Killed
  <2> QED
    BY <2>1, <2>2, <2>3 DEF IInv, ExitedMeansPrinted, ReadChunk
<1>7. KilledMeansLimit'
  BY <1>1, <1>2, SandboxAssumption
     DEF IInv, KilledMeansLimit, TimedOut, OverLimit, ReadChunk, Killed
<1>8. (child' = "failed") = (child = "failed")
  BY DEF ReadChunk, Killed
<1> QED
  BY <1>3, <1>4, <1>5, <1>6, <1>7, <1>8, CommandGoesOn DEF ReadChunk

LEMMA TimerFiresInv == IInv /\ TimerFires => IInv'
<1> SUFFICES ASSUME IInv, TimerFires PROVE IInv'
  OBVIOUS
<1>1. TypeOK'
  BY DEF IInv, TypeOK, TimerFires, StartCleanup, Killed
<1>2. StageOfChild' /\ PrintedAtMost' /\ KilledMeansLimit'
  BY DEF IInv, StageOfChild, PrintedAtMost, KilledMeansLimit, TimedOut, TimerFires, Killed
<1>3. ExitedMeansPrinted'
  BY DEF IInv, ExitedMeansPrinted, OverLimit, TimerFires, Killed
<1> QED
  BY <1>1, <1>2, <1>3, CommandGoesOn DEF TimerFires

LEMMA CloseInv == IInv /\ Close => IInv'
<1> SUFFICES ASSUME IInv, Close PROVE IInv'
  OBVIOUS
<1>1. /\ stage = "running" /\ Closable
      /\ UNCHANGED <<behaviour, container, cleanup>>
      /\ at \in 0..Cases /\ behaviour[at] \in Behaviour /\ passed \subseteq 1..Cases
  BY DEF IInv, TypeOK, Close, Command
<1>2. ASSUME TimedOut, UNCHANGED passed,
             EndWith(IF at = 0 THEN "compile_error" ELSE "time_limit_exceeded", 0)
      PROVE  IInv'
  <2> DEFINE v == IF at = 0 THEN "compile_error" ELSE "time_limit_exceeded"
  <2>1. v \in Verdict \ {"none"} /\ 0 \in 0..100 /\ EndWith(v, 0)
    BY <1>2 DEF Verdict
  <2>2. timer = "fired" \/ TooMuch(at)
    BY <1>2, OverLimitBehaviour DEF TimedOut
  <2>3. \A c \in 0..(at - 1) : EndsWell(c)
    BY <1>1 DEF IInv, EarlierCommands
  <2>4. at' = at /\ behaviour' = behaviour /\ verdict' = v /\ (timer = "fired" => timer' = "fired")
    BY <1>1, <1>2 DEF EndWith
  <2>5. VerdictFromRuns'
    BY <1>1, <2>2, <2>3, <2>4 DEF VerdictFromRuns, EndsWell, TooMuch
  <2> HIDE DEF v
  <2> QED BY <1>1, <1>2, <2>1, <2>5, ExecutionIsOver
<1>3. ASSUME ~TimedOut, ~ExitedZero, UNCHANGED passed,
             EndWith(IF at = 0 THEN "compile_error" ELSE "runtime_error", 0)
      PROVE  IInv'
  <2> DEFINE v == IF at = 0 THEN "compile_error" ELSE "runtime_error"
  <2>1. v \in Verdict \ {"none"} /\ 0 \in 0..100 /\ EndWith(v, 0)
    BY <1>3 DEF Verdict
  <2>2. timer # "fired" /\ (behaviour[at] = "fails" \/ child = "failed")
    BY <1>1, <1>3, EndTellsBehaviour DEF ExitedZero, TimedOut
  <2>3. \A c \in 0..(at - 1) : EndsWell(c)
    BY <1>1 DEF IInv, EarlierCommands
  <2>4. /\ at' = at /\ behaviour' = behaviour /\ verdict' = v /\ timer' # "fired"
        /\ child = "failed" => child' = "failed"
    BY <1>1, <1>3, <2>2 DEF EndWith
  <2>5. VerdictFromRuns'
    BY <1>1, <2>2, <2>3, <2>4 DEF VerdictFromRuns, EndsWell
  <2> HIDE DEF v
  <2> QED BY <1>1, <1>3, <2>1, <2>5, ExecutionIsOver
<1>4. ASSUME ~TimedOut, ExitedZero, ~IsLast(at), RunCommand(at + 1),
             passed' = PassedNow, UNCHANGED <<verdict, score>>
      PROVE  IInv'
  <2>1. at + 1 \in Command /\ at + 1 > 0
    BY <1>1, <1>4, SandboxAssumption DEF IsLast, Command
  <2>2. /\ PassedNow \subseteq 1..Cases
        /\ \A c \in 0..at : EndsWell(c)
        /\ \A c \in 1..Cases : c \in PassedNow <=> c <= at /\ behaviour[c] = "right"
    BY <1>1, <1>4, PassedSoFar
  <2>3. at' = at + 1 /\ behaviour' = behaviour
    BY <1>1, <1>4 DEF RunCommand
  <2>4. \A c \in 1..Cases : c < at + 1 <=> c <= at
    BY <1>1, SandboxAssumption
  <2>5. \A c \in 0..((at + 1) - 1) : EndsWell(c)
    BY <1>1, <2>2, SandboxAssumption
  <2>6. EarlierCommands'
    BY <1>4, <2>2, <2>3, <2>4, <2>5 DEF EarlierCommands, EndsWell
  <2> QED
    BY <1>1, <1>4, <2>1, <2>2, <2>6, CommandStarts
<1>5. ASSUME ~TimedOut, ExitedZero, IsLast(at), passed' = PassedNow, NEW s \in 0..100,
             IsScore(s, Cardinality(PassedNow), Cases), EndWith("finished", s)
      PROVE  IInv'
  <2>1. at = Cases
    BY <1>5 DEF IsLast
  <2>2. /\ PassedNow \subseteq 1..Cases
        /\ \A c \in Command : EndsWell(c)
        /\ \A c \in 1..Cases : c \in PassedNow <=> behaviour[c] = "right"
    BY <1>1, <1>5, <2>1, PassedSoFar, SandboxAssumption DEF Command
  <2>3. s = 100 <=> \A c \in 1..Cases : behaviour[c] = "right"
    <3>1. s = 100 <=> PassedNow = 1..Cases
      BY <1>5, <2>2, ScoreOfPassed
    <3>2. PassedNow = 1..Cases <=> \A c \in 1..Cases : behaviour[c] = "right"
      BY <2>2
    <3> QED BY <3>1, <3>2
  <2>4. /\ at' = at /\ behaviour' = behaviour /\ verdict' = "finished" /\ score' = s
        /\ child' # "failed"
    BY <1>1, <1>5 DEF EndWith, ExitedZero
  <2>5. VerdictFromRuns'
    BY <1>5, <2>2, <2>3, <2>4 DEF VerdictFromRuns, EndsWell
  <2>6. "finished" \in Verdict \ {"none"}
    BY DEF Verdict
  <2> QED BY <1>1, <1>5, <2>2, <2>5, <2>6, ExecutionIsOver
<1>6. ASSUME RemovalFails PROVE IInv'
  <2>1. EndWith("system_error", 0) /\ passed' \subseteq 1..Cases
    BY <1>1, <1>6 DEF RemovalFails
  <2>2. "system_error" \in Verdict \ {"none"} /\ 0 \in 0..100
    BY DEF Verdict
  <2>3. VerdictFromRuns'
    BY <2>1 DEF VerdictFromRuns, EndWith
  <2> QED BY <1>1, <2>1, <2>2, <2>3, ExecutionIsOver
<1> QED
  BY <1>2, <1>3, <1>4, <1>5, <1>6 DEF Close

-----------------------------------------------------------------------------
LEMMA StepInv == IInv /\ [Next]_vars => IInv'
<1> SUFFICES ASSUME IInv, [Next]_vars PROVE IInv'
  OBVIOUS
<1>1. CASE EnsureImage
  <2>1. /\ stage = "image" /\ passed = {} /\ RunCommand(0)
        /\ UNCHANGED <<behaviour, container, cleanup, passed, verdict, score>>
    BY <1>1 DEF IInv, StageOfChild, EnsureImage
  <2>2. 0 \in Command
    BY SandboxAssumption DEF Command
  <2>3. \A c \in 0..(0 - 1) : EndsWell(c)'
    OBVIOUS
  <2>4. \A c \in 1..Cases : ~(c < 0)
    BY SandboxAssumption
  <2>5. EarlierCommands'
    BY <2>1, <2>3, <2>4 DEF EarlierCommands, RunCommand
  <2> QED BY <2>1, <2>2, <2>5, CommandStarts
<1>2. CASE EnsureImageFails
  <2>1. PICK v \in {"sandbox_error", "system_error"} : EndWith(v, 0)
    BY <1>2 DEF EnsureImageFails
  <2>2. UNCHANGED <<behaviour, container, cleanup, passed>>
    BY <1>2 DEF EnsureImageFails
  <2>3. v \in Verdict \ {"none"} /\ 0 \in 0..100
    BY DEF Verdict
  <2>4. VerdictFromRuns'
    BY <2>1 DEF VerdictFromRuns, EndWith
  <2>5. passed' \subseteq 1..Cases
    BY <2>2 DEF IInv, TypeOK
  <2> QED BY <2>1, <2>2, <2>3, <2>4, <2>5, ExecutionIsOver
<1>3. CASE SpawnFails
  <2>1. EndWith("system_error", 0) /\ UNCHANGED <<behaviour, container, cleanup, passed>>
    BY <1>3 DEF SpawnFails
  <2>2. "system_error" \in Verdict \ {"none"} /\ 0 \in 0..100
    BY DEF Verdict
  <2>3. VerdictFromRuns'
    BY <2>1 DEF VerdictFromRuns, EndWith
  <2>4. passed' \subseteq 1..Cases
    BY <2>1 DEF IInv, TypeOK
  <2> QED BY <2>1, <2>2, <2>3, <2>4, ExecutionIsOver
<1>4. CASE ContainerStarts
  <2>1. TypeOK'
    BY <1>4 DEF IInv, TypeOK, ContainerStarts, commandVars
  <2>2. StageOfChild' /\ PrintedAtMost' /\ ExitedMeansPrinted' /\ KilledMeansLimit'
    BY <1>4 DEF IInv, StageOfChild, PrintedAtMost, ExitedMeansPrinted, KilledMeansLimit,
       TimedOut, OverLimit, ContainerStarts, commandVars
  <2> QED BY <1>4, <2>1, <2>2, CommandGoesOn DEF ContainerStarts, commandVars
<1>5. CASE ContainerPrints
  BY <1>5, ContainerPrintsInv
<1>6. ASSUME NEW c \in Command, ContainerEnds(c) PROVE IInv'
  BY <1>6, ContainerEndsInv
<1>7. ASSUME NEW c \in Command, Cleanup(c) \/ CleanupFails(c) PROVE IInv'
  <2>1. TypeOK'
    BY <1>7 DEF IInv, TypeOK, Cleanup, CleanupFails, commandVars
  <2>2. StageOfChild' /\ PrintedAtMost' /\ ExitedMeansPrinted' /\ KilledMeansLimit'
    BY <1>7 DEF IInv, StageOfChild, PrintedAtMost, ExitedMeansPrinted, KilledMeansLimit,
       TimedOut, OverLimit, Cleanup, CleanupFails, commandVars
  <2> QED BY <1>7, <2>1, <2>2, CommandGoesOn DEF Cleanup, CleanupFails, commandVars
<1>12. CASE ClientFails
  <2>1. TypeOK'
    BY <1>12 DEF IInv, TypeOK, ClientFails
  <2>2. StageOfChild' /\ PrintedAtMost' /\ ExitedMeansPrinted' /\ KilledMeansLimit'
    BY <1>12 DEF IInv, StageOfChild, PrintedAtMost, ExitedMeansPrinted, KilledMeansLimit,
       ClientFails
  <2>3. stage = "running"
    BY <1>12 DEF IInv, StageOfChild, ClientFails
  <2> QED BY <1>12, <2>1, <2>2, <2>3, CommandGoesOn DEF ClientFails
<1>8. CASE ReadChunk
  BY <1>8, ReadChunkInv
<1>9. CASE TimerFires
  BY <1>9, TimerFiresInv
<1>10. CASE Close
  BY <1>10, CloseInv
<1>11. CASE UNCHANGED vars
  <2>1. TypeOK'
    BY <1>11 DEF IInv, TypeOK, vars, commandVars
  <2>2. StageOfChild' /\ PrintedAtMost' /\ ExitedMeansPrinted' /\ KilledMeansLimit'
    BY <1>11 DEF IInv, StageOfChild, PrintedAtMost, ExitedMeansPrinted, KilledMeansLimit,
       TimedOut, OverLimit, vars, commandVars
  <2> QED BY <1>11, <2>1, <2>2, CommandGoesOn DEF vars, commandVars
<1> QED
  BY <1>1, <1>2, <1>3, <1>4, <1>5, <1>6, <1>7, <1>8, <1>9, <1>10, <1>11, <1>12
  DEF Next

LEMMA InvAlways == Spec => []IInv
<1>1. Init => IInv
  BY InitInv
<1>2. IInv /\ [Next]_vars => IInv'
  BY StepInv
<1> QED BY <1>1, <1>2, PTL DEF Spec

\* The state of an execution has its types, however many cases it has
\* (executor.ts:287-380).
THEOREM TypeCorrect == Spec => []TypeOK
<1>1. IInv => TypeOK
  BY DEF IInv
<1> QED BY <1>1, InvAlways, PTL

\* In whatever order the data, close and error events, the time limit and the
\* container come, and whether docker and the host fail or not, the verdict of
\* executeSubmission (executor.ts:61-142) says what the programs and docker did.
THEOREM VerdictAlwaysFromRuns == Spec => []VerdictFromRuns
<1>1. IInv => VerdictFromRuns
  BY DEF IInv
<1> QED BY <1>1, InvAlways, PTL

-----------------------------------------------------------------------------
(* The refinement of SequentialJudge.  The race of a command's events is one   *)
(* step of the judge, the one at close; the time limit and a docker client     *)
(* that fails are steps of their own.                                          *)

\* The limit belongs to the command that runs, and it kills its client.
LimitOfCommand ==
  /\ stage = "image" => timer = "off" /\ child = "none"
  /\ timer = "fired" => child # "running"

LEMMA InitLimit == Init => LimitOfCommand
BY DEF Init, LimitOfCommand

LEMMA StepLimit == IInv /\ LimitOfCommand /\ [Next]_vars => LimitOfCommand'
BY DEF IInv, TypeOK, LimitOfCommand, Next, vars, commandVars, EnsureImage, EnsureImageFails,
   SpawnFails, ContainerStarts, ContainerPrints, ContainerEnds, ClientFails, Cleanup,
   CleanupFails, ReadChunk, TimerFires, Close, RemovalFails, RunCommand, EndWith, Killed

\* Math.round gives the nearest whole percentage (executor.ts:131).
LEMMA NearestPercentage ==
  ASSUME NEW s \in 0..100, NEW p \in 0..Cases, IsScore(s, p, Cases)
  PROVE  Judge!Percentage(s, p)
<1> SUFFICES ASSUME NEW n \in 0..100
             PROVE  Judge!Distance(100 * p, s * Cases) =< Judge!Distance(100 * p, n * Cases)
  BY DEF Judge!Percentage
<1> DEFINE y == s * Cases
           x == n * Cases
           t == Cases
           h == 100 * p
<1>1. x \in Int /\ y \in Int /\ t \in Int /\ t > 0 /\ h \in Int
  BY SandboxAssumption
<1>2. 2 * (h - y) <= t /\ 2 * (y - h) <= t
  BY DEF IsScore
<1>3. n < s => x <= y - t
  <2>1. ASSUME n < s PROVE n * Cases <= (s - 1) * Cases
    BY <2>1, SandboxAssumption
  <2>2. (s - 1) * Cases = s * Cases - Cases
    BY SandboxAssumption
  <2> QED BY <2>1, <2>2
<1>4. n > s => x >= y + t
  <2>1. ASSUME n > s PROVE n * Cases >= (s + 1) * Cases
    BY <2>1, SandboxAssumption
  <2>2. (s + 1) * Cases = s * Cases + Cases
    BY SandboxAssumption
  <2> QED BY <2>1, <2>2
<1>5. n = s => x = y
  OBVIOUS
<1> HIDE DEF x, y, t, h
<1>6. x = y \/ x <= y - t \/ x >= y + t
  BY <1>3, <1>4, <1>5
<1>7. Judge!Distance(h, y) =< Judge!Distance(h, x)
  BY <1>1, <1>2, <1>6 DEF Judge!Distance
<1> QED BY <1>7 DEF x, y, h

\* The judge counts as the library does.
LEMMA JudgeCounts ==
  ASSUME NEW S
  PROVE  Judge!Cardinality(S) = Cardinality(S)
BY DEF Judge!Cardinality, Cardinality

\* What close finds, in the judge's words.
LEMMA CloseIsJudged ==
  ASSUME IInv, LimitOfCommand, Close
  PROVE  Judge!Next
<1> USE DEF Judge!EndsWell, TooMuch, Judge!TooMuch, Judge!Stopped, Judge!Failed, Judge!Fail
<1>1. /\ stage = "running" /\ Closable /\ verdict = "none"
      /\ behaviour' = behaviour
      /\ at \in 0..Cases /\ passed \subseteq 1..Cases
  BY DEF IInv, TypeOK, Close, Command, NoVerdictYet
<1>2. ASSUME TimedOut, UNCHANGED passed,
             EndWith(IF at = 0 THEN "compile_error" ELSE "time_limit_exceeded", 0)
      PROVE  Judge!Next
  <2>1. timer = "fired" \/ TooMuch(at)
    BY <1>2, OverLimitBehaviour DEF TimedOut
  <2>2. /\ (timer' = "fired") = (timer = "fired") /\ (child' = "failed") = (child = "failed")
        /\ at' = at /\ score' = 0
    BY <1>2 DEF EndWith
  <2>3. CASE at = 0
    <3>1. verdict' = "compile_error"
      BY <1>2, <2>3 DEF EndWith
    <3>2. Judge!CompileError
      BY <1>1, <1>2, <2>1, <2>2, <2>3, <3>1 DEF Judge!CompileError
    <3> QED BY <3>2 DEF Judge!Next
  <2>4. CASE at > 0
    <3>1. verdict' = "time_limit_exceeded"
      BY <1>2, <2>4 DEF EndWith
    <3>2. Judge!TimeLimitExceeded
      BY <1>1, <1>2, <2>1, <2>2, <2>4, <3>1 DEF Judge!TimeLimitExceeded
    <3> QED BY <3>2 DEF Judge!Next
  <2> QED BY <1>1, <2>3, <2>4, SandboxAssumption
<1>3. ASSUME ~TimedOut, ~ExitedZero, UNCHANGED passed,
             EndWith(IF at = 0 THEN "compile_error" ELSE "runtime_error", 0)
      PROVE  Judge!Next
  <2>1. timer # "fired" /\ (behaviour[at] = "fails" \/ child = "failed")
    BY <1>1, <1>3, EndTellsBehaviour DEF TimedOut, ExitedZero
  <2>2. /\ timer' # "fired" /\ (child' = "failed") = (child = "failed")
        /\ at' = at /\ score' = 0
    BY <1>3, <2>1 DEF EndWith
  <2>3. CASE at = 0
    <3>1. verdict' = "compile_error"
      BY <1>3, <2>3 DEF EndWith
    <3>2. Judge!CompileError
      BY <1>1, <1>3, <2>1, <2>2, <2>3, <3>1 DEF Judge!CompileError
    <3> QED BY <3>2 DEF Judge!Next
  <2>4. CASE at > 0
    <3>1. verdict' = "runtime_error"
      BY <1>3, <2>4 DEF EndWith
    <3>2. Judge!RuntimeError
      BY <1>1, <1>3, <2>1, <2>2, <2>4, <3>1 DEF Judge!RuntimeError
    <3> QED BY <3>2 DEF Judge!Next
  <2> QED BY <1>1, <2>3, <2>4, SandboxAssumption
<1>4. ASSUME ~TimedOut, ExitedZero, passed' = PassedNow
      PROVE  Judge!Ran /\ timer # "fired" /\ child # "failed" /\ PassedNow = Judge!JudgedRight
  <2>1. timer # "fired" /\ child # "failed" /\ behaviour[at] \in {"right", "wrong"} /\ read = OutputLimit
    BY <1>1, <1>4, EndTellsBehaviour DEF TimedOut, ExitedZero
  <2>2. Length("right") = OutputLimit
    BY LengthFacts DEF Behaviour
  <2>3. PassedNow = Judge!JudgedRight
    BY <2>1, <2>2 DEF PassedNow, ExpectedOutput, Judge!JudgedRight
  <2> QED BY <1>1, <1>4, <2>1, <2>3 DEF Judge!Ran
<1>5. ASSUME ~TimedOut, ExitedZero, ~IsLast(at), RunCommand(at + 1),
             passed' = PassedNow, UNCHANGED <<verdict, score>>
      PROVE  Judge!Next
  <2>1. at < Cases /\ at' = at + 1 /\ timer' # "fired" /\ child' # "failed"
    BY <1>1, <1>5, SandboxAssumption DEF IsLast, RunCommand
  <2>2. Judge!JudgeCommand
    BY <1>1, <1>4, <1>5, <2>1 DEF Judge!JudgeCommand
  <2> QED BY <2>2 DEF Judge!Next
<1>6. ASSUME ~TimedOut, ExitedZero, IsLast(at), passed' = PassedNow, NEW s \in 0..100,
             IsScore(s, Cardinality(PassedNow), Cases), EndWith("finished", s)
      PROVE  Judge!Next
  <2>1. at = Cases /\ at' = at /\ verdict' = "finished" /\ score' = s
    BY <1>6 DEF IsLast, EndWith
  <2>2. Cardinality(PassedNow) \in 0..Cases
    BY <1>1, <1>6, PassedSoFar, CountOfCases
  <2>3. Judge!Percentage(s, Cardinality(PassedNow))
    BY <1>6, <2>2, NearestPercentage
  <2>4. timer' # "fired" /\ child' # "failed"
    BY <1>4, <1>6 DEF EndWith
  <2>5. Judge!Finish
    BY <1>1, <1>4, <1>6, <2>1, <2>3, <2>4, JudgeCounts DEF Judge!Finish
  <2> QED BY <2>5 DEF Judge!Next
<1>7. ASSUME RemovalFails PROVE Judge!Next
  <2>1. Judge!SystemError
    BY <1>1, <1>7 DEF RemovalFails, EndWith, Judge!SystemError
  <2> QED BY <2>1 DEF Judge!Next
<1> QED
  BY <1>2, <1>3, <1>5, <1>6, <1>7 DEF Close

\* Every other step is the end of the time, docker's failure, a host that cannot run a
\* command, or none.
LEMMA StepIsJudged ==
  IInv /\ LimitOfCommand /\ [Next]_vars => [Judge!Next]_(Judge!vars)
<1> SUFFICES ASSUME IInv, LimitOfCommand, [Next]_vars
             PROVE  Judge!Next \/ UNCHANGED Judge!vars
  OBVIOUS
<1> DEFINE Quiet == /\ UNCHANGED <<behaviour, at, passed, verdict, score>>
                    /\ (timer' = "fired") = (timer = "fired")
                    /\ (child' = "failed") = (child = "failed")
<1>a. Quiet => UNCHANGED Judge!vars
  BY DEF Judge!vars
<1>1. CASE EnsureImage
  <2>1. Quiet
    BY <1>1 DEF IInv, StageOfChild, LimitOfCommand, EnsureImage, RunCommand
  <2> QED BY <1>a, <2>1
<1>2. CASE EnsureImageFails
  <2>1. at = 0 /\ timer = "off" /\ child = "none" /\ verdict = "none"
    BY <1>2 DEF IInv, StageOfChild, NoVerdictYet, LimitOfCommand, EnsureImageFails
  <2>2. Judge!SandboxError \/ Judge!SystemError
    BY <1>2, <2>1 DEF EnsureImageFails, EndWith, Judge!SandboxError, Judge!SystemError,
       Judge!Fail
  <2> QED BY <2>2 DEF Judge!Next
<1>3. CASE SpawnFails
  <2>1. timer # "fired" /\ child # "failed" /\ verdict = "none"
    BY <1>3 DEF IInv, NoVerdictYet, LimitOfCommand, SpawnFails
  <2>2. Judge!SystemError
    BY <1>3, <2>1 DEF SpawnFails, EndWith, Judge!SystemError, Judge!Fail
  <2> QED BY <2>2 DEF Judge!Next
<1>4. CASE ContainerStarts \/ ContainerPrints \/ ReadChunk
           \/ \E c \in Command : ContainerEnds(c) \/ Cleanup(c) \/ CleanupFails(c)
  <2>1. Quiet
    BY <1>4 DEF ContainerStarts, ContainerPrints, ContainerEnds, Cleanup, CleanupFails,
       ReadChunk, Killed, commandVars
  <2> QED BY <1>a, <2>1
<1>5. CASE TimerFires
  <2>1. verdict = "none"
    BY <1>5 DEF IInv, NoVerdictYet, TimerFires
  <2>2. Judge!TimeRunsOut
    BY <1>5, <2>1 DEF TimerFires, Killed, Judge!TimeRunsOut
  <2> QED BY <2>2 DEF Judge!Next
<1>8. CASE ClientFails
  <2>1. verdict = "none" /\ timer # "fired" /\ child # "failed"
    BY <1>8 DEF IInv, NoVerdictYet, StageOfChild, LimitOfCommand, ClientFails
  <2>2. Judge!DockerFails
    BY <1>8, <2>1 DEF ClientFails, Judge!DockerFails
  <2> QED BY <2>2 DEF Judge!Next
<1>6. CASE Close
  BY <1>6, CloseIsJudged
<1>7. CASE UNCHANGED vars
  BY <1>7, <1>a DEF vars, commandVars
<1> QED BY <1>1, <1>2, <1>3, <1>4, <1>5, <1>6, <1>7, <1>8 DEF Next

\* The race of the events of a command is no race for its judge: every execution, of
\* any number of cases, outputs and pipes, with a docker and a host that may fail, is one
\* of the sequential judge, whose verdict is given once, of the first command that fails,
\* with the nearest score.
THEOREM ExecutionJudgesInOrder == Spec => JudgesInOrder
<1>1. Init => Judge!Init /\ LimitOfCommand
  BY InitLimit DEF Init, Judge!Init, Command, Judge!Command
<1>2. IInv /\ LimitOfCommand /\ [Next]_vars =>
        LimitOfCommand' /\ [Judge!Next]_(Judge!vars)
  BY StepLimit, StepIsJudged
<1> QED
  BY InvAlways, <1>1, <1>2, PTL DEF Spec, JudgesInOrder, Judge!JudgeSpec
-----------------------------------------------------------------------------
(* What the end of an execution, and of its containers, rests on *)

\* No command is waited for without its time limit, unless its client is at its end.
TimeLimited ==
  stage = "running" => timer = "armed" \/ child \in {"exited", "failed", "killed"}

\* The container of a program that never ends has its client and the time limit, or a
\* removal that is under way or failed, or it is one that LeftBehind names.
Endless(c) == container[c] = "running" /\ ~Ends(behaviour[c])
Limited(c) == c = at /\ child = "running" /\ timer = "armed"
HangWatched(c) ==
  Endless(c) => Limited(c) \/ cleanup[c] \in {"pending", "failed"} \/ LeftBehind(c)

Watched == TimeLimited /\ \A c \in Command : HangWatched(c)

LEMMA StateTypes ==
  ASSUME IInv
  PROVE  /\ container \in [Command -> {"none", "running", "gone"}]
         /\ cleanup \in [Command -> {"none", "pending", "done", "failed"}]
         /\ at \in Command /\ pipe \in Nat /\ read \in Nat
         /\ behaviour \in [Command -> Behaviour]
BY DEF IInv, TypeOK

\* A command starts when the program of the one before ended.
LEMMA StartWatched ==
  ASSUME IInv, Watched, NEW d \in Command, RunCommand(d),
         UNCHANGED <<behaviour, container, cleanup>>,
         stage = "image" \/ Ends(behaviour[at])
  PROVE  Watched'
<1>1. TimeLimited'
  BY DEF TimeLimited, RunCommand
<1>2. ASSUME NEW c \in Command, Endless(c)' PROVE HangWatched(c)'
  <2>1. Endless(c) /\ HangWatched(c)
    BY <1>2 DEF Watched, Endless
  <2>2. cleanup[c] \in {"pending", "failed"}
    <3>1. CASE stage = "image"
      <4>1. child = "none" /\ ~OverLimit
        BY <3>1, SandboxAssumption DEF IInv, StageOfChild, OverLimit
      <4> QED BY <2>1, <4>1 DEF HangWatched, Limited, LeftBehind
    <3>2. CASE Ends(behaviour[at])
      BY <3>2, <2>1 DEF HangWatched, Limited, LeftBehind, Endless
    <3> QED BY <3>1, <3>2
  <2> QED BY <2>2 DEF HangWatched
<1> QED BY <1>1, <1>2 DEF Watched, HangWatched

LEMMA EndWatched ==
  ASSUME Watched, NEW v, NEW s, EndWith(v, s), UNCHANGED <<behaviour, container, cleanup>>,
         child = "running" => container[at] = "none"
  PROVE  Watched'
<1>1. TimeLimited'
  BY DEF TimeLimited, EndWith
<1>2. ASSUME NEW c \in Command, Endless(c)' PROVE HangWatched(c)'
  <2>1. Endless(c) /\ HangWatched(c) /\ ~Limited(c)
    BY <1>2 DEF Watched, Endless, Limited
  <2> QED BY <2>1 DEF HangWatched, LeftBehind, OverLimit, EndWith
<1> QED BY <1>1, <1>2 DEF Watched, HangWatched

LEMMA StepWatched == IInv /\ Watched /\ [Next]_vars => Watched'
<1> SUFFICES ASSUME IInv, Watched, [Next]_vars PROVE Watched'
  OBVIOUS
<1> USE DEF Endless, Limited
<1>p. /\ container \in [Command -> {"none", "running", "gone"}]
      /\ cleanup \in [Command -> {"none", "pending", "done", "failed"}]
      /\ at \in Command /\ pipe \in Nat /\ read \in Nat
      /\ behaviour \in [Command -> Behaviour]
      /\ StageOfChild
  BY StateTypes DEF IInv
<1>w. TimeLimited /\ \A c \in Command : HangWatched(c)
  BY DEF Watched
<1>1. CASE EnsureImage
  <2>1. 0 \in Command /\ stage = "image"
    BY <1>1, SandboxAssumption DEF EnsureImage, Command
  <2> QED BY <1>1, <2>1, StartWatched DEF EnsureImage
<1>2. CASE EnsureImageFails
  BY <1>2, <1>p, EndWatched DEF EnsureImageFails, StageOfChild
<1>3. CASE SpawnFails
  BY <1>3, EndWatched DEF SpawnFails
<1>4. CASE ContainerStarts
  <2>1. timer = "armed"
    BY <1>4, <1>w, <1>p DEF ContainerStarts, StageOfChild, TimeLimited
  <2>2. \A c \in Command : HangWatched(c)'
    BY <1>4, <2>1, <1>w, <1>p
       DEF ContainerStarts, commandVars, HangWatched, LeftBehind, OverLimit
  <2> QED
    BY <1>4, <1>w, <2>2 DEF ContainerStarts, commandVars, Watched, TimeLimited
<1>5. CASE ContainerPrints
  BY <1>5, <1>w
     DEF ContainerPrints, Watched, TimeLimited, HangWatched, LeftBehind, OverLimit
<1>6. ASSUME NEW d \in Command, ContainerEnds(d) PROVE Watched'
  <2>1. ASSUME NEW c \in Command, Endless(c)' PROVE HangWatched(c)'
    <3>1. c # d
      BY <1>6, <1>p, <2>1 DEF ContainerEnds
    <3> QED
      BY <1>6, <1>p, <1>w, <2>1, <3>1 DEF ContainerEnds, HangWatched, LeftBehind, OverLimit
  <2>2. TimeLimited'
    BY <1>6, <1>w DEF ContainerEnds, TimeLimited
  <2> QED BY <2>1, <2>2 DEF Watched, HangWatched
<1>7. ASSUME NEW d \in Command, Cleanup(d) \/ CleanupFails(d) PROVE Watched'
  <2>1. UNCHANGED <<behaviour, stage, commandVars>>
    BY <1>7 DEF Cleanup, CleanupFails
  <2>2. ASSUME NEW c \in Command, Endless(c)' PROVE HangWatched(c)'
    <3>1. CASE c = d
      BY <1>7, <1>p, <2>2, <3>1 DEF Cleanup, CleanupFails, HangWatched
    <3>2. CASE c # d
      <4>1. cleanup'[c] = cleanup[c] /\ container'[c] = container[c]
        BY <1>7, <1>p, <3>2 DEF Cleanup, CleanupFails
      <4> QED
        BY <1>w, <2>1, <2>2, <4>1 DEF commandVars, HangWatched, LeftBehind, OverLimit
    <3> QED BY <3>1, <3>2
  <2> QED BY <1>w, <2>1, <2>2 DEF commandVars, Watched, TimeLimited, HangWatched
<1>8. CASE ReadChunk
  <2>1. /\ UNCHANGED <<behaviour, stage, at, timer, container, cleanup>>
        /\ child' = child \/ (child = "running" /\ child' = "killed" /\ OverLimit')
        /\ OverLimit => OverLimit'
    BY <1>8 DEF ReadChunk, Killed, OverLimit
  <2>2. TimeLimited'
    BY <1>w, <2>1 DEF TimeLimited
  <2>3. ASSUME NEW c \in Command, Endless(c)' PROVE HangWatched(c)'
    BY <1>w, <2>1, <2>3 DEF HangWatched, LeftBehind
  <2> QED BY <2>2, <2>3 DEF Watched, HangWatched
<1>9. CASE TimerFires
  <2>1. child' \in {"exited", "failed", "killed"}
    BY <1>9, <1>p DEF TimerFires, StageOfChild, Killed
  <2>2. ASSUME NEW c \in Command, Endless(c)' PROVE HangWatched(c)'
    <3>1. CASE c = at
      BY <1>9, <1>p, <3>1 DEF TimerFires, StartCleanup, HangWatched
    <3>2. CASE c # at
      BY <1>9, <1>p, <1>w, <2>2, <3>2 DEF TimerFires, StartCleanup, HangWatched, LeftBehind
    <3> QED BY <3>1, <3>2
  <2> QED
    BY <2>1, <2>2 DEF Watched, TimeLimited, HangWatched
<1>10. CASE Close
  <2>1. child # "running" /\ UNCHANGED <<behaviour, container, cleanup>>
    BY <1>10 DEF Close, Closable
  <2>2. CASE \E v, n : EndWith(v, n)
    BY <2>1, <2>2, EndWatched
  <2>3. CASE RunCommand(at + 1) /\ ExitedZero /\ ~IsLast(at)
    <3>1. at + 1 \in Command
      BY <1>p, <2>3, SandboxAssumption DEF IsLast, Command
    <3>2. Ends(behaviour[at])
      BY <2>3 DEF IInv, ExitedMeansPrinted, ExitedZero
    <3> QED BY <2>1, <2>3, <3>1, <3>2, StartWatched
  <2>4. (RunCommand(at + 1) /\ ExitedZero /\ ~IsLast(at)) \/ \E v, n : EndWith(v, n)
    <3>1. CASE RunCommand(at + 1) /\ ExitedZero /\ ~IsLast(at)
      BY <3>1
    <3>2. CASE ~(RunCommand(at + 1) /\ ExitedZero /\ ~IsLast(at))
      <4>1. \/ \E v \in {"compile_error", "time_limit_exceeded"} : EndWith(v, 0)
            \/ \E v \in {"compile_error", "runtime_error"} : EndWith(v, 0)
            \/ \E n \in 0..100 : EndWith("finished", n)
            \/ RemovalFails
        BY <1>10, <3>2, Zenon DEF Close
      <4> QED BY <4>1 DEF RemovalFails
    <3> QED BY <3>1, <3>2
  <2> QED BY <2>2, <2>3, <2>4
<1>11. CASE ClientFails
  <2>1. ASSUME NEW c \in Command, Endless(c)' PROVE HangWatched(c)'
    <3>1. CASE c = at
      BY <1>11, <2>1, <3>1 DEF ClientFails, HangWatched, LeftBehind
    <3>2. CASE c # at
      <4>1. Endless(c)
        BY <1>11, <1>p, <2>1, <3>2 DEF ClientFails
      <4> QED
        BY <1>11, <1>w, <3>2, <4>1 DEF ClientFails, HangWatched, LeftBehind, OverLimit
    <3> QED BY <3>1, <3>2
  <2>2. TimeLimited'
    BY <1>11 DEF ClientFails, TimeLimited
  <2> QED BY <2>1, <2>2 DEF Watched, HangWatched
<1>12. CASE UNCHANGED vars
  BY <1>12 DEF vars, commandVars, Watched, TimeLimited, HangWatched, LeftBehind, OverLimit
<1> QED
  BY <1>1, <1>2, <1>3, <1>4, <1>5, <1>6, <1>7, <1>8, <1>9, <1>10, <1>11, <1>12 DEF Next

\* What keeps an execution and its containers from staying for ever: the running command
\* has its limit (executor.ts:307) until its client is at its end, and the container of a
\* program that never ends is under that limit or being removed (executor.ts:497), unless
\* the removal failed, or its client was killed for its output (executor.ts:327, 339) or
\* failed by itself.
THEOREM WatchedAlways == Spec => []Watched
<1>1. Init => Watched
  BY DEF Init, Watched, TimeLimited, HangWatched, Endless
<1> QED
  BY <1>1, InvAlways, StepWatched, PTL DEF Spec
=============================================================================
