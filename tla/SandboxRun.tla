----------------------------- MODULE SandboxRun -----------------------------
(***************************************************************************)
(* The execution of one submission: its commands, the compilation first    *)
(* and then one per hidden test case, each in a container of its own.  A   *)
(* command is a race of the data, close and error events of the docker     *)
(* client, its time limit, and the container, which the client only        *)
(* watches.  A custom run is the same with one case and no comparison: what *)
(* passes here is then that the whole output is returned.                  *)
(*                                                                         *)
(* Output comes in chunks.  A program prints as many as Length gives and   *)
(* then ends, unless it hangs, stalls (which is to hang after having       *)
(* printed too much) or floods (which is to print for ever).               *)
(*                                                                         *)
(* A definition named ...Mutant is what a plausible bug would make of the  *)
(* definition after it.                                                    *)
(***************************************************************************)
EXTENDS Integers, FiniteSets

CONSTANTS
  Cases,         \* number of hidden test cases
  OutputLimit,   \* OUTPUT_LIMIT_BYTES, in chunks
  PipeSize       \* chunks between a container and the worker

\* problemValidation.hiddenTestCaseCount is far below 200.
ASSUME SandboxAssumption ==
  /\ Cases \in 1..199
  /\ OutputLimit \in Nat
  /\ PipeSize \in Nat \ {0}

VARIABLES
  behaviour,   \* what the program of each command does
  stage,       \* before the image is there, running a command, or ended
  at,          \* number of the current command
  child,       \* its docker client
  timer,       \* its time limit
  pipe, read,  \* chunks the container printed that the worker has not read, has read
  container,   \* the container of each command
  cleanup,     \* docker rm -f of each container
  passed,      \* cases whose output was the expected one
  verdict, score

commandVars == <<at, child, timer, pipe, read>>
vars == <<behaviour, stage, commandVars, container, cleanup, passed, verdict, score>>

Command == 0..Cases   \* 0 is the compilation
Behaviour == {"right", "wrong", "fails", "noisy", "floods", "stalls", "hangs"}
Verdict == {"none", "finished", "compile_error", "runtime_error", "time_limit_exceeded",
            "sandbox_error", "system_error"}

\* Chunks a program prints before it ends; more than the limit is all the same.
Length(b) == CASE b \in {"right", "wrong", "fails"} -> OutputLimit
               [] b \in {"noisy", "floods", "stalls"} -> OutputLimit + 1
               [] b = "hangs" -> 0
Ends(b) == b \notin {"floods", "stalls", "hangs"}

Init ==
  /\ behaviour \in [Command -> Behaviour]
  /\ stage = "image"
  /\ at = 0 /\ child = "none" /\ timer = "off" /\ pipe = 0 /\ read = 0
  /\ container = [c \in Command |-> "none"]
  /\ cleanup = [c \in Command |-> "none"]
  /\ passed = {}
  /\ verdict = "none" /\ score = 0

OverLimit == read > OutputLimit
TimedOut == timer = "fired" \/ OverLimit

\* runCommand up to its first event.
RunCommand(c) ==
  /\ stage' = "running"
  /\ at' = c /\ child' = "running" /\ timer' = "armed" /\ pipe' = 0 /\ read' = 0

\* How a client and a timer ended stays known.
EndWith(v, s) ==
  /\ stage' = "ended"
  /\ verdict' = v /\ score' = s
  /\ child' = IF child = "failed" THEN child ELSE "closed"
  /\ timer' = IF timer = "armed" THEN "off" ELSE timer
  /\ UNCHANGED <<at, pipe, read>>

-----------------------------------------------------------------------------
(* ensureDockerImage *)

EnsureImage ==
  /\ stage = "image"
  /\ RunCommand(0)
  /\ UNCHANGED <<behaviour, container, cleanup, passed, verdict, score>>

\* The image cannot be pulled, docker cannot be spawned at all, or the host has no room
\* for the files.
EnsureImageFails ==
  /\ stage = "image"
  /\ \E v \in {"sandbox_error", "system_error"} : EndWith(v, 0)
  /\ UNCHANGED <<behaviour, container, cleanup, passed>>

-----------------------------------------------------------------------------
(* The docker client and the containers *)

SpawnFails ==
  /\ stage = "running"
  /\ child = "running" /\ container[at] = "none"
  /\ EndWith("system_error", 0)
  /\ UNCHANGED <<behaviour, container, cleanup, passed>>

ContainerStarts ==
  /\ child = "running" /\ container[at] = "none"
  /\ container' = [container EXCEPT ![at] = "running"]
  /\ UNCHANGED <<behaviour, stage, commandVars, cleanup, passed, verdict, score>>

\* A program that prints for ever goes on; the chunks past the limit are not counted.
Printed == pipe + read
PrintsMore == Printed < Length(behaviour[at]) \/ behaviour[at] = "floods"

ContainerPrints ==
  /\ child = "running" /\ container[at] = "running"
  /\ PrintsMore
  /\ pipe < PipeSize
  /\ pipe' = pipe + 1
  /\ UNCHANGED <<behaviour, stage, at, child, timer, read, container, cleanup, passed, verdict, score>>

\* Without its client a container runs on.
ContainerEnds(c) ==
  /\ container[c] = "running"
  /\ Ends(behaviour[c])
  /\ c = at /\ child = "running" => ~PrintsMore
  /\ container' = [container EXCEPT ![c] = "gone"]
  /\ child' = IF c = at /\ child = "running" THEN "exited" ELSE child
  /\ UNCHANGED <<behaviour, stage, at, timer, pipe, read, cleanup, passed, verdict, score>>

\* docker run ends by itself, with an exit code of its own: it cannot create the
\* container, or loses the daemon, which may or may not take the container with it.
ClientFails ==
  /\ child = "running"
  /\ child' = "failed"
  /\ \/ container' = [container EXCEPT ![at] = IF @ = "running" THEN "gone" ELSE @]
     \/ UNCHANGED container
  /\ UNCHANGED <<behaviour, stage, at, timer, pipe, read, cleanup, passed, verdict, score>>

\* docker rm -f, nobody awaits it and nobody hears of its failure.
Cleanup(c) ==
  /\ cleanup[c] = "pending"
  /\ cleanup' = [cleanup EXCEPT ![c] = "done"]
  /\ container' = [container EXCEPT ![c] = IF @ = "running" THEN "gone" ELSE @]
  /\ UNCHANGED <<behaviour, stage, commandVars, passed, verdict, score>>

CleanupFails(c) ==
  /\ cleanup[c] = "pending"
  /\ cleanup' = [cleanup EXCEPT ![c] = "failed"]
  /\ UNCHANGED <<behaviour, stage, commandVars, container, passed, verdict, score>>

-----------------------------------------------------------------------------
(* The events of runCommand *)

KilledMutant(ch) == ch   \* forgets to kill the client
Killed(ch) == IF ch = "running" THEN "killed" ELSE ch

\* The data event of stdout or stderr.
ReadChunk ==
  /\ child # "closed" /\ pipe > 0
  /\ pipe' = pipe - 1
  /\ read' = IF OverLimit THEN read ELSE read + 1
  /\ child' = IF read' > OutputLimit THEN Killed(child) ELSE child
  /\ UNCHANGED <<behaviour, stage, at, timer, container, cleanup, passed, verdict, score>>

StartCleanupMutant(c) == cleanup   \* kills only the client, as for the output limit
StartCleanup(c) == [cleanup EXCEPT ![c] = "pending"]

TimerFires ==
  /\ stage = "running" /\ timer = "armed"
  /\ timer' = "fired"
  /\ child' = Killed(child)
  /\ cleanup' = StartCleanup(at)
  /\ UNCHANGED <<behaviour, stage, at, pipe, read, container, passed, verdict, score>>

\* close comes after the end of the process and of its output streams.
ClosableMutant == child \in {"exited", "failed", "killed"}   \* the exit event
Closable == child \in {"exited", "failed", "killed"} /\ pipe = 0

ExitedZero == child = "exited" /\ behaviour[at] # "fails"
ExpectedOutput == behaviour[at] = "right" /\ read = Length("right")
PassedNow == IF at > 0 /\ ExpectedOutput THEN passed \cup {at} ELSE passed

\* Math.round(p / t * 100), a tie going either way for what p / t loses.
IsScore(s, p, t) == 2 * (100 * p - s * t) <= t /\ 2 * (s * t - 100 * p) <= t

IsLastMutant(c) == c > Cases
IsLast(c) == c = Cases

\* The working directory cannot be removed, a container that is left still writes to it
\* for one: what the finally block throws takes the place of the verdict.
RemovalFails == EndWith("system_error", 0) /\ UNCHANGED passed

\* close settles the promise; executeSubmission goes on from there.
Close ==
  /\ stage = "running" /\ Closable
  /\ \/ /\ TimedOut
        /\ EndWith(IF at = 0 THEN "compile_error" ELSE "time_limit_exceeded", 0)
        /\ UNCHANGED passed
     \/ /\ ~TimedOut /\ ~ExitedZero
        /\ EndWith(IF at = 0 THEN "compile_error" ELSE "runtime_error", 0)
        /\ UNCHANGED passed
     \/ /\ ~TimedOut /\ ExitedZero /\ ~IsLast(at)
        /\ RunCommand(at + 1)
        /\ passed' = PassedNow
        /\ UNCHANGED <<verdict, score>>
     \/ /\ ~TimedOut /\ ExitedZero /\ IsLast(at)
        /\ \E s \in 0..100 :
             IsScore(s, Cardinality(PassedNow), Cases) /\ EndWith("finished", s)
        /\ passed' = PassedNow
     \/ /\ TimedOut \/ ~ExitedZero \/ IsLast(at)
        /\ RemovalFails
  /\ UNCHANGED <<behaviour, container, cleanup>>

-----------------------------------------------------------------------------
Next ==
  \/ EnsureImage \/ EnsureImageFails \/ SpawnFails
  \/ ContainerStarts \/ ContainerPrints \/ ClientFails
  \/ \E c \in Command : ContainerEnds(c) \/ Cleanup(c) \/ CleanupFails(c)
  \/ ReadChunk \/ TimerFires \/ Close

Spec == Init /\ [][Next]_vars

\* Containers that end do, docker answers the request to remove one or is given up on
\* after its 10 s, timers fire, and the event loop hands out the events that are due.
\* Nothing starts or prints of necessity.
Fairness ==
  /\ WF_vars(EnsureImage \/ EnsureImageFails)
  /\ \A c \in Command : WF_vars(ContainerEnds(c)) /\ WF_vars(Cleanup(c) \/ CleanupFails(c))
  /\ WF_vars(ReadChunk) /\ WF_vars(TimerFires) /\ WF_vars(Close)

FairSpec == Spec /\ Fairness

-----------------------------------------------------------------------------
(* Properties *)

\* The state of the execution has its types.
TypeOK ==
  /\ behaviour \in [Command -> Behaviour]
  /\ stage \in {"image", "running", "ended"}
  /\ at \in Command
  /\ child \in {"none", "running", "exited", "failed", "killed", "closed"}
  /\ timer \in {"off", "armed", "fired"}
  /\ pipe \in 0..PipeSize
  /\ read \in 0..(OutputLimit + 1)
  /\ container \in [Command -> {"none", "running", "gone"}]
  /\ cleanup \in [Command -> {"none", "pending", "done", "failed"}]
  /\ passed \subseteq 1..Cases
  /\ verdict \in Verdict
  /\ score \in 0..100

\* executor.ts:61-142 as a whole: whatever the order of events, a verdict says what
\* the programs and docker did.  Only a submission whose every program ended well within
\* its limits is finished, its passed cases are exactly those that printed what was
\* expected, and only all of them make 100; a failure names the first command that
\* failed, with the reason it failed for.  A docker client that ends by itself is held
\* against the submission like a program that fails (executor.ts:110, 242, 275).
EndsWell(c) == behaviour[c] \in {"right", "wrong"}
TooMuch(c) == behaviour[c] \in {"noisy", "floods", "stalls"}

VerdictFromRuns ==
  /\ verdict = "finished" =>
       /\ child # "failed"
       /\ \A c \in Command : EndsWell(c)
       /\ \A c \in 1..Cases : c \in passed <=> behaviour[c] = "right"
       /\ score = 100 <=> \A c \in 1..Cases : behaviour[c] = "right"
  /\ verdict \in {"runtime_error", "time_limit_exceeded"} =>
       at > 0 /\ \A c \in 0..(at - 1) : EndsWell(c)
  /\ verdict = "runtime_error" =>
       timer # "fired" /\ (behaviour[at] = "fails" \/ child = "failed")
  /\ verdict = "time_limit_exceeded" => timer = "fired" \/ TooMuch(at)
  /\ verdict = "compile_error" =>
       at = 0 /\ (timer = "fired" \/ ~EndsWell(0) \/ child = "failed")

\* The same as a whole and step by step: however the data, close and error events, the
\* time limit and the containers interleave, executeSubmission judges as if each command
\* were one step, looks at none after the first that fails, gives its verdict once, and
\* scores the whole percentage next to the share of right cases.
Judge == INSTANCE SequentialJudge WITH late <- timer = "fired", broken <- child = "failed"
JudgesInOrder == Judge!JudgeSpec

\* executor.ts:307 (the time limit): every execution ends, hanging programs,
\* unread output and containers that never start included.
ExecutionEnds == <>(stage = "ended")

\* executor.ts:318-346, 497-503: the containers an execution leaves for ever are those of
\* programs that never end and either printed too much, for which only the client is
\* killed, or lost their client, or whose removal failed.  Every other one goes.
LeftBehind(c) ==
  /\ ~Ends(behaviour[c])
  /\ cleanup[c] = "failed" \/ (c = at /\ (OverLimit \/ child = "failed"))

SandboxesEnd == <>[](\A c \in Command : container[c] = "running" => LeftBehind(c))
=============================================================================
