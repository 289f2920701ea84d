-------------------------- MODULE SequentialJudge --------------------------
(***************************************************************************)
(* What an execution promises: it judges as if its commands ran one after  *)
(* the other and each were one step that sees all its program does.  Time  *)
(* may run out in any command and docker may fail it, which is held        *)
(* against its program; nothing else is left to chance but a host that     *)
(* cannot run a command, or cannot clean up after it.  SandboxRun refines  *)
(* this module.                                                            *)
(***************************************************************************)
EXTENDS Integers, FiniteSets

CONSTANTS
  Cases,       \* number of hidden test cases
  Behaviour    \* what a program may do

VARIABLES
  behaviour,   \* what the program of each command does
  at,          \* the command that is judged next; 0 is the compilation
  late,        \* its time ran out
  broken,      \* docker ended it
  passed,      \* cases judged right
  verdict, score

vars == <<behaviour, at, late, broken, passed, verdict, score>>

Command == 0..Cases
EndsWell(c) == behaviour[c] \in {"right", "wrong"}
TooMuch(c) == behaviour[c] \in {"noisy", "floods", "stalls"}

Init ==
  /\ behaviour \in [Command -> Behaviour]
  /\ at = 0 /\ late = FALSE /\ broken = FALSE /\ passed = {}
  /\ verdict = "none" /\ score = 0

TimeRunsOut ==
  /\ verdict = "none" /\ ~late
  /\ late' = TRUE
  /\ UNCHANGED <<behaviour, at, broken, passed, verdict, score>>

DockerFails ==
  /\ verdict = "none" /\ ~late /\ ~broken
  /\ broken' = TRUE
  /\ UNCHANGED <<behaviour, at, late, passed, verdict, score>>

\* The program of this command ended well, and in time.
JudgedRight == IF at > 0 /\ behaviour[at] = "right" THEN passed \cup {at} ELSE passed
Ran == /\ verdict = "none" /\ ~late /\ ~broken /\ EndsWell(at)
       /\ passed' = JudgedRight

JudgeCommand ==
  /\ Ran
  /\ at < Cases /\ at' = at + 1
  /\ UNCHANGED <<behaviour, late, broken, verdict, score>>

\* The score is the whole percentage next to the share of right cases.
Distance(a, b) == IF a >= b THEN a - b ELSE b - a
Percentage(s, right) ==
  /\ s \in 0..100
  /\ \A n \in 0..100 : Distance(100 * right, s * Cases) =< Distance(100 * right, n * Cases)

Finish ==
  /\ Ran
  /\ at = Cases
  /\ verdict' = "finished" /\ Percentage(score', Cardinality(JudgedRight))
  /\ UNCHANGED <<behaviour, at, late, broken>>

Fail(v) ==
  /\ verdict = "none"
  /\ verdict' = v /\ score' = 0
  /\ UNCHANGED <<behaviour, at, late, broken, passed>>

\* Time is looked at first: a late command is no runtime error.
Stopped == late \/ TooMuch(at)
Failed == broken \/ behaviour[at] = "fails"
CompileError == at = 0 /\ (Stopped \/ Failed) /\ Fail("compile_error")
TimeLimitExceeded == at > 0 /\ Stopped /\ Fail("time_limit_exceeded")
RuntimeError == at > 0 /\ ~late /\ Failed /\ Fail("runtime_error")
SandboxError == at = 0 /\ ~late /\ ~broken /\ Fail("sandbox_error")
SystemError == Fail("system_error")

Next ==
  \/ TimeRunsOut \/ DockerFails
  \/ JudgeCommand \/ Finish
  \/ CompileError \/ TimeLimitExceeded \/ RuntimeError
  \/ SandboxError \/ SystemError

JudgeSpec == Init /\ [][Next]_vars
=============================================================================
