---------------------------- MODULE JudgeVerdict ----------------------------
(***************************************************************************)
(* What the judging pipeline promises to somebody who only sees the public *)
(* state of an item (a submission or a custom run): once accepted it is    *)
(* pending, it is judged at most once, and a verdict stays what it is      *)
(* until the item itself is deleted.  JudgePipeline refines this module.   *)
(***************************************************************************)
CONSTANTS Item,     \* submissions and custom runs
          Outcome   \* the terminal statuses

VARIABLE verdict    \* verdict[i]: the public state of item i

Public == {"none", "pending", "deleted"} \cup Outcome

VerdictTypeOK == verdict \in [Item -> Public]

VerdictInit == verdict = [i \in Item |-> "none"]

\* POST /me/submissions or /me/custom-runs answers with status queued.
Accept(i) == /\ verdict[i] = "none"
             /\ verdict' = [verdict EXCEPT ![i] = "pending"]

\* The one step at which the item gets its verdict.
Judge(i, o) == /\ verdict[i] = "pending"
               /\ verdict' = [verdict EXCEPT ![i] = o]

\* A problem or a candidate is deleted together with its items.
Remove(i) == /\ verdict[i] \in {"pending"} \cup Outcome
             /\ verdict' = [verdict EXCEPT ![i] = "deleted"]

VerdictNext == \E i \in Item : \/ Accept(i)
                               \/ \E o \in Outcome : Judge(i, o)
                               \/ Remove(i)

VerdictSpec == VerdictInit /\ [][VerdictNext]_verdict
=============================================================================
