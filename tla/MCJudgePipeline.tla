-------------------------- MODULE MCJudgePipeline --------------------------
(* Instances of JudgePipeline small enough for TLC. *)
EXTENDS JudgePipeline, TLC

\* Workers, lanes, leases and recovery job ids are only compared for equality.
PipelineSymmetry ==
  Permutations(Worker) \cup Permutations(Lane) \cup Permutations(Attempt) \cup Permutations(RecoveryTags)
=============================================================================
