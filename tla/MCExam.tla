------------------------------- MODULE MCExam -------------------------------
(* Instances of Exam small enough for TLC. *)
EXTENDS Exam, TLC

\* Problems and handlers are only compared for equality.
ExamSymmetry == Permutations(Problem) \cup Permutations(Handler)
=============================================================================
