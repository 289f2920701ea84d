---------------------------- MODULE MCCatalogue ----------------------------
(* Instances of Catalogue small enough for TLC. *)
EXTENDS Catalogue, TLC

CONSTANTS u1, e1

\* The one seed account of the instances.
SeedEmailOf == u1 :> e1

\* What is not of the seed is interchangeable, and so are processes and handlers.
Symmetry ==
  Permutations(User \ SeedUser) \cup Permutations(Problem \ SeedProblem)
    \cup Permutations(Process) \cup Permutations(Handler)
=============================================================================
