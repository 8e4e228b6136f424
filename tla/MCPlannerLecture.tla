-------------------------- MODULE MCPlannerLecture --------------------------
(* PlannerLecture on a small instance. *)
EXTENDS PlannerLecture, TLC

\* Calls and workers are interchangeable.
MCSymmetry == Permutations(Calls) \cup Permutations(Workers)
=============================================================================
