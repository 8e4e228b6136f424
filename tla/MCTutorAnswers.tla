---------------------------- MODULE MCTutorAnswers ----------------------------
(* TutorAnswers on a small instance. *)
EXTENDS TutorAnswers, TLC

CONSTANTS s1

\* Every session belongs to the one subject.
MCSubjectOf == [c \in Sessions |-> s1]

\* Asks, requests and sessions are interchangeable.
MCSymmetry ==
  Permutations(Asks) \cup Permutations(Requests) \cup Permutations(Sessions)
=============================================================================
