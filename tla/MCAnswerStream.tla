---------------------------- MODULE MCAnswerStream ----------------------------
(* AnswerStream on a small instance. *)
EXTENDS AnswerStream, TLC

\* Calls of one kind are interchangeable.
MCSymmetry == Permutations(Streams) \cup Permutations(Plains)

\* "The moment a single token has been yielded to the caller, any further failure
\* propagates" (stream_complete's docstring): an answer of which tokens are out
\* counts as complete only with all of them.
CutAnswersFail ==
  \A c \in Streams : pc[c] = "answered" /\ got[c] # <<>> => Len(got[c]) = Tokens
=============================================================================
