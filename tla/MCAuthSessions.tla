---------------------------- MODULE MCAuthSessions ----------------------------
(* AuthSessions on a small instance: one tab, whose requests are alike. *)
EXTENDS AuthSessions, TLC

CONSTANT t1

MCTabOf == [q \in Requests |-> t1]
MCSymmetry == Permutations(Requests)

\* "Only "invalid" should ever clear stored tokens" (RefreshOutcome, client.ts): a
\* refresh that fails drops a session that works only where the server has
\* rejected the refresh token, or the user is logging out.
OnlyInvalidClears ==
  [][Works(refresh) /\ refresh' = None =>
       \A t \in Tabs : NotRefreshed(t) /\ logout[t].at # "waiting"
                         => slot[t].at \in Rejections]_vars
=============================================================================
