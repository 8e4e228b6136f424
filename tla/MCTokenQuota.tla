----------------------------- MODULE MCTokenQuota -----------------------------
(* TokenQuota on a small instance. *)
EXTENDS TokenQuota, TLC

MCSymmetry == Permutations(Requests)
=============================================================================
