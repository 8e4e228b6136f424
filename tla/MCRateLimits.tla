----------------------------- MODULE MCRateLimits -----------------------------
(* RateLimits on a small instance. *)
EXTENDS RateLimits

MCMaxOf == [k \in Keys |-> IF k = "global" THEN 2 ELSE 1]
=============================================================================
