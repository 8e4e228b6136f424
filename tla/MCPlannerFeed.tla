---------------------------- MODULE MCPlannerFeed ----------------------------
(* PlannerFeed on a small instance: a page and two requests. *)
EXTENDS PlannerFeed
=============================================================================
