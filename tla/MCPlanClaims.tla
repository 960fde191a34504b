---------------------------- MODULE MCPlanClaims ----------------------------
(* A plan of three rows for TLC: one task, and a branch with one child that  *)
(* waits for it.                                                             *)
EXTENDS PlanClaims

ThreeRows ==
  LET row(weight, needed) == [status |-> "NotStarted", evidence |-> FALSE,
                              weight |-> weight, needs |-> needed]
  IN  (<<1>> :> row(2, <<>>)) @@ (<<2>> :> row(1, <<<<1>>>>)) @@ (<<2, 1>> :> row(0, <<>>))
=============================================================================
