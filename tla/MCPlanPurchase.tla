---------------------------- MODULE MCPlanPurchase ----------------------------
(* Instances of PlanPurchase for model checking.                               *)
EXTENDS PlanPurchase, TLC
=============================================================================
