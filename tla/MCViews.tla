------------------------------ MODULE MCViews ------------------------------
(***************************************************************************)
(* Values for the constants of PlanningViews: MappingView's names lead to  *)
(* one target per repository.                                              *)
(***************************************************************************)
EXTENDS PlanningViews, MCPlanning

ByName == [r \in Repo |-> IF r = r1 THEN u1 ELSE u2]
=============================================================================
