---------------------------- MODULE MCDashboard ----------------------------
(* The dashboard of the comparisons of MCComparison.                       *)
EXTENDS Dashboard, MCComparison

ByExternalId == <<c2, c1, c3>>
FirstTags == [c \in ThreeCases |-> IF c = c2 THEN "easy" ELSE "untagged"]
=============================================================================
