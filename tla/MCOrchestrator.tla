--------------------------- MODULE MCOrchestrator ---------------------------
(* Small instances of the orchestrator for TLC. *)
EXTENDS RunProperties, TLC

CONSTANTS b, c   \* an upstream-only file, a file both sides changed

AllPlans == [File -> RiskLevel]
OnePlan == {[f \in File |-> IF f = b THEN "safe" ELSE "human"]}
SureOrAsked == [File -> {"safe", "human"}]
=============================================================================
