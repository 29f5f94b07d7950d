---------------------------- MODULE StateMachine ----------------------------
(***************************************************************************)
(* The status alphabet of a merge run and the table of the status changes  *)
(* that StateMachine.transition accepts (core/state_machine.py).  The      *)
(* module has no state: the abstract life cycle and the orchestrator both  *)
(* read the same table.                                                    *)
(***************************************************************************)

SystemStatus == {"INITIALIZED", "PLANNING", "PLAN_REVIEWING", "PLAN_REVISING",
                 "AUTO_MERGING", "PLAN_DISPUTE_PENDING", "ANALYZING_CONFLICTS",
                 "AWAITING_HUMAN", "JUDGE_REVIEWING", "GENERATING_REPORT",
                 "COMPLETED", "FAILED", "PAUSED"}

Terminal == {"COMPLETED", "FAILED"}

\* The statuses the orchestrator's loop has a phase for (PHASE_MAP).
PHASE_MAP == {"INITIALIZED", "PLANNING", "PLAN_REVIEWING", "AUTO_MERGING",
              "ANALYZING_CONFLICTS", "AWAITING_HUMAN", "JUDGE_REVIEWING",
              "GENERATING_REPORT"}

VALID_TRANSITIONS == [s \in SystemStatus |->
  CASE s = "INITIALIZED"    -> {"PLANNING", "FAILED"}
    [] s = "PLANNING"       -> {"PLAN_REVIEWING", "FAILED"}
    [] s = "PLAN_REVIEWING" -> {"AUTO_MERGING", "PLAN_REVISING", "AWAITING_HUMAN",
                                "PLANNING", "FAILED"}
    [] s = "PLAN_REVISING"  -> {"PLAN_REVIEWING", "FAILED"}
    [] s = "AUTO_MERGING"   -> {"ANALYZING_CONFLICTS", "JUDGE_REVIEWING",
                                "PLAN_DISPUTE_PENDING", "AWAITING_HUMAN",
                                "FAILED", "PAUSED"}
    [] s = "PLAN_DISPUTE_PENDING" -> {"PLAN_REVISING", "AWAITING_HUMAN"}
    [] s = "ANALYZING_CONFLICTS"  -> {"AWAITING_HUMAN", "JUDGE_REVIEWING",
                                      "PLAN_DISPUTE_PENDING", "FAILED"}
    [] s = "AWAITING_HUMAN" -> {"AUTO_MERGING", "ANALYZING_CONFLICTS",
                                "JUDGE_REVIEWING", "GENERATING_REPORT", "FAILED"}
    [] s = "JUDGE_REVIEWING" -> {"GENERATING_REPORT", "AUTO_MERGING",
                                 "AWAITING_HUMAN", "ANALYZING_CONFLICTS", "FAILED"}
    [] s = "GENERATING_REPORT" -> {"COMPLETED", "FAILED"}
    [] s = "PAUSED"         -> SystemStatus \ {"PAUSED", "COMPLETED"}
    [] OTHER                -> {}]

can_transition(s, t) == t \in VALID_TRANSITIONS[s]
=============================================================================
