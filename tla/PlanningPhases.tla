--------------------------- MODULE PlanningPhases ---------------------------
(***************************************************************************)
(* INITIALIZED, PLANNING and PLAN_REVIEWING: from the diff to a plan that  *)
(* the plan judge, or the user, has accepted (core/phases/initialize.py,   *)
(* planning.py, plan_review.py).  The planner and the plan judge are       *)
(* nondeterministic: any plan of Plans, any verdict.                       *)
(***************************************************************************)
EXTENDS MergeState

\* InitializePhase: classify the files; one outcome.
Initialize ==
  /\ Dispatch("INITIALIZED")
  /\ Return([st EXCEPT !.status = "PLANNING", !.current_phase = "init"])
  /\ UNCHANGED unseen

\* PlanningPhase: the planner's answer becomes the plan.
Planning ==
  /\ Dispatch("PLANNING")
  /\ \E plan \in Plans :
       Return([st EXCEPT !.status = "PLAN_REVIEWING", !.current_phase = "analysis",
                         !.risk = plan])
  /\ UNCHANGED unseen

\* PlanReviewPhase.execute up to the first review_plan call.
PlanReviewStart ==
  /\ Dispatch("PLAN_REVIEWING")
  /\ Step([st EXCEPT !.current_phase = "plan_review"], "review")
  /\ UNCHANGED <<round, work, queue, unseen>>

\* The items that replace pending_user_decisions when the review ends.
ItemsFor(s, levels) ==
  [f \in File |-> IF f \in PlanFiles(s, levels) THEN "open" ELSE "none"]

\* A review that ends in AWAITING_HUMAN without an approval.
HandOver(s, levels) ==
  [s EXCEPT !.items = ItemsFor(s, levels), !.surfaced = {}, !.conclusion = "other",
            !.status = "AWAITING_HUMAN"]

(* The plan is structurally invalid (checked before the first round only): *)
(* the review stops without items.                                         *)
RejectShape ==
  /\ pc = "review" /\ round = 0
  /\ Return([st EXCEPT !.conclusion = "other", !.status = "AWAITING_HUMAN"])
  /\ UNCHANGED unseen

\* LLM_UNAVAILABLE: items for the risky files too, no approval.
JudgeUnavailable ==
  /\ pc = "review"
  /\ Return(HandOver(st, {"human", "risky"}))
  /\ UNCHANGED unseen

\* The precheck and the LLM disagree, or no round is left.
ReviewGivesUp ==
  /\ pc = "review"
  /\ Return(HandOver(st, {"human"}))
  /\ UNCHANGED unseen

\* APPROVED: straight to the merge unless some file requires a human.
ApprovePlan ==
  /\ pc = "review"
  /\ LET items == ItemsFor(st, {"human"})
     IN  Return([st EXCEPT !.items = items, !.surfaced = {},
                   !.conclusion = "approved",
                   !.status = IF items = None THEN "AUTO_MERGING"
                              ELSE "AWAITING_HUMAN"])
  /\ UNCHANGED unseen

\* CRITICAL_REPLAN: back to PLANNING, and planning.execute is called at once.
CriticalReplan ==
  /\ pc = "review" /\ "replan" \in Env
  /\ Step([st EXCEPT !.conclusion = "other", !.status = "PLANNING",
                     !.current_phase = "analysis"], "replan")
  /\ UNCHANGED <<round, work, queue, unseen>>

Replan ==
  /\ pc = "replan"
  /\ \E plan \in Plans : Return([st EXCEPT !.risk = plan, !.status = "PLAN_REVIEWING"])
  /\ UNCHANGED unseen

\* REVISION_NEEDED with a round left: the planner revises.
AskRevision ==
  /\ pc = "review" /\ round < MaxPlanRounds
  /\ Step([st EXCEPT !.status = "PLAN_REVISING",
                     !.current_phase = "plan_revising"], "revise")
  /\ UNCHANGED <<round, work, queue, unseen>>

(* The revised plan goes to the next round; a revision that changes no     *)
(* classification may still do so while a point is under discussion.       *)
Revise ==
  /\ pc = "revise"
  /\ \E plan \in Plans :
       Step([st EXCEPT !.risk = plan, !.status = "PLAN_REVIEWING",
                       !.current_phase = "plan_review"], "review")
  /\ round' = round + 1
  /\ UNCHANGED <<work, queue, unseen>>

\* Nothing changed and nothing is discussed: stop, through PLAN_REVIEWING.
ReviseInVain ==
  /\ pc = "revise"
  /\ Step([st EXCEPT !.items = ItemsFor(st, {"human"}), !.surfaced = {},
                     !.conclusion = "other", !.status = "PLAN_REVIEWING"], "stalled")
  /\ UNCHANGED <<round, work, queue, unseen>>

Stalled ==
  /\ pc = "stalled"
  /\ Return(Goto(st, "AWAITING_HUMAN"))
  /\ UNCHANGED unseen

PlanningNext ==
  \/ Initialize \/ Planning \/ PlanReviewStart \/ RejectShape \/ JudgeUnavailable
  \/ ReviewGivesUp \/ ApprovePlan \/ CriticalReplan \/ Replan \/ AskRevision
  \/ Revise \/ ReviseInVain \/ Stalled
=============================================================================
