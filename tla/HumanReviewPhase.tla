-------------------------- MODULE HumanReviewPhase --------------------------
(***************************************************************************)
(* AWAITING_HUMAN (core/phases/human_review.py).  The phase reads what the *)
(* user has decided so far and routes: the judge's verdict first (Case 0), *)
(* then the requests of conflict analysis (Case 1), then the plan (Case 2).*)
(***************************************************************************)
EXTENDS MergeState

\* _surface_internal_escalations: an item for an escalation in no gate.
Escalations(s) == {f \in File : s.records[f] = "esc" /\ s.items[f] = "none"
                                  /\ s.requests[f] = "none"}
Surface(s) ==
  [s EXCEPT !.surfaced = s.surfaced \cup Escalations(s),
            !.items = Overlay(s.items, [f \in Escalations(s) |-> "open"])]

\* Surfaced items with a choice are dispatched each time the phase runs.
Dispatched(s) == [s.surfaced \cap Actionable(s) -> DispatchOutcome]

HasRequests(s) == s.requests # None
AtVerdict(s) == s.verdict # "none" /\ s.current_phase = "judge_review"

-----------------------------------------------------------------------------
\* Case 0: the user has answered the judge's verdict.
AnsweredAtAnyGate(s) == s.judge_resolution # "none" /\ PendingRequests(s) = {}   \* mutant
Answered(s) == AtVerdict(s) /\ s.judge_resolution # "none" /\ PendingRequests(s) = {}

Accept(s) == /\ Answered(s) /\ s.judge_resolution = "accept"
             /\ Return(Goto(s, "GENERATING_REPORT"))

Abort(s) == /\ Answered(s) /\ s.judge_resolution = "abort"
            /\ Return(Goto(s, "FAILED"))

RerunRefused(s) ==
  /\ Answered(s) /\ s.judge_resolution = "rerun" /\ s.rerun_round >= MaxReruns
  /\ Return([s EXCEPT !.judge_resolution = "none", !.status = "FAILED"])

\* Mutants: one rerun too many; every record is cleared.
RerunOnceMore(s) ==
  /\ Answered(s) /\ s.judge_resolution = "rerun" /\ s.rerun_round <= MaxReruns
  /\ Return([Record(s, [f \in s.failed_files |-> "none"]) EXCEPT
               !.rerun_round = s.rerun_round + 1, !.judge_resolution = "none",
               !.verdict = "none", !.failed_files = {}, !.status = "AUTO_MERGING"])
RerunFromScratch(s) ==
  /\ Answered(s) /\ s.judge_resolution = "rerun" /\ s.rerun_round < MaxReruns
  /\ Return([s EXCEPT !.records = None,
               !.rerun_round = s.rerun_round + 1, !.judge_resolution = "none",
               !.verdict = "none", !.failed_files = {}, !.status = "AUTO_MERGING"])

\* Only the records of the files the judge failed are cleared.
Rerun(s) ==
  /\ Answered(s) /\ s.judge_resolution = "rerun" /\ s.rerun_round < MaxReruns
  /\ Return([Record(s, [f \in s.failed_files |-> "none"]) EXCEPT
               !.rerun_round = s.rerun_round + 1, !.judge_resolution = "none",
               !.verdict = "none", !.failed_files = {}, !.status = "AUTO_MERGING"])

\* The verdict waits for an answer.
Unanswered(s) == AtVerdict(s) /\ s.judge_resolution = "none"
AwaitVerdict(s) == Unanswered(s) /\ Pause(s)

-----------------------------------------------------------------------------
\* Case 1: there are requests.
AwaitRequests(s) ==
  /\ ~Unanswered(s) /\ PendingRequests(s) # {}
  /\ Pause(s)

AtRequests(s) == ~Answered(s) /\ ~Unanswered(s) /\ HasRequests(s)

(* All are decided: the status moves to AUTO_MERGING, without a save, and  *)
(* the decisions on files not yet settled by a human are executed.         *)
ExecuteDecisions(s) ==
  /\ AtRequests(s) /\ PendingRequests(s) = {}
  /\ Step(Goto(s, "AUTO_MERGING"), "apply")
  /\ work' = {f \in File : s.requests[f] = "decided" /\ s.records[f] \notin HumanSource}
  /\ UNCHANGED <<round, queue>>

-----------------------------------------------------------------------------
\* Case 2: the user's answer on the plan.
AtPlan(s) == ~Answered(s) /\ ~Unanswered(s) /\ ~HasRequests(s)

AwaitPlanReview(s) ==
  /\ AtPlan(s) /\ s.plan_human_review \in {"none", "modify"}
  /\ Pause(s)

RejectPlan(s) == /\ AtPlan(s) /\ s.plan_human_review = "reject"
                 /\ Return(Goto(s, "FAILED"))

NotRejected(s) == AtPlan(s) /\ s.plan_human_review # "reject"   \* mutant
Approved(s) == AtPlan(s) /\ s.plan_human_review = "approve"

SpinOnItems(s) == Approved(s) /\ Open(s) # {} /\ Return(s)   \* mutant
AwaitItems(s) == Approved(s) /\ Open(s) # {} /\ Pause(s)

SkipMerge(s) == /\ Approved(s) /\ Open(s) = {} /\ s.exhausted
                /\ Return(Goto(s, "JUDGE_REVIEWING"))

StartMerge(s) == /\ Approved(s) /\ Open(s) = {} /\ ~s.exhausted
                 /\ Return(Goto(s, "AUTO_MERGING"))

-----------------------------------------------------------------------------
HumanReview ==
  /\ Dispatch("AWAITING_HUMAN")
  /\ \E g \in Dispatched(Surface(st)) :
       LET s == Record(Surface(st), g)
       IN  /\ \/ Accept(s) \/ Abort(s) \/ RerunRefused(s) \/ Rerun(s)
              \/ AwaitVerdict(s) \/ AwaitRequests(s) \/ ExecuteDecisions(s)
              \/ AwaitPlanReview(s) \/ RejectPlan(s) \/ AwaitItems(s)
              \/ SkipMerge(s) \/ StartMerge(s)
           /\ Wrote(Landed(g))

(* execute_human_decision: source HUMAN, except that a manual patch and a  *)
(* request without usable content are recorded with source AUTO.  The loop *)
(* logs an exception and goes on.                                          *)
ApplyDecision(f) ==
  /\ pc = "apply" /\ f \in work
  /\ \/ \E g \in [{f} -> DispatchOutcome] :
          Step(Record(st, g), "apply") /\ Wrote(Landed(g))
     \/ "apply" \in Env /\ Step(st, "apply") /\ UNCHANGED unseen
  /\ work' = work \ {f}
  /\ UNCHANGED <<round, queue>>

(* Catch-up of plan files without a record: upstream-only ones, and        *)
(* binaries of any category, are taken from upstream.                      *)
CatchUps(s) ==
  {g \in [PlanFiles(s, RiskLevel) \cap Unrecorded(s) -> {"auto", "esc", "none"}] :
     \A f \in DOMAIN g : g[f] = "none" => f \in BothChanged}

\* _unanalyzed_conflict_files, and its guard against analysing in circles.
Unanalyzed(s) ==
  (PlanFiles(s, {"human", "risky"}) \cup s.pending_conflict) \cap Unrecorded(s)
NeverStuck(s) == {}   \* mutant: without the guard
Stuck(s) == Unanalyzed(s) \cap s.analyses

FinishDecisions ==
  /\ pc = "apply" /\ work = {}
  /\ \E g \in CatchUps(st) :
       LET s == Record(st, g)
       IN  /\ Return(Goto(Record(s, [f \in Stuck(s) |-> "esc"]),
                          IF Unanalyzed(s) = Stuck(s) THEN "JUDGE_REVIEWING"
                          ELSE "ANALYZING_CONFLICTS"))
           /\ Wrote(Landed(g))

HumanReviewNext ==
  \/ HumanReview \/ FinishDecisions \/ \E f \in File : ApplyDecision(f)
=============================================================================
