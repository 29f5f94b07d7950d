---------------------------- MODULE Orchestrator ----------------------------
(***************************************************************************)
(* Orchestrator.run (core/orchestrator.py) around the phases, and what     *)
(* happens to a run from outside: the user's decisions between two calls   *)
(* of run() (cli/decisions_loader.py), `merge resume', signals, death of   *)
(* the process.                                                            *)
(***************************************************************************)
EXTENDS PlanningPhases, AutoMergePhase, ConflictAnalysisPhase, HumanReviewPhase,
        JudgeReviewPhase

Init ==
  /\ \E dry \in BOOLEAN : st = InitialState(dry)
  /\ disk = st /\ pc = "loop"
  /\ round = 0 /\ work = {} /\ queue = {} /\ unseen = {}

PhaseNext ==
  PlanningNext \/ AutoMergeNext \/ ConflictNext \/ HumanReviewNext \/ JudgeNext

-----------------------------------------------------------------------------
\* A dry run stops where the merge would start.
DryRunHalt ==
  /\ pc = "loop" /\ DryRunHalts
  /\ Pause(Goto(st, "AWAITING_HUMAN"))
  /\ UNCHANGED unseen

CanRun(status) == status \in PHASE_MAP /\ status \notin Terminal

(* max_cost_usd is reached: the run waits for the user, unless the status  *)
(* has no such edge; then transition raises and the run fails.             *)
CeilingHalt ==
  /\ pc = "loop" /\ CanRun(st.status) /\ ~DryRunHalts /\ CeilingHit
  /\ Pause(Goto(st, IF can_transition(st.status, "AWAITING_HUMAN")
                    THEN "AWAITING_HUMAN" ELSE "FAILED"))
  /\ UNCHANGED unseen

\* The status is terminal, or has no phase: run() returns.
LoopEnd ==
  /\ pc = "loop" /\ ~CanRun(st.status)
  /\ pc' = Idle
  /\ UNCHANGED <<st, disk, round, work, queue, unseen>>

\* Weakly fair: the coroutine never stops by itself while it can go on.
RunStep == PhaseNext \/ DryRunHalt \/ CeilingHalt \/ LoopEnd

-----------------------------------------------------------------------------
\* Mutant: the handler does not look at the status.
PhaseErrorUnchecked ==
  /\ "error" \in Env /\ pc # Idle
  /\ Pause(Goto(st, "FAILED"))
  /\ UNCHANGED unseen

\* A phase raises: FAILED, unless the status has no edge to it; saved anyhow.
PhaseError ==
  /\ "error" \in Env /\ pc # Idle
  /\ pc = "loop" => CanRun(st.status)
  /\ Pause(IF can_transition(st.status, "FAILED") THEN Goto(st, "FAILED") ELSE st)
  /\ UNCHANGED unseen

\* An LLM call brings the spending to max_cost_usd.
Spend ==
  /\ "budget" \in Env /\ pc # Idle /\ ~st.spent
  /\ st' = [st EXCEPT !.spent = TRUE]
  /\ UNCHANGED <<disk, pc, round, work, queue, unseen>>

(* A call to a model meets the run's cost or token ceiling: the user is    *)
(* asked, unless the status has no edge to AWAITING_HUMAN; saved anyhow.   *)
BudgetExceeded ==
  /\ "budget" \in Env /\ pc # Idle
  /\ pc = "loop" => st.status = "PLANNING" /\ ~CeilingHit
  /\ Pause(IF can_transition(st.status, "AWAITING_HUMAN") THEN Goto(st, "AWAITING_HUMAN")
           ELSE st)
  /\ UNCHANGED unseen

(* SIGINT or SIGTERM: the handler saves the state as it stands (without    *)
(* the cost snapshot) and exits; the next process loads it.                *)
Interrupt ==
  /\ "interrupt" \in Env /\ pc # Idle
  /\ Pause([st EXCEPT !.spent = disk.spent])
  /\ UNCHANGED unseen

\* The process dies without saving, at work or while it waits for the user.
Kill ==
  /\ "kill" \in Env
  /\ st' = disk /\ pc' = Idle /\ round' = 0 /\ work' = {} /\ queue' = {}
  /\ UNCHANGED <<disk, unseen>>

Fault == PhaseError \/ Spend \/ BudgetExceeded \/ Interrupt \/ Kill

-----------------------------------------------------------------------------
\* What the user decides while the run waits; kept in memory until a save.
Waiting == pc = Idle /\ st.status = "AWAITING_HUMAN"
Input(s) == st' = s /\ UNCHANGED <<disk, pc, round, work, queue, unseen>>

\* `merge resume' sets the answer once; the web form may replace a `modify'.
ReviewPlan(decision) ==
  /\ Waiting /\ st.plan_human_review \in {"none", "modify"}
  /\ st.plan_human_review # decision
  /\ Input([st EXCEPT !.plan_human_review = decision])

(* The options of an item (plan_review._build_decision_options, the        *)
(* conflict-marker and internal-escalation options, the pre-pass).         *)
Options(f) ==
  IF st.items[f] = "letters" THEN {"other"}
  ELSE IF f \in st.surfaced \cup st.removed THEN {"act", "defer"}
  ELSE IF st.risk[f] = "human" THEN {"act", "auto", "other"}
  ELSE {"act", "auto"}

ChooseItem(f, choice) ==
  /\ Waiting /\ f \in Open(st) /\ choice \in Options(f)
  /\ Input([st EXCEPT !.items[f] = choice])

Decide(f) ==
  /\ Waiting /\ st.requests[f] = "open"
  /\ Input([st EXCEPT !.requests[f] = "decided"])

\* Accepted at any gate, whether or not there is a verdict to answer.
ResolveVerdict(resolution) ==
  /\ Waiting /\ st.judge_resolution # resolution
  /\ AtVerdict(st) \/ "early" \in Env
  /\ Input([st EXCEPT !.judge_resolution = resolution])

(* run() is called again on a run that has not ended: by the web loop, or  *)
(* by `merge resume', which also ends dry-run mode.                        *)
Resume(dry) ==
  /\ pc = Idle /\ st.status \notin Terminal
  /\ st' = [st EXCEPT !.dry_run = dry] /\ pc' = "loop"
  /\ UNCHANGED <<disk, round, work, queue, unseen>>

\* `merge resume' of a run that has ended reports it and does nothing.
ResumeEnded == pc = Idle /\ st.status \in Terminal /\ UNCHANGED vars

User ==
  \/ \E decision \in {"approve", "reject", "modify"} : ReviewPlan(decision)
  \/ \E f \in File, choice \in ItemState : ChooseItem(f, choice)
  \/ \E f \in File : Decide(f)
  \/ \E resolution \in {"accept", "abort", "rerun"} : ResolveVerdict(resolution)
  \/ Resume(FALSE) \/ Resume(st.dry_run)
  \/ ResumeEnded

Next == RunStep \/ Fault \/ User

Spec == Init /\ [][Next]_vars
FairSpec == Spec /\ WF_vars(RunStep)
=============================================================================
