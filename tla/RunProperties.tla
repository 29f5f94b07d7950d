---------------------------- MODULE RunProperties ----------------------------
(***************************************************************************)
(* What a merge run must and must not do, whichever way its phases, the    *)
(* user, signals and crashes interleave.                                   *)
(***************************************************************************)
EXTENDS Orchestrator

(* Type invariant: the live and the saved MergeState are well formed, and  *)
(* so are the local variables of the coroutine.                            *)
TypeOK ==
  /\ st \in State /\ disk \in State
  /\ pc \in PC /\ round \in Nat
  /\ work \subseteq File /\ queue \subseteq File /\ unseen \subseteq File

(* The orchestrator implements the abstract life cycle: no phase, halt or  *)
(* handler ever asks for a status change that StateMachine.transition      *)
(* refuses, and a checkpoint never holds a status the run did not have.    *)
Life == INSTANCE RunLifecycle WITH status <- st.status, saved <- disk.status
LifecycleImplemented == Life!LifeSpec
EndIsFinal == Life!EndIsFinal

(* While a phase is at work the run has the status that selected it, or the *)
(* one the phase has moved to on the way.                                   *)
StatusAt == [p \in PC \ {Idle, "loop"} |->
  CASE p \in {"review", "stalled"}                      -> "PLAN_REVIEWING"
    [] p = "replan"                                     -> "PLANNING"
    [] p = "revise"                                     -> "PLAN_REVISING"
    [] p \in {"items", "merge", "subreview", "finish"}  -> "AUTO_MERGING"
    [] p \in {"analyze", "strategy"}                    -> "ANALYZING_CONFLICTS"
    [] p = "apply"                                      -> "AUTO_MERGING"
    [] OTHER                                            -> "JUDGE_REVIEWING"]
Located == pc \notin {Idle, "loop"} => st.status = StatusAt[pc]

Restored == st' = disk /\ UNCHANGED disk

-----------------------------------------------------------------------------
(* The Judge has the last word on the tree: a run is only reported on the  *)
(* strength of a PASS (not of the user's acceptance) when no file has been *)
(* written since the Judge last read the tree, repairs, dispatched choices *)
(* and the work of a crashed process included.                             *)
PassCoversTree ==
  st.status = "GENERATING_REPORT" /\ st.judge_resolution # "accept" => unseen = {}

(* Nothing is reported that neither the Judge has passed nor the user has  *)
(* accepted.                                                               *)
ReportNeedsConsent ==
  st.status \in {"GENERATING_REPORT", "COMPLETED"} =>
    st.verdict = "PASS" \/ (st.verdict = "FAIL" /\ st.judge_resolution = "accept")

(* A plan that the plan judge did not approve decides over no file before  *)
(* the user has approved it, whatever gate or crash lies in between (the   *)
(* LLM_UNAVAILABLE comment of plan_review.py).                             *)
UnapprovedPlanNeverRuns ==
  st.records # None => st.conclusion = "approved" \/ st.plan_human_review = "approve"

(* A dry run writes nothing and decides nothing until it is resumed as a   *)
(* real one (orchestrator.py:284-293, resume.py).                          *)
DryRunWritesNothing ==
  [][st.dry_run /\ st'.dry_run => unseen' = unseen /\ st'.records = st.records]_vars

(* A decision record disappears in two ways only: the user asks for a      *)
(* rerun and the Judge had failed the file, or the sanity check finds an   *)
(* upstream-only file it could not rewrite and hands it to analysis.       *)
Forgotten(f) == st.records[f] # "none" /\ st'.records[f] = "none"
MayForget(f) ==
  \/ Restored
  \/ f \in st.failed_files /\ st'.rerun_round = st.rerun_round + 1
  \/ f \in st'.pending_conflict \ BothChanged
RecordsAreKept == [][\A f \in File : Forgotten(f) => MayForget(f)]_vars

(* No dispute, of a layer or of the whole tree, changes a record of source *)
(* HUMAN (the guard of executor.repair).                                   *)
HumanRecordsKept ==
  \A f \in File : st.records[f] \in HumanSource => st'.records[f] = st.records[f]
Disputing == pc \in {"subreview", "judge", "judged", "verdict"}
HumanRecordsSurviveDisputes == [][Disputing => HumanRecordsKept \/ Restored]_vars

(* An upstream-only file of a first pass is never forgotten: when the      *)
(* Judge starts, it has a record, though routing, layers, analysis, the    *)
(* catch-up after human decisions and crashes all skip some files.         *)
UpstreamFilesAccounted ==
  st.status = "JUDGE_REVIEWING" /\ st.rerun_round = 0 /\ ~st.exhausted =>
    \A f \in File \ BothChanged : st.records[f] # "none"

(* No question is skipped: the Judge never starts while the user is asked  *)
(* about a file nothing has decided.  (An interrupted analysis may leave a *)
(* stale request behind, but then the file has been decided since.)        *)
NoQuestionSkipped == pc = "judge" => PendingRequests(st) \cap Unrecorded(st) = {}

-----------------------------------------------------------------------------
(* The run never spins: once started or resumed it comes to rest, ended or *)
(* waiting for the user, in the absence of gates that keep failing, fatal  *)
(* drift and replans.                                                      *)
ComesToRest == pc # Idle ~> pc = Idle

(* A user who answers what is asked and resumes ends the run.              *)
Answer ==
  \/ \E decision \in {"approve", "reject"} : ReviewPlan(decision)
  \/ \E f \in File, choice \in ItemState : ChooseItem(f, choice)
  \/ \E f \in File : Decide(f)
  \/ AtVerdict(st) /\ st.judge_resolution = "none"
     /\ \E resolution \in {"accept", "abort", "rerun"} : ResolveVerdict(resolution)
DiligentUser == SF_vars(Answer) /\ SF_vars(Resume(FALSE))
AnsweredRunEnds == DiligentUser => <>(st.status \in Terminal)

-----------------------------------------------------------------------------
(* executor.repair: "Never overwrite an operator's explicit decision".     *)
OperatorDecisionSurvivesRepair ==
  [][Disputing =>
       \A f \in File : st.records[f] = "chosen" => st'.records[f] # "auto"]_vars

(* handle_gate_failure: gates that keep failing are escalated to a human.  *)
GateFailureReachesUser == pc = "finish" ~> pc = Idle

(* README: any Ctrl+C is safe, `merge resume' picks up where it left off.  *)
InterruptedRunCanGoOn ==
  pc = Idle /\ st.status \notin Terminal => st.status \in PHASE_MAP

(* human_review: AWAITING_HUMAN is held until each surfaced item is decided. *)
SurfacedItemsHoldTheRun ==
  st.status = "JUDGE_REVIEWING" => st.surfaced \cap Open(st) = {}

(* auto_merge: category C files without a record are deferred to conflict  *)
(* analysis, so analysis or a decision reaches each before the Judge.      *)
DeferredFilesAnalysed ==
  pc = "judge" /\ st.rerun_round = 0 =>
    \A f \in PlanFiles(st, {"safe", "risky"}) \cap BothChanged :
      st.records[f] # "none" \/ f \in st.analyses
=============================================================================
