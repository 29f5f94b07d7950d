----------------------------- MODULE TreeProofs -----------------------------
(***************************************************************************)
(* What a run does to the tree and to the records of decisions, for every  *)
(* set of files and every choice of faults: the Judge's PASS covers the    *)
(* tree that is reported, a dry run leaves the tree and the records alone, *)
(* and no record is lost, or a human one changed, behind anybody's back.   *)
(***************************************************************************)
EXTENDS GateProofs

(* What a new record changes, and what it leaves alone.                    *)
LEMMA RecordFields ==
  ASSUME NEW s \in State, NEW g
  PROVE  /\ \A f \in File : Record(s, g).records[f] = IF f \in DOMAIN g THEN g[f] ELSE s.records[f]
         /\ Record(s, g).removed = s.removed /\ Record(s, g).requests = s.requests
         /\ Record(s, g).risk = s.risk /\ Record(s, g).items = s.items
         /\ Record(s, g).surfaced = s.surfaced /\ Record(s, g).analyses = s.analyses
         /\ Record(s, g).pending_conflict = s.pending_conflict
         /\ Record(s, g).verdict = s.verdict /\ Record(s, g).failed_files = s.failed_files
         /\ Record(s, g).judge_resolution = s.judge_resolution
         /\ Record(s, g).rerun_round = s.rerun_round /\ Record(s, g).exhausted = s.exhausted
         /\ Record(s, g).current_phase = s.current_phase /\ Record(s, g).status = s.status
         /\ Record(s, g).dry_run = s.dry_run
BY DEF Record, Overlay, State

-----------------------------------------------------------------------------
(* How a step of the run leaves control: the phase ends and everything is  *)
(* saved; or the phase goes on, with or without a checkpoint; or run()     *)
(* returns as it stands.                                                   *)
Ends     == \E s : Return(s) \/ Pause(s)
GoesOn   == pc' \notin {Idle, "loop"} /\ (UNCHANGED disk \/ SaveInPhase)

LEMMA EndsSaved ==
  ASSUME Ends
  PROVE  disk' = st' /\ pc' \in {Idle, "loop"}
BY DEF Ends, Return, Pause, Leave

LEMMA PlanningControl ==
  ASSUME PlanningNext
  PROVE  (Ends \/ GoesOn) /\ UNCHANGED unseen
BY DEF PlanningNext, Initialize, Planning, PlanReviewStart, RejectShape, JudgeUnavailable,
       ReviewGivesUp, ApprovePlan, CriticalReplan, Replan, AskRevision, Revise, ReviseInVain,
       Stalled, Ends, GoesOn, Step, Idle

LEMMA AutoMergeControl ==
  ASSUME AutoMergeNext
  PROVE  Ends \/ GoesOn
<1>1. CASE MergeStart \/ ApplyItemChoices \/ SubReviewDispute
  BY <1>1 DEF MergeStart, ApplyItemChoices, SubReviewDispute, Ends, GoesOn, Step, Idle
<1>2. CASE MergeLayer \/ SubReviewApproves
  BY <1>2 DEF MergeLayer, SubReviewApproves, GoesOn, Idle
<1>3. CASE SubReviewExhausted \/ MergeGateFails \/ MergeFinish \/ DriftIsFatal
  BY <1>3 DEF SubReviewExhausted, MergeGateFails, MergeFinish, DriftIsFatal, Ends
<1>. QED  BY <1>1, <1>2, <1>3 DEF AutoMergeNext

LEMMA ConflictControl ==
  ASSUME ConflictNext
  PROVE  Ends \/ GoesOn
BY DEF ConflictNext, ConflictStart, Analyze, AskHuman, Resolve, ConflictFinish,
       Ends, GoesOn, Step, Idle

LEMMA JudgeControl ==
  ASSUME JudgeNext
  PROVE  Ends \/ GoesOn
BY DEF JudgeNext, JudgeStart, JudgeRun, JudgeRepair, OnlyHumanDecided, RebuttalAccepted,
       RebuttalRejected, NextRound, JudgeGateFails, Passed, NotPassed, Report,
       Ends, GoesOn, Step, Idle

LEMMA HumanReviewControl ==
  ASSUME HumanReviewNext
  PROVE  Ends \/ GoesOn
<1>1. CASE HumanReview
  <2>1. PICK s : \/ Accept(s) \/ Abort(s) \/ RerunRefused(s) \/ Rerun(s)
                 \/ AwaitVerdict(s) \/ AwaitRequests(s) \/ ExecuteDecisions(s)
                 \/ AwaitPlanReview(s) \/ RejectPlan(s) \/ AwaitItems(s)
                 \/ SkipMerge(s) \/ StartMerge(s)
    BY <1>1 DEF HumanReview
  <2>. QED
    BY <2>1 DEF Accept, Abort, RerunRefused, Rerun, AwaitVerdict, AwaitRequests,
                ExecuteDecisions, AwaitPlanReview, RejectPlan, AwaitItems, SkipMerge,
                StartMerge, Ends, GoesOn, Step, Idle
<1>2. CASE FinishDecisions
  BY <1>2 DEF FinishDecisions, Ends
<1>3. ASSUME NEW f \in File, ApplyDecision(f)
      PROVE  GoesOn
  BY <1>3 DEF ApplyDecision, GoesOn, Step, Idle
<1>. QED  BY <1>1, <1>2, <1>3 DEF HumanReviewNext

LEMMA RunStepControl ==
  ASSUME RunStep
  PROVE  Ends \/ GoesOn \/ LoopEnd
<1>1. CASE PhaseNext
  BY <1>1, PlanningControl, AutoMergeControl, ConflictControl, HumanReviewControl,
     JudgeControl DEF PhaseNext
<1>2. CASE DryRunHalt \/ CeilingHalt
  BY <1>2 DEF DryRunHalt, CeilingHalt, Ends
<1>. QED  BY <1>1, <1>2 DEF RunStep

(* Each phase works in its own statuses.                                   *)
LEMMA PhaseStatuses ==
  ASSUME LifeInv
  PROVE  /\ PlanningNext => st.status \in PlanningStatus
         /\ AutoMergeNext => st.status = "AUTO_MERGING"
         /\ ConflictNext => st.status = "ANALYZING_CONFLICTS"
         /\ HumanReview => st.status = "AWAITING_HUMAN" /\ pc = "loop"
         /\ FinishDecisions => st.status = "AUTO_MERGING"
         /\ \A f \in File : ApplyDecision(f) => st.status = "AUTO_MERGING"
         /\ JudgeNext /\ ~Report => st.status = "JUDGE_REVIEWING"
         /\ Report => st.status = "GENERATING_REPORT" /\ pc = "loop"
<1>1. PlanningNext => st.status \in PlanningStatus
  BY At, Places
     DEF PlanningNext, Initialize, Planning, PlanReviewStart, RejectShape, JudgeUnavailable,
         ReviewGivesUp, ApprovePlan, CriticalReplan, Replan, AskRevision, Revise,
         ReviseInVain, Stalled, Dispatch, PlanningStatus
<1>2. AutoMergeNext => st.status = "AUTO_MERGING"
  BY At, Places
     DEF AutoMergeNext, MergeStart, ApplyItemChoices, MergeLayer, SubReviewApproves,
         SubReviewDispute, SubReviewExhausted, MergeGateFails, MergeFinish, DriftIsFatal,
         Dispatch
<1>3. ConflictNext => st.status = "ANALYZING_CONFLICTS"
  BY At, Places
     DEF ConflictNext, ConflictStart, Analyze, AskHuman, Resolve, ConflictFinish, Dispatch
<1>4. /\ HumanReview => st.status = "AWAITING_HUMAN" /\ pc = "loop"
      /\ FinishDecisions => st.status = "AUTO_MERGING"
      /\ \A f \in File : ApplyDecision(f) => st.status = "AUTO_MERGING"
  BY At, Places DEF HumanReview, FinishDecisions, ApplyDecision, Dispatch
<1>5. JudgeNext /\ ~Report => st.status = "JUDGE_REVIEWING"
  BY At, Places
     DEF JudgeNext, JudgeStart, JudgeRun, JudgeRepair, OnlyHumanDecided,
         RebuttalAccepted, RebuttalRejected, JudgeGateFails, Passed, NotPassed, Dispatch
<1>6. Report => st.status = "GENERATING_REPORT" /\ pc = "loop"
  BY DEF Report, Dispatch
<1>. QED  BY <1>1, <1>2, <1>3, <1>4, <1>5, <1>6

-----------------------------------------------------------------------------
(* The PASS covers the tree.  Not inductive as it stands: the Judge's loop *)
(* must not write between its last reading and the verdict, and a crash of *)
(* a run about to be reported must not bring back an older report with the *)
(* files written since.                                                    *)
PassInv ==
  /\ pc \in {"judged", "verdict"} => unseen = {}
  /\ PassCoversTree
  /\ disk.status = "GENERATING_REPORT" =>
       st.status = "GENERATING_REPORT" /\ st.judge_resolution = disk.judge_resolution

LEMMA FromReport ==
  ASSUME LifeInv, RunStep, ~LoopEnd, st.status = "GENERATING_REPORT"
  PROVE  Report \/ CeilingHalt
BY PhaseStatuses
   DEF RunStep, PhaseNext, HumanReviewNext, JudgeNext, DryRunHalt, DryRunHalts, PlanningStatus

\* No step but these two enters GENERATING_REPORT.
LEMMA IntoReport ==
  ASSUME LifeInv, TypeOK', PassInv, RunStep, Ends, ~LoopEnd,
         st'.status = "GENERATING_REPORT"
  PROVE  Passed \/ \E s \in State : Accept(s)
<1>1. st.status # "GENERATING_REPORT"
  <2>1. SUFFICES ASSUME st.status = "GENERATING_REPORT" PROVE FALSE
    OBVIOUS
  <2>2. Report \/ CeilingHalt
    BY <2>1, FromReport, Zenon
  <2>3. CASE Report
    <3>1. st \in State /\ st' = [st EXCEPT !.current_phase = "report", !.status = "COMPLETED",
                                          !.dropped = {f \in File : st.records[f] = "esc"}]
      BY <2>3 DEF Report, Return, Leave, LifeInv, TypeOK
    <3>. QED  BY <3>1 DEF State
  <2>4. CASE CeilingHalt
    BY <2>4, GotoStatus DEF CeilingHalt, Pause, Leave, LifeInv, TypeOK
  <2>. QED  BY <2>2, <2>3, <2>4
<1>2. st.status \in {"AWAITING_HUMAN", "JUDGE_REVIEWING", "PAUSED"}
  <2>1. LifeStep /\ disk.status # "GENERATING_REPORT"
    BY <1>1, RunStepLife DEF PassInv
  <2>2. can_transition(st.status, "GENERATING_REPORT")
    BY <1>1, <2>1, SameTable
       DEF LifeStep, Life!LifeNext, Life!Move, Life!SaveInPlace, Life!Restore, Life!lifeVars
  <2>. QED  BY <2>2 DEF can_transition, VALID_TRANSITIONS, LifeInv, TypeOK, State, SystemStatus
<1>3. CASE st.status = "PAUSED"
  BY <1>3, PhaseStatuses
     DEF RunStep, PhaseNext, HumanReviewNext, DryRunHalt, DryRunHalts, CeilingHalt, CanRun,
         PHASE_MAP, PlanningStatus
<1>4. CASE st.status = "AWAITING_HUMAN"
  <2>1. HumanReview
    BY <1>4, PhaseStatuses
       DEF RunStep, PhaseNext, HumanReviewNext, DryRunHalt, DryRunHalts, CeilingHalt,
           CeilingHit, PlanningStatus
  <2>2. PICK g \in Dispatched(Surface(st)) :
          LET s == Record(Surface(st), g)
          IN  \/ Accept(s) \/ Abort(s) \/ RerunRefused(s) \/ Rerun(s)
              \/ AwaitVerdict(s) \/ AwaitRequests(s) \/ ExecuteDecisions(s)
              \/ AwaitPlanReview(s) \/ RejectPlan(s) \/ AwaitItems(s)
              \/ SkipMerge(s) \/ StartMerge(s)
    BY <2>1 DEF HumanReview
  <2>3. PICK s : s = Record(Surface(st), g)
    OBVIOUS
  <2>4. s \in State /\ s.status = "AWAITING_HUMAN"
    BY <1>4, <2>3, DispatchedConsent DEF LifeInv
  <2>5. Record(s, [f \in s.failed_files |-> "none"]) \in State
    BY <2>4, RecordType DEF RecordState
  <2>6. ~RerunRefused(s)
    BY <2>4 DEF RerunRefused, Return, Leave, State
  <2>7. ~Rerun(s)
    <3> DEFINE r == Record(s, [f \in s.failed_files |-> "none"])
    <3>1. [r EXCEPT !.rerun_round = s.rerun_round + 1, !.judge_resolution = "none",
                    !.verdict = "none", !.failed_files = {}, !.status = "AUTO_MERGING"].status
            = "AUTO_MERGING"
      <4> HIDE DEF r
      <4>. QED  BY <2>5 DEF State, r
    <3>. QED  BY <3>1 DEF Rerun, Return, Leave
  <2>. QED
    BY <2>2, <2>3, <2>4, <2>6, <2>7, GotoStatus
       DEF Abort, AwaitVerdict, AwaitRequests, ExecuteDecisions, AwaitPlanReview,
           RejectPlan, AwaitItems, SkipMerge, StartMerge, Return, Pause, Leave, Step
<1>5. CASE st.status = "JUDGE_REVIEWING"
  <2>1. JudgeNext \/ CeilingHalt
    BY <1>5, PhaseStatuses
       DEF RunStep, PhaseNext, HumanReviewNext, DryRunHalt, DryRunHalts, PlanningStatus
  <2>2. CASE CeilingHalt
    BY <2>2, GotoStatus DEF CeilingHalt, Pause, Leave, LifeInv, TypeOK
  <2>3. ~(JudgeStart \/ JudgeRun \/ OnlyHumanDecided \/ RebuttalAccepted)
    BY EndsSaved DEF JudgeStart, JudgeRun, OnlyHumanDecided, RebuttalAccepted, Step, Idle
  <2>4. ~(JudgeRepair \/ RebuttalRejected)
    BY EndsSaved DEF JudgeRepair, RebuttalRejected, NextRound, Idle
  <2>5. CASE JudgeGateFails \/ NotPassed
    BY <2>5, GotoStatus DEF JudgeGateFails, NotPassed, Return, Leave, LifeInv, TypeOK
  <2>6. ~Report
    BY <1>5 DEF Report, Dispatch
  <2>. QED  BY <2>1, <2>2, <2>3, <2>4, <2>5, <2>6 DEF JudgeNext
<1>. QED  BY <1>2, <1>3, <1>4, <1>5

\* The Judge's verdict is reached from its reading of the tree without a write.
LEMMA IntoVerdict ==
  ASSUME RunStep, pc' \in {"judged", "verdict"}
  PROVE  unseen' = {} \/ (pc = "judged" /\ UNCHANGED unseen)
<1>1. CASE PlanningNext
  BY <1>1 DEF PlanningNext, Initialize, Planning, PlanReviewStart, RejectShape,
              JudgeUnavailable, ReviewGivesUp, ApprovePlan, CriticalReplan, Replan,
              AskRevision, Revise, ReviseInVain, Stalled, Step, Return, Leave
<1>2. CASE AutoMergeNext
  <2>1. ~(MergeStart \/ ApplyItemChoices \/ MergeLayer \/ SubReviewApproves \/ SubReviewDispute)
    BY DEF MergeStart, ApplyItemChoices, MergeLayer, SubReviewApproves, SubReviewDispute,
           Step, Return, Leave
  <2>2. ~(SubReviewExhausted \/ MergeGateFails \/ MergeFinish \/ DriftIsFatal)
    BY DEF SubReviewExhausted, MergeGateFails, MergeFinish, DriftIsFatal, Return, Pause,
           Leave, Idle
  <2>. QED  BY <1>2, <2>1, <2>2 DEF AutoMergeNext
<1>3. CASE ConflictNext
  BY <1>3 DEF ConflictNext, ConflictStart, Analyze, AskHuman, Resolve, ConflictFinish, Step,
              Return, Leave
<1>4. CASE HumanReviewNext
  <2>1. ~HumanReview
    <3>1. SUFFICES ASSUME NEW s
                   PROVE  ~(\/ Accept(s) \/ Abort(s) \/ RerunRefused(s) \/ Rerun(s)
                            \/ AwaitVerdict(s) \/ AwaitRequests(s) \/ ExecuteDecisions(s)
                            \/ AwaitPlanReview(s) \/ RejectPlan(s) \/ AwaitItems(s)
                            \/ SkipMerge(s) \/ StartMerge(s))
      BY DEF HumanReview
    <3>. QED
      BY DEF Accept, Abort, RerunRefused, Rerun, AwaitVerdict, AwaitRequests,
             ExecuteDecisions, AwaitPlanReview, RejectPlan, AwaitItems, SkipMerge,
             StartMerge, Return, Pause, Leave, Step, Idle
  <2>2. ~FinishDecisions /\ \A f \in File : ~ApplyDecision(f)
    BY DEF FinishDecisions, ApplyDecision, Return, Leave, Step
  <2>. QED  BY <1>4, <2>1, <2>2 DEF HumanReviewNext
<1>5. CASE JudgeNext
  BY <1>5 DEF JudgeNext, JudgeStart, JudgeRun, JudgeRepair, OnlyHumanDecided,
              RebuttalAccepted, RebuttalRejected, NextRound, JudgeGateFails, Passed,
              NotPassed, Report, Step, Return, Leave
<1>6. CASE DryRunHalt \/ CeilingHalt \/ LoopEnd
  BY <1>6 DEF DryRunHalt, CeilingHalt, LoopEnd, Pause, Leave, Idle
<1>. QED  BY <1>1, <1>2, <1>3, <1>4, <1>5, <1>6 DEF RunStep, PhaseNext

LEMMA RunStepPasses ==
  ASSUME LifeInv, TypeOK', Located', PassInv, RunStep
  PROVE  PassInv'
<1>1. CASE LoopEnd
  BY <1>1 DEF LoopEnd, PassInv, PassCoversTree, Idle
<1>2. CASE Ends /\ ~LoopEnd
  <2>1. disk' = st' /\ pc' \notin {"judged", "verdict"}
    BY <1>2, EndsSaved DEF Idle
  <2>2. ASSUME st'.status = "GENERATING_REPORT"
        PROVE  st'.judge_resolution = "accept" \/ unseen' = {}
    <3>1. Passed \/ \E s \in State : Accept(s)
      BY <1>2, <2>2, IntoReport
    <3>2. CASE Passed
      BY <3>2 DEF Passed, PassInv
    <3>3. ASSUME NEW s \in State, Accept(s)
          PROVE  st'.judge_resolution = "accept"
      BY <3>3 DEF Accept, Goto, Return, Leave, State
    <3>. QED  BY <3>1, <3>2, <3>3
  <2>. QED  BY <2>1, <2>2 DEF PassInv, PassCoversTree
<1>3. CASE GoesOn /\ ~LoopEnd
  <2>1. st'.status # "GENERATING_REPORT"
    BY <1>3, Places DEF GoesOn, TypeOK, Located, PC, Idle
  <2>2. disk.status # "GENERATING_REPORT"
    <3>1. ~(Report \/ CeilingHalt)
      BY <1>3 DEF GoesOn, Report, CeilingHalt, Return, Pause, Leave
    <3>. QED  BY <1>3, <3>1, FromReport DEF PassInv
  <2>3. disk'.status # "GENERATING_REPORT"
    BY <1>3, <2>1, <2>2 DEF GoesOn, SaveInPhase, TypeOK, State
  <2>4. pc' \in {"judged", "verdict"} => unseen' = {}
    BY IntoVerdict DEF PassInv
  <2>. QED  BY <2>1, <2>3, <2>4 DEF PassInv, PassCoversTree
<1>. QED  BY <1>1, <1>2, <1>3, RunStepControl

LEMMA OutsidePasses ==
  ASSUME LifeInv, PassInv, Fault \/ User
  PROVE  PassInv'
<1>1. CASE PhaseError \/ BudgetExceeded
  <2>1. \A t \in {"FAILED", "AWAITING_HUMAN"} : Goto(st, t).status # "GENERATING_REPORT"
    BY GotoStatus DEF LifeInv, TypeOK
  <2>2. PICK t \in {"FAILED", "AWAITING_HUMAN"} : Pause(Goto(st, t)) \/ Pause(st)
    BY <1>1 DEF PhaseError, BudgetExceeded
  <2>3. UNCHANGED unseen
    BY <1>1 DEF PhaseError, BudgetExceeded
  <2>. QED  BY <2>1, <2>2, <2>3 DEF Pause, Leave, PassInv, PassCoversTree, Idle
<1>2. CASE Spend
  BY <1>2 DEF Spend, PassInv, PassCoversTree, LifeInv, TypeOK, State
<1>3. CASE Interrupt
  BY <1>3 DEF Interrupt, Pause, Leave, Idle, PassInv, PassCoversTree, LifeInv, TypeOK, State
<1>4. CASE Kill
  BY <1>4 DEF Kill, PassInv, PassCoversTree, Idle
<1>5. CASE User
  <2>1. UNCHANGED <<disk, unseen>> /\ st'.status = st.status
    BY <1>5 DEF User, ReviewPlan, ChooseItem, Decide, ResolveVerdict, Resume, ResumeEnded,
                Input, vars, LifeInv, TypeOK, State
  <2>2. st.status = "GENERATING_REPORT" => st'.judge_resolution = st.judge_resolution
    BY <1>5 DEF User, ReviewPlan, ChooseItem, Decide, ResolveVerdict, Resume, ResumeEnded,
                Waiting, Input, vars, LifeInv, TypeOK, State
  <2>3. pc' \notin {"judged", "verdict"} \/ pc' = pc
    BY <1>5 DEF User, ReviewPlan, ChooseItem, Decide, ResolveVerdict, Resume, ResumeEnded,
                Input, vars
  <2>. QED  BY <2>1, <2>2, <2>3 DEF PassInv, PassCoversTree
<1>. QED  BY <1>1, <1>2, <1>3, <1>4, <1>5 DEF Fault

(* The Judge has the last word on the tree: what is reported on the        *)
(* strength of a PASS is what the Judge read, whatever repairs, dispatched *)
(* choices, interrupts and crashes came before.                            *)
THEOREM PassCoversTheTree == Spec => []PassCoversTree
<1>1. Init => PassInv
  BY DEF Init, InitialState, PassInv, PassCoversTree
<1>2. LifeInv /\ LifeInv' /\ PassInv /\ [Next]_vars => PassInv'
  <2>1. LifeInv /\ LifeInv' /\ PassInv /\ Next => PassInv'
    BY RunStepPasses, OutsidePasses DEF Next, LifeInv
  <2>2. PassInv /\ UNCHANGED vars => PassInv'
    BY DEF PassInv, PassCoversTree, vars
  <2>. QED  BY <2>1, <2>2
<1>3. PassInv => PassCoversTree
  BY DEF PassInv
<1>. QED  BY <1>1, <1>2, <1>3, StatusIsWhereItSays, PTL DEF Spec
-----------------------------------------------------------------------------
(* No record is lost behind anybody's back.                                *)

\* s has a record for every file st has one for, and belongs to the same run.
Keeps(s) == /\ \A f \in File : st.records[f] # "none" => s.records[f] # "none"
            /\ s.dry_run = st.dry_run

LEMMA RecordKeeps ==
  ASSUME st \in State, NEW s \in State, Keeps(s), NEW g,
         \A f \in File \cap DOMAIN g : g[f] # "none" \/ st.records[f] = "none"
  PROVE  Keeps(Record(s, g))
BY RecordFields DEF Keeps

\* Planning decides over no file.
LEMMA PlanningKeeps ==
  ASSUME TypeOK, PlanningNext
  PROVE  /\ st'.records = st.records /\ st'.requests = st.requests
         /\ st'.removed = st.removed /\ st'.dry_run = st.dry_run
         /\ st'.verdict = st.verdict /\ st'.surfaced \in {st.surfaced, {}}
         /\ st'.exhausted = st.exhausted /\ st'.rerun_round = st.rerun_round
<1>0. st \in State
  BY DEF TypeOK
<1>1. CASE Initialize
  BY <1>0, <1>1 DEF Initialize, Return, Leave, State
<1>2. CASE Planning
  <2>1. PICK plan : st' = [st EXCEPT !.status = "PLAN_REVIEWING",
                                     !.current_phase = "analysis", !.risk = plan]
    BY <1>2 DEF Planning, Return, Leave
  <2>. QED  BY <1>0, <2>1 DEF State
<1>3. CASE JudgeUnavailable \/ ReviewGivesUp
  <2>1. PICK levels : st' = HandOver(st, levels)
    BY <1>3 DEF JudgeUnavailable, ReviewGivesUp, Return, Leave
  <2>. QED  BY <1>0, <2>1 DEF HandOver, State
<1>4. CASE CriticalReplan
  <2>1. st' = [st EXCEPT !.conclusion = "other", !.status = "PLANNING",
                         !.current_phase = "analysis"]
    BY <1>4 DEF CriticalReplan, Step
  <2>. QED  BY <1>0, <2>1 DEF State
<1>5. CASE ApprovePlan
  <2> DEFINE items == ItemsFor(st, {"human"})
             status == IF items = None THEN "AUTO_MERGING" ELSE "AWAITING_HUMAN"
  <2>1. st' = [st EXCEPT !.items = items, !.surfaced = {}, !.conclusion = "approved",
                         !.status = status]
    BY <1>5 DEF ApprovePlan, Return, Leave
  <2> HIDE DEF items, status
  <2>. QED  BY <1>0, <2>1 DEF State
<1>6. CASE Revise
  <2>1. PICK plan : st' = [st EXCEPT !.risk = plan, !.status = "PLAN_REVIEWING",
                                     !.current_phase = "plan_review"]
    BY <1>6 DEF Revise, Step
  <2>. QED  BY <1>0, <2>1 DEF State
<1>7. CASE ReviseInVain
  <2>1. PICK items : st' = [st EXCEPT !.items = items, !.surfaced = {}, !.conclusion = "other",
                                      !.status = "PLAN_REVIEWING"]
    BY <1>7 DEF ReviseInVain, Step
  <2>. QED  BY <1>0, <2>1 DEF State
<1>8. CASE Stalled
  BY <1>0, <1>8 DEF Stalled, Return, Leave, Goto, State
<1>9. CASE RejectShape
  BY <1>0, <1>9 DEF RejectShape, Return, Leave, State
<1>10. CASE PlanReviewStart
  BY <1>0, <1>10 DEF PlanReviewStart, Step, State
<1>11. CASE Replan
  <2>1. PICK plan : st' = [st EXCEPT !.risk = plan, !.status = "PLAN_REVIEWING"]
    BY <1>11 DEF Replan, Return, Leave
  <2>. QED  BY <1>0, <2>1 DEF State
<1>12. CASE AskRevision
  BY <1>0, <1>12 DEF AskRevision, Step, State
<1>. QED
  BY <1>1, <1>2, <1>3, <1>4, <1>5, <1>6, <1>7, <1>8, <1>9, <1>10, <1>11, <1>12
     DEF PlanningNext

LEMMA PlanningStatuses ==
  ASSUME TypeOK, PlanningNext
  PROVE  st'.status \in PlanningStatus \cup {"AUTO_MERGING", "AWAITING_HUMAN"}
<1> USE DEF PlanningStatus
<1>0. st \in State
  BY DEF TypeOK
<1>1. CASE Initialize
  BY <1>0, <1>1 DEF Initialize, Return, Leave, State
<1>2. CASE Planning
  <2>1. PICK plan : st' = [st EXCEPT !.status = "PLAN_REVIEWING",
                                     !.current_phase = "analysis", !.risk = plan]
    BY <1>2 DEF Planning, Return, Leave
  <2>. QED  BY <1>0, <2>1 DEF State
<1>3. CASE JudgeUnavailable \/ ReviewGivesUp
  <2>1. PICK levels : st' = HandOver(st, levels)
    BY <1>3 DEF JudgeUnavailable, ReviewGivesUp, Return, Leave
  <2>. QED  BY <1>0, <2>1 DEF HandOver, State
<1>4. CASE CriticalReplan
  <2>1. st' = [st EXCEPT !.conclusion = "other", !.status = "PLANNING",
                         !.current_phase = "analysis"]
    BY <1>4 DEF CriticalReplan, Step
  <2>. QED  BY <1>0, <2>1 DEF State
<1>5. CASE ApprovePlan
  <2> DEFINE items == ItemsFor(st, {"human"})
             status == IF items = None THEN "AUTO_MERGING" ELSE "AWAITING_HUMAN"
  <2>1. st' = [st EXCEPT !.items = items, !.surfaced = {}, !.conclusion = "approved",
                         !.status = status]
    BY <1>5 DEF ApprovePlan, Return, Leave
  <2>2. status \in {"AUTO_MERGING", "AWAITING_HUMAN"}
    OBVIOUS
  <2> HIDE DEF items, status
  <2>. QED  BY <1>0, <2>1, <2>2 DEF State
<1>6. CASE Revise
  <2>1. PICK plan : st' = [st EXCEPT !.risk = plan, !.status = "PLAN_REVIEWING",
                                     !.current_phase = "plan_review"]
    BY <1>6 DEF Revise, Step
  <2>. QED  BY <1>0, <2>1 DEF State
<1>7. CASE ReviseInVain
  <2>1. PICK items : st' = [st EXCEPT !.items = items, !.surfaced = {}, !.conclusion = "other",
                                      !.status = "PLAN_REVIEWING"]
    BY <1>7 DEF ReviseInVain, Step
  <2>. QED  BY <1>0, <2>1 DEF State
<1>8. CASE Stalled
  BY <1>0, <1>8 DEF Stalled, Return, Leave, Goto, State
<1>9. CASE RejectShape
  BY <1>0, <1>9 DEF RejectShape, Return, Leave, State
<1>10. CASE PlanReviewStart
  BY <1>0, <1>10 DEF PlanReviewStart, Dispatch, Step, State
<1>11. CASE Replan
  <2>1. PICK plan : st' = [st EXCEPT !.risk = plan, !.status = "PLAN_REVIEWING"]
    BY <1>11 DEF Replan, Return, Leave
  <2>. QED  BY <1>0, <2>1 DEF State
<1>12. CASE AskRevision
  BY <1>0, <1>12 DEF AskRevision, Step, State
<1>. QED
  BY <1>1, <1>2, <1>3, <1>4, <1>5, <1>6, <1>7, <1>8, <1>9, <1>10, <1>11, <1>12
     DEF PlanningNext

\* Deterministic routing decides over files without a record only.
LEMMA RouteKeeps ==
  ASSUME st \in State, NEW way
  PROVE  Keeps(PrePassItems(Route(st, way)))
<1> DEFINE escalated == Sent(st, way, {"user", "refused"})
           treated   == Sent(st, way, {"replay", "written"}) \cup escalated
           g == [f \in treated |-> IF f \in escalated THEN "esc" ELSE "auto"]
<1>1. \A f \in File \cap DOMAIN g : g[f] # "none"
  OBVIOUS
<1>2. Keeps(Record(st, g)) /\ Record(st, g) \in State
  BY <1>1, RecordKeeps, RecordType DEF Keeps, RecordState
<1>3. /\ Route(st, way).records = Record(st, g).records
      /\ Route(st, way).dry_run = Record(st, g).dry_run
  BY <1>2 DEF Route, State
<1>4. /\ PrePassItems(Route(st, way)).records = Route(st, way).records
      /\ PrePassItems(Route(st, way)).dry_run = Route(st, way).dry_run
  BY RouteType DEF PrePassItems, State
<1>. QED  BY <1>2, <1>3, <1>4 DEF Keeps

LEMMA GotoKeeps ==
  ASSUME NEW s \in State, NEW t
  PROVE  Keeps(s) => Keeps(Goto(s, t))
BY DEF Keeps, Goto, State

\* The accounting gives every plan file in no bucket a record.
LEMMA AccountedKeeps ==
  ASSUME st \in State, NEW takes \in Takes
  PROVE  Keeps(Accounted(takes)) /\ Accounted(takes) \in State
<1> DEFINE s == Record(st, takes)
<1>1. s \in State /\ Keeps(s)
  <2>1. \A f \in DOMAIN takes : st.records[f] = "none"
    BY DEF Takes, Takeable, Unrecorded
  <2>. QED  BY <2>1, AccountedType, RecordKeeps DEF Keeps
<1>2. Keeps(Record(s, [f \in Leaked(s) |-> "esc"]))
  BY <1>1, RecordKeeps
<1>. QED  BY <1>2, AccountedType DEF Accounted

LEMMA AutoMergeKeeps ==
  ASSUME TypeOK, AutoMergeNext, ~MergeFinish
  PROVE  Keeps(st')
<1>0. st \in State
  BY DEF TypeOK
<1>1. CASE MergeStart
  <2>1. PICK way : LET routed == PrePassItems(Route(st, way))
                   IN  st' = Goto(routed, "AWAITING_HUMAN") \/ st' = routed
    BY <1>0, <1>1 DEF MergeStart, Return, Leave, Step
  <2>. QED  BY <1>0, <2>1, RouteKeeps, RouteType, PrePassItemsType, GotoKeeps
<1>2. CASE ApplyItemChoices
  <2>1. PICK g \in [Actionable(st) -> DispatchOutcome], safe \in SUBSET File :
          st' = Downgrade([Record(st, g) EXCEPT !.removed = @ \cup Actionable(st)], safe)
    BY <1>0, <1>2 DEF ApplyItemChoices, Step
  <2>2. Record(st, g) \in State /\ Keeps(Record(st, g))
    BY <1>0, RecordType, RecordKeeps DEF DispatchOutcome, RecordState, Keeps
  <2> DEFINE a == [Record(st, g) EXCEPT !.removed = @ \cup Actionable(st)]
  <2>3. a.records = Record(st, g).records /\ a.dry_run = Record(st, g).dry_run
    BY <1>0, <2>2 DEF State
  <2>4. a \in State
    <3>1. Record(st, g).removed \cup Actionable(st) \in SUBSET File
      BY <1>0, <2>2 DEF State, Actionable
    <3>. QED  BY <1>0, <2>2, <3>1, FieldTypes
  <2>5. Downgrade(a, safe).records = a.records /\ Downgrade(a, safe).dry_run = a.dry_run
    <3> HIDE DEF a
    <3>. QED  BY <1>0, <2>4 DEF Downgrade, State
  <2>. QED  BY <1>0, <2>1, <2>2, <2>3, <2>5 DEF Keeps
<1>3. CASE MergeLayer
  <2>1. PICK g \in [Routable(st) -> {"auto", "esc", "none"}] : st' = Record(st, g)
    BY <1>0, <1>3 DEF MergeLayer, Step
  <2>2. \A f \in DOMAIN g : st.records[f] = "none"
    BY DEF Routable, Unrecorded
  <2>. QED  BY <1>0, <2>1, <2>2, RecordKeeps DEF Keeps
<1>4. CASE SubReviewApproves
  BY <1>0, <1>4 DEF SubReviewApproves, Keeps
<1>5. CASE SubReviewDispute
  <2>1. PICK F : \E g \in Repairs(F) : st' = Record(st, g)
    BY <1>0, <1>5 DEF SubReviewDispute, Step
  <2>. QED  BY <1>0, <2>1, RecordKeeps DEF Repairs, Keeps
<1>6. CASE SubReviewExhausted
  BY <1>0, <1>6 DEF SubReviewExhausted, Pause, Leave, State, Keeps
<1>7. CASE MergeGateFails
  BY <1>0, <1>7 DEF MergeGateFails, Return, Leave, Goto, State, Keeps
<1>8. CASE DriftIsFatal
  <2>1. PICK takes, drifted : takes \in Takes /\ st' = [Accounted(takes) EXCEPT !.pending_conflict = drifted]
    BY <1>0, <1>8 DEF DriftIsFatal, Return, Leave
  <2>. QED  BY <1>0, <2>1, AccountedKeeps DEF Keeps, State
<1>. QED  BY <1>1, <1>2, <1>3, <1>4, <1>5, <1>6, <1>7, <1>8 DEF AutoMergeNext

\* The sanity check drops a record only for an upstream-only file it hands on.
LEMMA MergeFinishKeeps ==
  ASSUME TypeOK, MergeFinish
  PROVE  /\ \A f \in File : st.records[f] # "none" /\ st'.records[f] = "none" =>
              f \in st'.pending_conflict \ BothChanged
         /\ st'.dry_run = st.dry_run
<1> DEFINE Mend(drifted, stuck) == [f \in drifted |-> IF f \in stuck THEN "none" ELSE "auto"]
           Final(a, p, t) == [a EXCEPT !.pending_conflict = p, !.status = t]
<1>1. PICK takes \in Takes :
        \E drifted \in SUBSET DriftCandidates(Accounted(takes)) : \E stuck \in SUBSET drifted :
          LET unhandled == Unhandled(Record(st, takes)) \cup stuck
              risky == \E f \in File : st.risk[f] = "risky"
              a == Record(Accounted(takes), Mend(drifted, stuck))
          IN  st' = Final(a, IF unhandled = {} THEN a.pending_conflict ELSE unhandled,
                          IF risky \/ unhandled # {} THEN "ANALYZING_CONFLICTS"
                          ELSE "JUDGE_REVIEWING")
  BY Zenon DEF MergeFinish, Return, Leave
<1>2. PICK drifted \in SUBSET DriftCandidates(Accounted(takes)) : \E stuck \in SUBSET drifted :
          LET unhandled == Unhandled(Record(st, takes)) \cup stuck
              risky == \E f \in File : st.risk[f] = "risky"
              a == Record(Accounted(takes), Mend(drifted, stuck))
          IN  st' = Final(a, IF unhandled = {} THEN a.pending_conflict ELSE unhandled,
                          IF risky \/ unhandled # {} THEN "ANALYZING_CONFLICTS"
                          ELSE "JUDGE_REVIEWING")
  BY <1>1, Zenon
<1> DEFINE After(stuck) == Record(Accounted(takes), Mend(drifted, stuck))
<1>3. PICK stuck \in SUBSET drifted :
        /\ \E p, t : st' = Final(After(stuck), p, t)
        /\ stuck # {} => \E p, t : stuck \subseteq p /\ st' = Final(After(stuck), p, t)
  BY <1>2, Zenon
<1>4. After(stuck) \in State /\ st \in State
  BY AccountedKeeps, RecordType DEF TypeOK, RecordState
<1>5. /\ st'.records = After(stuck).records /\ st'.dry_run = After(stuck).dry_run
      /\ stuck # {} => stuck \subseteq st'.pending_conflict
  <2> HIDE DEF After
  <2>1. \A p, t : /\ Final(After(stuck), p, t).records = After(stuck).records
                  /\ Final(After(stuck), p, t).dry_run = After(stuck).dry_run
                  /\ Final(After(stuck), p, t).pending_conflict = p
    BY <1>4 DEF State
  <2> HIDE DEF Final
  <2>. QED  BY <1>3, <2>1
<1>6. \A f \in File : st.records[f] # "none" /\ After(stuck).records[f] = "none" => f \in stuck
  BY <1>4, AccountedKeeps, RecordFields DEF Keeps
<1>7. stuck \cap BothChanged = {}
  BY DEF DriftCandidates
<1>8. After(stuck).dry_run = st.dry_run
  BY <1>4, AccountedKeeps, RecordFields DEF Keeps
<1>. QED  BY <1>5, <1>6, <1>7, <1>8
LEMMA ConflictKeeps ==
  ASSUME TypeOK, ConflictNext
  PROVE  Keeps(st')
<1>0. st \in State
  BY DEF TypeOK
<1>1. CASE ConflictStart
  BY <1>0, <1>1 DEF ConflictStart, Step, Keeps, State
<1>2. CASE Analyze
  <2>1. PICK settled \in SUBSET ((Worklist(st) \cap Unrecorded(st)) \ BothChanged),
             again \in SUBSET (Worklist(st) \ Unrecorded(st)) :
          \E g \in Repairs(settled) :
            st' = [Record(st, g) EXCEPT
                     !.analyses = st.analyses \cup again
                                  \cup ((Worklist(st) \cap Unrecorded(st)) \ settled)]
    BY <1>0, <1>2 DEF Analyze
  <2>2. PICK g \in Repairs(settled) : \E analyses : st' = [Record(st, g) EXCEPT !.analyses = analyses]
    BY <1>0, <2>1
  <2>3. Record(st, g) \in State /\ Keeps(Record(st, g))
    BY <1>0, RecordType, RecordKeeps DEF Repairs, RecordState, Keeps
  <2>. QED  BY <1>0, <2>2, <2>3 DEF State, Keeps
<1>3. ASSUME NEW f \in File, AskHuman(f)
      PROVE  Keeps(st')
  BY <1>0, <1>3 DEF AskHuman, Step, Keeps, State
<1>4. ASSUME NEW f \in File, Resolve(f)
      PROVE  Keeps(st')
  <2>1. PICK g \in Repairs({f}) : st' = Record(st, g)
    BY <1>0, <1>4 DEF Resolve
  <2>. QED  BY <1>0, <2>1, RecordKeeps DEF Repairs, Keeps
<1>5. CASE ConflictFinish
  BY <1>0, <1>5 DEF ConflictFinish, Return, Leave, Goto, Keeps, State
<1>. QED  BY <1>1, <1>2, <1>3, <1>4, <1>5 DEF ConflictNext

LEMMA JudgeKeeps ==
  ASSUME TypeOK, JudgeNext
  PROVE  Keeps(st')
<1>0. st \in State
  BY DEF TypeOK
<1>1. CASE JudgeStart \/ JudgeRun \/ OnlyHumanDecided \/ RebuttalAccepted \/ RebuttalRejected
  BY <1>0, <1>1 DEF JudgeStart, JudgeRun, OnlyHumanDecided, RebuttalAccepted, RebuttalRejected,
              Step, Keeps, State
<1>2. CASE JudgeRepair
  <2>1. PICK F : \E g \in Repairs(F) : st' = Record(st, g)
    BY <1>0, <1>2 DEF JudgeRepair
  <2>. QED  BY <1>0, <2>1, RecordKeeps DEF Repairs, Keeps
<1>3. CASE JudgeGateFails \/ Passed \/ NotPassed
  <2>1. \/ \E t : st' = Goto(st, t)
        \/ st' = [st EXCEPT !.verdict = "FAIL", !.status = "AWAITING_HUMAN"]
    BY <1>3 DEF JudgeGateFails, Passed, NotPassed, Return, Leave
  <2>. QED  BY <1>0, <2>1 DEF Goto, Keeps, State
<1>4. CASE Report
  BY <1>0, <1>4 DEF Report, Return, Leave, Keeps, State
<1>. QED  BY <1>1, <1>2, <1>3, <1>4 DEF JudgeNext

\* Surfacing and dispatching in AWAITING_HUMAN.
LEMMA DispatchedKeeps ==
  ASSUME TypeOK, NEW g \in Dispatched(Surface(st))
  PROVE  LET s == Record(Surface(st), g)
         IN  /\ s \in State /\ Keeps(s) /\ s.failed_files = st.failed_files
             /\ s.rerun_round = st.rerun_round
<1>1. /\ Surface(st) \in State /\ Keeps(Surface(st))
      /\ Surface(st).failed_files = st.failed_files /\ Surface(st).rerun_round = st.rerun_round
  <2>1. st \in State /\ Surface(st) \in State
    BY SurfaceType DEF TypeOK
  <2>2. /\ Surface(st).records = st.records /\ Surface(st).dry_run = st.dry_run
        /\ Surface(st).failed_files = st.failed_files
        /\ Surface(st).rerun_round = st.rerun_round
    BY <2>1 DEF Surface, State
  <2>. QED  BY <2>1, <2>2 DEF Keeps
<1>2. \A f \in DOMAIN g : g[f] # "none" /\ g[f] \in RecordState
  BY DEF Dispatched, DispatchOutcome, RecordState
<1>. QED  BY <1>1, <1>2, RecordKeeps, RecordFields, RecordType DEF TypeOK

\* A rerun drops the records of the files the Judge failed, and no other.
LEMMA HumanReviewKeeps ==
  ASSUME TypeOK, HumanReviewNext
  PROVE  /\ \A f \in File : st.records[f] # "none" /\ st'.records[f] = "none" =>
              f \in st.failed_files /\ st'.rerun_round = st.rerun_round + 1
         /\ st'.dry_run = st.dry_run
<1>0. st \in State
  BY DEF TypeOK
<1>1. CASE HumanReview
  <2>1. PICK g \in Dispatched(Surface(st)) :
          LET s == Record(Surface(st), g)
          IN  \/ Accept(s) \/ Abort(s) \/ RerunRefused(s) \/ Rerun(s)
              \/ AwaitVerdict(s) \/ AwaitRequests(s) \/ ExecuteDecisions(s)
              \/ AwaitPlanReview(s) \/ RejectPlan(s) \/ AwaitItems(s)
              \/ SkipMerge(s) \/ StartMerge(s)
    BY <1>0, <1>1 DEF HumanReview
  <2>2. PICK s : s = Record(Surface(st), g)
    OBVIOUS
  <2>3. /\ s \in State /\ Keeps(s) /\ s.failed_files = st.failed_files
        /\ s.rerun_round = st.rerun_round
    BY <1>0, <2>2, DispatchedKeeps
  <2>4. CASE Rerun(s)
    <3> DEFINE r == Record(s, [f \in s.failed_files |-> "none"])
               t == [r EXCEPT !.rerun_round = s.rerun_round + 1, !.judge_resolution = "none",
                              !.verdict = "none", !.failed_files = {},
                              !.status = "AUTO_MERGING"]
    <3>1. r \in State
      BY <1>0, <2>3, RecordType DEF RecordState
    <3>2. \A f \in File : f \notin s.failed_files => r.records[f] = s.records[f]
      BY <1>0, <2>3, RecordFields
    <3>3. r.dry_run = s.dry_run
      BY <1>0, <2>3, RecordFields
    <3>4. t.records = r.records /\ t.dry_run = r.dry_run /\ t.rerun_round = s.rerun_round + 1
      <4> HIDE DEF r
      <4>. QED  BY <1>0, <3>1 DEF State
    <3>5. st' = t
      BY <1>0, <2>4 DEF Rerun, Return, Leave
    <3> HIDE DEF r, t
    <3>. QED  BY <1>0, <2>3, <3>2, <3>3, <3>4, <3>5 DEF Keeps
  <2>5. CASE RerunRefused(s)
    BY <1>0, <2>3, <2>5 DEF RerunRefused, Return, Leave, State, Keeps
  <2>6. CASE ~(Rerun(s) \/ RerunRefused(s))
    <3>1. st' = s \/ \E t : st' = Goto(s, t)
      BY <1>0, <2>1, <2>2, <2>6
         DEF Accept, Abort, AwaitVerdict, AwaitRequests, ExecuteDecisions, AwaitPlanReview,
             RejectPlan, AwaitItems, SkipMerge, StartMerge, Return, Pause, Leave, Step
    <3>. QED  BY <1>0, <2>3, <3>1, GotoKeeps DEF Keeps
  <2>. QED  BY <1>0, <2>4, <2>5, <2>6
<1>2. CASE FinishDecisions
  <2>1. PICK g \in CatchUps(st) :
          \E t : st' = Goto(Record(Record(st, g), [f \in Stuck(Record(st, g)) |-> "esc"]), t)
    BY <1>0, <1>2 DEF FinishDecisions, Return, Leave
  <2>2. Record(st, g) \in State /\ Keeps(Record(st, g))
    <3>1. \A f \in DOMAIN g : st.records[f] = "none" /\ g[f] \in RecordState
      BY DEF CatchUps, Unrecorded, RecordState
    <3>. QED  BY <1>0, <3>1, RecordType, RecordKeeps DEF Keeps
  <2>3. /\ Record(Record(st, g), [f \in Stuck(Record(st, g)) |-> "esc"]) \in State
        /\ Keeps(Record(Record(st, g), [f \in Stuck(Record(st, g)) |-> "esc"]))
    BY <1>0, <2>2, RecordType, RecordKeeps DEF RecordState
  <2>. QED  BY <1>0, <2>1, <2>3, GotoKeeps DEF Keeps
<1>3. ASSUME NEW f \in File, ApplyDecision(f)
      PROVE  Keeps(st')
  <2>1. CASE st' = st
    BY <1>0, <2>1 DEF Keeps
  <2>2. CASE \E g \in [{f} -> DispatchOutcome] : st' = Record(st, g)
    BY <1>0, <2>2, RecordKeeps DEF DispatchOutcome, Keeps
  <2>. QED  BY <1>0, <1>3, <2>1, <2>2 DEF ApplyDecision, Step
<1>. QED  BY <1>1, <1>2, <1>3 DEF HumanReviewNext, Keeps

LEMMA RunStepKeeps ==
  ASSUME TypeOK, RunStep
  PROVE  /\ \A f \in File : Forgotten(f) => MayForget(f)
         /\ st'.dry_run = st.dry_run
<1>1. CASE PlanningNext
  BY <1>1, PlanningKeeps DEF Forgotten
<1>2. CASE AutoMergeNext
  BY <1>2, AutoMergeKeeps, MergeFinishKeeps DEF Forgotten, MayForget, Keeps
<1>3. CASE ConflictNext \/ JudgeNext
  BY <1>3, ConflictKeeps, JudgeKeeps DEF Forgotten, Keeps
<1>4. CASE HumanReviewNext
  BY <1>4, HumanReviewKeeps DEF Forgotten, MayForget
<1>5. CASE DryRunHalt \/ CeilingHalt
  BY <1>5 DEF DryRunHalt, CeilingHalt, Pause, Leave, Goto, TypeOK, State, Forgotten
<1>6. CASE LoopEnd
  BY <1>6 DEF LoopEnd, Forgotten
<1>. QED  BY <1>1, <1>2, <1>3, <1>4, <1>5, <1>6 DEF RunStep, PhaseNext

LEMMA OutsideKeeps ==
  ASSUME TypeOK, Fault \/ User
  PROVE  Kill \/ st'.records = st.records
<1>1. CASE Fault
  BY <1>1 DEF Fault, PhaseError, BudgetExceeded, Spend, Interrupt, Pause, Leave, Goto, TypeOK, State
<1>2. CASE User
  BY <1>2 DEF User, ReviewPlan, ChooseItem, Decide, ResolveVerdict, Resume, ResumeEnded,
              Input, vars, TypeOK, State
<1>. QED  BY <1>1, <1>2

(* A decision record is only ever dropped by a rerun the user asked for,   *)
(* of a file the Judge had failed, or by the sanity check that hands an    *)
(* upstream-only file to conflict analysis; a crash goes back to the       *)
(* records that were saved.                                                *)
THEOREM NoRecordIsLost == Spec => RecordsAreKept
<1>1. TypeOK /\ [Next]_vars => [\A f \in File : Forgotten(f) => MayForget(f)]_vars
  <2>1. ASSUME TypeOK, Kill
        PROVE  \A f \in File : MayForget(f)
    BY <2>1 DEF Kill, MayForget, Restored
  <2>2. TypeOK /\ Next => \A f \in File : Forgotten(f) => MayForget(f)
    BY <2>1, RunStepKeeps, OutsideKeeps DEF Next, Forgotten
  <2>. QED  BY <2>2
<1>. QED  BY <1>1, TypeCorrect, PTL DEF Spec, RecordsAreKept
-----------------------------------------------------------------------------
(* No dispute changes what a human has decided.                            *)

\* Only the sub-review and the Judge's loop are at work in a dispute.
LEMMA InDispute ==
  ASSUME RunStep, Disputing
  PROVE  \/ SubReviewApproves \/ SubReviewDispute \/ SubReviewExhausted
         \/ JudgeRun \/ JudgeRepair \/ OnlyHumanDecided \/ RebuttalAccepted
         \/ RebuttalRejected \/ JudgeGateFails \/ Passed \/ NotPassed
<1> USE DEF Disputing
<1>1. ~PlanningNext
  BY DEF PlanningNext, Initialize, Planning, PlanReviewStart, RejectShape, JudgeUnavailable,
         ReviewGivesUp, ApprovePlan, CriticalReplan, Replan, AskRevision, Revise,
         ReviseInVain, Stalled, Dispatch
<1>2. AutoMergeNext => SubReviewApproves \/ SubReviewDispute \/ SubReviewExhausted
  BY DEF AutoMergeNext, MergeStart, ApplyItemChoices, MergeLayer, MergeGateFails,
         MergeFinish, DriftIsFatal, Dispatch
<1>3. ~ConflictNext
  BY DEF ConflictNext, ConflictStart, Analyze, AskHuman, Resolve, ConflictFinish, Dispatch
<1>4. ~HumanReviewNext
  BY DEF HumanReviewNext, HumanReview, FinishDecisions, ApplyDecision, Dispatch
<1>5. ~(JudgeStart \/ Report)
  BY DEF JudgeStart, Report, Dispatch
<1>6. ~(DryRunHalt \/ CeilingHalt \/ LoopEnd)
  BY DEF DryRunHalt, CeilingHalt, LoopEnd
<1>. QED  BY <1>1, <1>2, <1>3, <1>4, <1>5, <1>6 DEF RunStep, PhaseNext, JudgeNext

\* The guard of executor.repair is what keeps a human's record.
LEMMA RepairKeepsHumans ==
  ASSUME st \in State, NEW R, NEW F \in SUBSET Repairable(st, R), NEW g \in Repairs(F),
         st' = Record(st, g)
  PROVE  HumanRecordsKept
<1>1. \A f \in DOMAIN g : st.records[f] \notin HumanSource
  BY DEF Repairs, Repairable
<1>. QED  BY <1>1, RecordFields DEF HumanRecordsKept

LEMMA DisputeKeepsHumans ==
  ASSUME TypeOK, RunStep, Disputing
  PROVE  HumanRecordsKept
<1>0. st \in State
  BY DEF TypeOK
<1>1. CASE SubReviewApproves \/ SubReviewExhausted
  BY <1>0, <1>1 DEF SubReviewApproves, SubReviewExhausted, Pause, Leave, State, HumanRecordsKept
<1>2. CASE SubReviewDispute
  <2>1. PICK F \in SUBSET Repairable(st, work) : \E g \in Repairs(F) : st' = Record(st, g)
    BY <1>0, <1>2 DEF SubReviewDispute, Step
  <2>. QED  BY <1>0, <2>1, RepairKeepsHumans
<1>3. CASE JudgeRepair
  <2>1. PICK F \in SUBSET Repairable(st, File) : \E g \in Repairs(F) : st' = Record(st, g)
    BY <1>0, <1>3 DEF JudgeRepair
  <2>. QED  BY <1>0, <2>1, RepairKeepsHumans
<1>4. CASE JudgeRun \/ OnlyHumanDecided \/ RebuttalAccepted \/ RebuttalRejected
  BY <1>0, <1>4 DEF JudgeRun, OnlyHumanDecided, RebuttalAccepted, RebuttalRejected, Step, State,
              HumanRecordsKept
<1>5. CASE JudgeGateFails \/ Passed \/ NotPassed
  BY <1>0, <1>5 DEF JudgeGateFails, Passed, NotPassed, Return, Leave, Goto, State, HumanRecordsKept
<1>. QED  BY <1>1, <1>2, <1>3, <1>4, <1>5, InDispute

(* No dispute, of a layer or of the whole tree, touches a record a human   *)
(* has made: a repair skips it, and a crash in the dispute only brings     *)
(* back the checkpoint.                                                    *)
THEOREM DisputesSpareHumans == Spec => HumanRecordsSurviveDisputes
<1>1. TypeOK /\ [Next]_vars => [Disputing => HumanRecordsKept \/ Restored]_vars
  <2>1. Kill => Restored
    BY DEF Kill, Restored
  <2>2. TypeOK /\ Next => (Disputing => HumanRecordsKept \/ Restored)
    BY <2>1, DisputeKeepsHumans, OutsideKeeps DEF Next, HumanRecordsKept
  <2>. QED  BY <2>2
<1>. QED  BY <1>1, TypeCorrect, PTL DEF Spec, HumanRecordsSurviveDisputes

-----------------------------------------------------------------------------
(* A dry run decides nothing.  Not inductive as it stands: the run would   *)
(* have to be kept from the phases that decide, which only the loop's halt *)
(* at AUTO_MERGING does, and nothing may be there that lets AWAITING_HUMAN *)
(* send it past that halt or dispatch a choice.                            *)
DryStatus == PlanningStatus \cup {"AUTO_MERGING", "AWAITING_HUMAN", "FAILED"}

Dry(s) == s.dry_run => s.status \in DryStatus /\ Untouched(s) /\ ~s.exhausted

DryInv == /\ Dry(st) /\ Dry(disk)
          /\ st.dry_run => /\ disk.dry_run
                           /\ pc \in {Idle, "loop", "review", "replan", "revise", "stalled"}

LEMMA DryRecords ==
  ASSUME DryInv, DryInv', st.dry_run, st'.dry_run
  PROVE  st'.records = st.records
BY DEF DryInv, Dry, Untouched, None

\* Halts, and whatever else leaves the decisions alone, keep a dry run dry.
LEMMA GotoIsDry ==
  ASSUME NEW s \in State, Dry(s), NEW t \in {"FAILED", "AWAITING_HUMAN"}
  PROVE  Dry(Goto(s, t)) /\ Goto(s, t).dry_run = s.dry_run
BY DEF Dry, Goto, State, Untouched, DryStatus

LEMMA LeaveIsDry ==
  ASSUME NEW s, Return(s) \/ Pause(s), Dry(s)
  PROVE  DryInv'
BY DEF Return, Pause, Leave, DryInv, Dry, Untouched

LEMMA PlanningIsDry ==
  ASSUME LifeInv, DryInv, st.dry_run, PlanningNext
  PROVE  Dry(st') /\ pc' \in {Idle, "loop", "review", "replan", "revise", "stalled"}
<1> USE DEF LifeInv, TypeOK
<1>1. pc' \in {Idle, "loop", "review", "replan", "revise", "stalled"}
  BY DEF PlanningNext, Initialize, Planning, PlanReviewStart, RejectShape, JudgeUnavailable,
         ReviewGivesUp, ApprovePlan, CriticalReplan, Replan, AskRevision, Revise,
         ReviseInVain, Stalled, Step, Return, Leave
<1>2. Untouched(st) /\ ~st.exhausted
  BY DEF DryInv, Dry
<1>. QED  BY <1>1, <1>2, PlanningKeeps, PlanningStatuses DEF Dry, Untouched, DryStatus

\* In AWAITING_HUMAN a dry run is asked about its plan and nothing else.
LEMMA HumanReviewIsDry ==
  ASSUME LifeInv, TypeOK', DryInv, st.dry_run, HumanReview
  PROVE  DryInv' /\ UNCHANGED unseen
<1> USE DEF LifeInv
<1>1. Untouched(st) /\ ~st.exhausted
  BY DEF DryInv, Dry
<1>2. PICK g \in Dispatched(Surface(st)) :
        LET s == Record(Surface(st), g)
        IN  /\ \/ Accept(s) \/ Abort(s) \/ RerunRefused(s) \/ Rerun(s)
               \/ AwaitVerdict(s) \/ AwaitRequests(s) \/ ExecuteDecisions(s)
               \/ AwaitPlanReview(s) \/ RejectPlan(s) \/ AwaitItems(s)
               \/ SkipMerge(s) \/ StartMerge(s)
            /\ Wrote(Landed(g))
  BY DEF HumanReview
<1>3. PICK s : s = Record(Surface(st), g)
  OBVIOUS
<1>4. s \in State /\ Untouched(s) /\ s.status = "AWAITING_HUMAN"
  BY <1>1, <1>3, NothingToDispatch, DispatchedConsent, PhaseStatuses
<1>5. ~s.exhausted
  <2>1. Surface(st) \in State /\ st \in State
    BY SurfaceType DEF TypeOK
  <2>2. Surface(st).exhausted = st.exhausted
    BY <2>1 DEF Surface, State
  <2>. QED  BY <1>1, <1>3, <2>1, <2>2, RecordFields
<1>6. Dry(s)
  BY <1>4, <1>5 DEF Dry, DryStatus
<1>7. ~Answered(s) /\ ~Unanswered(s) /\ ~HasRequests(s)
  BY <1>4 DEF Untouched, Answered, Unanswered, AtVerdict, HasRequests
<1>8. PendingRequests(s) = {}
  BY <1>4 DEF Untouched, PendingRequests, None
<1>9. AwaitPlanReview(s) \/ RejectPlan(s) \/ AwaitItems(s) \/ StartMerge(s)
  BY <1>2, <1>3, <1>5, <1>7, <1>8
     DEF Accept, Abort, RerunRefused, Rerun, AwaitVerdict, AwaitRequests, ExecuteDecisions,
         AtRequests, SkipMerge
<1>10. Dry(Goto(s, "AUTO_MERGING"))
  BY <1>4, <1>5 DEF Dry, Goto, State, Untouched, DryStatus
<1>11. DryInv'
  BY <1>4, <1>6, <1>9, <1>10, GotoIsDry, LeaveIsDry
     DEF AwaitPlanReview, RejectPlan, AwaitItems, StartMerge
<1>12. DOMAIN g = {}
  <2>1. Surface(st).surfaced = {}
    BY <1>1, SurfaceType, RecordFields, NothingToDispatch DEF Untouched, TypeOK
  <2>. QED  BY <2>1 DEF Dispatched
<1>. QED  BY <1>2, <1>11, <1>12 DEF Wrote, Landed

LEMMA RunStepIsDry ==
  ASSUME LifeInv, TypeOK', DryInv, RunStep
  PROVE  DryInv' /\ (st.dry_run => UNCHANGED unseen)
<1> USE DEF LifeInv
<1>0. st'.dry_run = st.dry_run
  BY RunStepKeeps
<1>1. CASE ~st.dry_run
  <2>1. disk' = disk \/ disk' = st' \/ disk' = [st' EXCEPT !.spent = disk.spent]
    BY RunStepControl, EndsSaved DEF GoesOn, SaveInPhase, LoopEnd
  <2>2. Dry(disk')
    BY <1>0, <1>1, <2>1 DEF TypeOK, State, Dry, DryInv
  <2>. QED  BY <1>0, <1>1, <2>2 DEF DryInv, Dry
<1>2. CASE st.dry_run
  <2>1. st.status \in DryStatus /\ disk.dry_run /\ st \in State /\ Dry(st)
    BY <1>2 DEF DryInv, Dry, TypeOK
  <2>2. CASE PlanningNext
    <3>1. Dry(st') /\ pc' \in {Idle, "loop", "review", "replan", "revise", "stalled"}
      BY <1>2, <2>2, PlanningIsDry
    <3>2. disk' = disk \/ disk' = st'
      BY <2>2 DEF PlanningNext, Initialize, Planning, PlanReviewStart, RejectShape,
                  JudgeUnavailable, ReviewGivesUp, ApprovePlan, CriticalReplan, Replan,
                  AskRevision, Revise, ReviseInVain, Stalled, Step, Return, Leave
    <3>. QED  BY <1>0, <1>2, <2>1, <2>2, <3>1, <3>2, PlanningControl DEF DryInv, Dry, Untouched
  <2>3. CASE HumanReview
    BY <1>2, <2>3, HumanReviewIsDry
  <2>4. ~AutoMergeNext /\ ~FinishDecisions /\ \A f \in File : ~ApplyDecision(f)
    <3>1. pc \in {Idle, "loop", "review", "replan", "revise", "stalled"}
      BY <1>2 DEF DryInv
    <3>. QED
      BY <1>2, <3>1 DEF AutoMergeNext, MergeStart, ApplyItemChoices, MergeLayer,
             SubReviewApproves, SubReviewDispute, SubReviewExhausted, MergeGateFails,
             MergeFinish, DriftIsFatal, FinishDecisions, ApplyDecision, Dispatch, DryRunHalts, Idle
  <2>5. ~ConflictNext /\ ~JudgeNext
    BY <2>1, PhaseStatuses DEF DryStatus, PlanningStatus
  <2>6. CASE DryRunHalt \/ CeilingHalt
    BY <2>1, <2>6, GotoIsDry, LeaveIsDry DEF DryRunHalt, CeilingHalt
  <2>7. CASE LoopEnd
    BY <2>7 DEF LoopEnd, DryInv, Dry, Untouched
  <2>8. (DryRunHalt \/ CeilingHalt \/ LoopEnd) => UNCHANGED unseen
    BY DEF DryRunHalt, CeilingHalt, LoopEnd
  <2>. QED
    BY <2>2, <2>3, <2>4, <2>5, <2>6, <2>7, <2>8, PlanningControl
       DEF RunStep, PhaseNext, HumanReviewNext
<1>. QED  BY <1>1, <1>2

LEMMA OutsideIsDry ==
  ASSUME LifeInv, DryInv, Fault \/ User
  PROVE  DryInv' /\ UNCHANGED unseen
<1> USE DEF LifeInv, TypeOK
<1>1. Dry(st) /\ Dry(disk) /\ st \in State
  BY DEF DryInv
<1>2. CASE PhaseError \/ BudgetExceeded
  BY <1>1, <1>2, GotoIsDry, LeaveIsDry DEF PhaseError, BudgetExceeded
<1>3. CASE Spend
  BY <1>3 DEF Spend, DryInv, Dry, Untouched, State
<1>4. CASE Interrupt
  <2>1. Dry([st EXCEPT !.spent = disk.spent])
    BY <1>1 DEF Dry, Untouched, State
  <2>. QED  BY <1>4, <2>1, LeaveIsDry DEF Interrupt
<1>5. CASE Kill
  BY <1>5 DEF Kill, DryInv, Dry, Untouched
<1>6. CASE User
  <2>1. UNCHANGED <<disk, unseen>> /\ (pc' = pc \/ pc' = "loop")
    BY <1>6 DEF User, ReviewPlan, ChooseItem, Decide, ResolveVerdict, Resume, ResumeEnded,
                Input, vars
  <2>2. st'.dry_run => st.dry_run /\ st'.exhausted = st.exhausted /\ st'.status = st.status
    BY <1>6 DEF User, ReviewPlan, ChooseItem, Decide, ResolveVerdict, Resume, ResumeEnded,
                Input, vars, State
  <2>3. st.dry_run => Untouched(st')
    <3>1. st.dry_run => \A f \in File : st.requests[f] = "none"
      BY <1>1 DEF Dry, Untouched, None
    <3>2. st.dry_run => \A f \in File : ~Decide(f)
      BY <3>1 DEF Decide
    <3>3. st.dry_run => /\ st'.records = st.records /\ st'.requests = st.requests
                        /\ st'.verdict = st.verdict /\ st'.surfaced = st.surfaced
      BY <1>6, <3>2 DEF User, ReviewPlan, ChooseItem, ResolveVerdict, Resume, ResumeEnded,
                        Input, vars, State
    <3>. QED  BY <1>1, <3>3 DEF Dry, Untouched
  <2>. QED  BY <1>1, <2>1, <2>2, <2>3 DEF DryInv, Dry, Untouched
<1>7. (Fault => UNCHANGED unseen)
  BY DEF Fault, PhaseError, BudgetExceeded, Spend, Interrupt, Kill
<1>. QED  BY <1>2, <1>3, <1>4, <1>5, <1>6, <1>7 DEF Fault, User

(* As long as a run is a dry one it writes no file and decides over none,  *)
(* however often it is resumed, interrupted or killed.                     *)
THEOREM DryRunIsHarmless == Spec => DryRunWritesNothing
<1>1. Init => DryInv
  BY DEF Init, InitialState, DryInv, Dry, Untouched, DryStatus, PlanningStatus
<1>2. LifeInv /\ TypeOK' /\ DryInv /\ [Next]_vars => DryInv'
  <2>1. LifeInv /\ TypeOK' /\ DryInv /\ Next => DryInv'
    BY RunStepIsDry, OutsideIsDry DEF Next
  <2>2. DryInv /\ UNCHANGED vars => DryInv'
    BY DEF DryInv, Dry, Untouched, vars
  <2>. QED  BY <2>1, <2>2
<1>3. LifeInv /\ TypeOK' /\ DryInv /\ DryInv' /\ [Next]_vars =>
        [st.dry_run /\ st'.dry_run => unseen' = unseen /\ st'.records = st.records]_vars
  <2>1. LifeInv /\ TypeOK' /\ DryInv /\ Next => (st.dry_run => unseen' = unseen)
    BY RunStepIsDry, OutsideIsDry DEF Next
  <2>. QED  BY <2>1, DryRecords
<1>. QED
  BY <1>1, <1>2, <1>3, TypeCorrect, StatusIsWhereItSays, PTL DEF Spec, DryRunWritesNothing
=============================================================================
