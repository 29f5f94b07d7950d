----------------------------- MODULE GateProofs -----------------------------
(***************************************************************************)
(* The two consents a run needs, for every set of files and every choice   *)
(* of faults: no file is decided under a plan nobody has accepted, and     *)
(* nothing is reported that neither the Judge nor the user has accepted.   *)
(* The first is not inductive: a request, a verdict or a surfaced item     *)
(* would each let a later step of AWAITING_HUMAN decide over a file, so    *)
(* the invariant keeps all of them out of an unaccepted run, in memory and *)
(* on disk.                                                                *)
(***************************************************************************)
EXTENDS LifecycleProofs

PlanningStatus == {"INITIALIZED", "PLANNING", "PLAN_REVIEWING", "PLAN_REVISING"}
ReportStatus   == {"GENERATING_REPORT", "COMPLETED"}
WorkingStatus  == {"AUTO_MERGING", "ANALYZING_CONFLICTS", "JUDGE_REVIEWING"}

Consented(s) == s.conclusion = "approved" \/ s.plan_human_review = "approve"

\* Nothing that leads to the decision of a file.
Untouched(s) == /\ s.records = None /\ s.requests = None
                /\ s.verdict = "none" /\ s.surfaced = {}

PlanGate(s) ==
  /\ Consented(s) \/ Untouched(s)
  /\ s.status \in PlanningStatus => Untouched(s)
  /\ s.status \notin PlanningStatus \cup {"AWAITING_HUMAN", "FAILED"} => Consented(s)

ReportGate(s) ==
  s.status \in ReportStatus =>
    s.verdict = "PASS" \/ (s.verdict = "FAIL" /\ s.judge_resolution = "accept")

Good(s) == PlanGate(s) /\ ReportGate(s)

\* The inductive invariant, relative to LifeInv.
GateInv == Good(st) /\ Good(disk)
-----------------------------------------------------------------------------
(* What keeps Good.                                                        *)

\* s has the consents st has, and is past planning.
Kin(s) == /\ s.conclusion = st.conclusion
          /\ s.plan_human_review = st.plan_human_review
          /\ s.status \in WorkingStatus \cup {"AWAITING_HUMAN", "FAILED"}

LEMMA KinIsGood ==
  ASSUME NEW s, Kin(s), Consented(st)
  PROVE  Good(s)
BY DEF Kin, Good, PlanGate, ReportGate, Consented, WorkingStatus, PlanningStatus, ReportStatus

\* Ending a run with FAILED, or asking the user, is always possible.
LEMMA HaltIsGood ==
  ASSUME NEW s \in State, Good(s), NEW t \in {"FAILED", "AWAITING_HUMAN"}
  PROVE  Good(Goto(s, t))
BY DEF Goto, State, Good, PlanGate, ReportGate, Consented, Untouched, WorkingStatus,
       PlanningStatus, ReportStatus

LEMMA StepIsGood ==
  ASSUME NEW s, NEW p, Step(s, p), Good(s), GateInv
  PROVE  GateInv'
BY DEF Step, GateInv, Good, PlanGate, ReportGate, Consented, Untouched

LEMMA LeaveIsGood ==
  ASSUME NEW s, Return(s) \/ Pause(s), Good(s)
  PROVE  GateInv'
BY DEF Return, Pause, Leave, GateInv, Good, PlanGate, ReportGate, Consented, Untouched

LEMMA SaveIsGood ==
  ASSUME TypeOK', UNCHANGED disk \/ SaveInPhase, GateInv, Good(st')
  PROVE  GateInv'
<1>1. CASE UNCHANGED disk
  BY <1>1 DEF GateInv, Good, PlanGate, ReportGate, Consented, Untouched
<1>2. CASE SaveInPhase
  <2>1. /\ disk'.status = st'.status /\ disk'.conclusion = st'.conclusion
        /\ disk'.plan_human_review = st'.plan_human_review /\ disk'.records = st'.records
        /\ disk'.requests = st'.requests /\ disk'.verdict = st'.verdict
        /\ disk'.surfaced = st'.surfaced /\ disk'.judge_resolution = st'.judge_resolution
    BY <1>2 DEF SaveInPhase, TypeOK, State
  <2>. QED  BY <2>1 DEF GateInv, Good, PlanGate, ReportGate, Consented, Untouched
<1>. QED  BY <1>1, <1>2

LEMMA RecordConsent ==
  ASSUME NEW s \in State, NEW g
  PROVE  /\ Record(s, g).conclusion = s.conclusion
         /\ Record(s, g).plan_human_review = s.plan_human_review
         /\ Record(s, g).status = s.status
BY DEF Record, State

\* A phase at work past planning has a consent.
LEMMA AtWork ==
  ASSUME GateInv, st.status \in WorkingStatus
  PROVE  Consented(st)
BY DEF GateInv, Good, PlanGate, WorkingStatus, PlanningStatus

\* In the planning statuses nothing has been decided.
LEMMA AtPlanning ==
  ASSUME GateInv, st.status \in PlanningStatus
  PROVE  Untouched(st)
BY DEF GateInv, Good, PlanGate

-----------------------------------------------------------------------------
(* Planning decides nothing, and leaves for the merge only with the        *)
(* approval of the plan judge.                                             *)
LEMMA PlanningKeepsGate ==
  ASSUME LifeInv, GateInv, PlanningNext
  PROVE  GateInv'
<1> USE DEF LifeInv
<1>0. st.status \in PlanningStatus
  BY At, Places
     DEF PlanningNext, Initialize, Planning, PlanReviewStart, RejectShape, JudgeUnavailable,
         ReviewGivesUp, ApprovePlan, CriticalReplan, Replan, AskRevision, Revise,
         ReviseInVain, Stalled, Dispatch, PlanningStatus
<1>1. Untouched(st)
  BY <1>0, AtPlanning
<1>2. \A s : /\ s.records = st.records /\ s.requests = st.requests
             /\ s.verdict = st.verdict /\ s.surfaced \in {st.surfaced, {}}
             /\ \/ s.status \in PlanningStatus \cup {"AWAITING_HUMAN"}
                \/ s.conclusion = "approved" /\ s.status = "AUTO_MERGING"
             => Good(s)
  BY <1>1 DEF Untouched, Good, PlanGate, ReportGate, Consented, PlanningStatus, ReportStatus
<1>3. CASE Initialize
  <2>1. Good([st EXCEPT !.status = "PLANNING", !.current_phase = "init"])
    BY <1>2 DEF TypeOK, State, PlanningStatus
  <2>. QED  BY <1>3, <2>1, LeaveIsGood DEF Initialize
<1>4. CASE Planning
  <2> DEFINE s(plan) == [st EXCEPT !.status = "PLAN_REVIEWING",
                                   !.current_phase = "analysis", !.risk = plan]
  <2>1. PICK plan \in Plans : Return(s(plan))
    BY <1>4 DEF Planning
  <2>2. Good(s(plan))
    BY <1>2 DEF TypeOK, State, PlanningStatus
  <2>. QED  BY <2>1, <2>2, LeaveIsGood
<1>5. CASE PlanReviewStart
  <2>1. Good([st EXCEPT !.current_phase = "plan_review"])
    BY <1>0, <1>2 DEF TypeOK, State
  <2>. QED  BY <1>5, <2>1, StepIsGood DEF PlanReviewStart
<1>6. CASE RejectShape
  <2>1. Good([st EXCEPT !.conclusion = "other", !.status = "AWAITING_HUMAN"])
    BY <1>2 DEF TypeOK, State
  <2>. QED  BY <1>6, <2>1, LeaveIsGood DEF RejectShape
<1>7. CASE JudgeUnavailable \/ ReviewGivesUp
  <2>1. \A levels : Good(HandOver(st, levels))
    BY <1>2 DEF HandOver, TypeOK, State
  <2>. QED  BY <1>7, <2>1, LeaveIsGood DEF JudgeUnavailable, ReviewGivesUp
<1>8. CASE ApprovePlan
  <2> DEFINE items == ItemsFor(st, {"human"})
             s == [st EXCEPT !.items = items, !.surfaced = {}, !.conclusion = "approved",
                             !.status = IF items = None THEN "AUTO_MERGING"
                                        ELSE "AWAITING_HUMAN"]
  <2>1. Good(s)
    BY <1>2 DEF TypeOK, State
  <2>. QED  BY <1>8, <2>1, LeaveIsGood DEF ApprovePlan
<1>9. CASE CriticalReplan
  <2>1. Good([st EXCEPT !.conclusion = "other", !.status = "PLANNING",
                        !.current_phase = "analysis"])
    BY <1>2 DEF TypeOK, State, PlanningStatus
  <2>. QED  BY <1>9, <2>1, StepIsGood DEF CriticalReplan
<1>10. CASE Replan
  <2> DEFINE s(plan) == [st EXCEPT !.risk = plan, !.status = "PLAN_REVIEWING"]
  <2>1. PICK plan \in Plans : Return(s(plan))
    BY <1>10 DEF Replan
  <2>2. Good(s(plan))
    BY <1>2 DEF TypeOK, State, PlanningStatus
  <2>. QED  BY <2>1, <2>2, LeaveIsGood
<1>11. CASE AskRevision
  <2>1. Good([st EXCEPT !.status = "PLAN_REVISING", !.current_phase = "plan_revising"])
    BY <1>2 DEF TypeOK, State, PlanningStatus
  <2>. QED  BY <1>11, <2>1, StepIsGood DEF AskRevision
<1>12. CASE Revise
  <2> DEFINE s(plan) == [st EXCEPT !.risk = plan, !.status = "PLAN_REVIEWING",
                                   !.current_phase = "plan_review"]
  <2>1. PICK plan \in Plans : Step(s(plan), "review")
    BY <1>12 DEF Revise
  <2>2. Good(s(plan))
    BY <1>2 DEF TypeOK, State, PlanningStatus
  <2>. QED  BY <2>1, <2>2, StepIsGood
<1>13. CASE ReviseInVain
  <2>1. Good([st EXCEPT !.items = ItemsFor(st, {"human"}), !.surfaced = {},
                        !.conclusion = "other", !.status = "PLAN_REVIEWING"])
    BY <1>2 DEF TypeOK, State, PlanningStatus
  <2>. QED  BY <1>13, <2>1, StepIsGood DEF ReviseInVain
<1>14. CASE Stalled
  <2>1. Good(Goto(st, "AWAITING_HUMAN"))
    BY HaltIsGood DEF TypeOK, GateInv
  <2>. QED  BY <1>14, <2>1, LeaveIsGood DEF Stalled
<1>. QED
  BY <1>3, <1>4, <1>5, <1>6, <1>7, <1>8, <1>9, <1>10, <1>11, <1>12, <1>13, <1>14
     DEF PlanningNext

LEMMA RouteConsent ==
  ASSUME NEW s \in State, NEW way
  PROVE  /\ PrePassItems(Route(s, way)).conclusion = s.conclusion
         /\ PrePassItems(Route(s, way)).plan_human_review = s.plan_human_review
<1> DEFINE escalated == Sent(s, way, {"user", "refused"})
           treated   == Sent(s, way, {"replay", "written"}) \cup escalated
           g == [f \in treated |-> IF f \in escalated THEN "esc" ELSE "auto"]
<1>1. Record(s, g) \in State
  BY RecordType DEF RecordState
<1>2. /\ Route(s, way).conclusion = Record(s, g).conclusion
      /\ Route(s, way).plan_human_review = Record(s, g).plan_human_review
  BY <1>1 DEF Route, State
<1>3. /\ PrePassItems(Route(s, way)).conclusion = Route(s, way).conclusion
      /\ PrePassItems(Route(s, way)).plan_human_review = Route(s, way).plan_human_review
  BY RouteType DEF PrePassItems, State
<1>. QED  BY <1>2, <1>3, RecordConsent

LEMMA AccountedConsent ==
  ASSUME NEW takes \in Takes, st \in State
  PROVE  /\ Accounted(takes) \in State
         /\ Accounted(takes).conclusion = st.conclusion
         /\ Accounted(takes).plan_human_review = st.plan_human_review
         /\ Accounted(takes).status = st.status
<1>1. Record(st, takes) \in State
  BY AccountedType
<1>. QED  BY <1>1, AccountedType, RecordConsent DEF Accounted

(* The merge works under the consent it was started with.                  *)
LEMMA AutoMergeKeepsGate ==
  ASSUME LifeInv, TypeOK', GateInv, AutoMergeNext
  PROVE  GateInv'
<1> USE DEF LifeInv
<1>0. st.status = "AUTO_MERGING"
  BY At, Places
     DEF AutoMergeNext, MergeStart, ApplyItemChoices, MergeLayer, SubReviewApproves,
         SubReviewDispute, SubReviewExhausted, MergeGateFails, MergeFinish, DriftIsFatal,
         Dispatch
<1>1. Consented(st) /\ st.status \in WorkingStatus
  BY <1>0, AtWork DEF WorkingStatus
<1>2. \A g : Good(Record(st, g))
  BY <1>1, RecordConsent, KinIsGood DEF Kin, TypeOK
<1>3. Good(st)
  BY DEF GateInv
<1>4. CASE MergeStart
  <2>1. PICK way \in Routes(st) :
          LET routed == PrePassItems(Route(st, way))
          IN  IF Open(routed) # {} THEN Return(Goto(routed, "AWAITING_HUMAN"))
              ELSE Step(routed, "items")
    BY <1>4 DEF MergeStart
  <2> DEFINE routed == PrePassItems(Route(st, way))
  <2>2. routed \in State /\ Kin(routed)
    BY <1>1, RouteStatus, RouteConsent, RouteType, PrePassItemsType DEF TypeOK, Kin
  <2>3. Good(routed) /\ Good(Goto(routed, "AWAITING_HUMAN"))
    BY <1>1, <2>2, KinIsGood, HaltIsGood
  <2>. QED  BY <2>1, <2>3, StepIsGood, LeaveIsGood
<1>5. CASE ApplyItemChoices
  <2>1. PICK g \in [Actionable(st) -> DispatchOutcome], safe \in SUBSET File :
          Step(Downgrade([Record(st, g) EXCEPT !.removed = @ \cup Actionable(st)], safe),
               "merge")
    BY <1>5 DEF ApplyItemChoices
  <2> DEFINE a == [Record(st, g) EXCEPT !.removed = @ \cup Actionable(st)]
  <2>2. Record(st, g) \in State
    BY RecordType DEF TypeOK, DispatchOutcome, RecordState
  <2>3. a \in State
    <3>1. Record(st, g).removed \cup Actionable(st) \in SUBSET File
      BY <2>2 DEF State, Actionable
    <3>. QED  BY <2>2, <3>1, FieldTypes
  <2>4. Kin(a)
    <3>1. /\ a.status = Record(st, g).status /\ a.conclusion = Record(st, g).conclusion
          /\ a.plan_human_review = Record(st, g).plan_human_review
      BY <2>2 DEF State
    <3>. QED  BY <1>1, <3>1, RecordConsent DEF Kin, TypeOK
  <2>5. Kin(Downgrade(a, safe))
    <3> HIDE DEF a
    <3>. QED  BY <2>3, <2>4 DEF Downgrade, State, Kin
  <2>. QED  BY <1>1, <2>1, <2>5, KinIsGood, StepIsGood
<1>6. CASE MergeLayer
  <2>1. PICK g : st' = Record(st, g) /\ (UNCHANGED disk \/ SaveInPhase)
    BY <1>6 DEF MergeLayer
  <2>. QED  BY <1>2, <2>1, SaveIsGood
<1>7. CASE SubReviewApproves
  <2>1. st' = st /\ (UNCHANGED disk \/ SaveInPhase)
    BY <1>7, Zenon DEF SubReviewApproves
  <2>. QED  BY <1>3, <2>1, SaveIsGood
<1>8. CASE SubReviewDispute
  BY <1>2, <1>8, StepIsGood DEF SubReviewDispute
<1>9. CASE SubReviewExhausted
  <2> DEFINE s(requests) == [st EXCEPT !.exhausted = TRUE, !.status = "AWAITING_HUMAN",
                                       !.requests = requests]
  <2>1. PICK requests : Pause(s(requests))
    BY <1>9 DEF SubReviewExhausted
  <2>2. Kin(s(requests))
    BY DEF Kin, TypeOK, State
  <2>. QED  BY <1>1, <2>1, <2>2, KinIsGood, LeaveIsGood
<1>10. CASE MergeGateFails
  BY <1>3, <1>10, HaltIsGood, LeaveIsGood DEF MergeGateFails, TypeOK
<1>11. CASE MergeFinish
  <2> DEFINE r(takes, g) == Record(Accounted(takes), g)
             s(a, p, t) == [a EXCEPT !.pending_conflict = p, !.status = t]
  <2>1. PICK takes, drifted, stuck : takes \in Takes /\
          LET unhandled == Unhandled(Record(st, takes)) \cup stuck
              risky == \E f \in File : st.risk[f] = "risky"
              a == r(takes, [f \in drifted |-> IF f \in stuck THEN "none" ELSE "auto"])
          IN  Return(s(a, IF unhandled = {} THEN a.pending_conflict ELSE unhandled,
                          IF risky \/ unhandled # {} THEN "ANALYZING_CONFLICTS"
                          ELSE "JUDGE_REVIEWING"))
    BY <1>11 DEF MergeFinish
  <2> DEFINE a == r(takes, [f \in drifted |-> IF f \in stuck THEN "none" ELSE "auto"])
  <2>2. a \in State /\ Kin(a)
    <3>1. a \in State
      BY <2>1, AccountedConsent, RecordType DEF TypeOK, RecordState
    <3>. QED  BY <1>1, <2>1, <3>1, AccountedConsent, RecordConsent DEF TypeOK, Kin
  <2>3. \A p : \A t \in {"ANALYZING_CONFLICTS", "JUDGE_REVIEWING"} : Good(s(a, p, t))
    <3> HIDE DEF a
    <3>1. \A p : \A t \in {"ANALYZING_CONFLICTS", "JUDGE_REVIEWING"} : Kin(s(a, p, t))
      BY <2>2 DEF State, Kin, WorkingStatus
    <3>. QED  BY <1>1, <3>1, KinIsGood
  <2> DEFINE p == IF Unhandled(Record(st, takes)) \cup stuck = {} THEN a.pending_conflict
                  ELSE Unhandled(Record(st, takes)) \cup stuck
  <2>4. Return(s(a, p, "ANALYZING_CONFLICTS")) \/ Return(s(a, p, "JUDGE_REVIEWING"))
    BY <2>1, Zenon
  <2> HIDE DEF a, p, s
  <2>. QED  BY <2>3, <2>4, LeaveIsGood
<1>12. CASE DriftIsFatal
  <2>1. PICK takes, drifted : takes \in Takes /\ Return([Accounted(takes) EXCEPT !.pending_conflict = drifted])
    BY <1>12 DEF DriftIsFatal
  <2>2. Kin([Accounted(takes) EXCEPT !.pending_conflict = drifted])
    BY <1>1, <2>1, AccountedConsent DEF TypeOK, State, Kin
  <2>. QED  BY <1>1, <2>1, <2>2, KinIsGood, LeaveIsGood
<1>. QED
  BY <1>4, <1>5, <1>6, <1>7, <1>8, <1>9, <1>10, <1>11, <1>12 DEF AutoMergeNext

LEMMA ConflictKeepsGate ==
  ASSUME LifeInv, TypeOK', GateInv, ConflictNext
  PROVE  GateInv'
<1> USE DEF LifeInv
<1>0. st.status = "ANALYZING_CONFLICTS"
  BY At, Places
     DEF ConflictNext, ConflictStart, Analyze, AskHuman, Resolve, ConflictFinish, Dispatch
<1>1. Consented(st) /\ st.status \in WorkingStatus
  BY <1>0, AtWork DEF WorkingStatus
<1>2. \A g : Good(Record(st, g))
  BY <1>1, RecordConsent, KinIsGood DEF Kin, TypeOK
<1>3. CASE ConflictStart
  <2>1. Kin([st EXCEPT !.current_phase = "conflict_analysis"])
    BY <1>1 DEF Kin, TypeOK, State
  <2>. QED  BY <1>1, <1>3, <2>1, KinIsGood, StepIsGood DEF ConflictStart
<1>4. CASE Analyze
  <2>1. PICK g, analyses : /\ \A f \in DOMAIN g : g[f] \in RecordState
                           /\ st' = [Record(st, g) EXCEPT !.analyses = analyses]
                           /\ UNCHANGED disk \/ SaveInPhase
    BY <1>4 DEF Analyze, Repairs, RecordState
  <2>2. Record(st, g) \in State
    BY <2>1, RecordType DEF TypeOK
  <2>3. Kin([Record(st, g) EXCEPT !.analyses = analyses])
    BY <1>1, <2>2, RecordConsent DEF Kin, TypeOK, State
  <2>. QED  BY <1>1, <2>1, <2>3, KinIsGood, SaveIsGood
<1>5. ASSUME NEW f \in File, AskHuman(f)
      PROVE  GateInv'
  <2>1. Kin([st EXCEPT !.requests[f] = "open"])
    BY <1>1 DEF Kin, TypeOK, State
  <2>. QED  BY <1>1, <1>5, <2>1, KinIsGood, StepIsGood DEF AskHuman
<1>6. ASSUME NEW f \in File, Resolve(f)
      PROVE  GateInv'
  <2>1. PICK g : st' = Record(st, g) /\ (UNCHANGED disk \/ SaveInPhase)
    BY <1>6 DEF Resolve
  <2>. QED  BY <1>2, <2>1, SaveIsGood
<1>7. CASE ConflictFinish
  <2>1. PICK t \in {"JUDGE_REVIEWING", "AWAITING_HUMAN"} : Return(Goto(st, t))
    BY <1>7 DEF ConflictFinish
  <2>2. Kin(Goto(st, t))
    BY DEF Goto, Kin, TypeOK, State, WorkingStatus
  <2>. QED  BY <1>1, <2>1, <2>2, KinIsGood, LeaveIsGood
<1>. QED  BY <1>3, <1>4, <1>5, <1>6, <1>7 DEF ConflictNext

(* Without a consent nothing is surfaced and nothing can be dispatched: the *)
(* phase has nothing to do but ask again or end the run.                    *)
LEMMA NothingToDispatch ==
  ASSUME TypeOK, Untouched(st), NEW g \in Dispatched(Surface(st))
  PROVE  Untouched(Record(Surface(st), g))
<1>1. Escalations(st) = {}
  BY DEF Escalations, Untouched, None
<1>2. Surface(st).surfaced = {} /\ Surface(st) \in State
  <2>1. Surface(st).surfaced = st.surfaced \cup Escalations(st)
    BY DEF Surface, TypeOK, State
  <2>. QED  BY <1>1, <2>1, SurfaceType DEF Untouched, TypeOK
<1>3. /\ Surface(st).records = None /\ Surface(st).requests = None
      /\ Surface(st).verdict = "none"
  BY DEF Surface, Untouched, TypeOK, State
<1>4. DOMAIN g = {}
  BY <1>2 DEF Dispatched
<1>5. Record(Surface(st), g).records = Overlay(None, g)
  BY <1>2, <1>3 DEF Record, State
<1>6. Overlay(None, g) = None
  BY <1>4 DEF Overlay, None
<1>7. /\ Record(Surface(st), g).requests = None
      /\ Record(Surface(st), g).verdict = "none" /\ Record(Surface(st), g).surfaced = {}
  BY <1>2, <1>3 DEF Record, State
<1>. QED  BY <1>5, <1>6, <1>7 DEF Untouched

\* What the phase has surfaced and dispatched changes no consent.
LEMMA DispatchedConsent ==
  ASSUME TypeOK, NEW g \in Dispatched(Surface(st))
  PROVE  LET s == Record(Surface(st), g)
         IN  /\ s \in State /\ s.status = st.status /\ s.conclusion = st.conclusion
             /\ s.plan_human_review = st.plan_human_review
<1>1. /\ Surface(st).status = st.status /\ Surface(st).conclusion = st.conclusion
      /\ Surface(st).plan_human_review = st.plan_human_review
  BY DEF Surface, TypeOK, State
<1>. QED  BY <1>1, SurfaceType, DispatchedType, RecordConsent DEF TypeOK

LEMMA HumanReviewKeepsGate ==
  ASSUME LifeInv, TypeOK', GateInv, HumanReviewNext
  PROVE  GateInv'
<1> USE DEF LifeInv
<1>1. CASE HumanReview
  <2>1. PICK g \in Dispatched(Surface(st)) :
          LET s == Record(Surface(st), g)
          IN  \/ Accept(s) \/ Abort(s) \/ RerunRefused(s) \/ Rerun(s)
              \/ AwaitVerdict(s) \/ AwaitRequests(s) \/ ExecuteDecisions(s)
              \/ AwaitPlanReview(s) \/ RejectPlan(s) \/ AwaitItems(s)
              \/ SkipMerge(s) \/ StartMerge(s)
    BY <1>1 DEF HumanReview
  <2>2. PICK s : s = Record(Surface(st), g)
    OBVIOUS
  <2>3. /\ s \in State /\ s.status = "AWAITING_HUMAN" /\ s.conclusion = st.conclusion
        /\ s.plan_human_review = st.plan_human_review /\ st.status = "AWAITING_HUMAN"
    BY <1>1, <2>2, DispatchedConsent DEF HumanReview, Dispatch
  <2>4. Consented(s) \/ Untouched(s)
    BY <2>2, <2>3, NothingToDispatch DEF GateInv, Good, PlanGate, Consented
  <2>5. Good(s)
    BY <2>3, <2>4 DEF Good, PlanGate, ReportGate, PlanningStatus, ReportStatus
  <2>6. Answered(s) \/ HasRequests(s) => Consented(s)
    BY <2>4 DEF Answered, AtVerdict, HasRequests, Untouched
  <2>7. \A t \in WorkingStatus : Consented(s) => Good(Goto(s, t))
    BY <2>3 DEF Goto, State, Good, PlanGate, ReportGate, Consented, WorkingStatus,
                PlanningStatus, ReportStatus
  <2>8. CASE Accept(s)
    <3>1. Good(Goto(s, "GENERATING_REPORT"))
      BY <2>3, <2>6, <2>8
         DEF Accept, Answered, AtVerdict, Goto, State, Good, PlanGate, ReportGate, Consented,
             PlanningStatus, ReportStatus
    <3>. QED  BY <2>8, <3>1, LeaveIsGood DEF Accept
  <2>9. CASE Abort(s) \/ RejectPlan(s)
    BY <2>3, <2>5, <2>9, HaltIsGood, LeaveIsGood DEF Abort, RejectPlan
  <2>10. CASE RerunRefused(s)
    <3>1. Good([s EXCEPT !.judge_resolution = "none", !.status = "FAILED"])
      BY <2>3, <2>4 DEF State, Good, PlanGate, ReportGate, Consented, Untouched,
                        PlanningStatus, ReportStatus
    <3>. QED  BY <2>10, <3>1, LeaveIsGood DEF RerunRefused
  <2>11. CASE Rerun(s)
    <3> DEFINE r == Record(s, [f \in s.failed_files |-> "none"])
               t == [r EXCEPT !.rerun_round = s.rerun_round + 1, !.judge_resolution = "none",
                              !.verdict = "none", !.failed_files = {},
                              !.status = "AUTO_MERGING"]
    <3>1. r \in State
      BY <2>3, RecordType DEF RecordState
    <3>2. /\ t.status = "AUTO_MERGING" /\ t.conclusion = r.conclusion
          /\ t.plan_human_review = r.plan_human_review
      BY <3>1 DEF State
    <3>3. Consented(t)
      BY <2>3, <2>6, <2>11, <3>2, RecordConsent DEF Rerun, Consented
    <3>4. Good(t)
      BY <3>2, <3>3 DEF Good, PlanGate, ReportGate, PlanningStatus, ReportStatus
    <3>. QED  BY <2>11, <3>4, LeaveIsGood DEF Rerun
  <2>12. CASE AwaitVerdict(s) \/ AwaitRequests(s) \/ AwaitPlanReview(s) \/ AwaitItems(s)
    BY <2>5, <2>12, LeaveIsGood DEF AwaitVerdict, AwaitRequests, AwaitPlanReview, AwaitItems
  <2>13. CASE ExecuteDecisions(s)
    BY <2>6, <2>7, <2>13, StepIsGood DEF ExecuteDecisions, AtRequests, WorkingStatus
  <2>14. CASE SkipMerge(s) \/ StartMerge(s)
    <3>1. Consented(s)
      BY <2>14 DEF SkipMerge, StartMerge, Approved, Consented
    <3>. QED  BY <2>7, <2>14, <3>1, LeaveIsGood DEF SkipMerge, StartMerge, WorkingStatus
  <2>. QED  BY <2>1, <2>2, <2>8, <2>9, <2>10, <2>11, <2>12, <2>13, <2>14
<1>2. CASE FinishDecisions
  <2>1. Consented(st)
    BY <1>2, At, Places, AtWork DEF FinishDecisions, WorkingStatus
  <2>2. PICK g \in CatchUps(st) :
          LET s == Record(st, g)
              r == Record(s, [f \in Stuck(s) |-> "esc"])
          IN  Return(Goto(r, "JUDGE_REVIEWING")) \/ Return(Goto(r, "ANALYZING_CONFLICTS"))
    BY <1>2 DEF FinishDecisions
  <2> DEFINE s == Record(st, g)
             r == Record(s, [f \in Stuck(s) |-> "esc"])
  <2>3. s \in State
    BY RecordType DEF TypeOK, CatchUps, RecordState
  <2>4. r \in State
    BY <2>3, RecordType DEF RecordState
  <2>5. /\ r.conclusion = st.conclusion /\ r.plan_human_review = st.plan_human_review
    BY <2>3, RecordConsent DEF TypeOK
  <2>6. \A t \in {"JUDGE_REVIEWING", "ANALYZING_CONFLICTS"} : Kin(Goto(r, t))
    <3> HIDE DEF r
    <3>. QED  BY <2>4, <2>5 DEF Goto, State, Kin, WorkingStatus
  <2>. QED  BY <2>1, <2>2, <2>6, KinIsGood, LeaveIsGood
<1>3. ASSUME NEW f \in File, ApplyDecision(f)
      PROVE  GateInv'
  <2>1. PICK s \in {st} \cup {Record(st, g) : g \in [{f} -> DispatchOutcome]} : Step(s, "apply")
    BY <1>3 DEF ApplyDecision
  <2>2. Consented(st) /\ st.status \in WorkingStatus
    BY <1>3, At, Places, AtWork DEF ApplyDecision, WorkingStatus
  <2>3. Kin(s)
    BY <2>1, <2>2, RecordConsent DEF Kin, TypeOK
  <2>. QED  BY <2>1, <2>2, <2>3, KinIsGood, StepIsGood
<1>. QED  BY <1>1, <1>2, <1>3 DEF HumanReviewNext

(* Only a PASS leaves the Judge for the report.                            *)
LEMMA JudgeKeepsGate ==
  ASSUME LifeInv, TypeOK', GateInv, JudgeNext
  PROVE  GateInv'
<1> USE DEF LifeInv
<1>1. CASE Report
  <2>1. Good([st EXCEPT !.current_phase = "report", !.status = "COMPLETED",
                        !.dropped = {f \in File : st.records[f] = "esc"}])
    BY <1>1 DEF Report, Dispatch, TypeOK, State, GateInv, Good, PlanGate, ReportGate,
                Consented, Untouched, PlanningStatus, ReportStatus
  <2>. QED  BY <1>1, <2>1, LeaveIsGood DEF Report
<1>2. CASE ~Report
  <2>0. st.status = "JUDGE_REVIEWING"
    BY <1>2, At, Places
       DEF JudgeNext, JudgeStart, JudgeRun, JudgeRepair, OnlyHumanDecided,
           RebuttalAccepted, RebuttalRejected, JudgeGateFails, Passed, NotPassed, Dispatch
  <2>1. Consented(st) /\ st.status \in WorkingStatus
    BY <2>0, AtWork DEF WorkingStatus
  <2>2. Good(st)
    BY DEF GateInv
  <2>3. CASE JudgeStart
    <3>1. Kin([st EXCEPT !.current_phase = "judge_review"])
      BY <2>1 DEF Kin, TypeOK, State
    <3>. QED  BY <2>1, <2>3, <3>1, KinIsGood, StepIsGood DEF JudgeStart
  <2>4. CASE JudgeRun
    <3> DEFINE s(v, failed) == [st EXCEPT !.verdict = v, !.failed_files = failed]
    <3>1. PICK v, failed : Step(s(v, failed), "verdict") \/ Step(s(v, failed), "judged")
      BY <2>4 DEF JudgeRun
    <3>2. Kin(s(v, failed))
      BY <2>1 DEF Kin, TypeOK, State
    <3>. QED  BY <2>1, <3>1, <3>2, KinIsGood, StepIsGood
  <2>5. CASE JudgeRepair
    <3>1. PICK g : st' = Record(st, g) /\ (UNCHANGED disk \/ SaveInPhase)
      BY <2>5 DEF JudgeRepair
    <3>2. Kin(Record(st, g))
      BY <2>1, RecordConsent DEF Kin, TypeOK
    <3>. QED  BY <2>1, <3>1, <3>2, KinIsGood, SaveIsGood
  <2>6. CASE OnlyHumanDecided \/ RebuttalRejected
    BY <2>2, <2>6, StepIsGood, SaveIsGood DEF OnlyHumanDecided, RebuttalRejected
  <2>7. CASE RebuttalAccepted
    <3>1. Kin([st EXCEPT !.verdict = "PASS"])
      BY <2>1 DEF Kin, TypeOK, State
    <3>. QED  BY <2>1, <2>7, <3>1, KinIsGood, StepIsGood DEF RebuttalAccepted
  <2>8. CASE JudgeGateFails \/ NotPassed
    BY <2>2, <2>8, HaltIsGood, LeaveIsGood DEF JudgeGateFails, NotPassed, TypeOK
  <2>9. CASE Passed
    <3>1. Good(Goto(st, "GENERATING_REPORT"))
      BY <2>1, <2>9 DEF Passed, Goto, TypeOK, State, Good, PlanGate, ReportGate, Consented,
                        PlanningStatus, ReportStatus
    <3>2. Good([st EXCEPT !.verdict = "FAIL", !.status = "AWAITING_HUMAN"])
      <4>1. Kin([st EXCEPT !.verdict = "FAIL", !.status = "AWAITING_HUMAN"])
        BY DEF Kin, TypeOK, State
      <4>. QED  BY <2>1, <4>1, KinIsGood
    <3>3. Good(Goto(st, "AWAITING_HUMAN"))
      BY <2>2, HaltIsGood DEF TypeOK
    <3>. QED  BY <2>9, <3>1, <3>2, <3>3, LeaveIsGood DEF Passed
  <2>. QED
    BY <1>2, <2>3, <2>4, <2>5, <2>6, <2>7, <2>8, <2>9 DEF JudgeNext
<1>. QED  BY <1>1, <1>2

-----------------------------------------------------------------------------
LEMMA RunStepKeepsGate ==
  ASSUME LifeInv, TypeOK', GateInv, RunStep
  PROVE  GateInv'
<1>0. st \in State /\ Good(st)
  BY DEF LifeInv, TypeOK, GateInv
<1>1. CASE PhaseNext
  BY <1>1, PlanningKeepsGate, AutoMergeKeepsGate, ConflictKeepsGate,
     HumanReviewKeepsGate, JudgeKeepsGate DEF PhaseNext
<1>2. CASE DryRunHalt \/ CeilingHalt
  BY <1>0, <1>2, HaltIsGood, LeaveIsGood DEF DryRunHalt, CeilingHalt
<1>3. CASE LoopEnd
  BY <1>3 DEF LoopEnd, GateInv, Good, PlanGate, ReportGate, Consented, Untouched
<1>. QED  BY <1>1, <1>2, <1>3 DEF RunStep

(* A crash restores a state that kept the consents; a fault only ends the  *)
(* run, asks the user or saves it as it is.                                *)
LEMMA FaultKeepsGate ==
  ASSUME LifeInv, GateInv, Fault
  PROVE  GateInv'
<1>0. st \in State /\ Good(st)
  BY DEF LifeInv, TypeOK, GateInv
<1>1. CASE PhaseError \/ BudgetExceeded
  BY <1>0, <1>1, HaltIsGood, LeaveIsGood DEF PhaseError, BudgetExceeded
<1>2. \A b : Good([st EXCEPT !.spent = b])
  BY <1>0 DEF State, Good, PlanGate, ReportGate, Consented, Untouched
<1>3. CASE Spend
  BY <1>2, <1>3 DEF Spend, GateInv, Good, PlanGate, ReportGate, Consented, Untouched
<1>4. CASE Interrupt
  BY <1>2, <1>4, LeaveIsGood DEF Interrupt
<1>5. CASE Kill
  BY <1>5 DEF Kill, GateInv, Good, PlanGate, ReportGate, Consented, Untouched
<1>. QED  BY <1>1, <1>3, <1>4, <1>5 DEF Fault

(* The user gives consents and never withdraws one: an approval is final.  *)
LEMMA UserKeepsGate ==
  ASSUME LifeInv, GateInv, User
  PROVE  GateInv'
<1>0. st \in State /\ Good(st) /\ Good(disk)
  BY DEF LifeInv, TypeOK, GateInv
<1>1. SUFFICES UNCHANGED disk /\ Good(st')
  BY <1>0 DEF GateInv, Good, PlanGate, ReportGate, Consented, Untouched
<1>2. UNCHANGED disk
  BY DEF User, ReviewPlan, ChooseItem, Decide, ResolveVerdict, Resume, ResumeEnded, Input, vars
<1>3. ASSUME NEW d \in {"approve", "reject", "modify"}, ReviewPlan(d)
      PROVE  Good(st')
  BY <1>0, <1>3 DEF ReviewPlan, Input, Waiting, State, Good, PlanGate, ReportGate, Consented,
                    Untouched, PlanningStatus, ReportStatus
<1>4. ASSUME NEW f \in File, NEW choice, ChooseItem(f, choice)
      PROVE  Good(st')
  BY <1>0, <1>4 DEF ChooseItem, Input, State, Good, PlanGate, ReportGate, Consented, Untouched
<1>5. ASSUME NEW f \in File, Decide(f)
      PROVE  Good(st')
  <2>1. Consented(st)
    BY <1>0, <1>5 DEF Decide, Good, PlanGate, Untouched, None
  <2>2. Kin([st EXCEPT !.requests[f] = "decided"])
    BY <1>0, <1>5 DEF Decide, Waiting, State, Kin
  <2>. QED  BY <1>5, <2>1, <2>2, KinIsGood DEF Decide, Input
<1>6. ASSUME NEW r, ResolveVerdict(r)
      PROVE  Good(st')
  BY <1>0, <1>6 DEF ResolveVerdict, Input, Waiting, State, Good, PlanGate, ReportGate,
                    Consented, Untouched, ReportStatus
<1>7. ASSUME NEW dry, Resume(dry)
      PROVE  Good(st')
  BY <1>0, <1>7 DEF Resume, State, Good, PlanGate, ReportGate, Consented, Untouched
<1>8. CASE ResumeEnded
  BY <1>0, <1>8 DEF ResumeEnded, vars, Good, PlanGate, ReportGate, Consented, Untouched
<1>. QED  BY <1>2, <1>3, <1>4, <1>5, <1>6, <1>7, <1>8 DEF User

(* Without a consent a run has no record, request, verdict or surfaced     *)
(* escalation, in memory and in the checkpoint.                            *)
THEOREM GateIsInductive == Spec => []GateInv
<1>1. Init => GateInv
  BY DEF Init, InitialState, GateInv, Good, PlanGate, ReportGate, Consented, Untouched,
         PlanningStatus, ReportStatus
<1>2. LifeInv /\ TypeOK' /\ GateInv /\ [Next]_vars => GateInv'
  <2>1. LifeInv /\ TypeOK' /\ GateInv /\ Next => GateInv'
    BY RunStepKeepsGate, FaultKeepsGate, UserKeepsGate DEF Next
  <2>2. GateInv /\ UNCHANGED vars => GateInv'
    BY DEF GateInv, Good, PlanGate, ReportGate, Consented, Untouched, vars
  <2>. QED  BY <2>1, <2>2
<1>. QED  BY <1>1, <1>2, TypeCorrect, StatusIsWhereItSays, PTL DEF Spec

(* No file is decided under a plan that neither the plan judge nor the     *)
(* user has approved, for every plan, gate, resume and crash.              *)
THEOREM NoPlanWithoutApproval == Spec => []UnapprovedPlanNeverRuns
<1>1. GateInv => UnapprovedPlanNeverRuns
  BY DEF GateInv, Good, PlanGate, Consented, Untouched, UnapprovedPlanNeverRuns
<1>. QED  BY <1>1, GateIsInductive, PTL

(* A run reports and completes only on a PASS of the Judge or on a verdict *)
(* the user has accepted, whichever process wrote the report.              *)
THEOREM NoReportWithoutConsent == Spec => []ReportNeedsConsent
<1>1. GateInv => ReportNeedsConsent
  BY DEF GateInv, Good, ReportGate, ReportStatus, ReportNeedsConsent
<1>. QED  BY <1>1, GateIsInductive, PTL
=============================================================================
