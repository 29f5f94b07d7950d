--------------------------- MODULE LifecycleProofs ---------------------------
(***************************************************************************)
(* The orchestrator implements the abstract life cycle of RunLifecycle.    *)
(* What makes the simulation work is that a phase at work knows the status *)
(* it is in (Located): the status a phase leaves is then a function of the *)
(* point it leaves from, and each change is an edge of VALID_TRANSITIONS.  *)
(***************************************************************************)
EXTENDS OrchestratorProofs

\* The inductive invariant of the simulation.
LifeInv == TypeOK /\ Located

\* A step of the orchestrator as the life cycle sees it.
LifeStep == [Life!LifeNext]_(Life!lifeVars)

(* The edges of the table the phases use.                                  *)
LEMMA Edges ==
  /\ can_transition("INITIALIZED", "PLANNING")
  /\ can_transition("PLANNING", "PLAN_REVIEWING")
  /\ \A t \in {"AUTO_MERGING", "PLAN_REVISING", "AWAITING_HUMAN", "PLANNING"} :
       can_transition("PLAN_REVIEWING", t)
  /\ can_transition("PLAN_REVISING", "PLAN_REVIEWING")
  /\ \A t \in {"ANALYZING_CONFLICTS", "JUDGE_REVIEWING", "AWAITING_HUMAN"} :
       can_transition("AUTO_MERGING", t)
  /\ \A t \in {"AWAITING_HUMAN", "JUDGE_REVIEWING"} : can_transition("ANALYZING_CONFLICTS", t)
  /\ \A t \in {"AUTO_MERGING", "JUDGE_REVIEWING", "GENERATING_REPORT", "FAILED"} :
       can_transition("AWAITING_HUMAN", t)
  /\ \A t \in {"GENERATING_REPORT", "AWAITING_HUMAN"} : can_transition("JUDGE_REVIEWING", t)
  /\ can_transition("GENERATING_REPORT", "COMPLETED")
  /\ \A t \in PHASE_MAP : can_transition(t, "FAILED")
BY DEF can_transition, VALID_TRANSITIONS, SystemStatus, PHASE_MAP

\* Both modules read the same table.
LEMMA SameTable ==
  ASSUME NEW s, NEW t
  PROVE  Life!can_transition(s, t) = can_transition(s, t)
BY DEF can_transition, VALID_TRANSITIONS, SystemStatus,
       Life!can_transition, Life!VALID_TRANSITIONS, Life!SystemStatus

\* The status of s may follow the current one.
Follows(s) == s.status = st.status \/ can_transition(st.status, s.status)

(* How control leaves an action keeps the simulation.                      *)
LEMMA StepSimulates ==
  ASSUME NEW s, NEW p \in PC \ {Idle, "loop"}, Step(s, p), Follows(s), s.status = StatusAt[p]
  PROVE  LifeStep /\ Located'
BY SameTable
   DEF Step, Follows, Located, LifeStep, Life!LifeNext, Life!Move, Life!lifeVars

LEMMA LeaveSimulates ==
  ASSUME NEW s, Return(s) \/ Pause(s), Follows(s)
  PROVE  LifeStep /\ Located'
BY SameTable DEF Return, Pause, Leave, Follows, Located, LifeStep, Life!LifeNext,
                 Life!Move, Life!SaveInPlace

\* Work that leaves the status alone, with or without a save inside the phase.
LEMMA StaySimulates ==
  ASSUME TypeOK, TypeOK', st'.status = st.status, UNCHANGED disk \/ SaveInPhase
  PROVE  LifeStep
<1>1. CASE UNCHANGED disk
  BY <1>1 DEF LifeStep, Life!lifeVars
<1>2. CASE SaveInPhase
  <2>1. disk'.status = st'.status
    BY <1>2 DEF SaveInPhase, TypeOK, State
  <2>. QED  BY <2>1 DEF LifeStep, Life!LifeNext, Life!SaveInPlace
<1>. QED  BY <1>1, <1>2

LEMMA Places ==
  /\ StatusAt["review"] = "PLAN_REVIEWING" /\ StatusAt["stalled"] = "PLAN_REVIEWING"
  /\ StatusAt["replan"] = "PLANNING" /\ StatusAt["revise"] = "PLAN_REVISING"
  /\ \A p \in {"items", "merge", "subreview", "finish", "apply"} : StatusAt[p] = "AUTO_MERGING"
  /\ \A p \in {"analyze", "strategy"} : StatusAt[p] = "ANALYZING_CONFLICTS"
  /\ \A p \in {"judge", "judged", "verdict"} : StatusAt[p] = "JUDGE_REVIEWING"
  /\ \A p \in {"review", "stalled", "replan", "revise", "items", "merge", "subreview",
               "finish", "apply", "analyze", "strategy", "judge", "judged", "verdict"} :
       p \in PC \ {Idle, "loop"}
BY DEF StatusAt, PC, Idle

\* Where the coroutine stands inside a phase, the status is known.
LEMMA At ==
  ASSUME LifeInv, NEW p \in PC \ {Idle, "loop"}, pc = p
  PROVE  st.status = StatusAt[p]
BY DEF LifeInv, Located

\* Records do not touch the status.
LEMMA RecordStatus ==
  ASSUME NEW s \in State, NEW g
  PROVE  Record(s, g).status = s.status
BY DEF Record, State

LEMMA GotoStatus ==
  ASSUME NEW s \in State, NEW t
  PROVE  Goto(s, t).status = t
BY DEF Goto, State

LEMMA PlanningLife ==
  ASSUME LifeInv, PlanningNext
  PROVE  LifeStep /\ Located'
<1> USE DEF LifeInv
<1>1. CASE Initialize
  <2>1. Follows([st EXCEPT !.status = "PLANNING", !.current_phase = "init"])
    BY <1>1, Edges DEF Initialize, Dispatch, Follows, TypeOK, State
  <2>. QED  BY <1>1, <2>1, LeaveSimulates DEF Initialize
<1>2. CASE Planning
  <2>1. PICK plan \in Plans :
          Return([st EXCEPT !.status = "PLAN_REVIEWING", !.current_phase = "analysis",
                            !.risk = plan])
    BY <1>2 DEF Planning
  <2>2. Follows([st EXCEPT !.status = "PLAN_REVIEWING", !.current_phase = "analysis",
                           !.risk = plan])
    BY <1>2, Edges DEF Planning, Dispatch, Follows, TypeOK, State
  <2>. QED  BY <2>1, <2>2, LeaveSimulates
<1>3. CASE PlanReviewStart
  <2> DEFINE s == [st EXCEPT !.current_phase = "plan_review"]
  <2>1. Follows(s) /\ s.status = "PLAN_REVIEWING"
    BY <1>3 DEF PlanReviewStart, Dispatch, Follows, TypeOK, State
  <2>. QED  BY <1>3, <2>1, Places, StepSimulates DEF PlanReviewStart
<1>4. CASE RejectShape
  <2>1. Follows([st EXCEPT !.conclusion = "other", !.status = "AWAITING_HUMAN"])
    BY <1>4, At, Places, Edges DEF RejectShape, Follows, TypeOK, State
  <2>. QED  BY <1>4, <2>1, LeaveSimulates DEF RejectShape
<1>5. CASE JudgeUnavailable \/ ReviewGivesUp
  <2>1. \A levels : Follows(HandOver(st, levels))
    BY <1>5, At, Places, Edges
       DEF JudgeUnavailable, ReviewGivesUp, HandOver, Follows, TypeOK, State
  <2>. QED  BY <1>5, <2>1, LeaveSimulates DEF JudgeUnavailable, ReviewGivesUp
<1>6. CASE ApprovePlan
  <2> DEFINE items == ItemsFor(st, {"human"})
             s == [st EXCEPT !.items = items, !.surfaced = {}, !.conclusion = "approved",
                             !.status = IF items = None THEN "AUTO_MERGING"
                                        ELSE "AWAITING_HUMAN"]
  <2>1. s.status \in {"AUTO_MERGING", "AWAITING_HUMAN"}
    BY DEF TypeOK, State
  <2>2. Follows(s)
    BY <1>6, <2>1, At, Places, Edges DEF ApprovePlan, Follows
  <2>3. Return(s)
    BY <1>6 DEF ApprovePlan
  <2>. QED  BY <2>2, <2>3, LeaveSimulates
<1>7. CASE CriticalReplan
  <2> DEFINE s == [st EXCEPT !.conclusion = "other", !.status = "PLANNING",
                             !.current_phase = "analysis"]
  <2>1. Follows(s) /\ s.status = "PLANNING"
    BY <1>7, At, Places, Edges DEF CriticalReplan, Follows, TypeOK, State
  <2>. QED  BY <1>7, <2>1, Places, StepSimulates DEF CriticalReplan
<1>8. CASE Replan
  <2>1. PICK plan \in Plans : Return([st EXCEPT !.risk = plan, !.status = "PLAN_REVIEWING"])
    BY <1>8 DEF Replan
  <2>2. Follows([st EXCEPT !.risk = plan, !.status = "PLAN_REVIEWING"])
    BY <1>8, At, Places, Edges DEF Replan, Follows, TypeOK, State
  <2>. QED  BY <2>1, <2>2, LeaveSimulates
<1>9. CASE AskRevision
  <2> DEFINE s == [st EXCEPT !.status = "PLAN_REVISING", !.current_phase = "plan_revising"]
  <2>1. Follows(s) /\ s.status = "PLAN_REVISING"
    BY <1>9, At, Places, Edges DEF AskRevision, Follows, TypeOK, State
  <2>. QED  BY <1>9, <2>1, Places, StepSimulates DEF AskRevision
<1>10. CASE Revise
  <2> DEFINE s(plan) == [st EXCEPT !.risk = plan, !.status = "PLAN_REVIEWING",
                                   !.current_phase = "plan_review"]
  <2>1. PICK plan \in Plans : Step(s(plan), "review")
    BY <1>10 DEF Revise
  <2>2. Follows(s(plan)) /\ s(plan).status = "PLAN_REVIEWING"
    BY <1>10, At, Places, Edges DEF Revise, Follows, TypeOK, State
  <2>. QED  BY <2>1, <2>2, Places, StepSimulates
<1>11. CASE ReviseInVain
  <2> DEFINE s == [st EXCEPT !.items = ItemsFor(st, {"human"}), !.surfaced = {},
                             !.conclusion = "other", !.status = "PLAN_REVIEWING"]
  <2>1. Follows(s) /\ s.status = "PLAN_REVIEWING"
    BY <1>11, At, Places, Edges DEF ReviseInVain, Follows, TypeOK, State
  <2>. QED  BY <1>11, <2>1, Places, StepSimulates DEF ReviseInVain
<1>12. CASE Stalled
  <2>1. Follows(Goto(st, "AWAITING_HUMAN"))
    BY <1>12, At, Places, Edges, GotoStatus DEF Stalled, Follows, TypeOK
  <2>. QED  BY <1>12, <2>1, LeaveSimulates DEF Stalled
<1>. QED
  BY <1>1, <1>2, <1>3, <1>4, <1>5, <1>6, <1>7, <1>8, <1>9, <1>10, <1>11, <1>12
     DEF PlanningNext

LEMMA RouteStatus ==
  ASSUME NEW s \in State, NEW way
  PROVE  PrePassItems(Route(s, way)).status = s.status
<1> DEFINE escalated == Sent(s, way, {"user", "refused"})
           treated   == Sent(s, way, {"replay", "written"}) \cup escalated
           g == [f \in treated |-> IF f \in escalated THEN "esc" ELSE "auto"]
<1>1. Record(s, g) \in State
  BY RecordType DEF RecordState
<1>2. Route(s, way).status = Record(s, g).status
  BY <1>1 DEF Route, State
<1>3. PrePassItems(Route(s, way)).status = Route(s, way).status
  BY RouteType DEF PrePassItems, State
<1>. QED  BY <1>2, <1>3, RecordStatus

LEMMA AutoMergeLife ==
  ASSUME LifeInv, TypeOK', AutoMergeNext
  PROVE  LifeStep /\ Located'
<1> USE DEF LifeInv
<1>1. CASE MergeStart
  <2>1. PICK way \in Routes(st) :
          LET routed == PrePassItems(Route(st, way))
          IN  IF Open(routed) # {} THEN Return(Goto(routed, "AWAITING_HUMAN"))
              ELSE Step(routed, "items")
    BY <1>1 DEF MergeStart
  <2> DEFINE routed == PrePassItems(Route(st, way))
  <2>2. st.status = "AUTO_MERGING" /\ routed.status = "AUTO_MERGING" /\ routed \in State
    BY <1>1, RouteStatus, RouteType, PrePassItemsType DEF MergeStart, Dispatch, TypeOK
  <2>3. Follows(Goto(routed, "AWAITING_HUMAN")) /\ Follows(routed)
    BY <2>2, Edges, GotoStatus DEF Follows
  <2>. QED  BY <2>1, <2>2, <2>3, Places, StepSimulates, LeaveSimulates
<1>2. CASE ApplyItemChoices
  <2>1. PICK g \in [Actionable(st) -> DispatchOutcome], safe \in SUBSET File :
          Step(Downgrade([Record(st, g) EXCEPT !.removed = @ \cup Actionable(st)], safe),
               "merge")
    BY <1>2 DEF ApplyItemChoices
  <2> DEFINE a == [Record(st, g) EXCEPT !.removed = @ \cup Actionable(st)]
  <2>2. Record(st, g) \in State
    BY RecordType DEF TypeOK, DispatchOutcome, RecordState
  <2>3. a.status = st.status /\ a \in State
    <3>1. Record(st, g).removed \cup Actionable(st) \in SUBSET File
      BY <2>2 DEF State, Actionable
    <3>2. a \in State
      BY <2>2, <3>1, FieldTypes
    <3>3. a.status = Record(st, g).status
      BY <2>2 DEF State
    <3>. QED  BY <3>2, <3>3, RecordStatus DEF TypeOK
  <2>4. Downgrade(a, safe).status = a.status
    BY <2>3 DEF Downgrade, State
  <2>5. Follows(Downgrade(a, safe)) /\ Downgrade(a, safe).status = "AUTO_MERGING"
    BY <1>2, <2>3, <2>4, At, Places DEF ApplyItemChoices, Follows
  <2>. QED  BY <2>1, <2>5, Places, StepSimulates
<1>3. CASE MergeLayer
  <2>1. PICK g : /\ st' = Record(st, g) /\ pc' \in {"finish", "subreview"}
                 /\ UNCHANGED disk \/ SaveInPhase
    BY <1>3 DEF MergeLayer
  <2>2. st'.status = st.status
    <3>1. Record(st, g).status = st.status
      BY RecordStatus DEF TypeOK
    <3>. QED  BY <2>1, <3>1
  <2>3. Located'
    BY <1>3, <2>1, <2>2, At, Places DEF MergeLayer, Located
  <2>. QED  BY <2>1, <2>2, <2>3, StaySimulates
<1>4. CASE SubReviewApproves
  <2>1. st'.status = st.status
    BY <1>4 DEF SubReviewApproves
  <2>3. UNCHANGED disk \/ SaveInPhase
    BY <1>4, Zenon DEF SubReviewApproves
  <2>2. Located'
    BY <1>4, At, Places DEF SubReviewApproves, Located
  <2>. QED  BY <2>1, <2>2, <2>3, StaySimulates
<1>5. CASE SubReviewDispute
  <2>1. PICK g : Step(Record(st, g), "subreview")
    BY <1>5 DEF SubReviewDispute
  <2>2. Follows(Record(st, g)) /\ Record(st, g).status = "AUTO_MERGING"
    BY <1>5, At, Places, RecordStatus DEF SubReviewDispute, Follows, TypeOK
  <2>. QED  BY <2>1, <2>2, Places, StepSimulates
<1>6. CASE SubReviewExhausted
  <2>1. PICK requests : Pause([st EXCEPT !.exhausted = TRUE, !.status = "AWAITING_HUMAN",
                                         !.requests = requests])
    BY <1>6 DEF SubReviewExhausted
  <2>2. Follows([st EXCEPT !.exhausted = TRUE, !.status = "AWAITING_HUMAN",
                           !.requests = requests])
    BY <1>6, At, Places, Edges DEF SubReviewExhausted, Follows, TypeOK, State
  <2>. QED  BY <2>1, <2>2, LeaveSimulates
<1>7. CASE MergeGateFails
  <2>1. Follows(Goto(st, "AWAITING_HUMAN"))
    BY <1>7, At, Places, Edges, GotoStatus DEF MergeGateFails, Follows, TypeOK
  <2>. QED  BY <1>7, <2>1, LeaveSimulates DEF MergeGateFails
<1>8. CASE MergeFinish
  <2> DEFINE g(drifted, stuck) == [f \in drifted |-> IF f \in stuck THEN "none" ELSE "auto"]
             r(takes, drifted, stuck) == Record(Accounted(takes), g(drifted, stuck))
             s(a, p, t) == [a EXCEPT !.pending_conflict = p, !.status = t]
  <2>1. \E takes, drifted, stuck : takes \in Takes /\
          LET unhandled == Unhandled(Record(st, takes)) \cup stuck
              risky == \E f \in File : st.risk[f] = "risky"
              a == r(takes, drifted, stuck)
          IN  Return(s(a, IF unhandled = {} THEN a.pending_conflict ELSE unhandled,
                          IF risky \/ unhandled # {} THEN "ANALYZING_CONFLICTS"
                          ELSE "JUDGE_REVIEWING"))
    BY <1>8 DEF MergeFinish
  <2>2. \A takes, drifted, stuck : takes \in Takes => r(takes, drifted, stuck) \in State
    BY AccountedType, RecordType DEF TypeOK, RecordState
  <2>3. \A a \in State : \A p, t : s(a, p, t).status = t
    BY DEF State
  <2>4. \A a \in State : \A p : \A t \in {"ANALYZING_CONFLICTS", "JUDGE_REVIEWING"} :
          Follows(s(a, p, t))
    BY <1>8, <2>3, At, Places, Edges DEF MergeFinish, Follows
  <2>5. \E a \in State : \E p : \E t \in {"ANALYZING_CONFLICTS", "JUDGE_REVIEWING"} :
          Return(s(a, p, t))
    <3>1. PICK takes, drifted, stuck : takes \in Takes /\
            LET unhandled == Unhandled(Record(st, takes)) \cup stuck
                risky == \E f \in File : st.risk[f] = "risky"
                a == r(takes, drifted, stuck)
            IN  Return(s(a, IF unhandled = {} THEN a.pending_conflict ELSE unhandled,
                            IF risky \/ unhandled # {} THEN "ANALYZING_CONFLICTS"
                            ELSE "JUDGE_REVIEWING"))
      BY <2>1
    <3> DEFINE p == IF Unhandled(Record(st, takes)) \cup stuck = {}
                    THEN r(takes, drifted, stuck).pending_conflict
                    ELSE Unhandled(Record(st, takes)) \cup stuck
    <3>2. \/ Return(s(r(takes, drifted, stuck), p, "ANALYZING_CONFLICTS"))
          \/ Return(s(r(takes, drifted, stuck), p, "JUDGE_REVIEWING"))
      BY <3>1, Zenon
    <3>3. r(takes, drifted, stuck) \in State
      BY <2>2, <3>1
    <3> HIDE DEF r, s, p
    <3>. QED  BY <3>2, <3>3
  <2>. QED  BY <2>4, <2>5, LeaveSimulates
<1>9. CASE DriftIsFatal
  <2>1. PICK takes \in Takes :
          \E drifted \in (SUBSET DriftCandidates(Accounted(takes))) \ {{}} :
            Return([Accounted(takes) EXCEPT !.pending_conflict = drifted])
    BY <1>9 DEF DriftIsFatal
  <2>2. PICK drifted \in SUBSET DriftCandidates(Accounted(takes)) :
            Return([Accounted(takes) EXCEPT !.pending_conflict = drifted])
    BY <2>1
  <2>3. Accounted(takes) \in State /\ Accounted(takes).status = st.status
    <3>1. Record(st, takes) \in State
      BY AccountedType DEF TypeOK
    <3>. QED  BY <3>1, AccountedType, RecordStatus DEF TypeOK, Accounted
  <2>4. Follows([Accounted(takes) EXCEPT !.pending_conflict = drifted])
    BY <2>3 DEF Follows, State
  <2>. QED  BY <2>2, <2>4, LeaveSimulates
<1>. QED
  BY <1>1, <1>2, <1>3, <1>4, <1>5, <1>6, <1>7, <1>8, <1>9 DEF AutoMergeNext

LEMMA ConflictLife ==
  ASSUME LifeInv, TypeOK', ConflictNext
  PROVE  LifeStep /\ Located'
<1> USE DEF LifeInv
<1>1. CASE ConflictStart
  <2> DEFINE s == [st EXCEPT !.current_phase = "conflict_analysis"]
  <2>1. Follows(s) /\ s.status = "ANALYZING_CONFLICTS"
    BY <1>1 DEF ConflictStart, Dispatch, Follows, TypeOK, State
  <2>. QED  BY <1>1, <2>1, Places, StepSimulates DEF ConflictStart
<1>2. CASE Analyze
  <2>1. PICK g, analyses : /\ \A f \in DOMAIN g : g[f] \in RecordState
                           /\ st' = [Record(st, g) EXCEPT !.analyses = analyses]
                           /\ pc' = "strategy"
                           /\ UNCHANGED disk \/ SaveInPhase
    BY <1>2 DEF Analyze, Repairs, RecordState
  <2>2. Record(st, g) \in State
    BY <2>1, RecordType DEF TypeOK
  <2>3. st'.status = Record(st, g).status
    BY <2>1, <2>2 DEF State
  <2>4. st'.status = st.status /\ st.status = "ANALYZING_CONFLICTS"
    BY <1>2, <2>3, RecordStatus, At, Places DEF Analyze, TypeOK
  <2>5. LifeStep
    BY <2>1, <2>4, StaySimulates
  <2>. QED  BY <2>1, <2>4, <2>5, Places DEF Located
<1>3. ASSUME NEW f \in File, AskHuman(f)
      PROVE  LifeStep /\ Located'
  <2> DEFINE s == [st EXCEPT !.requests[f] = "open"]
  <2>1. Follows(s) /\ s.status = "ANALYZING_CONFLICTS"
    BY <1>3, At, Places DEF AskHuman, Follows, TypeOK, State
  <2>. QED  BY <1>3, <2>1, Places, StepSimulates DEF AskHuman
<1>4. ASSUME NEW f \in File, Resolve(f)
      PROVE  LifeStep /\ Located'
  <2>1. PICK g : st' = Record(st, g) /\ pc' = pc /\ (UNCHANGED disk \/ SaveInPhase)
    BY <1>4 DEF Resolve
  <2>2. st'.status = st.status
    <3>1. Record(st, g).status = st.status
      BY RecordStatus DEF TypeOK
    <3>. QED  BY <2>1, <3>1
  <2>3. LifeStep
    BY <2>1, <2>2, StaySimulates
  <2>. QED  BY <2>1, <2>2, <2>3 DEF Located
<1>5. CASE ConflictFinish
  <2>1. PICK t \in {"JUDGE_REVIEWING", "AWAITING_HUMAN"} : Return(Goto(st, t))
    BY <1>5 DEF ConflictFinish
  <2>2. Follows(Goto(st, t))
    BY <1>5, At, Places, Edges, GotoStatus DEF ConflictFinish, Follows, TypeOK
  <2>. QED  BY <2>1, <2>2, LeaveSimulates
<1>. QED  BY <1>1, <1>2, <1>3, <1>4, <1>5 DEF ConflictNext

LEMMA HumanReviewLife ==
  ASSUME LifeInv, TypeOK', HumanReviewNext
  PROVE  LifeStep /\ Located'
<1> USE DEF LifeInv
<1>1. CASE HumanReview
  <2>1. PICK g \in Dispatched(Surface(st)) :
          LET s == Record(Surface(st), g)
          IN  \/ Accept(s) \/ Abort(s) \/ RerunRefused(s) \/ Rerun(s)
              \/ AwaitVerdict(s) \/ AwaitRequests(s) \/ ExecuteDecisions(s)
              \/ AwaitPlanReview(s) \/ RejectPlan(s) \/ AwaitItems(s)
              \/ SkipMerge(s) \/ StartMerge(s)
    BY <1>1 DEF HumanReview
  <2>2. PICK s : s = Record(Surface(st), g)
    OBVIOUS
  <2>3. s \in State
    BY <2>2, DispatchedType DEF TypeOK
  <2>4. s.status = "AWAITING_HUMAN" /\ st.status = "AWAITING_HUMAN"
    <3>1. Surface(st).status = st.status
      BY DEF Surface, TypeOK, State
    <3>. QED  BY <1>1, <2>2, <3>1, SurfaceType, RecordStatus DEF HumanReview, Dispatch, TypeOK
  <2>5. \A t \in {"GENERATING_REPORT", "FAILED", "JUDGE_REVIEWING", "AUTO_MERGING"} :
          Follows(Goto(s, t)) /\ Goto(s, t).status = t
    BY <2>3, <2>4, Edges, GotoStatus DEF Follows
  <2>6. CASE Accept(s) \/ Abort(s) \/ RejectPlan(s) \/ SkipMerge(s) \/ StartMerge(s)
    BY <2>5, <2>6, LeaveSimulates DEF Accept, Abort, RejectPlan, SkipMerge, StartMerge
  <2>7. CASE RerunRefused(s)
    <3>1. Follows([s EXCEPT !.judge_resolution = "none", !.status = "FAILED"])
      BY <2>3, <2>4, Edges DEF Follows, State
    <3>. QED  BY <2>7, <3>1, LeaveSimulates DEF RerunRefused
  <2>8. CASE Rerun(s)
    <3> DEFINE r == Record(s, [f \in s.failed_files |-> "none"])
               t == [r EXCEPT !.rerun_round = s.rerun_round + 1, !.judge_resolution = "none",
                              !.verdict = "none", !.failed_files = {},
                              !.status = "AUTO_MERGING"]
    <3>1. r \in State
      BY <2>3, RecordType DEF RecordState
    <3>2. t.status = "AUTO_MERGING"
      BY <3>1 DEF State
    <3>3. Follows(t)
      BY <2>4, <3>2, Edges DEF Follows
    <3>. QED  BY <2>8, <3>3, LeaveSimulates DEF Rerun
  <2>9. CASE AwaitVerdict(s) \/ AwaitRequests(s) \/ AwaitPlanReview(s) \/ AwaitItems(s)
    <3>1. Follows(s)
      BY <2>4 DEF Follows
    <3>. QED  BY <2>9, <3>1, LeaveSimulates
              DEF AwaitVerdict, AwaitRequests, AwaitPlanReview, AwaitItems
  <2>10. CASE ExecuteDecisions(s)
    BY <2>5, <2>10, Places, StepSimulates DEF ExecuteDecisions
  <2>. QED  BY <2>1, <2>2, <2>6, <2>7, <2>8, <2>9, <2>10
<1>2. CASE FinishDecisions
  <2>1. PICK g \in CatchUps(st) :
          LET s == Record(st, g)
              r == Record(s, [f \in Stuck(s) |-> "esc"])
          IN  Return(Goto(r, "JUDGE_REVIEWING")) \/ Return(Goto(r, "ANALYZING_CONFLICTS"))
    BY <1>2 DEF FinishDecisions
  <2> DEFINE s == Record(st, g)
             r == Record(s, [f \in Stuck(s) |-> "esc"])
  <2>2. s \in State
    BY RecordType DEF TypeOK, CatchUps, RecordState
  <2>3. r \in State
    BY <2>2, RecordType DEF RecordState
  <2>4. \A t \in {"JUDGE_REVIEWING", "ANALYZING_CONFLICTS"} : Follows(Goto(r, t))
    BY <1>2, <2>3, At, Places, Edges, GotoStatus DEF FinishDecisions, Follows
  <2>. QED  BY <2>1, <2>4, LeaveSimulates
<1>3. ASSUME NEW f \in File, ApplyDecision(f)
      PROVE  LifeStep /\ Located'
  <2>1. PICK s \in {st} \cup {Record(st, g) : g \in [{f} -> DispatchOutcome]} : Step(s, "apply")
    BY <1>3 DEF ApplyDecision
  <2>2. Follows(s) /\ s.status = "AUTO_MERGING"
    BY <1>3, <2>1, At, Places, RecordStatus DEF ApplyDecision, Follows, TypeOK
  <2>. QED  BY <2>1, <2>2, Places, StepSimulates
<1>. QED  BY <1>1, <1>2, <1>3 DEF HumanReviewNext

LEMMA JudgeLife ==
  ASSUME LifeInv, TypeOK', JudgeNext
  PROVE  LifeStep /\ Located'
<1> USE DEF LifeInv
<1>1. CASE JudgeStart
  <2> DEFINE s == [st EXCEPT !.current_phase = "judge_review"]
  <2>1. Follows(s) /\ s.status = "JUDGE_REVIEWING"
    BY <1>1 DEF JudgeStart, Dispatch, Follows, TypeOK, State
  <2>. QED  BY <1>1, <2>1, Places, StepSimulates DEF JudgeStart
<1>2. CASE JudgeRun
  <2> DEFINE s(v, failed) == [st EXCEPT !.verdict = v, !.failed_files = failed]
  <2>1. PICK v, failed : Step(s(v, failed), "verdict") \/ Step(s(v, failed), "judged")
    BY <1>2 DEF JudgeRun
  <2>2. Follows(s(v, failed)) /\ s(v, failed).status = "JUDGE_REVIEWING"
    BY <1>2, At, Places DEF JudgeRun, Follows, TypeOK, State
  <2>. QED  BY <2>1, <2>2, Places, StepSimulates
<1>3. CASE JudgeRepair
  <2>1. PICK g : st' = Record(st, g) /\ (UNCHANGED disk \/ SaveInPhase)
    BY <1>3 DEF JudgeRepair
  <2>2. st'.status = st.status /\ st.status = "JUDGE_REVIEWING"
    BY <1>3, <2>1, RecordStatus, At, Places DEF JudgeRepair, TypeOK
  <2>3. Located'
    BY <1>3, <2>2, Places DEF JudgeRepair, NextRound, Located
  <2>. QED  BY <2>1, <2>2, <2>3, StaySimulates
<1>4. CASE OnlyHumanDecided
  <2>1. Follows(st) /\ st.status = "JUDGE_REVIEWING"
    BY <1>4, At, Places DEF OnlyHumanDecided, Follows
  <2>. QED  BY <1>4, <2>1, Places, StepSimulates DEF OnlyHumanDecided
<1>5. CASE RebuttalAccepted
  <2> DEFINE s == [st EXCEPT !.verdict = "PASS"]
  <2>1. Follows(s) /\ s.status = "JUDGE_REVIEWING"
    BY <1>5, At, Places DEF RebuttalAccepted, Follows, TypeOK, State
  <2>. QED  BY <1>5, <2>1, Places, StepSimulates DEF RebuttalAccepted
<1>6. CASE RebuttalRejected
  <2>1. LifeStep
    BY <1>6, StaySimulates DEF RebuttalRejected
  <2>2. Located'
    BY <1>6, At, Places DEF RebuttalRejected, NextRound, Located
  <2>. QED  BY <2>1, <2>2
<1>7. CASE JudgeGateFails \/ NotPassed
  <2>1. Follows(Goto(st, "AWAITING_HUMAN"))
    BY <1>7, At, Places, Edges, GotoStatus DEF JudgeGateFails, NotPassed, Follows, TypeOK
  <2>. QED  BY <1>7, <2>1, LeaveSimulates DEF JudgeGateFails, NotPassed
<1>8. CASE Passed
  <2>1. /\ Follows(Goto(st, "AWAITING_HUMAN")) /\ Follows(Goto(st, "GENERATING_REPORT"))
        /\ Follows([st EXCEPT !.verdict = "FAIL", !.status = "AWAITING_HUMAN"])
    BY <1>8, At, Places, Edges, GotoStatus DEF Passed, Follows, TypeOK, State
  <2>. QED  BY <1>8, <2>1, LeaveSimulates DEF Passed
<1>9. CASE Report
  <2>1. Follows([st EXCEPT !.current_phase = "report", !.status = "COMPLETED",
                           !.dropped = {f \in File : st.records[f] = "esc"}])
    BY <1>9, Edges DEF Report, Dispatch, Follows, TypeOK, State
  <2>. QED  BY <1>9, <2>1, LeaveSimulates DEF Report
<1>. QED
  BY <1>1, <1>2, <1>3, <1>4, <1>5, <1>6, <1>7, <1>8, <1>9 DEF JudgeNext

LEMMA RunStepLife ==
  ASSUME LifeInv, TypeOK', RunStep
  PROVE  LifeStep /\ Located'
<1>1. CASE PhaseNext
  BY <1>1, PlanningLife, AutoMergeLife, ConflictLife, HumanReviewLife, JudgeLife
     DEF PhaseNext
<1>2. CASE DryRunHalt
  <2>1. Follows(Goto(st, "AWAITING_HUMAN"))
    BY <1>2, Edges, GotoStatus DEF DryRunHalt, DryRunHalts, Follows, LifeInv, TypeOK
  <2>. QED  BY <1>2, <2>1, LeaveSimulates DEF DryRunHalt
<1>3. CASE CeilingHalt
  <2>1. CASE can_transition(st.status, "AWAITING_HUMAN")
    <3>1. Follows(Goto(st, "AWAITING_HUMAN"))
      BY <2>1, GotoStatus DEF Follows, LifeInv, TypeOK
    <3>. QED  BY <1>3, <2>1, <3>1, LeaveSimulates DEF CeilingHalt
  <2>2. CASE ~can_transition(st.status, "AWAITING_HUMAN")
    <3>1. Follows(Goto(st, "FAILED"))
      BY <1>3, Edges, GotoStatus DEF CeilingHalt, CanRun, Follows, LifeInv, TypeOK
    <3>. QED  BY <1>3, <2>2, <3>1, LeaveSimulates DEF CeilingHalt
  <2>. QED  BY <2>1, <2>2
<1>4. CASE LoopEnd
  BY <1>4 DEF LoopEnd, Located, LifeStep, Life!lifeVars
<1>. QED  BY <1>1, <1>2, <1>3, <1>4 DEF RunStep

LEMMA FaultLife ==
  ASSUME LifeInv, TypeOK', Fault
  PROVE  LifeStep /\ Located'
<1> USE DEF LifeInv
<1>1. CASE PhaseError
  <2>1. Follows(st)
    BY DEF Follows
  <2>2. can_transition(st.status, "FAILED") => Follows(Goto(st, "FAILED"))
    BY GotoStatus DEF Follows, TypeOK
  <2>. QED  BY <1>1, <2>1, <2>2, LeaveSimulates DEF PhaseError
<1>2. CASE Spend
  <2>1. st'.status = st.status
    BY <1>2 DEF Spend, TypeOK, State
  <2>. QED  BY <1>2, <2>1 DEF Spend, Located, LifeStep, Life!lifeVars
<1>3. CASE Interrupt
  <2>1. Follows([st EXCEPT !.spent = disk.spent])
    BY DEF Follows, TypeOK, State
  <2>. QED  BY <1>3, <2>1, LeaveSimulates DEF Interrupt
<1>4. CASE Kill
  BY <1>4 DEF Kill, Located, LifeStep, Life!LifeNext, Life!Restore
<1>5. CASE BudgetExceeded
  <2>1. Follows(st)
    BY DEF Follows
  <2>2. can_transition(st.status, "AWAITING_HUMAN") => Follows(Goto(st, "AWAITING_HUMAN"))
    BY GotoStatus DEF Follows, TypeOK
  <2>. QED  BY <1>5, <2>1, <2>2, LeaveSimulates DEF BudgetExceeded
<1>. QED  BY <1>1, <1>2, <1>3, <1>4, <1>5 DEF Fault

LEMMA UserLife ==
  ASSUME LifeInv, User
  PROVE  LifeStep /\ Located'
<1> USE DEF LifeInv
<1>1. CASE ResumeEnded
  BY <1>1 DEF ResumeEnded, vars, Located, LifeStep, Life!lifeVars
<1>2. CASE ~ResumeEnded
  <2>1. st'.status = st.status /\ UNCHANGED disk
    BY <1>2 DEF User, ReviewPlan, ChooseItem, Decide, ResolveVerdict, Resume, Input,
                TypeOK, State
  <2>2. pc' \in {Idle, "loop"}
    BY <1>2 DEF User, ReviewPlan, ChooseItem, Decide, ResolveVerdict, Resume, Input, Waiting
  <2>. QED  BY <2>1, <2>2 DEF Located, LifeStep, Life!lifeVars
<1>. QED  BY <1>1, <1>2

(* Located is inductive relative to the types.                             *)
THEOREM StatusIsWhereItSays == Spec => []LifeInv
<1>1. Init => LifeInv
  BY InitIsTyped DEF Init, LifeInv, Located
<1>2. LifeInv /\ TypeOK' /\ [Next]_vars => LifeInv'
  <2>1. LifeInv /\ TypeOK' /\ Next => LifeInv'
    BY RunStepLife, FaultLife, UserLife DEF Next, LifeInv
  <2>2. LifeInv /\ UNCHANGED vars => LifeInv'
    BY DEF LifeInv, TypeOK, Located, vars
  <2>. QED  BY <2>1, <2>2
<1>. QED  BY <1>1, <1>2, TypeCorrect, PTL DEF Spec

LEMMA EveryStepIsALifeStep ==
  ASSUME LifeInv, TypeOK', [Next]_vars
  PROVE  LifeStep
<1>1. CASE Next
  BY <1>1, RunStepLife, FaultLife, UserLife DEF Next
<1>2. CASE UNCHANGED vars
  BY <1>2 DEF vars, LifeStep, Life!lifeVars
<1>. QED  BY <1>1, <1>2

(* The orchestrator implements the life cycle: every status change of      *)
(* every phase, halt and error handler is one StateMachine.transition      *)
(* accepts, and the checkpoint only holds statuses the run has had.        *)
THEOREM ImplementsLifecycle == Spec => LifecycleImplemented
<1>1. Init => Life!LifeInit
  BY DEF Init, InitialState, Life!LifeInit
<1>2. LifeInv /\ TypeOK' /\ [Next]_vars => LifeStep
  BY EveryStepIsALifeStep
<1>. QED
  BY <1>1, <1>2, TypeCorrect, StatusIsWhereItSays, PTL
     DEF Spec, LifeStep, LifecycleImplemented, Life!LifeSpec

\* Nothing leaves COMPLETED or FAILED.
LEMMA NoWayOut ==
  ASSUME NEW s \in Terminal, NEW t
  PROVE  ~can_transition(s, t)
BY DEF can_transition, VALID_TRANSITIONS, SystemStatus, Terminal

(* A run that has ended, and whose end is on disk, never moves again: the  *)
(* life cycle promises it, so the orchestrator keeps it, through resumes,  *)
(* late user input, signals and crashes.                                   *)
THEOREM TheEndIsFinal == Spec => EndIsFinal
<1>1. Life!Ended /\ LifeStep => UNCHANGED Life!lifeVars
  BY NoWayOut, SameTable
     DEF LifeStep, Life!LifeNext, Life!Move, Life!SaveInPlace, Life!Restore, Life!lifeVars,
         Life!Ended, Life!Terminal, Terminal
<1>2. LifeInv /\ TypeOK' /\ [Next]_vars => LifeStep
  BY EveryStepIsALifeStep
<1>. QED
  BY <1>1, <1>2, TypeCorrect, StatusIsWhereItSays, PTL DEF Spec, EndIsFinal, Life!EndIsFinal
=============================================================================
