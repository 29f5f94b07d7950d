------------------------- MODULE OrchestratorProofs -------------------------
(***************************************************************************)
(* Type correctness of the orchestrator for every set of files, every      *)
(* plan, every bound and every choice of faults.  TypeOK is inductive; one *)
(* lemma per phase, one step per action.                                   *)
(***************************************************************************)
EXTENDS RunProperties, TLAPS

(***************************************************************************)
(* Types.                                                                  *)
(***************************************************************************)

(* Replacing one field of a MergeState by a value of its type.             *)
LEMMA FieldTypes ==
  ASSUME NEW s \in State
  PROVE  /\ \A v \in SystemStatus : [s EXCEPT !.status = v] \in State
         /\ \A v \in Phases : [s EXCEPT !.current_phase = v] \in State
         /\ \A v \in [File -> RiskLevel] : [s EXCEPT !.risk = v] \in State
         /\ \A v \in SUBSET File : [s EXCEPT !.removed = v] \in State
         /\ \A v \in [File -> ItemState] : [s EXCEPT !.items = v] \in State
         /\ \A v \in SUBSET File : [s EXCEPT !.surfaced = v] \in State
         /\ \A v \in [File -> RequestState] : [s EXCEPT !.requests = v] \in State
         /\ \A v \in [File -> RecordState] : [s EXCEPT !.records = v] \in State
         /\ \A v \in {"none", "approved", "other"} : [s EXCEPT !.conclusion = v] \in State
         /\ \A v \in {"none", "approve", "reject", "modify"} :
              [s EXCEPT !.plan_human_review = v] \in State
         /\ \A v \in SUBSET File : [s EXCEPT !.analyses = v] \in State
         /\ \A v \in SUBSET File : [s EXCEPT !.pending_conflict = v] \in State
         /\ \A v \in {"none", "PASS", "FAIL"} : [s EXCEPT !.verdict = v] \in State
         /\ \A v \in SUBSET File : [s EXCEPT !.failed_files = v] \in State
         /\ \A v \in {"none", "accept", "abort", "rerun"} :
              [s EXCEPT !.judge_resolution = v] \in State
         /\ \A v \in 0..MaxReruns : [s EXCEPT !.rerun_round = v] \in State
         /\ \A v \in BOOLEAN : [s EXCEPT !.exhausted = v] \in State
         /\ \A v \in BOOLEAN : [s EXCEPT !.replayed = v] \in State
         /\ \A v \in BOOLEAN : [s EXCEPT !.dry_run = v] \in State
         /\ \A v \in BOOLEAN : [s EXCEPT !.spent = v] \in State
         /\ \A v \in SUBSET File : [s EXCEPT !.dropped = v] \in State
<1>1. /\ \A v \in SystemStatus : [s EXCEPT !.status = v] \in State
      /\ \A v \in Phases : [s EXCEPT !.current_phase = v] \in State
      /\ \A v \in [File -> RiskLevel] : [s EXCEPT !.risk = v] \in State
      /\ \A v \in SUBSET File : [s EXCEPT !.removed = v] \in State
      /\ \A v \in [File -> ItemState] : [s EXCEPT !.items = v] \in State
      /\ \A v \in SUBSET File : [s EXCEPT !.surfaced = v] \in State
      /\ \A v \in [File -> RequestState] : [s EXCEPT !.requests = v] \in State
  BY DEF State
<1>2. /\ \A v \in [File -> RecordState] : [s EXCEPT !.records = v] \in State
      /\ \A v \in {"none", "approved", "other"} : [s EXCEPT !.conclusion = v] \in State
      /\ \A v \in {"none", "approve", "reject", "modify"} : [s EXCEPT !.plan_human_review = v] \in State
      /\ \A v \in SUBSET File : [s EXCEPT !.analyses = v] \in State
      /\ \A v \in SUBSET File : [s EXCEPT !.pending_conflict = v] \in State
      /\ \A v \in {"none", "PASS", "FAIL"} : [s EXCEPT !.verdict = v] \in State
      /\ \A v \in SUBSET File : [s EXCEPT !.failed_files = v] \in State
  BY DEF State
<1>3. /\ \A v \in {"none", "accept", "abort", "rerun"} : [s EXCEPT !.judge_resolution = v] \in State
      /\ \A v \in 0..MaxReruns : [s EXCEPT !.rerun_round = v] \in State
      /\ \A v \in BOOLEAN : [s EXCEPT !.exhausted = v] \in State
      /\ \A v \in BOOLEAN : [s EXCEPT !.replayed = v] \in State
      /\ \A v \in BOOLEAN : [s EXCEPT !.dry_run = v] \in State
      /\ \A v \in BOOLEAN : [s EXCEPT !.spent = v] \in State
      /\ \A v \in SUBSET File : [s EXCEPT !.dropped = v] \in State
  BY DEF State
<1>. QED  BY <1>1, <1>2, <1>3

LEMMA GotoType ==
  ASSUME NEW s \in State, NEW t \in SystemStatus
  PROVE  Goto(s, t) \in State
BY FieldTypes DEF Goto

LEMMA RecordType ==
  ASSUME NEW s \in State, NEW g, \A f \in DOMAIN g : g[f] \in RecordState
  PROVE  Record(s, g) \in State
<1>1. Overlay(s.records, g) \in [File -> RecordState]
  BY DEF State, Overlay
<1>. QED  BY <1>1, FieldTypes DEF Record

LEMMA InitialType ==
  ASSUME NEW dry \in BOOLEAN
  PROVE  InitialState(dry) \in State
BY ConstantsAssumption
   DEF InitialState, State, SystemStatus, Phases, RiskLevel, None, ItemState,
       RequestState, RecordState

(* How control leaves an action keeps the types.                           *)
LEMMA StepType ==
  ASSUME TypeOK, NEW s \in State, NEW p \in PC, Step(s, p),
         round' \in Nat, work' \subseteq File, queue' \subseteq File, unseen' \subseteq File
  PROVE  TypeOK'
BY DEF TypeOK, Step

LEMMA ReturnType ==
  ASSUME NEW s \in State, Return(s), unseen' \subseteq File
  PROVE  TypeOK'
BY DEF TypeOK, Return, Leave, PC

LEMMA PauseType ==
  ASSUME NEW s \in State, Pause(s), unseen' \subseteq File
  PROVE  TypeOK'
BY DEF TypeOK, Pause, Leave, PC, Idle

LEMMA SaveInPhaseType ==
  ASSUME TypeOK, st' \in State, SaveInPhase
  PROVE  disk' \in State
<1>1. disk.spent \in BOOLEAN
  BY DEF TypeOK, State
<1>. QED  BY <1>1, FieldTypes DEF SaveInPhase

LEMMA ItemsForType ==
  ASSUME NEW s, NEW levels
  PROVE  ItemsFor(s, levels) \in [File -> ItemState]
BY DEF ItemsFor, ItemState

LEMMA HandOverType ==
  ASSUME NEW s \in State, NEW levels
  PROVE  HandOver(s, levels) \in State
BY ItemsForType, FieldTypes DEF HandOver, SystemStatus

LEMMA PlanningType ==
  ASSUME TypeOK, PlanningNext
  PROVE  TypeOK'
<1> USE DEF TypeOK
<1>1. CASE Initialize
  <2>1. [st EXCEPT !.status = "PLANNING", !.current_phase = "init"] \in State
    BY FieldTypes DEF SystemStatus, Phases
  <2>. QED  BY <1>1, <2>1, ReturnType DEF Initialize
<1>2. CASE Planning
  <2>1. ASSUME NEW plan \in Plans
        PROVE  [st EXCEPT !.status = "PLAN_REVIEWING", !.current_phase = "analysis",
                          !.risk = plan] \in State
    BY FieldTypes, ConstantsAssumption DEF SystemStatus, Phases
  <2>. QED  BY <1>2, <2>1, ReturnType DEF Planning
<1>3. CASE PlanReviewStart
  <2>1. [st EXCEPT !.current_phase = "plan_review"] \in State
    BY FieldTypes DEF Phases
  <2>. QED  BY <1>3, <2>1, StepType DEF PlanReviewStart, PC
<1>4. CASE RejectShape
  <2>1. [st EXCEPT !.conclusion = "other", !.status = "AWAITING_HUMAN"] \in State
    BY FieldTypes DEF SystemStatus
  <2>. QED  BY <1>4, <2>1, ReturnType DEF RejectShape
<1>5. CASE JudgeUnavailable \/ ReviewGivesUp
  BY <1>5, HandOverType, ReturnType DEF JudgeUnavailable, ReviewGivesUp
<1>6. CASE ApprovePlan
  <2> DEFINE items == ItemsFor(st, {"human"})
             s == [st EXCEPT !.items = items, !.surfaced = {}, !.conclusion = "approved",
                             !.status = IF items = None THEN "AUTO_MERGING"
                                        ELSE "AWAITING_HUMAN"]
  <2>1. s \in State
    BY ItemsForType, FieldTypes DEF SystemStatus
  <2>2. Return(s) /\ UNCHANGED unseen
    BY <1>6 DEF ApprovePlan
  <2>. QED  BY <2>1, <2>2, ReturnType
<1>7. CASE CriticalReplan
  <2>1. [st EXCEPT !.conclusion = "other", !.status = "PLANNING",
                   !.current_phase = "analysis"] \in State
    BY FieldTypes DEF SystemStatus, Phases
  <2>. QED  BY <1>7, <2>1, StepType DEF CriticalReplan, PC
<1>8. CASE Replan
  <2>1. ASSUME NEW plan \in Plans
        PROVE  [st EXCEPT !.risk = plan, !.status = "PLAN_REVIEWING"] \in State
    BY FieldTypes, ConstantsAssumption DEF SystemStatus
  <2>. QED  BY <1>8, <2>1, ReturnType DEF Replan
<1>9. CASE AskRevision
  <2>1. [st EXCEPT !.status = "PLAN_REVISING", !.current_phase = "plan_revising"] \in State
    BY FieldTypes DEF SystemStatus, Phases
  <2>. QED  BY <1>9, <2>1, StepType DEF AskRevision, PC
<1>10. CASE Revise
  <2>1. PICK plan \in Plans :
          Step([st EXCEPT !.risk = plan, !.status = "PLAN_REVIEWING",
                          !.current_phase = "plan_review"], "review")
    BY <1>10 DEF Revise
  <2>2. [st EXCEPT !.risk = plan, !.status = "PLAN_REVIEWING",
                   !.current_phase = "plan_review"] \in State
    BY FieldTypes, ConstantsAssumption DEF SystemStatus, Phases
  <2>. QED  BY <1>10, <2>1, <2>2, StepType DEF Revise, PC
<1>11. CASE ReviseInVain
  <2>1. [st EXCEPT !.items = ItemsFor(st, {"human"}), !.surfaced = {},
                   !.conclusion = "other", !.status = "PLAN_REVIEWING"] \in State
    BY ItemsForType, FieldTypes DEF SystemStatus
  <2>. QED  BY <1>11, <2>1, StepType DEF ReviseInVain, PC
<1>12. CASE Stalled
  BY <1>12, GotoType, ReturnType DEF Stalled, SystemStatus
<1>. QED
  BY <1>1, <1>2, <1>3, <1>4, <1>5, <1>6, <1>7, <1>8, <1>9, <1>10, <1>11, <1>12
     DEF PlanningNext

LEMMA RouteType ==
  ASSUME NEW s \in State, NEW way
  PROVE  Route(s, way) \in State
<1> DEFINE toUser    == Sent(s, way, {"user"})
           escalated == Sent(s, way, {"user", "refused"})
           treated   == Sent(s, way, {"replay", "written"}) \cup escalated
           r == Record(s, [f \in treated |-> IF f \in escalated THEN "esc" ELSE "auto"])
<1>1. r \in State
  BY RecordType DEF RecordState
<1>2. s.removed \cup Sent(s, way, {"written", "refused", "user", "analysis"}) \in SUBSET File
  BY DEF State, Sent, Unrecorded
<1>3. (s.replayed \/ Sent(s, way, {"replay"}) # {}) \in BOOLEAN
  OBVIOUS
<1>4. [f \in File |-> IF f \in toUser /\ s.items[f] = "none" THEN "open" ELSE s.items[f]]
        \in [File -> ItemState]
  BY DEF State, ItemState
<1>. QED  BY <1>1, <1>2, <1>3, <1>4, FieldTypes DEF Route, Phases

LEMMA PrePassItemsType ==
  ASSUME NEW s \in State
  PROVE  PrePassItems(s) \in State
<1>1. [f \in File |-> IF f \in PlanFiles(s, {"human"}) /\ s.items[f] = "none"
                      THEN "letters" ELSE s.items[f]] \in [File -> ItemState]
  BY DEF State, ItemState
<1>. QED  BY <1>1, FieldTypes DEF PrePassItems

LEMMA DowngradeType ==
  ASSUME NEW s \in State, NEW safe
  PROVE  Downgrade(s, safe) \in State
<1>1. [f \in File |-> IF f \in PlanFiles(s, {"human"}) /\ s.items[f] = "auto"
                      THEN IF f \in safe THEN "safe" ELSE "risky"
                      ELSE s.risk[f]] \in [File -> RiskLevel]
  BY DEF State, RiskLevel
<1>. QED  BY <1>1, FieldTypes DEF Downgrade

LEMMA AccountedType ==
  ASSUME NEW s \in State, s = st, NEW takes \in Takes
  PROVE  Accounted(takes) \in State /\ Record(st, takes) \in State
<1>1. Record(st, takes) \in State
  BY RecordType DEF RecordState, Takes
<1>. QED  BY <1>1, RecordType DEF Accounted, RecordState

LEMMA AutoMergeType ==
  ASSUME TypeOK, AutoMergeNext
  PROVE  TypeOK'
<1> USE DEF TypeOK
<1>1. CASE MergeStart
  <2>1. PICK way \in Routes(st) :
          LET routed == PrePassItems(Route(st, way))
          IN  /\ Wrote(Sent(st, way, {"replay", "written"}))
              /\ IF Open(routed) # {}
                 THEN Return(Goto(routed, "AWAITING_HUMAN"))
                 ELSE /\ Step(routed, "items")
                      /\ queue' = Sent(st, way, {"analysis"})
                      /\ UNCHANGED <<round, work>>
    BY <1>1 DEF MergeStart
  <2> DEFINE routed == PrePassItems(Route(st, way))
  <2>2. routed \in State
    BY RouteType, PrePassItemsType
  <2>3. \A to : Sent(st, way, to) \subseteq File
    BY DEF Sent, Unrecorded
  <2>4. unseen' \subseteq File
    BY <2>1, <2>3 DEF Wrote
  <2>5. CASE Open(routed) # {}
    BY <2>1, <2>2, <2>4, <2>5, GotoType, ReturnType DEF SystemStatus
  <2>6. CASE Open(routed) = {}
    BY <2>1, <2>2, <2>3, <2>4, <2>6, StepType DEF PC
  <2>. QED  BY <2>5, <2>6
<1>2. CASE ApplyItemChoices
  <2>1. PICK g \in [Actionable(st) -> DispatchOutcome], safe \in SUBSET File :
          /\ Step(Downgrade([Record(st, g) EXCEPT !.removed = @ \cup Actionable(st)], safe),
                  "merge")
          /\ Wrote(Landed(g))
    BY <1>2 DEF ApplyItemChoices
  <2>2. Record(st, g) \in State
    BY RecordType DEF DispatchOutcome, RecordState
  <2>3. Record(st, g).removed \cup Actionable(st) \in SUBSET File
    BY <2>2 DEF State, Actionable
  <2>4. [Record(st, g) EXCEPT !.removed = @ \cup Actionable(st)] \in State
    BY <2>2, <2>3, FieldTypes
  <2>5. unseen' \subseteq File
    BY <2>1 DEF Wrote, Landed, Actionable
  <2>. QED  BY <1>2, <2>1, <2>4, <2>5, DowngradeType, StepType DEF ApplyItemChoices, PC
<1>3. CASE MergeLayer
  <2>1. PICK g \in [Routable(st) -> {"auto", "esc", "none"}] :
          LET layer_files == {f \in Routable(st) : g[f] # "none"}
                             \cup {f \in Automatic(st) : st.records[f] \notin Escalated
                                                         /\ st.records[f] # "none"}
          IN  /\ st' = Record(st, g) /\ pc' = IF layer_files = {} THEN "finish" ELSE "subreview"
              /\ UNCHANGED disk \/ SaveInPhase
              /\ work' = layer_files
              /\ Wrote({f \in Routable(st) : g[f] = "auto"})
    BY <1>3 DEF MergeLayer
  <2>2. Record(st, g) \in State
    BY RecordType DEF RecordState
  <2>3. work' \subseteq File /\ unseen' \subseteq File
    BY <2>1 DEF Wrote, Routable, Automatic, PlanFiles
  <2>4. disk' \in State
    BY <2>1, <2>2, SaveInPhaseType
  <2>. QED  BY <1>3, <2>1, <2>2, <2>3, <2>4 DEF MergeLayer, PC
<1>4. CASE SubReviewApproves
  <2>1. disk' \in State
    BY <1>4, SaveInPhaseType DEF SubReviewApproves
  <2>. QED  BY <1>4, <2>1 DEF SubReviewApproves, PC
<1>5. CASE SubReviewDispute
  <2>1. PICK F \in SUBSET Repairable(st, work) : \E g \in Repairs(F) :
          Step(Record(st, g), "subreview") /\ Wrote(Landed(g))
    BY <1>5 DEF SubReviewDispute
  <2>2. PICK g \in Repairs(F) : Step(Record(st, g), "subreview") /\ Wrote(Landed(g))
    BY <2>1
  <2>3. Record(st, g) \in State
    BY RecordType DEF Repairs, RecordState
  <2>4. unseen' \subseteq File
    BY <2>2 DEF Wrote, Landed, Repairs, Repairable
  <2>. QED  BY <1>5, <2>2, <2>3, <2>4, StepType DEF SubReviewDispute, PC
<1>6. CASE SubReviewExhausted
  <2>1. PICK blocking \in SUBSET work :
          Pause([st EXCEPT
            !.exhausted = TRUE, !.status = "AWAITING_HUMAN",
            !.requests = [f \in File |-> IF f \in blocking /\ st.requests[f] = "none"
                                         THEN "open" ELSE st.requests[f]]])
    BY <1>6 DEF SubReviewExhausted
  <2>2. [f \in File |-> IF f \in blocking /\ st.requests[f] = "none"
                        THEN "open" ELSE st.requests[f]] \in [File -> RequestState]
    BY DEF State, RequestState
  <2>3. [st EXCEPT
            !.exhausted = TRUE, !.status = "AWAITING_HUMAN",
            !.requests = [f \in File |-> IF f \in blocking /\ st.requests[f] = "none"
                                         THEN "open" ELSE st.requests[f]]] \in State
    BY <2>2, FieldTypes DEF SystemStatus
  <2>. QED  BY <1>6, <2>1, <2>3, PauseType DEF SubReviewExhausted
<1>7. CASE MergeGateFails
  BY <1>7, GotoType, ReturnType DEF MergeGateFails, SystemStatus
<1>8. CASE MergeFinish
  <2> DEFINE Final(takes, drifted, stuck) ==
               LET unhandled == Unhandled(Record(st, takes)) \cup stuck
                   risky == \E f \in File : st.risk[f] = "risky"
               IN  [Record(Accounted(takes),
                           [f \in drifted |-> IF f \in stuck THEN "none" ELSE "auto"])
                     EXCEPT !.pending_conflict = IF unhandled = {} THEN @ ELSE unhandled,
                            !.status = IF risky \/ unhandled # {} THEN "ANALYZING_CONFLICTS"
                                       ELSE "JUDGE_REVIEWING"]
  <2>1. PICK takes \in Takes :
          \E drifted \in SUBSET DriftCandidates(Accounted(takes)) : \E stuck \in SUBSET drifted :
            Return(Final(takes, drifted, stuck)) /\ Wrote(Landed(takes) \cup (drifted \ stuck))
    BY <1>8 DEF MergeFinish
  <2>2. PICK drifted \in SUBSET DriftCandidates(Accounted(takes)) : \E stuck \in SUBSET drifted :
            Return(Final(takes, drifted, stuck)) /\ Wrote(Landed(takes) \cup (drifted \ stuck))
    BY <2>1
  <2>3. PICK stuck \in SUBSET drifted :
            Return(Final(takes, drifted, stuck)) /\ Wrote(Landed(takes) \cup (drifted \ stuck))
    BY <2>2
  <2>4. Landed(takes) \subseteq File /\ drifted \subseteq File
    BY DEF Landed, Takes, Takeable, Unrecorded, DriftCandidates, PlanFiles
  <2> DEFINE g == [f \in drifted |-> IF f \in stuck THEN "none" ELSE "auto"]
             r == Record(Accounted(takes), g)
             unhandled == Unhandled(Record(st, takes)) \cup stuck
  <2>5. r \in State
    BY AccountedType, RecordType DEF RecordState
  <2>6. unhandled \in SUBSET File
    BY <2>4 DEF Unhandled, Unrecorded
  <2>7. r.pending_conflict \in SUBSET File
    BY <2>5 DEF State
  <2>8. Final(takes, drifted, stuck) \in State
    <3>1. \A a \in State, u \in SUBSET File, t \in SystemStatus :
            [a EXCEPT !.pending_conflict = u, !.status = t] \in State
      BY FieldTypes
    <3>2. \A p : (IF p THEN "ANALYZING_CONFLICTS" ELSE "JUDGE_REVIEWING") \in SystemStatus
      BY DEF SystemStatus
    <3>3. (IF unhandled = {} THEN r.pending_conflict ELSE unhandled) \in SUBSET File
      BY <2>6, <2>7
    <3>. QED  BY <2>5, <3>1, <3>2, <3>3, Zenon
  <2>9. unseen' \subseteq File
    BY <2>3, <2>4 DEF Wrote
  <2>. QED  BY <2>3, <2>8, <2>9, ReturnType
<1>9. CASE DriftIsFatal
  <2> DEFINE Fatal(takes, drifted) == [Accounted(takes) EXCEPT !.pending_conflict = drifted]
  <2>1. PICK takes \in Takes :
          \E drifted \in (SUBSET DriftCandidates(Accounted(takes))) \ {{}} :
            Return(Fatal(takes, drifted)) /\ Wrote(Landed(takes))
    BY <1>9 DEF DriftIsFatal
  <2>2. PICK drifted \in SUBSET DriftCandidates(Accounted(takes)) :
            Return(Fatal(takes, drifted)) /\ Wrote(Landed(takes))
    BY <2>1
  <2>3. Landed(takes) \subseteq File /\ drifted \in SUBSET File
    BY DEF Landed, Takes, Takeable, Unrecorded, DriftCandidates, PlanFiles
  <2>4. Fatal(takes, drifted) \in State
    BY <2>3, AccountedType, FieldTypes
  <2>5. unseen' \subseteq File
    BY <2>2, <2>3 DEF Wrote
  <2>. QED  BY <2>2, <2>4, <2>5, ReturnType
<1>. QED
  BY <1>1, <1>2, <1>3, <1>4, <1>5, <1>6, <1>7, <1>8, <1>9 DEF AutoMergeNext

LEMMA ConflictType ==
  ASSUME TypeOK, ConflictNext
  PROVE  TypeOK'
<1> USE DEF TypeOK
<1>1. CASE ConflictStart
  <2>1. [st EXCEPT !.current_phase = "conflict_analysis"] \in State
    BY FieldTypes DEF Phases
  <2>. QED  BY <1>1, <2>1, StepType DEF ConflictStart, PC
<1>2. CASE Analyze
  <2> DEFINE After(g, settled, again) ==
               [Record(st, g) EXCEPT
                  !.analyses = st.analyses \cup again
                               \cup ((Worklist(st) \cap Unrecorded(st)) \ settled)]
  <2>1. PICK settled \in SUBSET ((Worklist(st) \cap Unrecorded(st)) \ BothChanged),
             again \in SUBSET (Worklist(st) \ Unrecorded(st)) :
          \E g \in Repairs(settled) :
            /\ st' = After(g, settled, again) /\ pc' = "strategy"
            /\ work' = After(g, settled, again).analyses
                       \cap Unrecorded(After(g, settled, again))
            /\ IF Worklist(st) \cap NonReplayable = {} THEN UNCHANGED disk ELSE SaveInPhase
            /\ Wrote(Landed(g))
    BY <1>2 DEF Analyze
  <2>2. PICK g \in Repairs(settled) :
            /\ st' = After(g, settled, again) /\ pc' = "strategy"
            /\ work' = After(g, settled, again).analyses
                       \cap Unrecorded(After(g, settled, again))
            /\ IF Worklist(st) \cap NonReplayable = {} THEN UNCHANGED disk ELSE SaveInPhase
            /\ Wrote(Landed(g))
    BY <2>1
  <2>3. Worklist(st) \subseteq File
    BY DEF Worklist, PlanFiles, Unrecorded
  <2>4. Record(st, g) \in State
    BY RecordType DEF Repairs, RecordState
  <2>5. st.analyses \cup again \cup ((Worklist(st) \cap Unrecorded(st)) \ settled) \in SUBSET File
    BY <2>3 DEF State
  <2>6. st' \in State
    BY <2>2, <2>4, <2>5, FieldTypes
  <2>7. disk' \in State
    BY <2>2, <2>6, SaveInPhaseType
  <2>8. work' \subseteq File /\ unseen' \subseteq File
    BY <2>2, <2>3 DEF Wrote, Landed, Repairs, Unrecorded
  <2>. QED  BY <1>2, <2>2, <2>6, <2>7, <2>8 DEF Analyze, PC
<1>3. ASSUME NEW f \in File, AskHuman(f)
      PROVE  TypeOK'
  <2>1. [st EXCEPT !.requests[f] = "open"] \in State
    BY DEF State, RequestState
  <2>2. work' \subseteq File /\ queue' \subseteq File
    BY <1>3 DEF AskHuman
  <2>. QED  BY <1>3, <2>1, <2>2, StepType DEF AskHuman, PC
<1>4. ASSUME NEW f \in File, Resolve(f)
      PROVE  TypeOK'
  <2>1. PICK g \in Repairs({f}), semantic \in BOOLEAN :
          /\ st' = Record(st, g) /\ pc' = pc
          /\ IF semantic THEN SaveInPhase ELSE UNCHANGED disk
          /\ Wrote(Landed(g))
    BY <1>4 DEF Resolve
  <2>2. st' \in State
    BY <2>1, RecordType DEF Repairs, RecordState
  <2>3. disk' \in State
    BY <2>1, <2>2, SaveInPhaseType
  <2>4. work' \subseteq File /\ unseen' \subseteq File
    BY <1>4, <2>1 DEF Resolve, Wrote, Landed, Repairs
  <2>. QED  BY <1>4, <2>1, <2>2, <2>3, <2>4 DEF Resolve
<1>5. CASE ConflictFinish
  BY <1>5, GotoType, ReturnType DEF ConflictFinish, SystemStatus
<1>. QED  BY <1>1, <1>2, <1>3, <1>4, <1>5 DEF ConflictNext

LEMMA SurfaceType ==
  ASSUME NEW s \in State
  PROVE  Surface(s) \in State
<1>1. Overlay(s.items, [f \in Escalations(s) |-> "open"]) \in [File -> ItemState]
  BY DEF State, Overlay, ItemState
<1>2. s.surfaced \cup Escalations(s) \in SUBSET File
  BY DEF State, Escalations
<1>. QED  BY <1>1, <1>2, FieldTypes DEF Surface

\* The state HumanReview routes on: escalations surfaced, choices dispatched.
LEMMA DispatchedType ==
  ASSUME NEW s \in State, NEW g \in Dispatched(Surface(s))
  PROVE  Record(Surface(s), g) \in State /\ Landed(g) \subseteq File
<1>1. Record(Surface(s), g) \in State
  BY SurfaceType, RecordType DEF Dispatched, DispatchOutcome, RecordState
<1>2. Landed(g) \subseteq File
  BY DEF Dispatched, Landed, Actionable
<1>. QED  BY <1>1, <1>2

LEMMA HumanReviewType ==
  ASSUME TypeOK, HumanReviewNext
  PROVE  TypeOK'
<1> USE DEF TypeOK
<1>1. CASE HumanReview
  <2>1. PICK g \in Dispatched(Surface(st)) :
          LET s == Record(Surface(st), g)
          IN  /\ \/ Accept(s) \/ Abort(s) \/ RerunRefused(s) \/ Rerun(s)
                 \/ AwaitVerdict(s) \/ AwaitRequests(s) \/ ExecuteDecisions(s)
                 \/ AwaitPlanReview(s) \/ RejectPlan(s) \/ AwaitItems(s)
                 \/ SkipMerge(s) \/ StartMerge(s)
              /\ Wrote(Landed(g))
    BY <1>1 DEF HumanReview
  <2>2. PICK s : s = Record(Surface(st), g)
    OBVIOUS
  <2>3. s \in State /\ unseen' \subseteq File
    BY <2>1, <2>2, DispatchedType DEF Wrote
  <2>4. CASE Accept(s) \/ Abort(s) \/ RejectPlan(s) \/ SkipMerge(s) \/ StartMerge(s)
    <3>1. \E t \in SystemStatus : Return(Goto(s, t))
      BY <2>4 DEF Accept, Abort, RejectPlan, SkipMerge, StartMerge, SystemStatus
    <3>. QED  BY <2>3, <3>1, GotoType, ReturnType
  <2>5. CASE RerunRefused(s)
    <3>1. [s EXCEPT !.judge_resolution = "none", !.status = "FAILED"] \in State
      BY <2>3, FieldTypes DEF SystemStatus
    <3>. QED  BY <2>3, <2>5, <3>1, ReturnType DEF RerunRefused
  <2>6. CASE Rerun(s)
    <3>1. Record(s, [f \in s.failed_files |-> "none"]) \in State
      BY <2>3, RecordType DEF RecordState
    <3>2. s.rerun_round + 1 \in 0..MaxReruns
      BY <2>3, <2>6, ConstantsAssumption DEF Rerun, State
    <3>3. [Record(s, [f \in s.failed_files |-> "none"]) EXCEPT
             !.rerun_round = s.rerun_round + 1, !.judge_resolution = "none",
             !.verdict = "none", !.failed_files = {}, !.status = "AUTO_MERGING"] \in State
      BY <3>1, <3>2, FieldTypes DEF SystemStatus
    <3>. QED  BY <2>3, <2>6, <3>3, ReturnType DEF Rerun
  <2>7. CASE AwaitVerdict(s) \/ AwaitRequests(s) \/ AwaitPlanReview(s) \/ AwaitItems(s)
    BY <2>3, <2>7, PauseType DEF AwaitVerdict, AwaitRequests, AwaitPlanReview, AwaitItems
  <2>8. CASE ExecuteDecisions(s)
    <3>1. Goto(s, "AUTO_MERGING") \in State
      BY <2>3, GotoType DEF SystemStatus
    <3>2. work' \subseteq File
      BY <2>8 DEF ExecuteDecisions
    <3>. QED  BY <2>3, <2>8, <3>1, <3>2, StepType DEF ExecuteDecisions, PC
  <2>. QED  BY <2>1, <2>2, <2>4, <2>5, <2>6, <2>7, <2>8
<1>2. CASE FinishDecisions
  <2>1. PICK g \in CatchUps(st) :
          LET s == Record(st, g)
          IN  /\ Return(Goto(Record(s, [f \in Stuck(s) |-> "esc"]),
                             IF Unanalyzed(s) = Stuck(s) THEN "JUDGE_REVIEWING"
                             ELSE "ANALYZING_CONFLICTS"))
              /\ Wrote(Landed(g))
    BY <1>2 DEF FinishDecisions
  <2>2. PICK s : s = Record(st, g)
    OBVIOUS
  <2>3. s \in State
    BY <2>2, RecordType DEF CatchUps, RecordState
  <2>4. Record(s, [f \in Stuck(s) |-> "esc"]) \in State
    BY <2>3, RecordType DEF RecordState
  <2>5. unseen' \subseteq File
    BY <2>1 DEF Wrote, Landed, CatchUps, PlanFiles
  <2>6. \E t \in SystemStatus : Return(Goto(Record(s, [f \in Stuck(s) |-> "esc"]), t))
    BY <2>1, <2>2 DEF SystemStatus
  <2>. QED  BY <2>4, <2>5, <2>6, GotoType, ReturnType
<1>3. ASSUME NEW f \in File, ApplyDecision(f)
      PROVE  TypeOK'
  <2>1. work' \subseteq File
    BY <1>3 DEF ApplyDecision
  <2>2. ASSUME NEW g \in [{f} -> DispatchOutcome], Step(Record(st, g), "apply"), Wrote(Landed(g))
        PROVE  TypeOK'
    <3>1. Record(st, g) \in State
      BY RecordType DEF DispatchOutcome, RecordState
    <3>2. unseen' \subseteq File
      BY <2>2 DEF Wrote, Landed
    <3>. QED  BY <1>3, <2>1, <2>2, <3>1, <3>2, StepType DEF ApplyDecision, PC
  <2>3. ASSUME Step(st, "apply"), UNCHANGED unseen
        PROVE  TypeOK'
    BY <1>3, <2>1, <2>3, StepType DEF ApplyDecision, PC
  <2>. QED  BY <1>3, <2>2, <2>3 DEF ApplyDecision
<1>. QED  BY <1>1, <1>2, <1>3 DEF HumanReviewNext

LEMMA JudgeType ==
  ASSUME TypeOK, JudgeNext
  PROVE  TypeOK'
<1> USE DEF TypeOK
<1>1. CASE JudgeStart
  <2>1. [st EXCEPT !.current_phase = "judge_review"] \in State
    BY FieldTypes DEF Phases
  <2>. QED  BY <1>1, <2>1, StepType DEF JudgeStart, PC
<1>2. CASE JudgeRun
  <2>1. PICK verdict \in {"PASS", "FAIL"}, failed \in SUBSET File :
          Step([st EXCEPT !.verdict = verdict, !.failed_files = failed],
               IF verdict = "PASS" \/ LastRound THEN "verdict" ELSE "judged")
    BY <1>2 DEF JudgeRun
  <2>2. [st EXCEPT !.verdict = verdict, !.failed_files = failed] \in State
    BY FieldTypes
  <2>. QED  BY <1>2, <2>1, <2>2, StepType DEF JudgeRun, PC
<1>3. CASE JudgeRepair
  <2>1. PICK F \in SUBSET Repairable(st, File) : \E g \in Repairs(F) :
          /\ st' = Record(st, g)
          /\ IF F = {} THEN UNCHANGED disk ELSE SaveInPhase
          /\ Wrote(Landed(g))
    BY <1>3 DEF JudgeRepair
  <2>2. PICK g \in Repairs(F) :
          /\ st' = Record(st, g)
          /\ IF F = {} THEN UNCHANGED disk ELSE SaveInPhase
          /\ Wrote(Landed(g))
    BY <2>1
  <2>3. st' \in State
    BY <2>2, RecordType DEF Repairs, RecordState
  <2>4. disk' \in State
    BY <2>2, <2>3, SaveInPhaseType
  <2>5. unseen' \subseteq File
    BY <2>2 DEF Wrote, Landed, Repairs, Repairable
  <2>. QED  BY <1>3, <2>3, <2>4, <2>5 DEF JudgeRepair, NextRound, PC
<1>4. CASE OnlyHumanDecided
  BY <1>4, StepType DEF OnlyHumanDecided, PC
<1>5. CASE RebuttalAccepted
  <2>1. [st EXCEPT !.verdict = "PASS"] \in State
    BY FieldTypes
  <2>. QED  BY <1>5, <2>1, StepType DEF RebuttalAccepted, PC
<1>6. CASE RebuttalRejected
  BY <1>6 DEF RebuttalRejected, NextRound, PC
<1>7. CASE JudgeGateFails \/ NotPassed
  BY <1>7, GotoType, ReturnType DEF JudgeGateFails, NotPassed, SystemStatus
<1>8. CASE Passed
  <2>1. [st EXCEPT !.verdict = "FAIL", !.status = "AWAITING_HUMAN"] \in State
    BY FieldTypes DEF SystemStatus
  <2>2. \E t \in SystemStatus :
          Return(Goto(st, t)) \/ Return([st EXCEPT !.verdict = "FAIL", !.status = "AWAITING_HUMAN"])
    BY <1>8 DEF Passed, SystemStatus
  <2>. QED  BY <1>8, <2>1, <2>2, GotoType, ReturnType DEF Passed
<1>9. CASE Report
  <2>1. [st EXCEPT !.current_phase = "report", !.status = "COMPLETED",
                   !.dropped = {f \in File : st.records[f] = "esc"}] \in State
    BY FieldTypes DEF SystemStatus, Phases
  <2>. QED  BY <1>9, <2>1, ReturnType DEF Report
<1>. QED
  BY <1>1, <1>2, <1>3, <1>4, <1>5, <1>6, <1>7, <1>8, <1>9 DEF JudgeNext

LEMMA RunStepType ==
  ASSUME TypeOK, RunStep
  PROVE  TypeOK'
<1> USE DEF TypeOK
<1>1. CASE PhaseNext
  BY <1>1, PlanningType, AutoMergeType, ConflictType, HumanReviewType, JudgeType
     DEF PhaseNext
<1>2. CASE DryRunHalt
  BY <1>2, GotoType, PauseType DEF DryRunHalt, SystemStatus
<1>3. CASE CeilingHalt
  <2>1. \E t \in SystemStatus : Pause(Goto(st, t))
    BY <1>3 DEF CeilingHalt, SystemStatus
  <2>. QED  BY <1>3, <2>1, GotoType, PauseType DEF CeilingHalt
<1>4. CASE LoopEnd
  BY <1>4 DEF LoopEnd, PC, Idle
<1>. QED  BY <1>1, <1>2, <1>3, <1>4 DEF RunStep

LEMMA FaultType ==
  ASSUME TypeOK, Fault
  PROVE  TypeOK'
<1> USE DEF TypeOK
<1>1. CASE PhaseError
  <2>1. Goto(st, "FAILED") \in State
    BY GotoType DEF SystemStatus
  <2>. QED  BY <1>1, <2>1, PauseType DEF PhaseError
<1>2. CASE Spend
  <2>1. [st EXCEPT !.spent = TRUE] \in State
    BY FieldTypes
  <2>. QED  BY <1>2, <2>1 DEF Spend
<1>3. CASE Interrupt
  <2>1. [st EXCEPT !.spent = disk.spent] \in State
    <3>1. disk.spent \in BOOLEAN
      BY DEF State
    <3>. QED  BY <3>1, FieldTypes
  <2>. QED  BY <1>3, <2>1, PauseType DEF Interrupt
<1>4. CASE Kill
  BY <1>4 DEF Kill, PC, Idle
<1>5. CASE BudgetExceeded
  <2>1. Goto(st, "AWAITING_HUMAN") \in State
    BY GotoType DEF SystemStatus
  <2>. QED  BY <1>5, <2>1, PauseType DEF BudgetExceeded
<1>. QED  BY <1>1, <1>2, <1>3, <1>4, <1>5 DEF Fault

LEMMA UserType ==
  ASSUME TypeOK, User
  PROVE  TypeOK'
<1>1. ASSUME NEW s \in State, Input(s)
      PROVE  TypeOK'
  BY <1>1 DEF TypeOK, Input
<1>2. ASSUME NEW decision \in {"approve", "reject", "modify"}, ReviewPlan(decision)
      PROVE  TypeOK'
  <2>1. [st EXCEPT !.plan_human_review = decision] \in State
    BY FieldTypes DEF TypeOK
  <2>. QED  BY <1>1, <1>2, <2>1 DEF ReviewPlan
<1>3. ASSUME NEW f \in File, NEW choice \in ItemState, ChooseItem(f, choice)
      PROVE  TypeOK'
  <2>1. [st EXCEPT !.items[f] = choice] \in State
    BY DEF TypeOK, State
  <2>. QED  BY <1>1, <1>3, <2>1 DEF ChooseItem
<1>4. ASSUME NEW f \in File, Decide(f)
      PROVE  TypeOK'
  <2>1. [st EXCEPT !.requests[f] = "decided"] \in State
    BY DEF TypeOK, State, RequestState
  <2>. QED  BY <1>1, <1>4, <2>1 DEF Decide
<1>5. ASSUME NEW resolution \in {"accept", "abort", "rerun"}, ResolveVerdict(resolution)
      PROVE  TypeOK'
  <2>1. [st EXCEPT !.judge_resolution = resolution] \in State
    BY FieldTypes DEF TypeOK
  <2>. QED  BY <1>1, <1>5, <2>1 DEF ResolveVerdict
<1>6. ASSUME NEW dry \in BOOLEAN, Resume(dry)
      PROVE  TypeOK'
  <2>1. [st EXCEPT !.dry_run = dry] \in State
    BY FieldTypes DEF TypeOK
  <2>. QED  BY <1>6, <2>1 DEF Resume, TypeOK, PC
<1>7. CASE ResumeEnded
  BY <1>7 DEF ResumeEnded, TypeOK, vars
<1>8. st.dry_run \in BOOLEAN
  BY DEF TypeOK, State
<1>. QED  BY <1>2, <1>3, <1>4, <1>5, <1>6, <1>7, <1>8 DEF User

LEMMA InitIsTyped == Init => TypeOK
<1>1. ASSUME NEW dry \in BOOLEAN, st = InitialState(dry), Init
      PROVE  TypeOK
  BY <1>1, InitialType DEF Init, TypeOK, PC
<1>. QED  BY <1>1 DEF Init

(* The live state, the checkpoint and the coroutine's variables are always *)
(* well formed: a rerun counter within its limit, a record, an item and a  *)
(* request per file, no file from outside the diff.                        *)
THEOREM TypeCorrect == Spec => []TypeOK
<1>1. TypeOK /\ [Next]_vars => TypeOK'
  <2>1. TypeOK /\ Next => TypeOK'
    BY RunStepType, FaultType, UserType DEF Next
  <2>2. TypeOK /\ UNCHANGED vars => TypeOK'
    BY DEF TypeOK, vars
  <2>. QED  BY <2>1, <2>2
<1>. QED  BY <1>1, InitIsTyped, PTL DEF Spec

=============================================================================
