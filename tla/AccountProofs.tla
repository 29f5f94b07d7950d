---------------------------- MODULE AccountProofs ----------------------------
(***************************************************************************)
(* Nothing is forgotten on the way to the Judge, for every set of files    *)
(* and every choice of faults: in a first pass each upstream-only file has *)
(* been decided, and no file is left over which the user is being asked.   *)
(* Neither is inductive: both rest on what each status owes to the ones    *)
(* before it, in memory and in the checkpoint, and on the worklist of the  *)
(* conflict analysis.                                                      *)
(***************************************************************************)
EXTENDS TreeProofs

Undecided(s) == PendingRequests(s) \cap Unrecorded(s)

(* What a first pass has accounted for: every upstream-only file that left *)
(* the plan's batches, and, by the time of the analysis or of the Judge,   *)
(* every upstream-only file but those the analysis is to decide.           *)
AccountGate(s) ==
  s.rerun_round = 0 =>
    /\ \A f \in s.removed \ BothChanged : s.records[f] # "none"
    /\ s.status = "JUDGE_REVIEWING" /\ ~s.exhausted => Unrecorded(s) \subseteq BothChanged
    /\ s.status = "ANALYZING_CONFLICTS" =>
         Unrecorded(s) \subseteq BothChanged \cup s.pending_conflict

(* Which questions may be open: none while files are merged, none over a   *)
(* file without a decision before the Judge, and in the analysis only over *)
(* files that it has on its list.                                          *)
QuestionGate(s) ==
  /\ s.status = "AUTO_MERGING" => PendingRequests(s) = {}
  /\ s.status = "ANALYZING_CONFLICTS" => Undecided(s) \subseteq s.analyses
  /\ s.status = "JUDGE_REVIEWING" => Undecided(s) = {}

Settled(s) == AccountGate(s) /\ QuestionGate(s)

\* While strategies are executed, the lists of the phase hold what is open.
Listed ==
  pc = "strategy" =>
    /\ st.rerun_round = 0 => Unrecorded(st) \subseteq BothChanged \cup work \cup queue
    /\ Undecided(st) \subseteq work \cup queue
    /\ work \subseteq st.analyses

\* The inductive invariant, relative to LifeInv and GateInv.
SettledInv == Settled(st) /\ Settled(disk) /\ Listed

-----------------------------------------------------------------------------
(* What keeps Settled.                                                     *)

\* The statuses before which something must have been settled.
Demanding == {"AUTO_MERGING", "ANALYZING_CONFLICTS", "JUDGE_REVIEWING"}

\* s asks and leaves out what st does.
Same(s) == /\ s.removed = st.removed /\ s.rerun_round = st.rerun_round
           /\ s.exhausted = st.exhausted /\ s.pending_conflict = st.pending_conflict
           /\ s.requests = st.requests /\ s.analyses = st.analyses

LEMMA StaysSettled ==
  ASSUME st \in State, Settled(st), NEW s, Keeps(s), Same(s),
         s.status \notin Demanding \/ s.status = st.status
  PROVE  Settled(s)
<1>1. /\ Unrecorded(s) \subseteq Unrecorded(st) /\ Undecided(s) \subseteq Undecided(st)
      /\ PendingRequests(s) = PendingRequests(st)
  BY DEF Keeps, Same, Undecided, Unrecorded, PendingRequests
<1>2. AccountGate(s)
  <2>1. \A f \in s.removed \ BothChanged : f \in File /\ f \in st.removed \ BothChanged
    BY DEF Same, State
  <2>2. s.rerun_round = 0 => \A f \in s.removed \ BothChanged : s.records[f] # "none"
    BY <2>1 DEF Settled, AccountGate, Same, Keeps
  <2>. QED  BY <1>1, <2>2 DEF Settled, AccountGate, Same, Demanding
<1>3. QuestionGate(s)
  BY <1>1 DEF Settled, QuestionGate, Same, Demanding
<1>. QED  BY <1>2, <1>3 DEF Settled

\* What holds of the live state holds of what is saved of it.
LEMMA SavedSettled ==
  ASSUME TypeOK', Settled(disk), Settled(st'),
         disk' = disk \/ disk' = st' \/ disk' = [st' EXCEPT !.spent = disk.spent]
  PROVE  Settled(disk')
<1>1. CASE disk' = disk
  BY <1>1
<1>2. CASE disk' = st'
  BY <1>2
<1>3. CASE disk' = [st' EXCEPT !.spent = disk.spent]
  <2>1. /\ disk'.status = st'.status /\ disk'.rerun_round = st'.rerun_round
        /\ disk'.removed = st'.removed /\ disk'.records = st'.records
        /\ disk'.requests = st'.requests /\ disk'.exhausted = st'.exhausted
        /\ disk'.pending_conflict = st'.pending_conflict /\ disk'.analyses = st'.analyses
    BY <1>3 DEF TypeOK, State
  <2>. QED  BY <2>1 DEF Settled, AccountGate, QuestionGate, Undecided, PendingRequests, Unrecorded
<1>. QED  BY <1>1, <1>2, <1>3

-----------------------------------------------------------------------------
(* What each phase leaves alone.                                           *)
LEMMA GotoSame ==
  ASSUME NEW s \in State, NEW t
  PROVE  /\ Same(s) => Same(Goto(s, t))
         /\ Keeps(s) => Keeps(Goto(s, t))
         /\ Goto(s, t).status = t
BY DEF Same, Keeps, Goto, State

LEMMA PlanningSettles ==
  ASSUME LifeInv, LifeInv', GateInv, SettledInv, PlanningNext
  PROVE  Settled(st')
<1>1. st.status \in PlanningStatus /\ st \in State
  BY PhaseStatuses DEF LifeInv, TypeOK
<1>2. st.requests = None
  BY <1>1, AtPlanning DEF Untouched
<1>3. /\ st'.records = st.records /\ st'.requests = None /\ st'.removed = st.removed
      /\ st'.rerun_round = st.rerun_round
      /\ st'.status \in PlanningStatus \cup {"AUTO_MERGING", "AWAITING_HUMAN"}
  BY <1>2, PlanningKeeps, PlanningStatuses DEF LifeInv
<1>4. PendingRequests(st') = {}
  BY <1>3 DEF PendingRequests, None
<1>. QED
  BY <1>3, <1>4 DEF SettledInv, Settled, AccountGate, QuestionGate, PlanningStatus

LEMMA JudgeSettles ==
  ASSUME LifeInv, SettledInv, JudgeNext
  PROVE  Settled(st')
<1>0. st \in State /\ Settled(st)
  BY DEF LifeInv, TypeOK, SettledInv
<1>9. Keeps(st')
  BY JudgeKeeps DEF LifeInv
<1>1. CASE JudgeStart \/ JudgeRun \/ OnlyHumanDecided \/ RebuttalAccepted \/ RebuttalRejected
  <2>1. Same(st') /\ st'.status = st.status
    BY <1>0, <1>1 DEF JudgeStart, JudgeRun, OnlyHumanDecided, RebuttalAccepted, RebuttalRejected,
                      Step, Same, State
  <2>. QED  BY <1>0, <2>1, <1>9, StaysSettled
<1>2. CASE JudgeRepair
  <2>1. PICK g : st' = Record(st, g)
    BY <1>2 DEF JudgeRepair
  <2>2. Same(st') /\ st'.status = st.status
    BY <1>0, <2>1, RecordFields DEF Same
  <2>. QED  BY <1>0, <2>2, <1>9, StaysSettled
<1>3. CASE JudgeGateFails \/ Passed \/ NotPassed
  <2>1. \/ \E t \in {"AWAITING_HUMAN", "GENERATING_REPORT"} : st' = Goto(st, t)
        \/ st' = [st EXCEPT !.verdict = "FAIL", !.status = "AWAITING_HUMAN"]
    BY <1>3 DEF JudgeGateFails, Passed, NotPassed, Return, Leave
  <2>2. Same(st') /\ st'.status \in {"AWAITING_HUMAN", "GENERATING_REPORT"}
    BY <1>0, <2>1 DEF Goto, Same, State
  <2>. QED  BY <1>0, <2>2, <1>9, StaysSettled DEF Demanding
<1>4. CASE Report
  <2>1. st' = [st EXCEPT !.current_phase = "report", !.status = "COMPLETED",
                         !.dropped = {f \in File : st.records[f] = "esc"}]
    BY <1>4 DEF Report, Return, Leave
  <2>2. Same(st') /\ st'.status = "COMPLETED"
    BY <1>0, <2>1 DEF Same, State
  <2>. QED  BY <1>0, <2>2, <1>9, StaysSettled DEF Demanding
<1>. QED  BY <1>1, <1>2, <1>3, <1>4 DEF JudgeNext

(* The analysis takes up all that is open: a file of the worklist without  *)
(* a decision gets one or a place on the phase's lists, and a file leaves  *)
(* the lists with a decision or with a question to the user.               *)
LEMMA AnalyzeSettles ==
  ASSUME LifeInv, SettledInv, Analyze
  PROVE  Settled(st') /\ Listed'
<1>0. st \in State /\ Settled(st) /\ st.status = "ANALYZING_CONFLICTS"
  BY PhaseStatuses DEF LifeInv, TypeOK, SettledInv, ConflictNext
<1> DEFINE todo == Worklist(st) \cap Unrecorded(st)
           Became(g, analyses) == [Record(st, g) EXCEPT !.analyses = analyses]
<1>1. PICK settled \in SUBSET (todo \ BothChanged), again \in SUBSET (Worklist(st) \ Unrecorded(st)) :
        \E g \in Repairs(settled) :
          /\ st' = Became(g, st.analyses \cup again \cup (todo \ settled))
          /\ work' = Became(g, st.analyses \cup again \cup (todo \ settled)).analyses
                       \cap Unrecorded(Became(g, st.analyses \cup again \cup (todo \ settled)))
          /\ queue' = queue
  BY Zenon DEF Analyze
<1> DEFINE analyses == st.analyses \cup again \cup (todo \ settled)
<1>2. PICK g \in Repairs(settled) :
        /\ st' = Became(g, analyses) /\ queue' = queue
        /\ work' = Became(g, analyses).analyses \cap Unrecorded(Became(g, analyses))
  BY <1>1
<1> HIDE DEF analyses, todo
<1>3. Record(st, g) \in State
  BY <1>0, RecordType DEF Repairs, RecordState
<1>4. /\ st'.analyses = analyses /\ st'.records = Record(st, g).records
      /\ st'.status = Record(st, g).status /\ st'.removed = Record(st, g).removed
      /\ st'.rerun_round = Record(st, g).rerun_round
      /\ st'.pending_conflict = Record(st, g).pending_conflict
      /\ st'.requests = Record(st, g).requests
  BY <1>2, <1>3 DEF State
<1>5. work' = st'.analyses \cap Unrecorded(st')
  BY <1>2
<1>6. /\ st'.status = "ANALYZING_CONFLICTS" /\ st'.removed = st.removed
      /\ st'.rerun_round = st.rerun_round /\ st'.pending_conflict = st.pending_conflict
      /\ st'.requests = st.requests
      /\ \A f \in File : st'.records[f] = IF f \in settled THEN g[f] ELSE st.records[f]
  BY <1>0, <1>4, RecordFields DEF Repairs
<1>7. Unrecorded(st') = Unrecorded(st) \ settled
  BY <1>6 DEF Unrecorded, Repairs
<1>8. /\ st.analyses \subseteq st'.analyses
      /\ todo \ settled \subseteq st'.analyses
  BY <1>4 DEF analyses
<1>9. Undecided(st') \subseteq Undecided(st) /\ Undecided(st') \subseteq Unrecorded(st')
  BY <1>6, <1>7 DEF Undecided, PendingRequests
<1>10. Undecided(st') \subseteq work'
  BY <1>0, <1>5, <1>8, <1>9 DEF Settled, QuestionGate
<1>11. st.rerun_round = 0 => Unrecorded(st') \subseteq BothChanged \cup work'
  <2>1. st.rerun_round = 0 => Unrecorded(st) \ BothChanged \subseteq todo
    BY <1>0 DEF Settled, AccountGate, Worklist, todo
  <2>. QED  BY <1>5, <1>7, <1>8, <2>1
<1>12. Settled(st')
  <2>1. AccountGate(st')
    <3>1. st.rerun_round = 0 => \A f \in st'.removed \ BothChanged : st'.records[f] # "none"
      BY <1>0, <1>6, <1>7 DEF Settled, AccountGate, State, Unrecorded
    <3>. QED  BY <1>0, <1>6, <1>7, <3>1 DEF Settled, AccountGate
  <2>2. QuestionGate(st')
    BY <1>5, <1>6, <1>10 DEF QuestionGate
  <2>. QED  BY <2>1, <2>2 DEF Settled
<1>. QED  BY <1>5, <1>6, <1>10, <1>11, <1>12 DEF Listed

LEMMA ConflictSettles ==
  ASSUME LifeInv, SettledInv, ConflictNext
  PROVE  Settled(st') /\ Listed'
<1>0. st \in State /\ Settled(st) /\ st.status = "ANALYZING_CONFLICTS"
  BY PhaseStatuses DEF LifeInv, TypeOK, SettledInv
<1>6. Keeps(st')
  BY ConflictKeeps DEF LifeInv
<1>1. CASE ConflictStart
  <2>1. Same(st') /\ st'.status = st.status
    BY <1>0, <1>1 DEF ConflictStart, Step, Same, State
  <2>. QED  BY <1>0, <1>1, <1>6, <2>1, StaysSettled DEF ConflictStart, Step, Listed
<1>2. CASE Analyze
  BY <1>2, AnalyzeSettles
<1>3. ASSUME NEW f \in File, AskHuman(f)
      PROVE  Settled(st') /\ Listed'
  <2>1. /\ st' = [st EXCEPT !.requests[f] = "open"] /\ f \in work /\ pc = "strategy"
        /\ work' = work \ {f} /\ queue' = queue \cup {f}
    BY <1>3 DEF AskHuman, Step
  <2>2. /\ st'.records = st.records /\ st'.removed = st.removed /\ st'.status = st.status
        /\ st'.rerun_round = st.rerun_round /\ st'.pending_conflict = st.pending_conflict
        /\ st'.analyses = st.analyses
        /\ \A h \in File \ {f} : st'.requests[h] = st.requests[h]
    BY <1>0, <2>1 DEF State
  <2>3. Unrecorded(st') = Unrecorded(st) /\ Undecided(st') \subseteq Undecided(st) \cup {f}
    BY <2>2 DEF Unrecorded, Undecided, PendingRequests
  <2>4. f \in st.analyses
    BY <2>1 DEF SettledInv, Listed
  <2>5. Settled(st')
    BY <1>0, <2>2, <2>3, <2>4 DEF Settled, AccountGate, QuestionGate
  <2>. QED  BY <2>1, <2>2, <2>3, <2>5 DEF SettledInv, Listed
<1>4. ASSUME NEW f \in File, Resolve(f)
      PROVE  Settled(st') /\ Listed'
  <2>1. PICK g \in Repairs({f}) : st' = Record(st, g)
    BY <1>4 DEF Resolve
  <2>2. Same(st') /\ st'.status = st.status /\ st'.records[f] # "none"
    BY <1>0, <2>1, RecordFields DEF Same, Repairs
  <2>3. Settled(st')
    BY <1>0, <1>6, <2>2, StaysSettled
  <2>4. Unrecorded(st') \subseteq Unrecorded(st) \ {f} /\ Undecided(st') \subseteq Undecided(st) \ {f}
    BY <1>6, <2>2 DEF Keeps, Same, Unrecorded, Undecided, PendingRequests
  <2>5. work' = work \ {f} /\ queue' = queue /\ pc = "strategy"
    BY <1>4 DEF Resolve
  <2>. QED  BY <2>2, <2>3, <2>4, <2>5 DEF SettledInv, Listed, Same
<1>5. CASE ConflictFinish
  <2>1. PICK t \in {"JUDGE_REVIEWING", "AWAITING_HUMAN"} :
          st' = Goto(st, t) /\ (t = "JUDGE_REVIEWING" => queue = {})
    BY <1>5 DEF ConflictFinish, Return, Leave
  <2>2. Same(st') /\ st'.status = t
    BY <1>0, <2>1, GotoSame DEF Same
  <2>3. /\ st.rerun_round = 0 => Unrecorded(st) \subseteq BothChanged \cup queue
        /\ Undecided(st) \subseteq queue
    BY <1>5 DEF ConflictFinish, SettledInv, Listed
  <2>4. Settled(st')
    <3>1. CASE t = "AWAITING_HUMAN"
      BY <1>0, <1>6, <2>2, <3>1, StaysSettled DEF Demanding
    <3>2. CASE t = "JUDGE_REVIEWING"
      <4>1. st'.records = st.records
        BY <1>0, <2>1 DEF Goto, State
      <4>2. /\ Unrecorded(st') = Unrecorded(st) /\ Undecided(st') = Undecided(st)
            /\ st'.removed = st.removed /\ st'.rerun_round = st.rerun_round
            /\ st'.status = "JUDGE_REVIEWING"
        BY <2>2, <3>2, <4>1 DEF Same, Unrecorded, Undecided, PendingRequests
      <4>. QED
        BY <1>0, <2>1, <2>3, <3>2, <4>1, <4>2 DEF Settled, AccountGate, QuestionGate
    <3>. QED  BY <3>1, <3>2
  <2>5. pc' # "strategy"
    BY <1>5 DEF ConflictFinish, Return, Leave
  <2>. QED  BY <2>4, <2>5 DEF Listed
<1>. QED  BY <1>1, <1>2, <1>3, <1>4, <1>5 DEF ConflictNext

-----------------------------------------------------------------------------
(* The merge.                                                              *)

\* What routing takes out of the plan's batches it decides or leaves to the analysis.
LEMMA RouteSettles ==
  ASSUME st \in State, Settled(st), NEW way \in Routes(st)
  PROVE  LET routed == PrePassItems(Route(st, way))
         IN  /\ routed.rerun_round = st.rerun_round /\ routed.requests = st.requests
             /\ st.rerun_round = 0 =>
                  \A f \in routed.removed \ BothChanged : routed.records[f] # "none"
<1> DEFINE escalated == Sent(st, way, {"user", "refused"})
           treated   == Sent(st, way, {"replay", "written"}) \cup escalated
           g == [f \in treated |-> IF f \in escalated THEN "esc" ELSE "auto"]
           out == Sent(st, way, {"written", "refused", "user", "analysis"})
           routed == PrePassItems(Route(st, way))
<1>1. Record(st, g) \in State
  BY RecordType DEF RecordState
<1>2. /\ Route(st, way).records = Record(st, g).records /\ Route(st, way).removed = st.removed \cup out
      /\ Route(st, way).rerun_round = Record(st, g).rerun_round
      /\ Route(st, way).requests = Record(st, g).requests
  BY <1>1 DEF Route, State
<1>3. /\ routed.records = Route(st, way).records /\ routed.removed = Route(st, way).removed
      /\ routed.rerun_round = Route(st, way).rerun_round
      /\ routed.requests = Route(st, way).requests
  BY RouteType DEF PrePassItems, State
<1>4. /\ Record(st, g).rerun_round = st.rerun_round /\ Record(st, g).requests = st.requests
      /\ \A f \in File : Record(st, g).records[f] = IF f \in treated THEN g[f] ELSE st.records[f]
  BY RecordFields
<1>5. out \ BothChanged \subseteq treated /\ out \subseteq File
  BY DEF Routes, Sent, Unrecorded
<1>6. st.removed \subseteq File
  BY DEF State
<1>7. st.rerun_round = 0 => \A f \in st.removed \ BothChanged : st.records[f] # "none"
  BY DEF Settled, AccountGate
<1>8. \A f \in treated : g[f] # "none"
  OBVIOUS
<1> HIDE DEF routed, treated, out, g
<1>. QED  BY <1>2, <1>3, <1>4, <1>5, <1>6, <1>7, <1>8 DEF routed

\* Nothing is owed on the way to a status that is not the analysis's or the Judge's.
LEMMA MergingSettles ==
  ASSUME NEW s, s.status \notin Demanding \/ (s.status = "AUTO_MERGING" /\ PendingRequests(s) = {}),
         s.rerun_round = 0 => \A f \in s.removed \ BothChanged : s.records[f] # "none"
  PROVE  Settled(s)
BY DEF Settled, AccountGate, QuestionGate, Demanding

LEMMA AccountedFields ==
  ASSUME st \in State, NEW takes \in Takes
  PROVE  LET a == Accounted(takes)
         IN  /\ a \in State /\ a.status = st.status /\ a.removed = st.removed
             /\ a.rerun_round = st.rerun_round /\ a.requests = st.requests
             /\ a.pending_conflict = st.pending_conflict
<1>1. Record(st, takes) \in State
  BY AccountedType
<1>. QED  BY <1>1, AccountedType, RecordFields DEF Accounted

LEMMA AutoMergeSettles ==
  ASSUME LifeInv, SettledInv, AutoMergeNext, ~MergeFinish
  PROVE  Settled(st')
<1>0. st \in State /\ Settled(st) /\ st.status = "AUTO_MERGING" /\ PendingRequests(st) = {}
  BY PhaseStatuses DEF LifeInv, TypeOK, SettledInv, Settled, QuestionGate
<1>9. Keeps(st')
  BY AutoMergeKeeps DEF LifeInv
<1>1. CASE MergeStart
  <2>1. PICK way \in Routes(st) :
          LET routed == PrePassItems(Route(st, way))
          IN  st' = Goto(routed, "AWAITING_HUMAN") \/ st' = routed
    BY <1>1 DEF MergeStart, Return, Leave, Step
  <2> DEFINE routed == PrePassItems(Route(st, way))
  <2>2. /\ routed \in State /\ routed.status = "AUTO_MERGING" /\ routed.requests = st.requests
        /\ routed.rerun_round = st.rerun_round
        /\ st.rerun_round = 0 =>
             \A f \in routed.removed \ BothChanged : routed.records[f] # "none"
    BY <1>0, RouteType, PrePassItemsType, RouteStatus, RouteSettles
  <2>3. /\ Goto(routed, "AWAITING_HUMAN").status = "AWAITING_HUMAN"
        /\ Goto(routed, "AWAITING_HUMAN").rerun_round = routed.rerun_round
        /\ Goto(routed, "AWAITING_HUMAN").removed = routed.removed
        /\ Goto(routed, "AWAITING_HUMAN").records = routed.records
    BY <2>2 DEF Goto, State
  <2>4. PendingRequests(routed) = {}
    BY <1>0, <2>2 DEF PendingRequests
  <2> HIDE DEF routed
  <2>5. Settled(routed)
    BY <2>2, <2>4, MergingSettles
  <2>6. Settled(Goto(routed, "AWAITING_HUMAN"))
    BY <2>2, <2>3, MergingSettles DEF Demanding
  <2>. QED  BY <2>1, <2>5, <2>6 DEF routed
<1>2. CASE ApplyItemChoices
  <2>1. PICK g \in [Actionable(st) -> DispatchOutcome], safe \in SUBSET File :
          st' = Downgrade([Record(st, g) EXCEPT !.removed = @ \cup Actionable(st)], safe)
    BY <1>2 DEF ApplyItemChoices, Step
  <2> DEFINE a == [Record(st, g) EXCEPT !.removed = @ \cup Actionable(st)]
  <2>2. Record(st, g) \in State
    BY <1>0, RecordType DEF DispatchOutcome, RecordState
  <2>3. /\ a.status = Record(st, g).status /\ a.records = Record(st, g).records
        /\ a.removed = Record(st, g).removed \cup Actionable(st)
        /\ a.rerun_round = Record(st, g).rerun_round /\ a.requests = Record(st, g).requests
    BY <2>2 DEF State
  <2>4. a \in State
    <3>1. Record(st, g).removed \cup Actionable(st) \in SUBSET File
      BY <2>2 DEF State, Actionable
    <3>. QED  BY <2>2, <3>1, FieldTypes
  <2> HIDE DEF a
  <2>5. /\ st'.status = a.status /\ st'.records = a.records /\ st'.removed = a.removed
        /\ st'.rerun_round = a.rerun_round /\ st'.requests = a.requests
    <3>1. st' = Downgrade(a, safe)
      BY <2>1 DEF a
    <3>. QED  BY <2>4, <3>1 DEF Downgrade, State
  <2>6. /\ st'.status = "AUTO_MERGING" /\ st'.removed = st.removed \cup Actionable(st)
        /\ st'.rerun_round = st.rerun_round /\ st'.requests = st.requests
        /\ \A f \in Actionable(st) : st'.records[f] # "none"
    BY <1>0, <2>3, <2>5, RecordFields DEF DispatchOutcome, Actionable
  <2>7. st.rerun_round = 0 => \A f \in st'.removed \ BothChanged : st'.records[f] # "none"
    BY <1>0, <1>9, <2>6 DEF Settled, AccountGate, Keeps, State
  <2>8. PendingRequests(st') = {}
    BY <1>0, <2>6 DEF PendingRequests
  <2>. QED  BY <2>6, <2>7, <2>8, MergingSettles
<1>3. CASE MergeLayer \/ SubReviewApproves \/ SubReviewDispute
  <2>1. (\E g : st' = Record(st, g)) \/ st' = st
    BY <1>3 DEF MergeLayer, SubReviewApproves, SubReviewDispute, Step
  <2>2. Same(st') /\ st'.status = st.status
    BY <1>0, <2>1, RecordFields DEF Same
  <2>. QED  BY <1>0, <1>9, <2>2, StaysSettled
<1>4. CASE SubReviewExhausted
  <2>1. PICK requests : st' = [st EXCEPT !.exhausted = TRUE, !.status = "AWAITING_HUMAN",
                                         !.requests = requests]
    BY <1>4 DEF SubReviewExhausted, Pause, Leave
  <2>2. /\ st'.status = "AWAITING_HUMAN" /\ st'.removed = st.removed
        /\ st'.rerun_round = st.rerun_round /\ st'.records = st.records
    BY <1>0, <2>1 DEF State
  <2>. QED  BY <1>0, <2>2, MergingSettles DEF Settled, AccountGate, Demanding
<1>5. CASE MergeGateFails
  <2>1. st' = Goto(st, "AWAITING_HUMAN")
    BY <1>5 DEF MergeGateFails, Return, Leave
  <2>2. Same(st') /\ st'.status = "AWAITING_HUMAN"
    BY <1>0, <2>1, GotoSame DEF Same
  <2>. QED  BY <1>0, <1>9, <2>2, StaysSettled DEF Demanding
<1>6. CASE DriftIsFatal
  <2>1. PICK takes, drifted : takes \in Takes /\ st' = [Accounted(takes) EXCEPT !.pending_conflict = drifted]
    BY <1>6 DEF DriftIsFatal, Return, Leave
  <2>3. /\ st'.status = "AUTO_MERGING" /\ st'.removed = st.removed
        /\ st'.rerun_round = st.rerun_round /\ st'.requests = st.requests
    BY <1>0, <2>1, AccountedFields DEF State
  <2>4. st.rerun_round = 0 => \A f \in st'.removed \ BothChanged : st'.records[f] # "none"
    BY <1>0, <1>9, <2>3 DEF Settled, AccountGate, Keeps, State
  <2>5. PendingRequests(st') = {}
    BY <1>0, <2>3 DEF PendingRequests
  <2>. QED  BY <2>3, <2>4, <2>5, MergingSettles
<1>. QED  BY <1>1, <1>2, <1>3, <1>4, <1>5, <1>6 DEF AutoMergeNext

\* The accounting leaves no upstream-only file of a first pass without a record.
LEMMA AccountedIsComplete ==
  ASSUME st \in State, Settled(st), st.rerun_round = 0, NEW takes \in Takes
  PROVE  Unrecorded(Accounted(takes)) \subseteq BothChanged
<1> DEFINE s == Record(st, takes)
           g == [f \in Leaked(s) |-> "esc"]
<1>1. s \in State /\ s.removed = st.removed
  BY AccountedType, RecordFields
<1>2. \A f \in s.removed \ BothChanged : s.records[f] # "none"
  <2>1. \A f \in DOMAIN takes : f \in BothChanged
    BY ConstantsAssumption DEF Takes, Takeable
  <2>. QED  BY <1>1, <2>1, RecordFields DEF Settled, AccountGate, State
<1>3. \A f \in Unrecorded(s) \ BothChanged : f \in Leaked(s)
  <2>1. \A f \in File : s.risk[f] \in RiskLevel
    BY <1>1 DEF State
  <2>2. \A f \in Unrecorded(s) \ BothChanged : f \in PlanFiles(s, RiskLevel) \cap Unrecorded(s)
    BY <1>2, <2>1 DEF Unrecorded, PlanFiles
  <2>. QED  BY <2>2 DEF Leaked
<1>4. \A f \in File : Record(s, g).records[f] = IF f \in Leaked(s) THEN "esc" ELSE s.records[f]
  BY <1>1, RecordFields
<1>. QED  BY <1>3, <1>4 DEF Accounted, Unrecorded

(* What is left undecided by the accounting and the sanity check is handed *)
(* to the analysis, and with it the run.                                   *)
LEMMA MergeFinishSettles ==
  ASSUME LifeInv, SettledInv, MergeFinish
  PROVE  Settled(st')
<1>0. st \in State /\ Settled(st) /\ PendingRequests(st) = {}
  BY PhaseStatuses DEF LifeInv, TypeOK, SettledInv, Settled, QuestionGate, AutoMergeNext
<1> DEFINE Mend(drifted, stuck) == [f \in drifted |-> IF f \in stuck THEN "none" ELSE "auto"]
           Final(a, p, t) == [a EXCEPT !.pending_conflict = p, !.status = t]
           Ended(a, left, risky) ==
             Final(a, IF left = {} THEN a.pending_conflict ELSE left,
                   IF risky \/ left # {} THEN "ANALYZING_CONFLICTS" ELSE "JUDGE_REVIEWING")
<1>1. PICK takes \in Takes :
        \E drifted \in SUBSET DriftCandidates(Accounted(takes)) : \E stuck \in SUBSET drifted :
          LET unhandled == Unhandled(Record(st, takes)) \cup stuck
              risky == \E f \in File : st.risk[f] = "risky"
              a == Record(Accounted(takes), Mend(drifted, stuck))
          IN  st' = Ended(a, unhandled, risky)
  BY ZenonT(60) DEF MergeFinish, Return, Leave
<1>2. PICK drifted \in SUBSET DriftCandidates(Accounted(takes)) : \E stuck \in SUBSET drifted :
          LET unhandled == Unhandled(Record(st, takes)) \cup stuck
              risky == \E f \in File : st.risk[f] = "risky"
              a == Record(Accounted(takes), Mend(drifted, stuck))
          IN  st' = Ended(a, unhandled, risky)
  BY <1>1, Zenon
<1>3. PICK stuck \in SUBSET drifted :
        \E left, risky : stuck \subseteq left
                          /\ st' = Ended(Record(Accounted(takes), Mend(drifted, stuck)), left, risky)
  BY <1>2, Zenon
<1>4. PICK left, risky : stuck \subseteq left
        /\ st' = Ended(Record(Accounted(takes), Mend(drifted, stuck)), left, risky)
  BY <1>3, Zenon
<1> DEFINE a == Record(Accounted(takes), Mend(drifted, stuck))
<1>5. a \in State /\ Accounted(takes) \in State
  BY <1>0, AccountedFields, RecordType DEF RecordState
<1>6. /\ a.removed = st.removed /\ a.rerun_round = st.rerun_round /\ a.requests = st.requests
  BY <1>0, <1>5, AccountedFields, RecordFields
<1>7. \A f \in File : a.records[f] = IF f \in drifted THEN Mend(drifted, stuck)[f]
                                     ELSE Accounted(takes).records[f]
  BY <1>5, RecordFields
<1>8. st.rerun_round = 0 => Unrecorded(a) \subseteq BothChanged \cup stuck
  BY <1>0, <1>7, AccountedIsComplete DEF Unrecorded
<1>9. st.rerun_round = 0 => \A f \in st.removed \ BothChanged : a.records[f] # "none"
  <2>1. \A f \in st.removed : f \in File /\ f \notin drifted
    BY <1>0, AccountedFields DEF DriftCandidates, PlanFiles, State
  <2>2. \A f \in st.removed \ BothChanged : f \notin Unrecorded(Accounted(takes)) \/ st.rerun_round # 0
    BY <1>0, AccountedIsComplete
  <2>. QED  BY <1>7, <2>1, <2>2 DEF Unrecorded
<1>10. st' = Ended(a, left, risky)
  BY <1>4
<1> HIDE DEF a
<1>11. /\ st'.records = a.records /\ st'.removed = st.removed
       /\ st'.rerun_round = st.rerun_round /\ st'.requests = st.requests
       /\ \/ st'.status = "JUDGE_REVIEWING" /\ left = {}
          \/ st'.status = "ANALYZING_CONFLICTS" /\ (left # {} => st'.pending_conflict = left)
  BY <1>5, <1>6, <1>10 DEF State
<1>12. Undecided(st') = {}
  BY <1>0, <1>11 DEF Undecided, PendingRequests
<1>13. st.rerun_round = 0 => Unrecorded(st') \subseteq BothChanged \cup left
  BY <1>4, <1>8, <1>11 DEF Unrecorded
<1>14. AccountGate(st')
  BY <1>9, <1>11, <1>13 DEF AccountGate
<1>15. QuestionGate(st')
  BY <1>11, <1>12 DEF QuestionGate
<1>. QED  BY <1>14, <1>15 DEF Settled

-----------------------------------------------------------------------------
(* The user's answers.                                                     *)
LEMMA DispatchedSame ==
  ASSUME st \in State, NEW g \in Dispatched(Surface(st))
  PROVE  Same(Record(Surface(st), g))
<1>1. Surface(st) \in State
  BY SurfaceType
<1>2. Same(Surface(st))
  BY DEF Surface, Same, State
<1>. QED  BY <1>1, <1>2, RecordFields DEF Same

LEMMA HumanReviewSettles ==
  ASSUME LifeInv, SettledInv, HumanReview
  PROVE  Settled(st')
<1>0. st \in State /\ Settled(st) /\ st.status = "AWAITING_HUMAN"
  BY PhaseStatuses DEF LifeInv, TypeOK, SettledInv
<1>1. PICK g \in Dispatched(Surface(st)) :
        LET s == Record(Surface(st), g)
        IN  \/ Accept(s) \/ Abort(s) \/ RerunRefused(s) \/ Rerun(s)
            \/ AwaitVerdict(s) \/ AwaitRequests(s) \/ ExecuteDecisions(s)
            \/ AwaitPlanReview(s) \/ RejectPlan(s) \/ AwaitItems(s)
            \/ SkipMerge(s) \/ StartMerge(s)
  BY DEF HumanReview
<1>2. PICK s : s = Record(Surface(st), g)
  OBVIOUS
<1>3. s \in State /\ Keeps(s) /\ Same(s) /\ s.status = "AWAITING_HUMAN"
  BY <1>0, <1>2, DispatchedKeeps, DispatchedSame, DispatchedConsent DEF LifeInv
<1>4. Settled(s)
  BY <1>0, <1>3, StaysSettled
<1>5. s.rerun_round = 0 => \A f \in s.removed \ BothChanged : s.records[f] # "none"
  BY <1>4 DEF Settled, AccountGate
<1>6. ASSUME NEW t, PendingRequests(s) = {}, t = "AUTO_MERGING" \/ (t = "JUDGE_REVIEWING" /\ s.exhausted)
      PROVE  Settled(Goto(s, t))
  <2>1. /\ Goto(s, t).status = t /\ Goto(s, t).requests = s.requests
        /\ Goto(s, t).rerun_round = s.rerun_round /\ Goto(s, t).removed = s.removed
        /\ Goto(s, t).records = s.records /\ Goto(s, t).exhausted = s.exhausted
    BY <1>3 DEF Goto, State
  <2>2. PendingRequests(Goto(s, t)) = {}
    BY <1>6, <2>1 DEF PendingRequests
  <2>. QED  BY <1>5, <1>6, <2>1, <2>2 DEF Settled, AccountGate, QuestionGate, Undecided
<1>7. ~HasRequests(s) => PendingRequests(s) = {}
  BY DEF HasRequests, PendingRequests, None
<1>8. CASE Accept(s) \/ Abort(s) \/ RejectPlan(s)
  <2>1. PICK t \in {"GENERATING_REPORT", "FAILED"} : st' = Goto(s, t)
    BY <1>8 DEF Accept, Abort, RejectPlan, Return, Leave
  <2>2. Same(st') /\ Keeps(st') /\ st'.status = t
    BY <1>3, <2>1, GotoSame
  <2>. QED  BY <1>0, <2>2, StaysSettled DEF Demanding
<1>9. CASE RerunRefused(s)
  <2>1. st' = [s EXCEPT !.judge_resolution = "none", !.status = "FAILED"]
    BY <1>9 DEF RerunRefused, Return, Leave
  <2>2. /\ st'.status = "FAILED" /\ st'.rerun_round = s.rerun_round
        /\ st'.removed = s.removed /\ st'.records = s.records
    BY <1>3, <2>1 DEF State
  <2>. QED  BY <1>5, <2>2, MergingSettles DEF Demanding
<1>10. CASE Rerun(s)
  <2> DEFINE r == Record(s, [f \in s.failed_files |-> "none"])
  <2>1. st' = [r EXCEPT !.rerun_round = s.rerun_round + 1, !.judge_resolution = "none",
                        !.verdict = "none", !.failed_files = {}, !.status = "AUTO_MERGING"]
    BY <1>10 DEF Rerun, Return, Leave
  <2>2. r \in State /\ r.requests = s.requests
    BY <1>3, RecordType, RecordFields DEF RecordState
  <2> HIDE DEF r
  <2>3. /\ st'.status = "AUTO_MERGING" /\ st'.rerun_round = s.rerun_round + 1
        /\ st'.requests = s.requests
    BY <2>1, <2>2 DEF State
  <2>4. st'.rerun_round # 0
    BY <1>3, <2>3, ConstantsAssumption DEF State
  <2>5. PendingRequests(st') = {}
    BY <1>10, <2>3 DEF Rerun, Answered, PendingRequests
  <2>. QED  BY <2>3, <2>4, <2>5, MergingSettles
<1>11. CASE AwaitVerdict(s) \/ AwaitRequests(s) \/ AwaitPlanReview(s) \/ AwaitItems(s)
  BY <1>4, <1>11 DEF AwaitVerdict, AwaitRequests, AwaitPlanReview, AwaitItems, Pause, Leave
<1>12. CASE ExecuteDecisions(s)
  <2>1. PendingRequests(s) = {} /\ st' = Goto(s, "AUTO_MERGING")
    BY <1>12 DEF ExecuteDecisions, Step
  <2>2. Settled(Goto(s, "AUTO_MERGING"))
    BY <1>6, <2>1
  <2>. QED  BY <2>1, <2>2
<1>13. CASE StartMerge(s)
  <2>1. PendingRequests(s) = {} /\ st' = Goto(s, "AUTO_MERGING")
    BY <1>7, <1>13 DEF StartMerge, Approved, AtPlan, Return, Leave
  <2>2. Settled(Goto(s, "AUTO_MERGING"))
    BY <1>6, <2>1
  <2>. QED  BY <2>1, <2>2
<1>14. CASE SkipMerge(s)
  <2>1. PendingRequests(s) = {} /\ s.exhausted /\ st' = Goto(s, "JUDGE_REVIEWING")
    BY <1>7, <1>14 DEF SkipMerge, Approved, AtPlan, Return, Leave
  <2>2. Settled(Goto(s, "JUDGE_REVIEWING"))
    BY <1>6, <2>1
  <2>. QED  BY <2>1, <2>2
<1>. QED  BY <1>1, <1>2, <1>8, <1>9, <1>10, <1>11, <1>12, <1>13, <1>14

(* The catch-up after the decisions records every upstream-only file that  *)
(* the plan still holds; the others were recorded when they left it.       *)
LEMMA FinishDecisionsSettles ==
  ASSUME LifeInv, SettledInv, FinishDecisions
  PROVE  Settled(st')
<1>0. st \in State /\ Settled(st) /\ PendingRequests(st) = {}
  BY PhaseStatuses DEF LifeInv, TypeOK, SettledInv, Settled, QuestionGate
<1>1. PICK g \in CatchUps(st) : \E t \in {"JUDGE_REVIEWING", "ANALYZING_CONFLICTS"} :
        st' = Goto(Record(Record(st, g), [f \in Stuck(Record(st, g)) |-> "esc"]), t)
  BY DEF FinishDecisions, Return, Leave
<1>2. PICK s : s = Record(st, g)
  OBVIOUS
<1>3. PICK r : r = Record(s, [f \in Stuck(s) |-> "esc"])
  OBVIOUS
<1>4. s \in State /\ r \in State
  <2>1. \A f \in DOMAIN g : g[f] \in RecordState
    BY DEF CatchUps, RecordState
  <2>2. s \in State
    BY <1>0, <1>2, <2>1, RecordType
  <2>. QED  BY <1>3, <2>2, RecordType DEF RecordState
<1>5. PICK t \in {"JUDGE_REVIEWING", "ANALYZING_CONFLICTS"} : st' = Goto(r, t)
  BY <1>1, <1>2, <1>3
<1>6. /\ st'.status = t /\ st'.records = r.records /\ st'.requests = r.requests
      /\ st'.removed = r.removed /\ st'.rerun_round = r.rerun_round
  BY <1>4, <1>5 DEF Goto, State
<1>7. /\ st'.requests = st.requests /\ st'.removed = st.removed /\ st'.rerun_round = st.rerun_round
      /\ \A f \in File : s.records[f] = IF f \in DOMAIN g THEN g[f] ELSE st.records[f]
      /\ \A f \in File : st'.records[f] = s.records[f] \/ st'.records[f] = "esc"
  BY <1>0, <1>2, <1>3, <1>4, <1>6, RecordFields
<1>8. PendingRequests(st') = {}
  BY <1>0, <1>7 DEF PendingRequests
<1>9. DOMAIN g = PlanFiles(st, RiskLevel) \cap Unrecorded(st)
      /\ \A f \in DOMAIN g : g[f] = "none" => f \in BothChanged
  BY DEF CatchUps
<1>10. st.rerun_round = 0 => \A f \in st.removed \ BothChanged : st'.records[f] # "none"
  BY <1>0, <1>7, <1>9 DEF Settled, AccountGate, PlanFiles, State
<1>11. st.rerun_round = 0 => Unrecorded(st') \subseteq BothChanged
  <2>1. \A f \in File : st.risk[f] \in RiskLevel
    BY <1>0 DEF State
  <2>. QED  BY <1>7, <1>9, <1>10, <2>1 DEF PlanFiles, Unrecorded
<1>. QED
  BY <1>6, <1>7, <1>8, <1>10, <1>11 DEF Settled, AccountGate, QuestionGate, Undecided

LEMMA ApplyDecisionSettles ==
  ASSUME LifeInv, SettledInv, NEW f \in File, ApplyDecision(f)
  PROVE  Settled(st')
<1>0. st \in State /\ Settled(st)
  BY DEF LifeInv, TypeOK, SettledInv
<1>1. CASE st' = st
  BY <1>0, <1>1
<1>2. CASE \E g \in [{f} -> DispatchOutcome] : st' = Record(st, g)
  <2>. PICK g \in [{f} -> DispatchOutcome] : st' = Record(st, g)
    BY <1>2
  <2>3. Keeps(st) /\ \A h \in DOMAIN g : g[h] # "none"
    BY DEF Keeps, DispatchOutcome
  <2>1. Keeps(st')
    BY <1>0, <2>3, RecordKeeps
  <2>2. Same(st') /\ st'.status = st.status
    BY <1>0, RecordFields DEF Same
  <2>. QED  BY <1>0, <2>1, <2>2, StaysSettled
<1>. QED  BY <1>1, <1>2 DEF ApplyDecision, Step

-----------------------------------------------------------------------------
(* The steps of the run, and what comes from outside.                      *)

\* Only the analysis has strategies to execute.
LEMMA StrategiesAreTheAnalysis ==
  ASSUME RunStep, pc' = "strategy"
  PROVE  ConflictNext
<1>1. ~PlanningNext
  BY DEF PlanningNext, Initialize, Planning, PlanReviewStart, RejectShape, JudgeUnavailable,
         ReviewGivesUp, ApprovePlan, CriticalReplan, Replan, AskRevision, Revise,
         ReviseInVain, Stalled, Step, Return, Pause, Leave, Idle
<1>2. ~AutoMergeNext
  BY DEF AutoMergeNext, MergeStart, ApplyItemChoices, MergeLayer, SubReviewApproves,
         SubReviewDispute, SubReviewExhausted, MergeGateFails, MergeFinish, DriftIsFatal,
         Step, Return, Pause, Leave, Idle
<1>3. ~HumanReviewNext
  <2>1. ~HumanReview
    BY DEF HumanReview, Accept, Abort, RerunRefused, Rerun, AwaitVerdict, AwaitRequests,
           ExecuteDecisions, AwaitPlanReview, RejectPlan, AwaitItems, SkipMerge, StartMerge,
           Return, Pause, Leave, Step, Idle
  <2>. QED  BY <2>1 DEF HumanReviewNext, FinishDecisions, ApplyDecision, Return, Leave, Step
<1>4. ~JudgeNext
  BY DEF JudgeNext, JudgeStart, JudgeRun, JudgeRepair, OnlyHumanDecided, RebuttalAccepted,
         RebuttalRejected, NextRound, JudgeGateFails, Passed, NotPassed, Report,
         Step, Return, Leave
<1>5. ~(DryRunHalt \/ CeilingHalt \/ LoopEnd)
  BY DEF DryRunHalt, CeilingHalt, LoopEnd, Pause, Leave, Idle
<1>. QED  BY <1>1, <1>2, <1>3, <1>4, <1>5 DEF RunStep, PhaseNext

LEMMA RunStepSettles ==
  ASSUME LifeInv, LifeInv', GateInv, SettledInv, RunStep
  PROVE  SettledInv'
<1>0. st \in State /\ Settled(st) /\ Settled(disk)
  BY DEF LifeInv, TypeOK, SettledInv
<1>1. Settled(st')
  <2>1. CASE DryRunHalt \/ CeilingHalt
    <3>1. PICK t \in {"AWAITING_HUMAN", "FAILED"} : st' = Goto(st, t)
      BY <2>1 DEF DryRunHalt, CeilingHalt, Pause, Leave
    <3>2. Keeps(st') /\ Same(st') /\ st'.status = t
      BY <1>0, <3>1, GotoSame, GotoKeeps DEF Same, Keeps
    <3>. QED  BY <1>0, <3>2, StaysSettled DEF Demanding
  <2>2. CASE LoopEnd
    BY <1>0, <2>2 DEF LoopEnd
  <2>. QED
    BY <2>1, <2>2, PlanningSettles, AutoMergeSettles, MergeFinishSettles, ConflictSettles,
       HumanReviewSettles, FinishDecisionsSettles, ApplyDecisionSettles, JudgeSettles
       DEF RunStep, PhaseNext, HumanReviewNext
<1>2. Listed'
  <2>1. CASE pc' = "strategy"
    <3>1. ConflictNext
      BY <2>1, StrategiesAreTheAnalysis
    <3>. QED  BY <3>1, ConflictSettles
  <2>2. CASE pc' # "strategy"
    BY <2>2 DEF Listed
  <2>. QED  BY <2>1, <2>2
<1>3. Settled(disk')
  <2>1. disk' = disk \/ disk' = st' \/ disk' = [st' EXCEPT !.spent = disk.spent]
    BY RunStepControl, EndsSaved DEF GoesOn, SaveInPhase, LoopEnd
  <2>. QED  BY <1>0, <1>1, <2>1, SavedSettled DEF LifeInv
<1>. QED  BY <1>1, <1>2, <1>3 DEF SettledInv

(* A fault ends the phase or leaves it where it is, a crash goes back to   *)
(* what was settled in the checkpoint, and the user only closes questions. *)
LEMMA FaultSettles ==
  ASSUME LifeInv, LifeInv', SettledInv, Fault
  PROVE  SettledInv'
<1>0. st \in State /\ Settled(st) /\ Settled(disk)
  BY DEF LifeInv, TypeOK, SettledInv
<1>1. \A t \in {"AWAITING_HUMAN", "FAILED"} : Settled(Goto(st, t))
  <2>1. ASSUME NEW t \in {"AWAITING_HUMAN", "FAILED"}
        PROVE  Keeps(Goto(st, t)) /\ Same(Goto(st, t)) /\ Goto(st, t).status = t
    BY <1>0, GotoSame, GotoKeeps DEF Same, Keeps
  <2>. QED  BY <1>0, <2>1, StaysSettled DEF Demanding
<1>2. \A b : LET s == [st EXCEPT !.spent = b] IN Settled(s)
  <2>1. ASSUME NEW b, NEW s, s = [st EXCEPT !.spent = b]
        PROVE  Keeps(s) /\ Same(s) /\ s.status = st.status
    BY <1>0, <2>1 DEF Keeps, Same, State
  <2>. QED  BY <1>0, <2>1, StaysSettled
<1>3. CASE PhaseError \/ BudgetExceeded
  <2>1. disk' = st' /\ pc' = Idle /\ (st' = st \/ \E t \in {"AWAITING_HUMAN", "FAILED"} : st' = Goto(st, t))
    BY <1>3 DEF PhaseError, BudgetExceeded, Pause, Leave
  <2>. QED  BY <1>0, <1>1, <2>1 DEF SettledInv, Listed, Idle
<1>4. CASE Spend
  <2>1. /\ st' = [st EXCEPT !.spent = TRUE]
        /\ disk' = disk /\ pc' = pc /\ work' = work /\ queue' = queue
    BY <1>4 DEF Spend
  <2>2. /\ st'.records = st.records /\ st'.requests = st.requests
        /\ st'.rerun_round = st.rerun_round /\ st'.analyses = st.analyses
    BY <1>0, <2>1 DEF State
  <2>3. Settled(st')
    BY <1>2, <2>1
  <2>4. Listed'
    BY <2>1, <2>2 DEF SettledInv, Listed, Undecided, PendingRequests, Unrecorded
  <2>. QED  BY <1>0, <2>1, <2>3, <2>4 DEF SettledInv
<1>5. CASE Interrupt
  <2>1. st' = [st EXCEPT !.spent = disk.spent] /\ disk' = st' /\ pc' = Idle
    BY <1>5 DEF Interrupt, Pause, Leave
  <2>. QED  BY <1>2, <2>1 DEF SettledInv, Listed, Idle
<1>6. CASE Kill
  <2>1. st' = disk /\ disk' = disk /\ pc' = Idle
    BY <1>6 DEF Kill
  <2>. QED  BY <1>0, <2>1 DEF SettledInv, Listed, Idle
<1>. QED  BY <1>3, <1>4, <1>5, <1>6 DEF Fault

LEMMA UserSettles ==
  ASSUME LifeInv, SettledInv, User
  PROVE  SettledInv'
<1>0. st \in State /\ Settled(st) /\ Settled(disk)
  BY DEF LifeInv, TypeOK, SettledInv
<1>1. disk' = disk /\ pc' # "strategy"
  BY DEF User, ReviewPlan, ChooseItem, Decide, ResolveVerdict, Resume, ResumeEnded, Waiting,
         Input, vars, Idle
<1>2. ASSUME NEW f \in File, Decide(f)
      PROVE  Settled(st')
  <2>1. st' = [st EXCEPT !.requests[f] = "decided"] /\ st.status = "AWAITING_HUMAN"
    BY <1>2 DEF Decide, Input, Waiting
  <2>2. /\ st'.status = "AWAITING_HUMAN" /\ st'.rerun_round = st.rerun_round
        /\ st'.removed = st.removed /\ st'.records = st.records
    BY <1>0, <2>1 DEF State
  <2>. QED  BY <1>0, <2>2, MergingSettles DEF Settled, AccountGate, Demanding
<1>3. ASSUME ~\E f \in File : Decide(f)
      PROVE  Settled(st')
  <2>1. Same(st') /\ st'.records = st.records /\ st'.status = st.status
    BY <1>0, <1>3 DEF User, ReviewPlan, ChooseItem, ResolveVerdict, Resume, ResumeEnded,
                      Input, vars, State, Same
  <2>2. Unrecorded(st') = Unrecorded(st) /\ PendingRequests(st') = PendingRequests(st)
    BY <2>1 DEF Same, Unrecorded, PendingRequests
  <2>3. AccountGate(st')
    BY <1>0, <2>1, <2>2 DEF Same, Settled, AccountGate
  <2>4. QuestionGate(st')
    BY <1>0, <2>1, <2>2 DEF Same, Settled, QuestionGate, Undecided
  <2>. QED  BY <2>3, <2>4 DEF Settled
<1>. QED  BY <1>1, <1>2, <1>3 DEF SettledInv, Listed

(* What each status owes to the ones before it holds in memory and in the  *)
(* checkpoint, through every phase, bounce, fault and restart.             *)
THEOREM SettledIsInductive == Spec => []SettledInv
<1>1. Init => SettledInv
  <2>1. SUFFICES ASSUME Init PROVE SettledInv
    OBVIOUS
  <2>2. st.status = "INITIALIZED" /\ st.removed = {} /\ disk = st /\ pc = "loop"
    BY <2>1 DEF Init, InitialState
  <2>. QED  BY <2>2, MergingSettles DEF SettledInv, Settled, AccountGate, QuestionGate, Listed
<1>2. LifeInv /\ LifeInv' /\ GateInv /\ SettledInv /\ [Next]_vars => SettledInv'
  <2>1. LifeInv /\ LifeInv' /\ GateInv /\ SettledInv /\ Next => SettledInv'
    BY RunStepSettles, FaultSettles, UserSettles DEF Next
  <2>2. SettledInv /\ UNCHANGED vars => SettledInv'
    BY DEF SettledInv, Settled, AccountGate, QuestionGate, Listed, Undecided, PendingRequests,
           Unrecorded, vars
  <2>. QED  BY <2>1, <2>2
<1>. QED  BY <1>1, <1>2, StatusIsWhereItSays, GateIsInductive, PTL DEF Spec

(* In a first pass, when the Judge reviews, every upstream-only file has   *)
(* been decided: whatever routing, layers, the analysis, the catch-up      *)
(* after human decisions and crashes skip, something later takes up.       *)
THEOREM EveryFileIsAccounted == Spec => []UpstreamFilesAccounted
<1>1. SettledInv => UpstreamFilesAccounted
  BY DEF SettledInv, Settled, AccountGate, Unrecorded, UpstreamFilesAccounted
<1>. QED  BY <1>1, SettledIsInductive, PTL

(* The Judge never starts while the user is being asked about a file that  *)
(* nothing has decided, whatever was interrupted, rerun or restored.       *)
THEOREM NoQuestionIsSkipped == Spec => []NoQuestionSkipped
<1>1. LifeInv /\ SettledInv => NoQuestionSkipped
  BY At, Places DEF SettledInv, Settled, QuestionGate, Undecided, NoQuestionSkipped
<1>. QED  BY <1>1, StatusIsWhereItSays, SettledIsInductive, PTL
=============================================================================
