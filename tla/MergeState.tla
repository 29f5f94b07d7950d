----------------------------- MODULE MergeState -----------------------------
(***************************************************************************)
(* The persisted state of one merge run (models/state.py), the process     *)
(* that works on it, and the helpers every phase uses.  `st' is the        *)
(* MergeState object, one record, because the checkpoint writes and reads  *)
(* it as a whole; `disk' is checkpoint.json.                               *)
(***************************************************************************)
EXTENDS StateMachine, Naturals, FiniteSets

CONSTANTS
  File,            \* the files upstream and fork differ in
  BothChanged,     \* category C: changed on both sides (others: upstream only)
  NonReplayable,   \* files of state.non_replayable_commits
  Plans,           \* the classifications a planner may produce
  MaxPlanRounds,   \* config.max_plan_revision_rounds
  MaxDisputes,     \* config.max_dispute_rounds
  MaxReruns,       \* config.max_rerun_rounds
  Env              \* which outcomes of the environment are possible (see Events)

\* gate:   gate commands can fail often enough to reach the limit
\* drift:  more than _B_CLASS_DRIFT_FATAL_THRESHOLD files can drift
\* error:  a phase can raise            budget: the cost ceiling can be reached
\* apply:  executing one human decision can raise
\* interrupt: SIGINT/SIGTERM            kill: the process can die unsaved
\* replan: the plan judge can demand a replan from scratch
\* early:  the user can answer a verdict at a gate that does not ask for it
Events == {"gate", "drift", "error", "apply", "replan", "early", "budget",
           "interrupt", "kill"}

RiskLevel == {"safe", "risky", "human"}   \* AUTO_SAFE, AUTO_RISKY, HUMAN_REQUIRED

ASSUME ConstantsAssumption ==
  /\ BothChanged \subseteq File
  /\ NonReplayable \subseteq BothChanged
  /\ Plans \subseteq [File -> RiskLevel]
  /\ MaxPlanRounds \in Nat \ {0} /\ MaxDisputes \in Nat \ {0} /\ MaxReruns \in Nat
  /\ Env \subseteq Events

VARIABLES
  st,      \* the live MergeState
  disk,    \* the MergeState in checkpoint.json
  pc,      \* where the orchestrator's coroutine stands
  round,   \* the round of the loop the phase is in
  work,    \* the files the step in progress has still to treat
  queue,   \* a local list of the phase: marker_analysis_files, needs_human
  unseen   \* history: files written since the Judge last read the tree

vars == <<st, disk, pc, round, work, queue, unseen>>

(* A UserDecisionItem per file (pending_user_decisions): open, open with   *)
(* the options A/B/C of the pre-pass, or the class of its user_choice: act *)
(* (_ACTIONABLE_KEYS), auto (the downgrade keys), defer (approve_human),   *)
(* other (a key no code path tests: A, B, C, llm_with_instruction).        *)
ItemState == {"none", "open", "letters", "act", "auto", "defer", "other"}

(* A HumanDecisionRequest per file (human_decision_requests).              *)
RequestState == {"none", "open", "decided"}

(* A FileDecisionRecord per file: none; auto (decided by an agent); chosen *)
(* (the user's choice, written with source AUTO_EXECUTOR); human (source   *)
(* HUMAN); esc (ESCALATE_HUMAN, source AUTO); lost (ESCALATE_HUMAN with    *)
(* source HUMAN).                                                          *)
RecordState == {"none", "auto", "chosen", "human", "esc", "lost"}
Escalated == {"esc", "lost"}
HumanSource == {"human", "lost"}

Phases == {"init", "analysis", "plan_review", "plan_revising", "auto_merge",
           "conflict_analysis", "judge_review", "report"}

State == [status: SystemStatus, current_phase: Phases, risk: [File -> RiskLevel],
          removed: SUBSET File,          \* files taken out of the plan's batches
          items: [File -> ItemState], surfaced: SUBSET File,
          requests: [File -> RequestState], records: [File -> RecordState],
          conclusion: {"none", "approved", "other"},        \* review_conclusion
          plan_human_review: {"none", "approve", "reject", "modify"},
          analyses: SUBSET File, pending_conflict: SUBSET File,
          verdict: {"none", "PASS", "FAIL"}, failed_files: SUBSET File,
          judge_resolution: {"none", "accept", "abort", "rerun"},
          rerun_round: 0..MaxReruns, exhausted: BOOLEAN, replayed: BOOLEAN,
          dry_run: BOOLEAN, spent: BOOLEAN, dropped: SUBSET File]

None == [f \in File |-> "none"]

\* A new run: nothing planned (`risk' has no meaning yet), nothing decided.
InitialState(dry) ==
  [status |-> "INITIALIZED", current_phase |-> "init",
   risk |-> [f \in File |-> "safe"], removed |-> {},
   items |-> None, surfaced |-> {}, requests |-> None, records |-> None,
   conclusion |-> "none", plan_human_review |-> "none", analyses |-> {},
   pending_conflict |-> {}, verdict |-> "none", failed_files |-> {},
   judge_resolution |-> "none", rerun_round |-> 0, exhausted |-> FALSE,
   replayed |-> FALSE, dry_run |-> dry, spent |-> FALSE, dropped |-> {}]

Idle == "idle"
PC == {Idle, "loop", "review", "replan", "revise", "stalled", "items", "merge",
       "subreview", "finish", "analyze", "strategy", "apply", "judge", "judged",
       "verdict"}

-----------------------------------------------------------------------------
Open(s) == {f \in File : s.items[f] \in {"open", "letters"}}
PendingRequests(s) == {f \in File : s.requests[f] = "open"}
Unrecorded(s) == {f \in File : s.records[f] = "none"}
PlanFiles(s, levels) == {f \in File \ s.removed : s.risk[f] \in levels}

Goto(s, target) == [s EXCEPT !.status = target]

\* fn with the value g[f] for every f of the domain of g.
Overlay(fn, g) == [f \in DOMAIN fn |-> IF f \in DOMAIN g THEN g[f] ELSE fn[f]]
Record(s, g) == [s EXCEPT !.records = Overlay(s.records, g)]

(* How control leaves an action.  Step stays inside the phase; Return is a *)
(* PhaseOutcome with a checkpoint tag: the loop saves and dispatches again; *)
(* Pause is one with extra.paused: run() saves and returns.                *)
Step(s, p)  == st' = s /\ pc' = p /\ UNCHANGED disk
Leave(s, p) == /\ st' = s /\ disk' = s /\ pc' = p
               /\ round' = 0 /\ work' = {} /\ queue' = {}
Return(s) == Leave(s, "loop")
Pause(s)  == Leave(s, Idle)
Wrote(F)  == unseen' = unseen \cup F

(* A checkpoint inside a phase; only the loop and its exception handlers    *)
(* take the cost snapshot before they save.                                *)
SaveInPhase == disk' = [st' EXCEPT !.spent = disk.spent]

-----------------------------------------------------------------------------
(* dispatch_user_choice for a set of actionable items: a file written (or  *)
(* a failed write) is a record with source AUTO; skip and the failures of  *)
(* union and paste are records with source HUMAN.                          *)
DispatchOutcome == {"chosen", "human", "esc", "lost"}
Actionable(s) == {f \in File : s.items[f] = "act"}

\* Executor.repair: it skips a record of source HUMAN; a patch may be refused.
RepairableByAnyone(s, F) == F   \* mutant
Repairable(s, F) == {f \in F : s.records[f] \notin HumanSource}
Repairs(F) == [F -> {"auto", "esc"}]

\* The files the new records g say were written.
Landed(g) == {f \in DOMAIN g : g[f] \in {"auto", "chosen", "human"}}

-----------------------------------------------------------------------------
DryRunHaltsLate == st.dry_run /\ st.status = "JUDGE_REVIEWING"   \* mutant
DryRunHalts == st.dry_run /\ st.status = "AUTO_MERGING"
CeilingHit  == st.spent /\ st.status # "AWAITING_HUMAN"

\* The loop dispatches the phase of status s.
Dispatch(s) == pc = "loop" /\ st.status = s /\ ~DryRunHalts /\ ~CeilingHit
=============================================================================
