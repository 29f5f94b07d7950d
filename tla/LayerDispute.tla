---------------------------- MODULE LayerDispute -----------------------------
(* The sub-review of one merge layer: the Judge reviews the layer's files,    *)
(* the Executor accepts its findings and repairs, or disputes them and has    *)
(* them weighed again, for at most MaxRounds rounds; then the files that      *)
(* still block go to the human.  (auto_merge.py, JudgeAgent.review_batch and  *)
(* re_evaluate, ExecutorAgent.build_rebuttal and repair.)                     *)
EXTENDS Naturals, FiniteSets

CONSTANTS
  LayerFile,     \* the layer's files, numbered in the order they are reviewed
  MaxRounds,     \* config.max_dispute_rounds
  BatchSize,     \* files in one review call, _BATCH_SIZE
  Blocking       \* config.judge_blocking_levels

ASSUME LayerDisputeAssumption ==
  /\ LayerFile \subseteq Nat /\ IsFiniteSet(LayerFile)
  /\ {MaxRounds, BatchSize} \subseteq Nat \ {0}
  /\ Blocking \subseteq {"critical", "high", "medium", "low", "info"}

VARIABLES
  progress,       \* "new", "judged", "approved" or "exhausted"
  risk,        \* risk level in the file's diff
  recordOf,    \* its decision record: "skip" or none, "operator", "merged"
  defects,     \* what a check of the worktree file would find
  issues,      \* issues of the current BatchVerdict
  disputes,    \* dispute rounds made
  escalatedTo, \* files with a HumanDecisionRequest
  unread       \* history: files of chunks whose last review raised

disputeVars == <<progress, risk, recordOf, defects, issues, disputes, escalatedTo, unread>>

Defect == {"syntax_error", "unresolved_conflict"}
Issue(f, type, level, must, veto) ==
  [file |-> f, type |-> type, level |-> level, must |-> must, veto |-> veto]

(* What the answer to a review says of one file: its findings never carry a   *)
(* veto, and those that neither block nor must be fixed are left out, since    *)
(* nothing looks at them.  A review that fails is closed by one for each file. *)
ReviewAnswer == {"clean", "serious", "must_fix"}
Finding(f, said) ==
  CASE said = "clean" -> {}
    [] said = "serious" -> {Issue(f, "other", "high", FALSE, FALSE)}
    [] said = "must_fix" -> {Issue(f, "other", "medium", TRUE, FALSE)}
    [] said = "failed" -> {Issue(f, "batch_review_unavailable", "critical", TRUE, TRUE)}

(* _review_file_deterministic *)
Deterministic(f) == {Issue(f, d, "critical", TRUE, FALSE) : d \in defects[f]}

Reviewed == {f \in LayerFile : recordOf[f] # "skip"}
Risky == {f \in Reviewed : risk[f] # "auto_safe"}
ChunkOf(f) == (Cardinality({g \in Risky : g <= f}) - 1) \div BatchSize

(* _compute_batch_approved: the LLM's own verdict changes nothing.            *)
Approved(found) == \A i \in found : ~i.must /\ i.level \notin Blocking

DisputeInit ==
  /\ progress = "new"
  /\ risk = [f \in LayerFile |-> "auto_safe"]
  /\ recordOf = [f \in LayerFile |-> "merged"]
  /\ defects = [f \in LayerFile |-> {}]
  /\ issues = {} /\ disputes = 0 /\ escalatedTo = {} /\ unread = {}

(* The layer is merged: its records and its worktree files are whatever the   *)
(* executor left behind.  Nothing looks at a file without a record, so one    *)
(* such file stands for all.                                                  *)
MergeLayerFiles ==
  /\ progress = "new"
  /\ risk' \in [LayerFile -> {"auto_safe", "auto_risky"}]
  /\ recordOf' \in [LayerFile -> {"skip", "operator", "merged"}]
  /\ defects' \in [LayerFile -> SUBSET Defect]
  /\ \A f \in LayerFile : recordOf'[f] = "skip" => risk'[f] = "auto_safe" /\ defects'[f] = {}
  /\ progress' = "merged"
  /\ UNCHANGED <<issues, disputes, escalatedTo, unread>>

(* review_batch: each chunk of risky files is answered, fails inside the      *)
(* review, or raises out of it, which is only logged and drops the chunk's    *)
(* deterministic findings too.                                                *)
ReviewBatch ==
  \E said \in [Risky -> ReviewAnswer \cup {"failed", "raised"}] :
    LET heard == {f \in Risky : said[f] # "raised"}
    IN /\ \A f, g \in Risky : ChunkOf(f) = ChunkOf(g) /\ said[f] \notin ReviewAnswer => said[g] = said[f]
       /\ issues' = UNION {Deterministic(f) : f \in (Reviewed \ Risky) \cup heard}
                     \cup UNION {Finding(f, said[f]) : f \in heard}
       /\ unread' = Risky \ heard

Review ==
  /\ progress \in {"merged", "repaired"}
  /\ ReviewBatch
  /\ progress' = "judged"
  /\ UNCHANGED <<risk, recordOf, defects, disputes, escalatedTo>>

Disputing == progress = "judged" /\ ~Approved(issues) /\ disputes < MaxRounds

(* The executor accepts all, or its rebuttal fails, which counts as that; of  *)
(* the findings that must be fixed it instructs the repair of some.  A file   *)
(* without instructions, or whose repair fails, is too large or meets the     *)
(* operator's record, keeps its defects; content with a conflict marker is    *)
(* not written.                                                               *)
OpenToRepair(f) == recordOf[f] # "operator"
Repaired(f) == SUBSET {"syntax_error"} \cup {defects[f]}

Repair ==
  /\ Disputing
  /\ LET open == {f \in {i.file : i \in {j \in issues : j.must}} : OpenToRepair(f)}
     IN \E now \in [open -> SUBSET Defect] :
          /\ \A f \in open : now[f] \in Repaired(f)
          /\ defects' = [f \in LayerFile |-> IF f \in open THEN now[f] ELSE defects[f]]
  /\ progress' = "repaired"
  /\ UNCHANGED <<risk, recordOf, issues, escalatedTo, unread>>

\* Mutant: only a rebuttal counts as a round of the dispute.
AcceptAllUncounted == Repair /\ UNCHANGED disputes
AcceptAll == Repair /\ disputes' = disputes + 1

(* A rebuttal that disputes anything: what it accepts is not repaired.        *)
(* re_evaluate: an answer may close what need not be fixed, but a finding     *)
(* that must be fixed or carries a veto is kept; without an answer the        *)
(* verdict stands.                                                            *)
OnlyVetoes(found) == {i \in found : i.veto}
Authoritative(found) == {i \in found : i.must \/ i.veto}

ReEvaluate ==
  /\ Disputing
  /\ \E kept \in SUBSET (issues \ Authoritative(issues)) : issues' = kept \cup Authoritative(issues)
  /\ disputes' = disputes + 1
  /\ UNCHANGED <<progress, risk, recordOf, defects, escalatedTo, unread>>

Approve ==
  /\ progress = "judged" /\ Approved(issues)
  /\ progress' = "approved"
  /\ UNCHANGED <<risk, recordOf, defects, issues, disputes, escalatedTo, unread>>

(* The rounds are used up, or the executor's circuit breaker is open; every   *)
(* blocking file gets a request.                                              *)
Stuck(found) == {i.file : i \in {j \in found : j.must \/ j.level \in Blocking}}

GiveUp ==
  /\ progress = "judged" /\ ~Approved(issues)
  /\ escalatedTo' = escalatedTo \cup Stuck(issues)
  /\ progress' = "exhausted"
  /\ UNCHANGED <<risk, recordOf, defects, issues, disputes, unread>>

DisputeNext ==
  MergeLayerFiles \/ Review \/ AcceptAll \/ ReEvaluate \/ Approve \/ GiveUp
DisputeFairness == WF_disputeVars(DisputeNext)
DisputeSpec == DisputeInit /\ [][DisputeNext]_disputeVars /\ DisputeFairness

-----------------------------------------------------------------------------
(* A file that holds a syntax error or a conflict marker, and whose review    *)
(* did not raise, keeps its layer from being approved through any sequence of *)
(* repairs and disputes; when the rounds are used up it is before a person.   *)
NoDefectSlipsThrough ==
  \A f \in LayerFile :
    recordOf[f] # "skip" /\ defects[f] # {} /\ f \notin unread
      => /\ progress # "approved"
         /\ progress = "exhausted" => f \in escalatedTo

(* A layer under dispute is approved or given up in the end, whatever the     *)
(* Judge finds in each repair and whatever the executor answers.              *)
DisputeEnds == progress = "merged" ~> progress \in {"approved", "exhausted"}
=============================================================================
