------------------------------ MODULE JudgeRun -------------------------------
(* The Judge (judge_agent.py): its deterministic checks, where what the       *)
(* worktree, the refs and the records say of a file decides its issues        *)
(* without the LLM; and JudgeAgent.run over the dispute rounds of the judge   *)
(* phase: which high-risk files the LLM reads, which are cleared without it,  *)
(* and what of the findings of a later round reaches the verdict.             *)
(* An issue is [file, type, level, must, veto].                               *)
EXTENDS Naturals, FiniteSets

ForkDivergence == {"", "fork_deleted", "fork_only", "fork_modified", "other"}
OneSided == {"take_target", "take_current"}
Merged == {"semantic_merge", "manual_patch"}

Found(f, type, level, must, veto) ==
  [file |-> f, type |-> type, level |-> level, must |-> must, veto |-> veto]
Veto(f, type) == Found(f, type, "critical", TRUE, TRUE)
Note(f, type) == Found(f, type, "info", FALSE, FALSE)
When(holds, issue) == IF holds THEN {issue} ELSE {}

(* The divergence of a file is the fork's intention by a path pattern, by the *)
(* forks profile, or by the divergence map.                                   *)
ForkAwareSkip(x) == x.pinned \/ x.profile \/ x.divergence \in {"fork_deleted", "fork_only"}
ForkAwareModify(x) == x.pinned \/ x.profile \/ x.divergence = "fork_modified"

(* A file facts record x: its category, whether upstream's part is in place   *)
(* (diff applied, file present, added symbols there), whether a missing       *)
(* addition is large, and whether the merge has a record of it.               *)
CategoryIssue(f, x) ==
  IF x.inPlace THEN {}
  ELSE CASE x.category = "B" ->
              {IF ForkAwareModify(x) THEN Note(f, "b_class_mismatch_pinned")
                                     ELSE Veto(f, "b_class_mismatch")}
         [] x.category = "D_MISSING" ->
              {IF ForkAwareSkip(x) THEN Note(f, "d_missing_absent_pinned")
               ELSE IF x.decision = "none" THEN Veto(f, "d_missing_not_processed")
               ELSE Veto(f, "d_missing_absent")}
         [] x.category = "C" ->
              {IF ForkAwareModify(x) THEN Note(f, "missing_upstream_addition_pinned")
               ELSE Found(f, "missing_upstream_addition", "high", TRUE, x.large)}
         [] OTHER -> {}

(* extract_missing_top_level_invocations, and the per-file scans.             *)
ScanIssues(f, x) ==
  When(x.todoCheck, Veto(f, "prohibited_todo_check"))
    \cup When(x.category \in {"B", "C"} /\ x.lostCall, Veto(f, "top_level_invocation_lost"))
    \cup When(x.sentinel, Veto(f, "sentinel_hit_unacknowledged"))

(* Checks of the merged text; content that is missing or not text is passed.  *)
DuplicateSymbols(f, x) ==
  When(x.readable /\ x.decision # "none" /\ x.duplicate, Veto(f, "duplicate_top_level_symbol"))
InventedSymbols(f, x) ==
  When(x.readable /\ x.decision \in Merged /\ x.invented, Veto(f, "hallucinated_symbol"))

(* Checks over the whole tree: the count of TODO [merge], shadowed paths,     *)
(* required lines of configuration, keys other layers must hold, and symbols  *)
(* of a changed interface that fork-only files still use.  Files are numbers  *)
(* here, and WholeTree stands for the "(global)" issue's file.                *)
WholeTree == 0
GlobalIssues(todos, shadows, retention, crossLayer, grepped) ==
  When(todos > 30, Veto(WholeTree, "todo_merge_exceeded"))
    \cup {Veto(f, "shadow_conflict_unresolved") : f \in shadows}
    \cup {Veto(f, "config_retention_violation") : f \in retention}
    \cup {Veto(f, "cross_layer_assertion_missing") : f \in crossLayer}
    \cup {Veto(CHOOSE f \in grepped[s] : TRUE, "reverse_impact_unhandled")
          : s \in {t \in DOMAIN grepped : grepped[t] # {}}}

-----------------------------------------------------------------------------
(* Upstream changed the signature of symbols: `changes` are pairs of a symbol *)
(* and the file that defines it, `uses` pairs of a symbol and a file whose    *)
(* merged text mentions it, `decisions` what the records decided (or "none"), *)
(* `edges` the extracted imports <<importer, imported>>.                      *)
Opposite(d) == IF d = "take_target" THEN "take_current" ELSE "take_target"

SplitFromFork(changes, uses, decisions) ==
  {Found(u[2], "cross_file_signature_split", "high", TRUE, TRUE)
   : u \in {v \in uses : \E c \in changes :
              /\ v[1] = c[1] /\ v[2] # c[2]
              /\ decisions[c[2]] = "take_current"
              /\ decisions[v[2]] = "take_target"}}

SignatureSplit(changes, uses, decisions) ==
  {Found(u[2], "cross_file_signature_split", "high", TRUE, TRUE)
   : u \in {v \in uses : \E c \in changes :
              /\ v[1] = c[1] /\ v[2] # c[2]
              /\ decisions[c[2]] \in OneSided
              /\ decisions[v[2]] = Opposite(decisions[c[2]])}}

DependencyMissed(changes, uses, decisions, edges, grepped) ==
  {Found(u[2], "dependency_missed_update", "high", TRUE, TRUE)
   : u \in {v \in uses : \E c \in changes :
              /\ v[1] = c[1] /\ v[2] # c[2] /\ <<v[2], c[2]>> \in edges
              /\ v[2] \notin grepped[c[1]]
              /\ decisions[v[2]] # "take_target"}}

-----------------------------------------------------------------------------
(* verify_customizations: a customization is checked in one of six ways; a    *)
(* check that lacks its pattern, its bound or its baseline passes.            *)
Retained(v) ==
  CASE v.type = "grep" -> v.pattern => v.matches > 0
    [] v.type = "function_exists" -> v.pattern => v.matches > 0
    [] v.type = "grep_count_min" -> v.pattern => v.matches >= v.bound
    [] v.type = "grep_count_baseline" -> v.pattern /\ v.baseline > 0 => v.matches >= v.baseline
    [] v.type = "file_exists" -> v.present
    [] v.type = "line_retention" ->
         v.baseline > 0 => v.present /\ 100 * v.matches >= v.bound * v.baseline

(* compute_verdict, which parse_judge_verdict repeats: the LLM's own verdict  *)
(* is ignored.                                                                *)
Verdict(issues) ==
  IF \E i \in issues : i.level \in {"critical", "high"} THEN "fail"
  ELSE IF issues # {} THEN "conditional" ELSE "pass"

-----------------------------------------------------------------------------
(* The run. *)
CONSTANTS
  RiskyFile,    \* files of high risk or sensitive, with a decision record
  LastDispute   \* bound: dispute rounds

ASSUME JudgeRunAssumption == LastDispute \in Nat

VARIABLES
  sensitive,  \* the files the classifier calls security-sensitive
  toldBy,     \* how each file was judged: see Path
  found,      \* the issues of this round, before the freeze
  prior,      \* the issues of the last verdict
  verdict,    \* the last verdict, "none" before the first
  dispute     \* judge_repair_rounds

judgeVars == <<sensitive, toldBy, found, prior, verdict, dispute>>

(* What the deterministic checks see of a file: everything in place, or one   *)
(* thing that is not.                                                         *)
InOrder == [category |-> "C", inPlace |-> TRUE, large |-> FALSE, pinned |-> FALSE,
            profile |-> FALSE, divergence |-> "", decision |-> "semantic_merge",
            todoCheck |-> FALSE, lostCall |-> FALSE, sentinel |-> FALSE,
            readable |-> TRUE, duplicate |-> FALSE, invented |-> FALSE]
Checked ==
  {InOrder, [InOrder EXCEPT !.lostCall = TRUE], [InOrder EXCEPT !.invented = TRUE],
   [InOrder EXCEPT !.inPlace = FALSE], [InOrder EXCEPT !.inPlace = FALSE, !.pinned = TRUE]}
CheckIssues(f, x) ==
  CategoryIssue(f, x) \cup ScanIssues(f, x) \cup DuplicateSymbols(f, x) \cup InventedSymbols(f, x)

(* A file is of high risk or sensitive.  Its copy is compared when its record *)
(* takes one side and both blobs can be read (O-J3); the parser's word on it  *)
(* counts when it has one for the language (O-J1).                            *)
Fact == [sensitive : BOOLEAN, checks : Checked, confident : BOOLEAN,
         copy : {"equal", "differs", "uncompared"},
         syntax : {"valid", "invalid", "unchecked"},
         answer : {"clean", "advice", "serious", "failed", "raised"},
         markers : BOOLEAN]

Path == {"unjudged", "vetoed", "taken", "drift", "confident", "read", "lost"}

TakeVerified(x) == ~x.sensitive /\ x.copy # "uncompared"
SkippedAsConfident(x) == ~x.sensitive /\ x.confident /\ x.syntax = "valid"

PathOf(x) ==
  IF \E i \in CheckIssues("", x.checks) : i.veto THEN "vetoed"
  ELSE IF TakeVerified(x) THEN IF x.copy = "equal" THEN "taken" ELSE "drift"
  ELSE IF SkippedAsConfident(x) THEN "confident"
  ELSE IF x.answer = "raised" THEN "lost" ELSE "read"

(* review_file: a review that cannot be had is a veto, and the search for a   *)
(* conflict marker goes on; a review that raises out of it is only logged.    *)
ReviewIssues(f, x) ==
  When(x.syntax = "invalid", Found(f, "syntax_error", "critical", TRUE, FALSE))
    \cup (CASE x.answer = "clean" -> {}
            [] x.answer = "advice" -> {Found(f, "other", "medium", FALSE, FALSE)}
            [] x.answer = "serious" -> {Found(f, "other", "high", FALSE, FALSE)}
            [] OTHER -> {Veto(f, "review_unavailable")})
    \cup When(x.markers, Found(f, "unresolved_conflict", "critical", TRUE, FALSE))

IssuesOf(f, x) ==
  CheckIssues(f, x.checks)
    \cup When(PathOf(x) = "drift", Veto(f, "take_decision_drift"))
    \cup (IF PathOf(x) = "read" THEN ReviewIssues(f, x) ELSE {})

(* _freeze_to_prior_issues: the same file and type.                           *)
SameObject(i, j) == FALSE
SameIssue(i, j) == i.file = j.file /\ i.type = j.type
Frozen(now, before) == {i \in now : \E j \in before : SameIssue(i, j)}

JudgeInit ==
  /\ sensitive \in SUBSET RiskyFile
  /\ toldBy = [f \in RiskyFile |-> "unjudged"]
  /\ found = {} /\ prior = {} /\ verdict = "none" /\ dispute = 0

(* One run.  Between two of them the repair may change everything about a     *)
(* file but what the classifier said of it.                                   *)
Judge ==
  /\ verdict = "none" \/ (verdict # "pass" /\ dispute < LastDispute)
  /\ dispute' = IF verdict = "none" THEN 0 ELSE dispute + 1
  /\ \E facts \in [RiskyFile -> Fact] :
       /\ \A f \in RiskyFile : facts[f].sensitive = (f \in sensitive)
       /\ toldBy' = [f \in RiskyFile |-> PathOf(facts[f])]
       /\ found' = UNION {IssuesOf(f, facts[f]) : f \in RiskyFile}
  /\ LET kept == IF dispute' > 0 /\ prior # {} THEN Frozen(found', prior) ELSE found'
     IN prior' = kept /\ verdict' = Verdict(kept)
  /\ UNCHANGED sensitive

JudgeRunSpec == JudgeInit /\ [][Judge]_judgeVars

-----------------------------------------------------------------------------
(* A PASS is earned: no finding of the round repeats one of the last verdict, *)
(* a first round passes only files whose checks left nothing, and a sensitive *)
(* file is never cleared by its confidence or by a comparison of blobs.       *)
PassIsEarned ==
  [][verdict' = "pass" =>
       /\ \A i \in found', j \in prior : i.file # j.file \/ i.type # j.type
       /\ \A f \in RiskyFile :
            /\ dispute' = 0 => toldBy'[f] \notin {"vetoed", "drift"}
            /\ f \in sensitive => toldBy'[f] \notin {"taken", "confident"}]_judgeVars
=============================================================================
