---------------------------- MODULE FileRouting ------------------------------
(* What initialisation makes of one file: its three-way category, the fork's  *)
(* divergence, whether the fork profile or a pattern of the configuration     *)
(* decides it before any agent sees it, and its risk level, which the planner *)
(* sets anew.  (file_classifier.py, initialize.py, forks_profile_loader.py,   *)
(* pollution_auditor.py, planner_agent.py.)                                   *)
EXTENDS Naturals, Sequences, SequencesExt, FiniteSetsExt, Lists

CONSTANT RatedFiles   \* files the planner may rate: see RatedFile

(* A blob of the file, Absent where the tree has none.                        *)
Absent == 0
Blob == 0 .. 3

(* A case: the blobs of the merge base, the fork and upstream; the policy of  *)
(* the rewritten module the path lies in; whether it lies in a removed        *)
(* domain; what the migration policy would do with its number; and the        *)
(* patterns of the configuration it matches.                                  *)
Policy == {"none", "semantic_merge_with_alert", "escalate_human", "take_current_with_diff_note"}
RoutingCase ==
  [base : Blob, head : Blob, up : Blob, module : Policy, removed : BOOLEAN,
   migration : {"free", "escalate_human", "take_current"},
   takeUpstream : BOOLEAN, takeCurrent : BOOLEAN]

(* classify_all_files, classify_three_way: the order of the tests matters.    *)
Category(base, head, up) ==
  IF head = Absent /\ up # Absent THEN "D_MISSING"
  ELSE IF head # Absent /\ up = Absent THEN "D_EXTRA"
  ELSE IF head = up THEN "A"
  ELSE IF head = base THEN "B"
  ELSE IF up = base THEN "E" ELSE "C"

(* compute_fork_divergence_map: a change of the fork hides that upstream      *)
(* deleted the file.                                                          *)
Divergence(base, head, up) ==
  IF head # Absent /\ base # Absent /\ head # base THEN "FORK_MODIFIED"
  ELSE IF head = Absent /\ base # Absent /\ up # Absent THEN "FORK_DELETED"
  ELSE IF head # Absent /\ up = Absent THEN "FORK_ONLY"
  ELSE IF head = Absent /\ base = Absent /\ up # Absent THEN "UPSTREAM_ADDED"
  ELSE IF head # Absent /\ head = base /\ up # base THEN "UPSTREAM_ONLY_CHANGE"
  ELSE "UNCHANGED"

(* PollutionAuditor._reclassify on a file of an earlier merge commit.  It     *)
(* reads the blobs the category was computed from.                            *)
Audited(c, base, head, up) ==
  CASE c = "A" /\ head # up -> IF head = base THEN "B" ELSE IF up = base THEN "E" ELSE "C"
    [] c = "E" /\ up # base -> IF head = up THEN "A" ELSE "C"
    [] c = "B" /\ head # base -> IF head = up THEN "A" ELSE "C"
    [] OTHER -> c

CategoryOf(x) == Audited(Category(x.base, x.head, x.up), x.base, x.head, x.up)
ActionableCategory == {"B", "C", "D_MISSING"}

(* A decision: the record, whether it is taken from the AI flow, and which    *)
(* copy is in the working tree.                                               *)
Undecided == [record |-> "none", by |-> "none", tree |-> "fork"]
TakeCurrent(who) == [record |-> "take_current", by |-> who, tree |-> "fork"]
Escalate(who) == [record |-> "escalate_human", by |-> who, tree |-> "fork"]

(* _apply_forks_profile_routing: the module before the domain, the domain     *)
(* before a migration number; an alert decides nothing and ends the search.   *)
ByModule(x) ==
  CASE x.module = "escalate_human" -> Escalate("profile")
    [] x.module = "take_current_with_diff_note" -> TakeCurrent("profile")
    [] OTHER -> Undecided

(* find_migration_collision: only files the fork does not have.               *)
ByMigration(x) ==
  IF CategoryOf(x) # "D_MISSING" \/ x.migration = "free" THEN Undecided
  ELSE IF x.migration = "take_current" THEN TakeCurrent("profile") ELSE Escalate("profile")

ByProfile(x) ==
  IF x.module # "none" THEN ByModule(x)
  ELSE IF x.removed THEN TakeCurrent("profile")
  ELSE ByMigration(x)

(* _apply_forced_decisions: any category, never over a record of the profile. *)
(* Taking upstream's side of a file it does not have deletes the file.        *)
ForceTakeTarget(x) ==
  [record |-> "take_target", by |-> "pattern", tree |-> IF x.up = Absent THEN "absent" ELSE "upstream"]

ByPattern(x) ==
  IF x.takeUpstream THEN ForceTakeTarget(x)
  ELSE IF x.takeCurrent THEN TakeCurrent("pattern")
  ELSE Undecided

PatternFirst(x) == IF ByPattern(x) # Undecided THEN ByPattern(x) ELSE ByProfile(x)
Decision(x) == IF ByProfile(x) # Undecided THEN ByProfile(x) ELSE ByPattern(x)

(* What is left for the AI flow.                                              *)
GoesToAgents(x) == CategoryOf(x) \in ActionableCategory /\ Decision(x) = Undecided

(* The copy of a file missing from the fork when auto merge reaches it: what  *)
(* the fork deleted stays deleted, the rest comes from upstream.              *)
IsForkDeleted(x) == Divergence(x.base, x.head, x.up) = "FORK_DELETED"
MissingFile(x) ==
  IF IsForkDeleted(x) THEN [record |-> "skip", by |-> "auto_merge", tree |-> "fork"]
  ELSE [record |-> "take_target", by |-> "auto_merge", tree |-> "upstream"]

(* The file's way as far as no agent's judgement is needed.                   *)
Way(x) ==
  IF GoesToAgents(x) /\ CategoryOf(x) = "D_MISSING" THEN MissingFile(x) ELSE Decision(x)
Route(x) ==
  [agents |-> GoesToAgents(x), record |-> Way(x).record, by |-> Way(x).by, tree |-> Way(x).tree]

-----------------------------------------------------------------------------
(* The risk level initialisation gives an actionable file, which decides in   *)
(* the plan whether a person sees it: file_classifier.py and the sensitive    *)
(* fields of structured files.  Scores are in hundredths; the weighted sum of *)
(* size, density, change ratio and file type is any of RawScores.             *)

RawScores == {10, 29, 45, 60, 95}
RiskHintBump == 25       \* config.security_sensitive.risk_hint_bump
CClassFloor == 40        \* config.c_class_risk_floor

Demands == {{}, {"auto_risky"}, {"auto_risky", "human_required"}}

(* A case: the path's class by pattern ("strict" are certificates, keys, env  *)
(* files; "template" an env template, which is no secret), the diff's size,   *)
(* and the levels the sensitive-field rules demand of the fields changed.     *)
RiskCase ==
  [category : {"B", "C", "D_MISSING"}, path : {"plain", "hint", "template", "strict"},
   changed : {0, 3, 30}, raw : RawScores, takeTarget : BOOLEAN, forceSafe : BOOLEAN,
   kind : {"text"}, markers : BOOLEAN, fields : Demands]
  \cup
  [category : {"B", "C", "D_MISSING"}, path : {"plain", "strict"}, changed : {0}, raw : {10, 95},
   takeTarget : {FALSE}, forceSafe : BOOLEAN, kind : {"binary", "excluded", "deleted"},
   markers : {FALSE}, fields : Demands]

(* compute_risk_score: a strong signal lifts the score into the human band, a *)
(* weak one adds a bump.  Files without a change of content are left alone.   *)
LiftBothChanged(x, score) ==
  IF x.category = "C" /\ x.changed > 0 THEN Max({score, CClassFloor}) ELSE score

RiskScore(x) ==
  IF x.takeTarget THEN 10
  ELSE IF x.changed > 0 /\ x.path = "strict" THEN Max({x.raw, 80})
  ELSE IF x.changed > 0 /\ x.path \in {"template", "hint"}
  THEN Min({100, LiftBothChanged(x, x.raw + RiskHintBump)})
  ELSE LiftBothChanged(x, x.raw)

IsSecuritySensitive(x) == x.path = "strict"

Band(score) ==
  IF score < 30 THEN "auto_safe" ELSE IF score < 60 THEN "auto_risky" ELSE "human_required"

(* classify_file at a score: the first test that applies.                     *)
BandOnly(x, score) == Band(score)
BandWithFloor(x, score) ==
  LET level == Band(score)
  IN IF x.category = "C" /\ level = "auto_safe"
     THEN IF x.changed >= 20 \/ IsSecuritySensitive(x) THEN "human_required" ELSE "auto_risky"
     ELSE level

Classify(x, score) ==
  CASE x.kind = "excluded" -> "excluded"
    [] x.kind = "binary" -> "binary"
    [] x.kind = "deleted" -> "deleted_only"
    [] x.kind = "text" /\ x.markers -> "human_required"
    [] x.kind = "text" /\ ~x.markers /\ x.forceSafe /\ ~IsSecuritySensitive(x) -> "auto_safe"
    [] OTHER -> BandWithFloor(x, score)

(* RiskLevel.severity; levels outside the three count as the lowest.          *)
Severity(level) ==
  CASE level = "human_required" -> 2 [] level = "auto_risky" -> 1 [] OTHER -> 0

(* _apply_field_sensitivity: the strictest demand, and only upwards.          *)
Strictest(levels) == CHOOSE a \in levels : \A b \in levels : Severity(b) <= Severity(a)
Escalated(level, demanded) ==
  IF Severity(Strictest(demanded)) > Severity(level) THEN Strictest(demanded) ELSE level

RiskLevelOf(x) ==
  LET level == Classify(x, RiskScore(x))
  IN IF x.fields = {} THEN level ELSE Escalated(level, x.fields)

-----------------------------------------------------------------------------
(* The planner rates the files of the plan anew before it makes batches       *)
(* (PlannerAgent._enhance_risk_scores).  A file is ranked by its complexity,  *)
(* "low" below the band of uncertainty, "mid" in it, and comes with the score *)
(* the model will give it: none when the request fails or is not understood,  *)
(* its own when the answer leaves the score out.                              *)
NoAnswer == 998
NoScore == 999
RatedFile ==
  [file : RiskCase, complexity : {"low", "mid", "high"}, answer : (0 .. 100) \cup {NoAnswer, NoScore}]
ASSUME RatedFilesAssumption == RatedFiles \subseteq RatedFile

Label == {"auto_safe", "nonsense", "left_out"}
RatingCase ==
  [files : [1 .. 2 -> RatedFiles], label : Label, mode : {"off", "auto", "always"},
   budget : {1, 2}, central : SUBSET {1}]
RuleWeight == 60    \* config.llm_assist.rule_weight
GodNodeBump == 15   \* config.dependency_graph.god_node_risk_bump

Rank(complexity) == CASE complexity = "low" -> 0 [] complexity = "mid" -> 1 [] complexity = "high" -> 2

(* The files asked about, the most complex first when there are too many.     *)
Wanted(x) ==
  {f \in DOMAIN x.files :
     x.mode # "off" /\ (x.mode = "always" \/ Rank(x.files[f].complexity) > 0)}
Selected(x) ==
  LET order == OrderedBy(Wanted(x), LAMBDA f, g :
                 \/ Rank(x.files[f].complexity) > Rank(x.files[g].complexity)
                 \/ Rank(x.files[f].complexity) = Rank(x.files[g].complexity) /\ f < g)
  IN ToSet(SubSeq(order, 1, Min({Len(order), x.budget})))

(* As initialisation left it; and with a new score, from which the level is   *)
(* derived again: what a rule about its fields demanded is not.               *)
Unrated(file) == [score |-> RiskScore(file), level |-> RiskLevelOf(file)]
Rated(file, score) == [score |-> score, level |-> Classify(file, score)]

(* _rescore_files: the rule's score blended with the model's; a request that  *)
(* failed changes nothing.  _reclassify_files: the model's level stands; a    *)
(* level it made up is auto_safe.                                             *)
Blended(score, answer) ==
  (RuleWeight * score + (100 - RuleWeight) * (IF answer = NoScore THEN score ELSE answer)) \div 100
Rescored(r) ==
  IF r.answer = NoAnswer THEN Unrated(r.file)
  ELSE Rated(r.file, Blended(RiskScore(r.file), r.answer))
Reclassified(r, label) ==
  CASE label = "left_out" -> Unrated(r.file)
    [] label = "nonsense" -> [Unrated(r.file) EXCEPT !.level = "auto_safe"]
    [] OTHER -> [Unrated(r.file) EXCEPT !.level = label]
Enhanced(x) ==
  [f \in DOMAIN x.files |->
     IF f \notin Selected(x) THEN Unrated(x.files[f].file)
     ELSE IF x.files[f].complexity = "high" THEN Reclassified(x.files[f], x.label)
     ELSE Rescored(x.files[f])]

(* _apply_god_node_risk: a file many others depend on scores higher, if it    *)
(* can, and its level is derived again.                                       *)
Bumped(file, now) ==
  LET score == Min({100, now.score + GodNodeBump})
  IN IF score > now.score THEN Rated(file, score) ELSE now
Rate(x) ==
  [f \in DOMAIN x.files |->
     IF f \in x.central THEN Bumped(x.files[f].file, Enhanced(x)[f]) ELSE Enhanced(x)[f]]
=============================================================================
