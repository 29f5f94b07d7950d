-------------------------------- MODULE Tools --------------------------------
(***************************************************************************)
(* The parts of the system the orchestrator's model takes as choices, side *)
(* by side.  They share no state, so that a behaviour exercises one part;  *)
(* each pure algorithm is a part of one step, which puts one case to it.   *)
(***************************************************************************)
EXTENDS AgentCall, CredentialPool, LLMClient, LayerDispute, JudgeRun, FileRouting,
        ConflictRouting, MergeStrategy, SemanticMerge, LayerRun,
        PlanNegotiation, LayeredPlan, CommitReplay, WebBridge, SetupForm, Ledger, Memory,
        GateRunner, PromptBudget, TextChecks

CONSTANT MaxLines   \* bound: lines of a version of a file put to the rules
ASSUME MaxLinesAssumption == MaxLines \in Nat

VARIABLES
  part,      \* the part this behaviour exercises
  question,  \* the case put to an algorithm, under its name
  answer     \* what it computes, under the same name

Algorithms ==
  {"tree", "custom", "route", "risk", "rules", "chunks", "merge", "align", "draft", "form", "gate",
   "finish", "stage", "compress", "rating", "batches", "balance", "audit", "choice"}
Parts == {"calls", "keys", "client", "dispute", "judge", "routing", "layers", "plan", "replay",
          "web", "ledger", "memory"} \cup Algorithms
Unasked == [nothing |-> "asked"]

parts == <<agentVars, poolVars, clientVars, disputeVars, judgeVars, routingVars, layerVars,
           planVars, replayVars, webVars, ledgerVars, memoryVars>>
toolVars == <<part, question, answer, parts>>

(* The rest of the parts stands still.                                        *)
Only(p) ==
  /\ part = p
  /\ IF p = "calls" THEN TRUE ELSE UNCHANGED agentVars
  /\ IF p = "keys" THEN TRUE ELSE UNCHANGED poolVars
  /\ IF p = "client" THEN TRUE ELSE UNCHANGED clientVars
  /\ IF p = "dispute" THEN TRUE ELSE UNCHANGED disputeVars
  /\ IF p = "judge" THEN TRUE ELSE UNCHANGED judgeVars
  /\ IF p = "routing" THEN TRUE ELSE UNCHANGED routingVars
  /\ IF p = "layers" THEN TRUE ELSE UNCHANGED layerVars
  /\ IF p = "plan" THEN TRUE ELSE UNCHANGED planVars
  /\ IF p = "replay" THEN TRUE ELSE UNCHANGED replayVars
  /\ IF p = "web" THEN TRUE ELSE UNCHANGED webVars
  /\ IF p = "ledger" THEN TRUE ELSE UNCHANGED ledgerVars
  /\ IF p = "memory" THEN TRUE ELSE UNCHANGED memoryVars
  /\ IF p \in Algorithms THEN TRUE ELSE UNCHANGED <<question, answer>>
  /\ UNCHANGED part

(* A part that is not exercised starts from the first of its cases.           *)
ToolsInit ==
  /\ part \in Parts /\ question = Unasked /\ answer = Unasked
  /\ AgentInit /\ PoolInit /\ ClientInit /\ DisputeInit
  /\ IF part = "judge" THEN TRUE ELSE sensitive = {}
  /\ JudgeInit
  /\ IF part = "routing" THEN TRUE ELSE entry = CHOOSE x \in RoutingCases : TRUE
  /\ RoutingInit
  /\ IF part = "layers" THEN TRUE
     ELSE dependsOn = (CHOOSE x \in LayerPlans : TRUE) /\ holds = [l \in Layer |-> "nothing"]
  /\ LayerInit
  /\ IF part = "plan" THEN TRUE
     ELSE LET c == CHOOSE c \in PlanCases : TRUE
          IN rated = c.rated /\ placed = c.placed /\ plain = c.plain
  /\ PlanInit
  /\ IF part = "replay" THEN TRUE ELSE uncategorised = FALSE /\ undecided = FALSE
  /\ ReplayInit
  /\ IF part = "web" THEN TRUE ELSE mode = "run" /\ status = "busy"
  /\ WebInit /\ LedgerInit /\ MemoryInit

Ask(case, result) == question' = case /\ answer' = result

(* What the Judge's checks of the whole tree make of its verdict, and one     *)
(* customization the fork must keep.                                          *)
TreeCase ==
  [changes : {{<<"s", 1>>}, {<<"s", 1>>, <<"s", 2>>}}, uses : SUBSET {<<"s", f>> : f \in 1 .. 3},
   decisions : [1 .. 3 -> {"take_target", "take_current", "none"}],
   edges : SUBSET {<<2, 1>>, <<3, 1>>}, grepped : {{}, {3}}, todos : {30, 31}]
CustomCase ==
  [type : {"grep", "function_exists", "grep_count_min", "grep_count_baseline", "file_exists",
           "line_retention"},
   pattern : BOOLEAN, matches : 0 .. 3, bound : {2, 80}, baseline : 0 .. 3, present : BOOLEAN]
TreeVerdict(x) ==
  Verdict(SignatureSplit(x.changes, x.uses, x.decisions)
          \cup DependencyMissed(x.changes, x.uses, x.decisions, x.edges, [s |-> x.grepped])
          \cup GlobalIssues(x.todos, {}, {}, {}, [s |-> x.grepped]))
AskTree == \E x \in TreeCase : Ask([tree |-> x], [tree |-> TreeVerdict(x)])
AskCustom == \E x \in CustomCase : Ask([custom |-> x], [custom |-> Retained(x)])

AskRoute == \E x \in RoutingCase : Ask([route |-> x], [route |-> Route(x)])
AskRisk == \E x \in RiskCase : Ask([risk |-> x], [risk |-> RiskLevelOf(x)])
AskRules ==
  \E base, current, target \in UNION {[1 .. n -> Line] : n \in 0 .. MaxLines} :
    LET resolved == TryResolve(base, current, target)
    IN Ask([rules |-> [base |-> base, current |-> current, target |-> target]],
           [rules |-> [rule |-> resolved.rule, text |-> resolved.text,
                       written |-> IF resolved = Unresolved THEN current
                                   ELSE WrittenText(resolved.rule, current, target)]])
AskChunks == \E x \in ChunkCase : Ask([chunks |-> x], [chunks |-> ChunkedAnalyzeFile(x)])
AskMerge == \E x \in MergeCase : Ask([merge |-> x], [merge |-> MergeFile(x)])
AskAlign == \E x \in AlignCase : Ask([align |-> x], [align |-> AlignChunks(x)])
AskDraft == \E x \in DraftCase : Ask([draft |-> x], [draft |-> DraftPlan(x)])
AskForm == \E x \in FormCase : Ask([form |-> x], [form |-> ApplySetupPayload(x)])
AskGate == \E x \in GateCase : Ask([gate |-> x], [gate |-> RunGate(x)])
AskFinish == \E x \in AfterPassCase : Ask([finish |-> x], [finish |-> AfterPass(x)])
AskStage == \E x \in StagedCase : Ask([stage |-> x], [stage |-> StageContent(x)])
AskCompress == \E x \in ChatCase : Ask([compress |-> x], [compress |-> Compress(x)])
AskRating == \E x \in RatingCase : Ask([rating |-> x], [rating |-> Rate(x)])
AskBatches == \E x \in BatchCase : Ask([batches |-> x], [batches |-> EnforceBatchLimits(x)])
AskBalance == \E x \in BalanceCase : Ask([balance |-> x], [balance |-> CheckBalanced(x)])
AskAudit == \E x \in AuditCase : Ask([audit |-> x], [audit |-> AuditForkPreservation(x)])
AskChoice == \E x \in ChoiceCase : Ask([choice |-> x], [choice |-> DispatchUserChoice(x)])
AskAlgorithm ==
  /\ question = Unasked
  /\ \/ Only("tree") /\ AskTree
     \/ Only("custom") /\ AskCustom
     \/ Only("route") /\ AskRoute
     \/ Only("risk") /\ AskRisk
     \/ Only("rules") /\ AskRules
     \/ Only("chunks") /\ AskChunks
     \/ Only("merge") /\ AskMerge
     \/ Only("align") /\ AskAlign
     \/ Only("draft") /\ AskDraft
     \/ Only("form") /\ AskForm
     \/ Only("gate") /\ AskGate
     \/ Only("finish") /\ AskFinish
     \/ Only("stage") /\ AskStage
     \/ Only("compress") /\ AskCompress
     \/ Only("rating") /\ AskRating
     \/ Only("batches") /\ AskBatches
     \/ Only("balance") /\ AskBalance
     \/ Only("audit") /\ AskAudit
     \/ Only("choice") /\ AskChoice

ToolsNext ==
  \/ Only("calls") /\ AgentNext
  \/ Only("keys") /\ PoolNext
  \/ Only("client") /\ ClientNext
  \/ Only("dispute") /\ DisputeNext
  \/ Only("judge") /\ Judge
  \/ Only("routing") /\ RoutingNext
  \/ Only("layers") /\ LayerNext
  \/ Only("plan") /\ PlanNext
  \/ Only("replay") /\ ReplayNext
  \/ Only("web") /\ WebNext
  \/ Only("ledger") /\ LedgerNext
  \/ Only("memory") /\ MemoryNext
  \/ AskAlgorithm

(* Only the part that is exercised has anything to be fair about.             *)
ToolsFairness ==
  WF_disputeVars(part = "dispute" /\ DisputeNext) /\ WF_webVars(part = "web" /\ ServeNext)
ToolsSpec == ToolsInit /\ [][ToolsNext]_toolVars /\ ToolsFairness
=============================================================================
