---------------------------- MODULE LayeredPlan ----------------------------
(***************************************************************************)
(* PlannerAgent._build_layered_plan: the undecided actionable files become *)
(* batches, module by module and layer by layer, and the merge later runs  *)
(* the batches layer by layer.  Files and modules are numbers, which stand *)
(* for the alphabetical order the code breaks ties with; layer 0 is none.  *)
(* Batches too large for one request are split afterwards                  *)
(* (Coordinator.enforce_batch_limits).                                     *)
(***************************************************************************)
EXTENDS Naturals, Sequences, SequencesExt, FiniteSetsExt, Lists

CONSTANTS
  DraftFile,    \* what a file may be: [category, level, shadow, layer, module, score, decided]
  ModuleNeeds,  \* the module_depends_on settings, functions from modules to sets of modules
  ImportGraphs       \* the dependency graphs, sets of <<importing, imported>> files

LayerOrder == <<1, 2>>
DraftRecord ==
  [category : {"A", "B", "C", "D_MISSING", "D_EXTRA", "E"}, level : 0 .. 3, shadow : BOOLEAN,
   layer : 0 .. 2, module : Nat, score : Nat, decided : BOOLEAN]
ASSUME DraftAssumption ==
  DraftFile \subseteq DraftRecord /\ ImportGraphs \subseteq SUBSET (Nat \X Nat)

DraftCase == [file : [1 .. 3 -> DraftFile], needs : ModuleNeeds, imports : ImportGraphs]

\* infer_modules names a module; a file has a level only when it has a FileDiff (0: none).
Actionable(d) ==
  {f \in DOMAIN d.file : d.file[f].category \in {"B", "C", "D_MISSING"} /\ ~d.file[f].decided}
Modules(d) == {d.file[f].module : f \in Actionable(d)}

\* Mutant: the modules in alphabetical order, whatever they declare.
ModulesByName(d) == Ascending(Modules(d))

(* _order_modules: first the modules without a present dependency; taking  *)
(* one appends those it was the last to hold back; a cycle: by name.       *)
NeedsOf(d, m) == d.needs[m] \cap Modules(d)
Freed(d, m, done) ==
  {c \in Modules(d) : m \in NeedsOf(d, c) /\ NeedsOf(d, c) \subseteq done \cup {m}}
TakeModule(d, s) ==
  IF s.queue = <<>> THEN s
  ELSE [out |-> Append(s.out, Head(s.queue)),
        queue |-> Tail(s.queue) \o Ascending(Freed(d, Head(s.queue), ToSet(s.out)))]
OrderModules(d) ==
  LET n == Cardinality(Modules(d))
      first == [out |-> <<>>, queue |-> Ascending({m \in Modules(d) : NeedsOf(d, m) = {}})]
      after[k \in 0 .. n] == IF k = 0 THEN first ELSE TakeModule(d, after[k - 1])
  IN IF Len(after[n].out) = n THEN after[n].out ELSE Ascending(Modules(d))

\* FileDependencyGraph.topological_order: always the least file that is ready.
Ready(d, out) ==
  {f \in Actionable(d) \ ToSet(out) :
     \A e \in d.imports : e[1] = f /\ e[2] \in Actionable(d) => e[2] \in ToSet(out)}
TakeReady(d, out) == IF Ready(d, out) = {} THEN out ELSE Append(out, Min(Ready(d, out)))
TopologicalOrder(d) ==
  LET n == Cardinality(Actionable(d))
      taken[k \in 0 .. n] == IF k = 0 THEN <<>> ELSE TakeReady(d, taken[k - 1])
  IN taken[n] \o Ascending(Actionable(d) \ ToSet(taken[n]))

\* The bucket of a file in _split_by_risk_level.
BucketOf(file) ==
  IF file.shadow THEN 3
  ELSE IF file.level = 0 THEN (IF file.category = "C" THEN 2 ELSE 1)
  ELSE file.level

\* Ascending risk score, then topological rank, then path.
ScoreOf(file) == IF file.level = 0 THEN 0 ELSE file.score
SaferFirst(d, rank, f, g) ==
  \/ ScoreOf(d.file[f]) < ScoreOf(d.file[g])
  \/ ScoreOf(d.file[f]) = ScoreOf(d.file[g]) /\ rank[f] < rank[g]

\* With an empty graph every rank is 0 and the path decides.
RankOf(d) ==
  LET order == TopologicalOrder(d)
  IN [f \in Actionable(d) |-> IF d.imports = {} THEN f
                              ELSE CHOOSE i \in DOMAIN order : order[i] = f]

\* New upstream files first, then the files of no layer, then layer by layer.
Slots ==
  <<[category |-> "D_MISSING", layer |-> 0], [category |-> "B", layer |-> 0],
    [category |-> "C", layer |-> 0]>>
  \o FlattenSeq([i \in DOMAIN LayerOrder |->
                   <<[category |-> "B", layer |-> LayerOrder[i]],
                     [category |-> "C", layer |-> LayerOrder[i]]>>])

LayerOf(file) == IF file.category = "D_MISSING" THEN 0 ELSE file.layer

BatchFor(d, rank, module, slot, bucket) ==
  LET files == {f \in DOMAIN rank :
                  /\ d.file[f].module = module /\ d.file[f].category = slot.category
                  /\ LayerOf(d.file[f]) = slot.layer /\ BucketOf(d.file[f]) = bucket}
  IN [layer |-> slot.layer, module |-> module, category |-> slot.category, level |-> bucket,
      files |-> OrderedBy(files, LAMBDA f, g : SaferFirst(d, rank, f, g))]

Batches(d) ==
  LET modules == OrderModules(d)
      rank    == RankOf(d)
      all == FlattenSeq([m \in DOMAIN modules |->
               FlattenSeq([s \in DOMAIN Slots |->
                 [bucket \in 1 .. 3 |-> BatchFor(d, rank, modules[m], Slots[s], bucket)]])])
  IN KeptAt(all, {b \in DOMAIN all : all[b].files # <<>>})

\* The order auto_merge takes the files in: no layer first, then by layer number.
MergeOrder(batches) ==
  LET InLayer(l) == KeptAt(batches, {b \in DOMAIN batches : batches[b].layer = l})
      FilesOf(l) == FlattenSeq([b \in DOMAIN InLayer(l) |-> InLayer(l)[b].files])
  IN FlattenSeq([l \in 1 .. 3 |-> FilesOf(l - 1)])

DraftPlan(d) == LET batches == Batches(d)
                IN [batches |-> batches, order |-> MergeOrder(batches)]

-----------------------------------------------------------------------------
(* enforce_batch_limits.  A file of the batch is a directory and its tokens,  *)
(* files are told apart by their place in it.                                 *)
BatchCase ==
  [files : UNION {[1 .. n -> [dir : {"a", "b"}, tokens : {1, 3}]] : n \in 1 .. 3},
   grouped : BOOLEAN, hinted : BOOLEAN, maxFiles : 1 .. 2, maxTokens : {2, 4}]

Places(x) == [i \in DOMAIN x.files |-> i]
ByDirectory(x) ==
  LET InDir(d) == Ascending({i \in DOMAIN x.files : x.files[i].dir = d})
      heads == Ascending({i \in DOMAIN x.files : \A k \in 1 .. i - 1 : x.files[k].dir # x.files[i].dir})
  IN [h \in DOMAIN heads |-> InDir(x.files[heads[h]].dir)]

\* Mutant: the last files, too few for a whole batch, are left out.
ByWholeCount(group, size) ==
  [k \in 1 .. Len(group) \div size |-> SubSeq(group, (k - 1) * size + 1, k * size)]
ByCount(group, size) ==
  [k \in 1 .. (Len(group) + size - 1) \div size |->
     SubSeq(group, (k - 1) * size + 1, Min({k * size, Len(group)}))]

TokensOf(x, group) == SumOf([k \in DOMAIN group |-> x.files[group[k]].tokens])
PutFile(x, out, i) ==
  IF out # <<>> /\ TokensOf(x, Append(Last(out), i)) <= x.maxTokens
  THEN Append(Front(out), Append(Last(out), i))
  ELSE Append(out, <<i>>)
ByTokens(x, group) ==
  LET out[n \in 0 .. Len(group)] == IF n = 0 THEN <<>> ELSE PutFile(x, out[n - 1], group[n])
  IN out[Len(group)]

EnforceBatchLimits(x) ==
  LET groups == IF x.grouped THEN ByDirectory(x) ELSE <<Places(x)>>
      counted == FlattenSeq([g \in DOMAIN groups |-> ByCount(groups[g], x.maxFiles)])
  IN IF x.hinted THEN FlattenSeq([g \in DOMAIN counted |-> ByTokens(x, counted[g])]) ELSE counted
=============================================================================
