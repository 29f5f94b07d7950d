--------------------------- MODULE ToolProperties ---------------------------
(* What the algorithms promise for every case put to them; the parts with     *)
(* state of their own state their properties in their modules.                *)
EXTENDS Tools

Asked(algorithm) == algorithm \in DOMAIN question

\* What is left of a text of brackets when pairs are taken out, one after the other.
Unpaired(text) ==
  LET pairs(t) == {i \in 1 .. Len(t) - 1 : Opens(t[i]) /\ t[i + 1] = ClosedBy(t[i])}
      TakeOut(t, i) == SubSeq(t, 1, i - 1) \o SubSeq(t, i + 2, Len(t))
      WithoutPair(t) == IF pairs(t) = {} THEN t ELSE TakeOut(t, Min(pairs(t)))
      after[n \in 0 .. Len(text)] == IF n = 0 THEN text ELSE WithoutPair(after[n - 1])
  IN after[Len(text)]

(* A caller merged to one side of a changed signature and its definition to   *)
(* the other, in either direction, fail the verdict, as does a caller no one  *)
(* looked at and one TODO too many; a customization of a file that is gone is *)
(* lost whatever its baseline says.  A text of brackets alone is whole when   *)
(* taking out pairs leaves nothing, and what a line comment holds does not    *)
(* matter.  A loss of the fork's lines may be found or the check fail to run, *)
(* it is never taken for nothing.                                             *)
TreeIssuesFail ==
  /\ Asked("tree") =>
       LET x == question.tree
           split == \E c \in x.changes, u \in x.uses :
                      u[1] = c[1] /\ {x.decisions[c[2]], x.decisions[u[2]]} = {"take_target", "take_current"}
       IN split \/ x.grepped # {} \/ x.todos > 30 => answer.tree = "fail"
  /\ Asked("custom") =>
       LET x == question.custom
       IN x.type = "file_exists" \/ (x.type = "line_retention" /\ x.baseline > 0)
            => (answer.custom => x.present)
  /\ Asked("balance") =>
       LET text == question.balance.text
       IN /\ ToSet(text) \subseteq {"(", ")", "{", "}"} => (answer.balance <=> Unpaired(text) = <<>>)
          /\ Len(text) > 0 /\ text[1] = "line_comment" /\ "nl" \notin ToSet(text) => answer.balance
  /\ Asked("audit") =>
       LET x == question.audit
           audited == ~x.escalated /\ x.diffed /\ (x.sensitive \/ x.changed > 50)
       IN audited /\ (x.upstreams \/ (x.kept = 0 /\ x.own = 10)) => answer.audit # "nothing"

(* No news of upstream is lost on the way to the agents: a file upstream      *)
(* changed is decided or left to them.  And nothing but a pattern that takes  *)
(* upstream's side, where the fork's profile does not speak for the file,     *)
(* replaces what the fork has.                                                *)
RouteSound ==
  Asked("route") =>
    LET x == question.route
        news == x.up # Absent /\ x.up # x.head /\ (x.head = Absent \/ x.up # x.base)
        pinned == x.module \in {"escalate_human", "take_current_with_diff_note"}
                    \/ (x.module = "none" /\ x.removed)
    IN /\ news => answer.route.agents \/ answer.route.record # "none"
       /\ answer.route.tree # "fork" =>
            \/ x.takeUpstream /\ ~pinned
            \/ x.base = Absent /\ x.head = Absent

(* A text file both sides changed is never on the safe path unless a pattern  *)
(* put it there, not even when it is rated anew and bumped; a certificate,    *)
(* key or environment file with a change is a person's until it is rated, and *)
(* a file with conflict markers afterwards too; a rule about fields never     *)
(* lowers a level.  A model asked about a file moves it by one level at most, *)
(* and touches no more files than the budget allows; the bump of a central    *)
(* file that only upstream changed lowers no level.  (Very complex files are  *)
(* the model's to classify.  A level a rule about fields demanded is not kept *)
(* by a rating, nor that of a long file both sides changed by the bump.)      *)
RiskSound ==
  LET rank == [auto_safe |-> 0, auto_risky |-> 1, human_required |-> 2]
  IN /\ Asked("risk") =>
          LET x == question.risk
          IN x.kind = "text" =>
               /\ x.category = "C" /\ ~x.forceSafe => answer.risk # "auto_safe"
               /\ x.path = "strict" /\ x.changed > 0 /\ ~x.takeTarget => answer.risk = "human_required"
               /\ \A demanded \in x.fields : rank[answer.risk] >= rank[demanded]
     /\ Asked("rating") =>
          LET x == question.rating
              Before(f) == Unrated(x.files[f].file)
              moved == {f \in DOMAIN x.files \ x.central : answer.rating[f] # Before(f)}
          IN /\ Cardinality(moved) <= x.budget /\ (x.mode = "off" => moved = {})
             /\ \A f \in DOMAIN x.files :
                  LET file == x.files[f].file
                      level == answer.rating[f].level
                  IN file.kind = "text" /\ x.files[f].complexity # "high" =>
                       /\ file.markers => level = "human_required"
                       /\ file.category = "C" /\ ~file.forceSafe => level # "auto_safe"
                       /\ f \notin x.central /\ file.fields = {} =>
                            rank[level] - rank[Before(f).level] \in {-1, 0, 1}
                       /\ f \in x.central /\ file.fields = {} /\ file.category # "C" =>
                            rank[level] >= rank[Enhanced(x)[f].level]

(* Every rule that settles a file keeps what either side added, and drops     *)
(* what a side removed and the other left alone, up to blanks at line ends.   *)
RulesKeepBothSides ==
  Asked("rules") /\ answer.rules.rule # "none" =>
    LET Bare(text) == {StripLine(text[i]) : i \in DOMAIN text}
        Distinct(text) == Cardinality(Bare(text)) = Len(text)
        b == Bare(question.rules.base)
        c == Bare(question.rules.current)
        t == Bare(question.rules.target)
        merged == Bare(answer.rules.text)
    IN Distinct(question.rules.base) /\ Distinct(question.rules.current) /\ Distinct(question.rules.target)
         => /\ (c \ b) \cup (t \ b) \subseteq merged
            /\ merged \cap ((b \ c) \cup (b \ t)) = {}

(* The docstring of rule_resolver.py: both sides' imports are merged, both    *)
(* sides' additions are taken.  So the file gets the text of the rule.        *)
RuleResultIsWritten ==
  Asked("rules") /\ answer.rules.rule # "none" => answer.rules.written = answer.rules.text

(* One chunk that failed or is sensitive sends the whole file to a person,    *)
(* and so does one chunk that asks for it, with one exception: where all that *)
(* were read ask for it, and confidently, the first one's word on the kind of *)
(* conflict speaks for the file (the later ones' is not read), and if that is *)
(* that both sides mean the same, upstream's side may be taken.               *)
ChunkVetoHolds ==
  Asked("chunks") =>
    LET changed == {i \in DOMAIN question.chunks : ~question.chunks[i].same}
        read == IF changed = {} THEN DOMAIN question.chunks ELSE changed
        says == [i \in read |-> question.chunks[i].says]
    IN /\ (\E i \in read : says[i].fails \/ says[i].sensitive)
            => SelectMergeStrategy(answer.chunks) = "escalate_human"
       /\ (\E i \in read : says[i].strategy = "escalate_human")
            => \/ SelectMergeStrategy(answer.chunks) = "escalate_human"
               \/ /\ \A i \in read : /\ says[i].strategy = "escalate_human"
                                     /\ says[i].confidence >= MinChunkedConfidence
                  /\ says[Min(read)].type = "semantic_equivalent"

(* A merged text is in the tree only with a record that says so, and only     *)
(* when no answer was cut off, elided, foreign or invented, no export of the  *)
(* fork is missing from a text written at once, and chunks fit together; a    *)
(* refused merge leaves the old text, where there was one.  Nor does a user's *)
(* choice reach the tree without its record, or its record without the tree;  *)
(* one that fails is handed back.                                             *)
NoHalfMerge ==
  /\ Asked("merge") =>
       LET x == question.merge
           heardFrom == UNION {x.replies[i] : i \in DOMAIN x.replies \ x.own}
       IN /\ answer.merge.tree = "merged" <=> answer.merge.decision = "semantic_merge"
          /\ answer.merge.tree = "merged" =>
               /\ heardFrom \cap {"raised", "cut", "too_large", "prose", "elided", "short", "foreign",
                                  "invented", "markers"} = {}
               /\ x.form = "single" /\ x.base = "read" => "dropped_export" \notin heardFrom
               /\ x.form = "chunked" => "unbalanced" \notin heardFrom /\ ~x.forced
          /\ answer.merge.tree = "part_written" => x.original # "text"
  /\ Asked("choice") =>
       LET x == question.choice
           done == answer.choice
       IN /\ done.decision \notin {"none", "skip", "escalate_human"} <=> done.tree = x.first.choice
          /\ done.tree = "part_written" => x.original # "text" /\ done.decision = "escalate_human"
          /\ x.first.choice \notin {"approve", "skip"} /\ done.tree = "original" =>
               done.decision = "escalate_human"

(* Splitting a file for the model loses nothing of upstream: each upstream    *)
(* chunk is paired with exactly one chunk of the fork, and the pairs keep     *)
(* upstream's order (chunk_processor.align_chunks).                           *)
UpstreamCovered ==
  Asked("align") =>
    /\ \A j \in DOMAIN question.align.upstream : \E i \in DOMAIN answer.align :
         j \in answer.align[i] /\ \A k \in DOMAIN answer.align : j \in answer.align[k] => k = i
    /\ \A i, k \in DOMAIN answer.align : i < k =>
         \A j \in answer.align[i], m \in answer.align[k] : j < m

(* A file shown in stages is cut into chunks that leave out no line but blank *)
(* ones and repeat none, and the text of a chunk is that of its lines, unless *)
(* a parsed file has characters of more than a byte; what is counted fits the *)
(* budget, what is rendered exceeds it by no more than the budget, one line   *)
(* and the names of the methods; and no chunk is shown at the cost of a more  *)
(* relevant one (prompt_builders.build_staged_content).                       *)
StagedFits ==
  Asked("stage") =>
    LET x == question.stage
        staged == answer.stage
        chunks == staged.chunks
        narrow == x.wide = {} \/ ~x.parsed
    IN /\ \A i, k \in DOMAIN chunks : i < k => chunks[i][2] < chunks[k][1]
       /\ \A l \in DOMAIN x.lines : Blank(x, l) \/ \E c \in ToSet(chunks) : l \in c[1] .. c[2]
       /\ narrow => \A c \in ToSet(chunks), l \in DOMAIN x.lines :
            l \in Content(x, c) <=> ~Blank(x, l) /\ l \in c[1] .. c[2]
       /\ staged.tokens <= x.budget
       /\ narrow => staged.rendered <= 2 * x.budget + 1 + Cardinality(Methods(x))
       /\ \A i, k \in DOMAIN chunks : staged.scores[i] < staged.scores[k] => staged.levels[i] <= staged.levels[k]

(* A conversation that is compressed keeps its ends, untouched as long as     *)
(* there is a middle to take from; and all of it, the notice of what was      *)
(* dropped included, exceeds the budget by that notice at most, unless there  *)
(* is nothing left but the ends (context_compressor.compress).                *)
EndsKept ==
  Asked("compress") =>
    LET x == question.compress
        n == Len(x.sizes)
        c == answer.compress
        total == Total([i \in 1 .. n |-> IF i \in c.kept THEN c.sizes[i] ELSE 0]) + c.notice
    IN /\ 1 .. n \ Middle(n) \subseteq c.kept
       /\ Middle(n) # {} => \A i \in 1 .. n \ Middle(n) : c.sizes[i] = x.sizes[i]
       /\ \/ total <= x.budget + (IF c.kept = 1 .. n THEN 0 ELSE Notice)
          \/ c.kept \cap Middle(n) = {}

(* Splitting a batch that is too large loses no file, repeats none and keeps  *)
(* the order of a directory; each part is within the limits unless one file   *)
(* alone is not (Coordinator.enforce_batch_limits).                           *)
BatchesKeepOrder ==
  Asked("batches") =>
    LET x == question.batches
        flat == FlattenSeq(answer.batches)
    IN /\ Len(flat) = Len(x.files) /\ ToSet(flat) = DOMAIN x.files
       /\ \A i, k \in DOMAIN flat :
            i < k /\ (x.grouped => x.files[flat[i]].dir = x.files[flat[k]].dir) => flat[i] < flat[k]
       /\ \A batch \in ToSet(answer.batches) :
            /\ Len(batch) <= x.maxFiles
            /\ x.hinted => TokensOf(x, batch) <= x.maxTokens \/ Len(batch) = 1
            /\ x.grouped => \A i, k \in ToSet(batch) : x.files[i].dir = x.files[k].dir

(* The plan holds each undecided file upstream changed exactly once, in no    *)
(* laxer batch than its level, a shadowed path with a person; and the merge   *)
(* takes a module after the modules it declares to need, and equal files      *)
(* after the files they import, layer by layer, unless they do so in a ring.  *)
PlanKeepsOrder ==
  Asked("draft") =>
    LET file == question.draft.file
        due == {f \in DOMAIN file : file[f].category \notin {"A", "D_EXTRA", "E"} /\ ~file[f].decided}
        layer == [f \in due |-> IF file[f].category = "D_MISSING" THEN 0 ELSE file[f].layer]
        needs(f, g) == file[g].module \in question.draft.needs[file[f].module]
        ring(arrows) == \E C \in SUBSET due : C # {} /\ \A f \in C : \E g \in C : <<f, g>> \in arrows
        needy == {e \in due \X due : needs(e[1], e[2])}
        Before(f, g) == \E i, j \in DOMAIN answer.draft.order :
                          i < j /\ answer.draft.order[i] = f /\ answer.draft.order[j] = g
    IN /\ ToSet(answer.draft.order) = due /\ Len(answer.draft.order) = Cardinality(due)
       /\ \A f \in due : \E b \in DOMAIN answer.draft.batches :
            /\ f \in ToSet(answer.draft.batches[b].files) /\ answer.draft.batches[b].level >= file[f].level
            /\ file[f].shadow => answer.draft.batches[b].level = 3
       /\ ~ring(needy) => \A e \in needy : layer[e[1]] = layer[e[2]] => Before(e[2], e[1])
       /\ ~ring(question.draft.imports) =>
            \A e \in question.draft.imports :
              {e[1], e[2]} \subseteq due /\ file[e[1]] = file[e[2]] => Before(e[2], e[1])

(* A setup form that is accepted gives an agent a model that is offered, and  *)
(* a fallback that is another one, of the other provider where both are on    *)
(* and the form does not say otherwise; any other form writes nothing.        *)
FormSound ==
  Asked("form") =>
    LET form == question.form
        agent == answer.form.agent
        other == form.on = Provider
                   /\ (form.fallback = NoChoice \/ form.fallback.provider # DefaultProvider(form))
    IN IF agent = NoChoice THEN ~answer.form.env /\ ~answer.form.config
       ELSE /\ agent.own # NoChoice /\ Offered(form, agent.own) /\ Offered(form, agent.fallback)
            /\ agent.own # agent.fallback
            /\ other => agent.fallback.provider \in Provider \ {agent.own.provider}

\* An output that ends in its only summary, which counts every test it names.
SumsUp(run) ==
  LET last == Len(run.prints)
  IN /\ last > 0 /\ run.prints[last].failed = Cardinality(TestsOf(run.prints))
     /\ run.prints[last].failed # NoCount
     /\ \A i \in 1 .. last - 1 : run.prints[i].failed = NoCount

(* A gate that allows no new failure passes exactly when none is new, as long *)
(* as the output was kept whole; one that may not get worse passes with a     *)
(* failure only on a baseline, and then with no more failures than before if  *)
(* both outputs end in one summary that counts them all; a command that never *)
(* came to its end passes only where new failures are looked for by name.  A  *)
(* PASS is withdrawn for a build or a blocking test that fails or cannot be   *)
(* run, and goes unquestioned, when strict, only if all that was merged is    *)
(* compiled.                                                                  *)
GatesSound ==
  /\ Asked("gate") =>
       LET x == question.gate
           byName == x.criteria = "no_new_regression" /\ x.parser = "known"
           whole(run) == run.end = "exit" /\ Len(run.prints) <= TailLines
       IN /\ byName /\ whole(x.before) /\ whole(x.now) =>
               (answer.gate.passed <=> TestsOf(x.now.prints) \subseteq TestsOf(x.before.prints))
          /\ answer.gate.passed /\ ~byName =>
               /\ x.now.end = "exit"
               /\ x.now.code # 0 =>
                    /\ x.before.end = "exit"
                    /\ SumsUp(x.before) /\ SumsUp(x.now) =>
                         Cardinality(TestsOf(x.now.prints)) <= Cardinality(TestsOf(x.before.prints))
  /\ Asked("finish") =>
       LET x == question.finish
           failed == x.buildCommand # "none" /\ x.build # "exit0"
           shaky == x.block /\ ~ToSet(x.smoke) \subseteq {"exit0", "expected"}
           compiled == Compiles(x.buildCommand) \cup Compiles(x.gateCommand)
       IN /\ failed \/ shaky => answer.finish.verdict = "fail"
          /\ answer.finish.goes = "generating_report" =>
               answer.finish.verdict = "pass" /\ (x.strict => x.merged \subseteq compiled)
=============================================================================
