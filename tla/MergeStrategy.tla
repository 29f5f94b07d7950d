---------------------------- MODULE MergeStrategy ----------------------------
(* The decision that follows from an analysis of a conflicting file           *)
(* (conflict_analysis._select_merge_strategy), the analysis of a file too     *)
(* large for one request, and the rules that settle a file both sides changed *)
(* without a model (rule_resolver.py).  Confidence in hundredths.             *)
EXTENDS Naturals, Sequences, SequencesExt, FiniteSets, FiniteSetsExt, Lists

AutoMergeConfidence == 85      \* config.thresholds.auto_merge_confidence

Analysis ==
  [confidence : 0 .. 100, recommended : {"take_current", "take_target", "semantic_merge", "escalate_human"},
   type : {"semantic_equivalent", "logic_contradiction", "unknown"},
   sensitive : BOOLEAN, fabricated : BOOLEAN, incompatible : BOOLEAN, coexist : BOOLEAN]

(* What makes the analysis no ground for a merge, however sure it is.         *)
Barred(a) ==
  \/ a.sensitive \/ a.fabricated \/ a.incompatible
  \/ a.type = "logic_contradiction" /\ a.confidence < 90

Directional(a) ==
  a.recommended \in {"take_current", "take_target"} /\ a.type # "logic_contradiction"

SelectMergeStrategy(a) ==
  CASE Barred(a) -> "escalate_human"
    [] ~Barred(a) /\ a.confidence >= AutoMergeConfidence ->
         IF a.type = "semantic_equivalent" THEN "take_target"
         ELSE IF a.coexist THEN "semantic_merge" ELSE a.recommended
    [] ~Barred(a) /\ a.confidence < AutoMergeConfidence ->
         IF Directional(a) /\ a.confidence >= 40 THEN a.recommended ELSE "escalate_human"

(* The analyses written without asking the model.                             *)
Certain(confidence) ==
  [confidence |-> confidence, recommended |-> "take_target", type |-> "semantic_equivalent",
   sensitive |-> FALSE, fabricated |-> FALSE, incompatible |-> FALSE, coexist |-> FALSE]
Unsure(confidence) ==
  [Certain(confidence) EXCEPT !.recommended = "escalate_human", !.type = "unknown"]

-----------------------------------------------------------------------------
(* Pairs of chunks are asked about one by one and reduced to one analysis     *)
(* (conflict_analyst_agent._chunked_analyze_file, _aggregate_chunked_analyses). *)
HardCapChunks == 8
HardCapConfidence == 30
MinChunkedConfidence == 85

(* What the model says of a pair of chunks, or that the request failed; equal *)
(* pairs are pruned unless every pair is equal.                               *)
ChunkSays ==
  {[fails |-> FALSE, strategy |-> s, confidence |-> c, type |-> t, sensitive |-> b] :
     s \in {"escalate_human", "semantic_merge", "take_target", "take_current"}, c \in {50, 88},
     t \in {"semantic_equivalent", "unknown"}, b \in BOOLEAN}
ChunkFails ==
  [fails |-> TRUE, strategy |-> "escalate_human", confidence |-> 0, type |-> "unknown", sensitive |-> FALSE]
ChunkCase == UNION {[1 .. n -> [same : BOOLEAN, says : ChunkSays \cup {ChunkFails}]] : n \in 1 .. 2}

AnalysedPairs(pairs) ==
  LET changed == {i \in DOMAIN pairs : ~pairs[i].same}
  IN IF changed = {} THEN DOMAIN pairs ELSE changed

(* ESCALATE > SEMANTIC > TAKE_TARGET > TAKE_CURRENT.                          *)
MostWanted(strategies, order) == order[Min({i \in DOMAIN order : order[i] \in strategies})]
KeenPrecedence(strategies) ==
  MostWanted(strategies, <<"semantic_merge", "take_target", "take_current", "escalate_human">>)
Precedence(strategies) ==
  MostWanted(strategies, <<"escalate_human", "semantic_merge", "take_target", "take_current">>)

(* The reducer: too many chunks escalate; unanimous, confident and not        *)
(* sensitive chunks keep the first one's answer; the rest takes the strictest *)
(* strategy at a penalty.  What a chunk says beyond its strategy, confidence  *)
(* and sensitivity is not carried over.                                       *)
Aggregate(said) ==
  LET strategies == {said[i].strategy : i \in DOMAIN said}
      least == Min({said[i].confidence : i \in DOMAIN said})
      sensitive == \E i \in DOMAIN said : said[i].sensitive
      first == said[Min(DOMAIN said)]
  IN IF Cardinality(DOMAIN said) > HardCapChunks
     THEN [Unsure(HardCapConfidence) EXCEPT !.sensitive = sensitive]
     ELSE IF Cardinality(strategies) = 1 /\ least >= MinChunkedConfidence /\ ~sensitive
     THEN [Unsure(least) EXCEPT !.recommended = first.strategy, !.type = first.type]
     ELSE [Unsure((least * 8) \div 10) EXCEPT !.recommended = Precedence(strategies), !.sensitive = sensitive]

ChunkedAnalyzeFile(pairs) ==
  LET asked == AnalysedPairs(pairs)
      said == [i \in asked |-> pairs[i].says]
  IN IF \E i \in asked : said[i].fails THEN Unsure(HardCapConfidence) ELSE Aggregate(said)

-----------------------------------------------------------------------------
(* The rules, and what the conflict analysis makes of a resolution.  A        *)
(* version of the file is a sequence of lines; ImportLines are import lines,  *)
(* in their sorted order, and StripLine maps a line with trailing blanks to   *)
(* its stripped form.                                                         *)

Line == 1 .. 4
ImportLines == {1, 2}
StripLine(n) == IF n = 4 THEN 3 ELSE n

Lines(text) == ToSet(text)
Stripped(text) == [i \in DOMAIN text |-> StripLine(text[i])]
IsImport(n) == n \in ImportLines
Rest(text) == KeptAt(text, {i \in DOMAIN text : ~IsImport(text[i])})
ImportSet(text) == Lines(text) \cap ImportLines

Resolved(rule, text) == [rule |-> rule, text |-> text]
Unresolved == Resolved("none", <<>>)

WhitespaceOnly(base, current, target) ==
  IF Stripped(current) = Stripped(target) THEN Resolved("whitespace_only", target)
  ELSE IF Stripped(current) = Stripped(base) THEN Resolved("whitespace_only", target)
  ELSE IF Stripped(target) = Stripped(base) THEN Resolved("whitespace_only", current)
  ELSE Unresolved

(* Both sides only added imports: all of them, sorted, where the base has its *)
(* first; the base's other imports go.                                        *)
ImportUnion(base, current, target) ==
  LET union == Ascending(ImportSet(current) \cup ImportSet(target))
      first == {i \in DOMAIN base : IsImport(base[i]) /\ \A j \in 1 .. i - 1 : ~IsImport(base[j])}
      at == IF first = {} THEN 0 ELSE (CHOOSE i \in first : TRUE) - 1
      applies ==
        /\ Rest(current) = Rest(base) /\ Rest(target) = Rest(base)
        /\ ImportSet(base) \subseteq ImportSet(current) \cap ImportSet(target)
        /\ ImportSet(base) # ImportSet(current) \cup ImportSet(target)
  IN IF applies
     THEN Resolved("import_union",
                   SubSeq(base, 1, at) \o union \o Rest(SubSeq(base, at + 1, Len(base))))
     ELSE Unresolved

(* Versions of equal length whose changed places are disjoint.                *)
Edited(base, text) == {i \in DOMAIN base : base[i] # text[i]}
AdjacentEditOverlapping(base, current, target) ==
  IF Len(base) = Len(current) /\ Len(base) = Len(target) /\ Edited(base, target) # {}
  THEN Resolved("adjacent_edit",
                [i \in DOMAIN base |-> IF i \in Edited(base, current) THEN current[i] ELSE target[i]])
  ELSE Unresolved
AdjacentEdit(base, current, target) ==
  LET lengths == {Len(base), Len(current), Len(target)}
      c == Edited(base, current)
      t == Edited(base, target)
  IN IF Cardinality(lengths) = 1 /\ c # {} /\ t # {} /\ c \cap t = {}
     THEN Resolved("adjacent_edit",
                   [i \in DOMAIN base |-> IF i \in c THEN current[i] ELSE target[i]])
     ELSE Unresolved

(* Every line of the base is in both sides, as sets, and what they add is     *)
(* disjoint: the lines of the three, each once, in order of appearance.       *)
AddNew(seen, n) == IF Contains(seen, n) THEN seen ELSE Append(seen, n)
Once(text) ==
  LET seen[n \in 0 .. Len(text)] == IF n = 0 THEN <<>> ELSE AddNew(seen[n - 1], text[n])
  IN seen[Len(text)]
LineAdditionUnion(base, current, target) ==
  LET c == Lines(current) \ Lines(base)
      t == Lines(target) \ Lines(base)
  IN IF /\ Lines(base) \subseteq Lines(current) \cap Lines(target)
        /\ c \cup t # {} /\ c \cap t = {}
     THEN Resolved("line_addition_union", Once(base \o current \o target))
     ELSE Unresolved

(* try_resolve: the first rule that applies.                                  *)
TryResolve(base, current, target) ==
  IF current = target THEN Resolved("identical_change", target)
  ELSE LET tried == <<WhitespaceOnly(base, current, target), ImportUnion(base, current, target),
                      AdjacentEdit(base, current, target), LineAdditionUnion(base, current, target)>>
           hits == {i \in DOMAIN tried : tried[i] # Unresolved}
       IN IF hits = {} THEN Unresolved ELSE tried[CHOOSE i \in hits : \A j \in hits : i <= j]

Confidence(rule) ==
  CASE rule = "identical_change" -> 100 [] rule = "whitespace_only" -> 95
    [] rule = "import_union" -> 90 [] rule = "line_addition_union" -> 88
    [] rule = "adjacent_edit" -> 85

(* The phase keeps the rule's confidence, not its text; taking the target     *)
(* writes upstream's version.                                                 *)
RuleStrategy(rule) == SelectMergeStrategy(Certain(Confidence(rule)))
WrittenText(rule, current, target) ==
  IF RuleStrategy(rule) = "take_target" THEN target ELSE current
=============================================================================
