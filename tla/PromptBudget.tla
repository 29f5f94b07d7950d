---------------------------- MODULE PromptBudget ----------------------------
(***************************************************************************)
(* What a model gets to read when a text is too long for it: a file in     *)
(* chunks, each in full, as a signature or left out (llm/chunker.py,       *)
(* llm/relevance.py, prompt_builders.build_staged_content), and a          *)
(* conversation compressed in three stages (llm/context_compressor.py).    *)
(* A line costs one token, a blank one none; scores are in hundredths.     *)
(***************************************************************************)
EXTENDS Naturals, Sequences, SequencesExt, FiniteSets, FiniteSetsExt, Lists

CONSTANTS
  SourceFiles,  \* lists of line classes
  DiffRanges    \* lists of <<first, last>> lines

LineClass == {"def", "method", "import", "top", "in", "blank"}
ASSUME SourceFilesAssumption == SourceFiles \subseteq Seq(LineClass)

Margin == 1          \* 10 lines in the code
FullThreshold == 60
SignatureThreshold == 20

(* Some lines may be wide: of characters that take two bytes each.            *)
StagedCase ==
  [lines : SourceFiles, wide : {{}, {1, 2}}, parsed : BOOLEAN, diffs : DiffRanges, markers : {{}, {2}},
   sensitive : BOOLEAN, calls : BOOLEAN, budget : {1, 2, 4}]

Blank(x, i) == x.lines[i] = "blank"
Indented(x, i) == x.lines[i] \in {"method", "in"}

(* IndentChunker: a chunk begins with the file and at each boundary after it. *)
Boundary(x, start, i) ==
  LET written == {k \in start .. i - 1 : ~Blank(x, k)}
  IN CASE Blank(x, i) -> ~Blank(x, i - 1)
       [] x.lines[i] \in {"def", "method"} -> TRUE
       [] OTHER -> ~Indented(x, i) /\ written # {} /\ Indented(x, Max(written))
AddStart(x, starts, i) ==
  IF i > 1 /\ Boundary(x, Last(starts), i) THEN Append(starts, i) ELSE starts
IndentStarts(x) ==
  LET starts[i \in 0 .. Len(x.lines)] == IF i = 0 THEN <<1>> ELSE AddStart(x, starts[i - 1], i)
  IN starts[Len(x.lines)]
IndentChunks(x) ==
  LET starts == IndentStarts(x)
  IN [c \in DOMAIN starts |->
        <<starts[c], IF c = Len(starts) THEN Len(x.lines) ELSE starts[c + 1] - 1>>]

(* ASTChunker: a node of the file's top level is a line and what is indented  *)
(* under it; neighbouring statements are one chunk, as are imports.  Blank    *)
(* lines between nodes are in none.                                           *)
Heads(x) ==
  {i \in DOMAIN x.lines : ~Blank(x, i) /\ (~Indented(x, i) \/ \A k \in 1 .. i - 1 : Blank(x, k))}
NodeEnd(x, i) ==
  Max({k \in DOMAIN x.lines :
         k = i \/ (k > i /\ ~Blank(x, k) /\ \A h \in Heads(x) : h <= i \/ h > k)})
Nodes(x) ==
  LET at == Ascending(Heads(x))
  IN [n \in DOMAIN at |-> <<at[n], NodeEnd(x, at[n])>>]
Mergeable(x, a, b) ==
  \E kind \in {{"top", "in"}, {"import"}} : {x.lines[a[1]], x.lines[b[1]]} \subseteq kind
AddNode(x, out, node) ==
  IF out # <<>> /\ Mergeable(x, Last(out), node)
  THEN Append(Front(out), <<Last(out)[1], node[2]>>)
  ELSE Append(out, node)
AstChunks(x) ==
  LET nodes == Nodes(x)
      out[n \in 0 .. Len(nodes)] == IF n = 0 THEN <<>> ELSE AddNode(x, out[n - 1], nodes[n])
  IN out[Len(nodes)]

Chunks(x) ==
  IF \A i \in DOMAIN x.lines : Blank(x, i) THEN <<>>
  ELSE IF x.parsed THEN AstChunks(x) ELSE IndentChunks(x)

(* The lines whose text a chunk holds.  The text of a node is cut out of the  *)
(* file's characters at the offsets its bytes have (_node_text); a line, wide *)
(* or not, is a unit of the characters.                                       *)
BytesTo(x, n) == n + Cardinality({k \in 1 .. n : k \in x.wide})
Content(x, c) ==
  {l \in DOMAIN x.lines :
     ~Blank(x, l) /\ l \in IF x.parsed THEN BytesTo(x, c[1] - 1) + 1 .. BytesTo(x, c[2])
                            ELSE c[1] .. c[2]}

(* RelevanceScorer.  Of the ranges of the diff the first that touches the     *)
(* chunk, or comes near it, counts.                                           *)
Written(x, c) == {i \in c[1] .. c[2] : ~Blank(x, i)}
BaseScore(x, c) ==
  IF Written(x, c) = {} THEN 5
  ELSE LET first == x.lines[Min(Written(x, c))]
       IN CASE first \in {"def", "method"} -> 15
            [] first = "import" -> 10
            [] OTHER -> 5
Touches(c, d) == c[1] <= d[2] /\ d[1] <= c[2]
Near(c, d) == c[1] <= d[2] + Margin /\ d[1] <= c[2] + Margin
DiffScore(x, c) ==
  LET near == {i \in DOMAIN x.diffs : Near(c, x.diffs[i])}
  IN IF near = {} THEN 0 ELSE IF Touches(c, x.diffs[Min(near)]) THEN 60 ELSE 20
OwnScore(x, chunks, i) ==
  Min({100, BaseScore(x, chunks[i]) + DiffScore(x, chunks[i])
              + (IF x.markers \cap (chunks[i][1] .. chunks[i][2]) # {} THEN 50 ELSE 0)
              + (IF x.sensitive THEN 30 ELSE 0)})

(* A chunk named in one that is shown in full gains; each chunk names the one *)
(* before it, if any.                                                         *)
ChunkScore(x, chunks, i) ==
  LET own == OwnScore(x, chunks, i)
      named == x.calls /\ i < Len(chunks) /\ OwnScore(x, chunks, i + 1) >= FullThreshold
  IN IF own < FullThreshold /\ named THEN Min({100, own + 30}) ELSE own

(* What is counted of a chunk; a signature is the first line of its text.     *)
Cost(x, c, level) ==
  CASE level = 2 -> Cardinality(Content(x, c))
    [] level = 1 -> IF Content(x, c) = {} THEN 0 ELSE 1
    [] OTHER -> 0
Tokens(x, chunks, levels) == SumOf([i \in DOMAIN chunks |-> Cost(x, chunks[i], levels[i])])

(* render_file_staged: what comes on top, a line for each row of chunks of    *)
(* which nothing is shown and the methods of a class that is a signature, a   *)
(* name each.  A definition shows an ellipsis even if its text is empty.      *)
Definitions(x) == {l \in DOMAIN x.lines : x.lines[l] \in {"def", "method"}}
Appears(x, c, level) ==
  \/ level > 0 /\ Content(x, c) # {}
  \/ level = 1 /\ x.parsed /\ c[1] \in Definitions(x)
Omissions(x, chunks, levels) ==
  LET shown == {i \in DOMAIN chunks : Appears(x, chunks[i], levels[i])}
  IN {i \in DOMAIN chunks \ shown : i = Len(chunks) \/ i + 1 \in shown}
Methods(x) == {l \in DOMAIN x.lines : x.lines[l] = "method"}
Listed(x, c, level) ==
  IF x.parsed /\ level = 1 THEN Methods(x) \cap (c[1] .. c[2]) ELSE {}
Rendered(x, chunks, levels) ==
  Tokens(x, chunks, levels) + Cardinality(Omissions(x, chunks, levels))
    + SumOf([i \in DOMAIN chunks |-> Cardinality(Listed(x, chunks[i], levels[i]))])

(* _demote_to_fit, one level at a time: the least relevant chunk first.       *)
InPlace(scores, some) == Ascending(some)   \* Mutant: the first chunk first.
LeastFirst(scores, some) ==
  OrderedBy(some, LAMBDA i, k : scores[i] < scores[k] \/ (scores[i] = scores[k] /\ i < k))
DemoteOne(x, chunks, levels, i) ==
  IF Tokens(x, chunks, levels) <= x.budget THEN levels ELSE [levels EXCEPT ![i] = @ - 1]
Demoted(x, chunks, levels, scores, from) ==
  LET order == LeastFirst(scores, {i \in DOMAIN chunks : levels[i] = from})
      after[n \in 0 .. Len(order)] ==
        IF n = 0 THEN levels ELSE DemoteOne(x, chunks, after[n - 1], order[n])
  IN after[Len(order)]

ScoreAndAssign(x, chunks) ==
  LET scores == [i \in DOMAIN chunks |-> ChunkScore(x, chunks, i)]
      wanted == [i \in DOMAIN chunks |->
                   IF scores[i] >= FullThreshold THEN 2
                   ELSE IF scores[i] >= SignatureThreshold THEN 1 ELSE 0]
  IN Demoted(x, chunks, Demoted(x, chunks, wanted, scores, 2), scores, 1)

(* The whole file if it fits; its ends if nothing of it would be shown.  A    *)
(* file of few lines is not staged at all.                                    *)
StageContent(x) ==
  LET chunks == Chunks(x)
      levels == ScoreAndAssign(x, chunks)
      size == Cardinality({i \in DOMAIN x.lines : ~Blank(x, i)})
  IN [chunks |-> chunks, levels |-> levels, tokens |-> Tokens(x, chunks, levels),
      rendered |-> Rendered(x, chunks, levels),
      scores |-> [i \in DOMAIN chunks |-> ChunkScore(x, chunks, i)],
      shown |-> IF size <= x.budget THEN "whole"
                ELSE IF Tokens(x, chunks, levels) = 0 THEN "ends" ELSE "staged"]

------------------------------------------------------------------------------
(* A conversation: the sizes of its messages in units of 50 characters, those *)
(* of the model marked.  The code rounds a sum of sizes down to tokens.       *)
ProtectHead == 1
ProtectTail == 2   \* 4 in the code, and messages older than StaleAge are stale
StaleAge == 1
StaleSize == 4
Slack == 1         \* 500 tokens are cut beyond the excess
Placeholder == 1   \* what stands for a stale message
MinCut == 1
Marker == 1        \* what a cut message ends with
Notice == 1        \* the message that stands for those that are dropped

ChatCase ==
  [sizes : UNION {[1 .. n -> {1, 3, 8}] : n \in 3 .. 5}, ours : SUBSET {2, 3}, budget : {4, 9}]

Total(sizes) == SumOf(sizes)
FitsIn(x, sizes) == Total(sizes) <= x.budget
Middle(n) == {i \in 1 .. n : i > ProtectHead /\ i <= n - ProtectTail}

PruneStale(x) ==
  LET n == Len(x.sizes)
  IN [i \in 1 .. n |->
        IF i \in Middle(n) \ x.ours /\ x.sizes[i] > StaleSize
             /\ n - ProtectTail - (i - 1) > StaleAge
        THEN Placeholder ELSE x.sizes[i]]

(* _truncate_middle: the longest first, none by more than half and none by    *)
(* little; where there is no middle, any.                                     *)
AllCuttable(n) == 1 .. n   \* Mutant: the ends are not spared.
Cuttable(n) == IF Middle(n) = {} THEN 1 .. n ELSE Middle(n)
LongestFirst(sizes, some) ==
  OrderedBy(some, LAMBDA i, k : sizes[i] > sizes[k] \/ (sizes[i] = sizes[k] /\ i < k))
CutOne(s, i) ==
  LET cut == Min({s.left, s.sizes[i] \div 2})
  IN IF s.left = 0 \/ cut < MinCut THEN s
     ELSE [left |-> s.left - cut, sizes |-> [s.sizes EXCEPT ![i] = @ - cut + Marker]]
TruncateMiddle(x, sizes) ==
  LET order == LongestFirst(sizes, Cuttable(Len(sizes)))
      whole == [left |-> Total(sizes) - x.budget + Slack, sizes |-> sizes]
      after[n \in 0 .. Len(order)] == IF n = 0 THEN whole ELSE CutOne(after[n - 1], order[n])
  IN IF FitsIn(x, sizes) THEN sizes ELSE after[Len(order)].sizes

(* _drop_middle: from the oldest on, until the excess is gone.  The notice    *)
(* that is put in their place is not counted.                                 *)
DropMiddle(x, sizes) ==
  LET n == Len(sizes)
      excess == Total(sizes) - x.budget
      Before(i) == Total([k \in 1 .. n |-> IF k < i /\ k \in Middle(n) THEN sizes[k] ELSE 0])
  IN {i \in 1 .. n : i \notin Middle(n) \/ Before(i) >= excess}

Answered(sizes, kept) ==
  [sizes |-> sizes, kept |-> kept, notice |-> IF kept = DOMAIN sizes THEN 0 ELSE Notice]
Compress(x) ==
  LET pruned == PruneStale(x)
      truncated == TruncateMiddle(x, pruned)
      all == DOMAIN x.sizes
  IN IF FitsIn(x, x.sizes) THEN Answered(x.sizes, all)
     ELSE IF FitsIn(x, pruned) THEN Answered(pruned, all)
     ELSE Answered(truncated, IF FitsIn(x, truncated) THEN all ELSE DropMiddle(x, truncated))
==============================================================================
