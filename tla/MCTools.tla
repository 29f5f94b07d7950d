------------------------------- MODULE MCTools -------------------------------
(* Small instances of the parts for TLC. *)
EXTENDS ToolProperties

CONSTANTS p, q   \* two coroutines

Symptom(c, s, m) == [class |-> c, status |-> s, says |-> m]
BadDay == {Symptom("api", 401, "other"), Symptom("api", 429, "other"), Symptom("api", 503, "other"),
           Symptom("runtime", 0, "empty"), Symptom("output", 0, "other")}
ShakyLine == {Symptom("connection", 0, "other")}

(* Two commits that share a round, one that needs a round of its own, a file  *)
(* no commit carries, and files of every kind.                                *)
Worklists ==
  {[commits |-> <<{2}, {1}, {1, 3}>>, kind |-> k, known |-> s, recorded |-> r] :
     k \in {h \in [1 .. 4 -> {"plain", "ruled", "binary_both"}] : h[2] # "ruled" /\ h[4] # "ruled"},
     s \in {1 .. 4, {1, 3, 4}}, r \in {{}, {2}}}
    \cup {[commits |-> <<{1}, {2, 4}>>, kind |-> k, known |-> {1, 3, 4}, recorded |-> {}] :
           k \in {h \in [1 .. 4 -> {"plain", "missing", "binary"}] : h[1] = "plain"}}

(* Dependencies on earlier layers, on later ones, and in a ring.              *)
LayerGraphs ==
  LET deps(e) == [l \in 1 .. 3 |-> {d \in 1 .. 3 : <<l, d>> \in e}]
  IN {deps(e) : e \in {{}, {<<2, 1>>}, {<<3, 2>>}, {<<2, 1>>, <<3, 1>>}, {<<2, 1>>, <<3, 2>>},
                       {<<1, 2>>}, {<<1, 3>>, <<2, 3>>}, {<<1, 3>>, <<3, 2>>, <<2, 1>>}}}

TwoSegments == <<{1}, {2}>>
Drafts ==
  {[rated |-> <<r, 2>>, placed |-> <<1, 2>>, plain |-> s] : r \in {1, 3}, s \in {{1}}}
    \cup {[rated |-> <<1, 2>>, placed |-> <<0, 2>>, plain |-> {}]}

Draft(c, l, s, layer, m, score, decided) ==
  [category |-> c, level |-> l, shadow |-> s, layer |-> layer, module |-> m, score |-> score,
   decided |-> decided]
DraftFiles ==
  {Draft("B", 1, FALSE, 1, 1, 1, FALSE), Draft("B", 1, FALSE, 1, 1, 2, FALSE),
   Draft("C", 2, FALSE, 2, 1, 1, FALSE), Draft("B", 0, FALSE, 1, 2, 1, FALSE),
   Draft("D_MISSING", 1, TRUE, 0, 2, 1, FALSE), Draft("C", 3, FALSE, 0, 2, 1, FALSE),
   Draft("B", 1, FALSE, 1, 3, 1, TRUE), Draft("B", 1, FALSE, 1, 3, 1, FALSE),
   Draft("E", 1, FALSE, 1, 1, 1, FALSE)}
Needs == {<<{}, {}, {}>>, <<{2}, {3}, {}>>, <<{3}, {}, {}>>, <<{2}, {1}, {}>>}
Graphs3 == {{}, {<<1, 2>>}, {<<1, 3>>, <<3, 2>>}, {<<1, 2>>, <<2, 1>>}}

(* Files for the planner to rate: far from a person and near, both sides'     *)
(* changes, small and large, fields of which a rule speaks, conflict markers. *)
DiffOf(category, raw, lines, fields) ==
  [category |-> category, path |-> "plain", changed |-> lines, raw |-> raw, takeTarget |-> FALSE,
   forceSafe |-> FALSE, kind |-> "text", markers |-> FALSE, fields |-> fields]
SomeDiffs ==
  {DiffOf("B", 10, 3, {}), DiffOf("B", 95, 3, {}), DiffOf("C", 10, 30, {}), DiffOf("C", 45, 3, {}),
   DiffOf("B", 10, 3, {"auto_risky", "human_required"}),
   [DiffOf("C", 29, 30, {}) EXCEPT !.markers = TRUE], [DiffOf("C", 95, 3, {}) EXCEPT !.path = "strict"]}
SomeRated ==
  {[file |-> d, complexity |-> c, answer |-> a] : d \in SomeDiffs, c \in {"mid"}, a \in {0, 100, NoScore}}
    \cup {[file |-> d, complexity |-> c, answer |-> NoAnswer] : d \in SomeDiffs, c \in {"low", "high"}}

(* A commit with a file both sides changed before clean ones of the same file. *)
MixedHistory == <<{1, 3}, {1}, {2}>>
UncleanHistory == <<{1, 3}, {1}>>   \* no clean commit applies at first

(* Lessons of two phases: four that share a group, one more of it pinned, one of  *)
(* the bootstrap.                                                             *)
Lesson(s, phase, dir, files, conf, tags) ==
  [says |-> {s}, more |-> FALSE, phase |-> phase, kind |-> "decision", dir |-> dir, files |-> files,
   conf |-> conf, tag |-> 2, tags |-> tags, pinned |-> FALSE, suppressed |-> FALSE]
SomeLessons ==
  {Lesson("a", 0, "x", {1}, 2, {2}), Lesson("b", 0, "x", {1}, 1, {2, 3}), Lesson("g", 0, "x", {2}, 1, {1, 2}),
   Lesson("h", 0, "x", {2}, 2, {2}),
   [Lesson("c", 0, "x", {1}, 2, {2}) EXCEPT !.pinned = TRUE], Lesson("d", 3, "x", {1, 2}, 2, {2}),
   [Lesson("e", 0, "y", {}, 1, {1}) EXCEPT !.tag = 1], Lesson("f", 0, "y", {2}, 1, {2})}

SomeFiles ==
  {<<"import", "import", "blank", "def", "in", "in">>, <<"def", "method", "in", "blank", "method", "in">>,
   <<"top", "top", "blank", "def", "in">>, <<"blank", "blank">>, <<"def", "in", "top", "in", "def">>,
   <<"import", "def", "in", "blank", "in", "top">>, <<"blank", "in", "top", "in">>}
SomeRanges == {<<>>, <<<<1, 1>>>>, <<<<5, 5>>>>, <<<<1, 1>>, <<4, 5>>>>, <<<<2, 3>>, <<6, 6>>>>}

(* What a test command prints: names alone, one summary of all of them, one   *)
(* that counts errors apart, and two suites of which the first fails nothing. *)
Prints(tests) == [i \in DOMAIN tests |-> Names(tests[i])]
SomeOutputs ==
  UNION {LET n == Len(t) IN
         {Prints(t), Prints(t) \o <<Counts(n, NoCount)>>,
          Prints(t) \o <<IF n > 1 THEN Counts(1, n - 1) ELSE Counts(NoCount, n)>>,
          <<Counts(0, NoCount)>> \o Prints(t) \o <<Counts(n, NoCount)>>} :
         t \in {<<>>, <<"a">>, <<"b">>, <<"a", "b">>, <<"b", "c">>, <<"a", "b", "c">>}}

(* Brackets alone, and each kind of literal and comment around one.           *)
Brackets == UNION {[1 .. n -> {"(", ")", "{", "}"}] : n \in 0 .. 4}
Literals ==
  {<<"=", a, b, "}", c, d>> : a \in {"tick", "slash", "quote", "comment", "apostrophe", "line_comment"},
     b \in {"interpolate", "escape", "comment", "x"}, c \in {"tick", "slash", "nl", "end_comment"},
     d \in {"end_comment", "x"}}
SomeTexts == Brackets \cup Literals \cup {<<t>> : t \in Token}
                \cup {<<a, b, "nl">> : a, b \in Token}
=============================================================================
