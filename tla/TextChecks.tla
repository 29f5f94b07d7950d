----------------------------- MODULE TextChecks -----------------------------
(***************************************************************************)
(* Checks of a merged text no model is asked for: whether it is whole      *)
(* (tools/syntax_checker._check_balanced, for the languages without a      *)
(* parser) and whether the fork's own lines are still in it                *)
(* (tools/preservation_auditor.py).                                        *)
(***************************************************************************)
EXTENDS Naturals, Sequences, SequencesExt, FiniteSets, FiniteSetsExt

CONSTANT Texts   \* sequences of tokens put to the balance check

(* "x" is a word, "=" an operator, "nl" a line end; "slash" outside of a      *)
(* comment is a regular expression or a division.                             *)
Token == {"(", ")", "{", "}", "interpolate", "quote", "apostrophe", "tick", "escape", "slash",
          "line_comment", "comment", "end_comment", "nl", "x", "="}
ASSUME TextsAssumption == Texts \subseteq Seq(Token)
BalanceCase == [text : Texts, language : {"ts", "go", "rust"}]

Opens(t) == t \in {"(", "{", "interpolate"}
ClosedBy(opener) == IF opener = "(" THEN ")" ELSE "}"
RegexMayFollow(prev) == prev \in {"", "(", "{", "}", "="}

(* _try_consume_regex: up to the next slash of the line that is not escaped.  *)
Escaped(text, from, j) ==
  \E k \in from .. j : text[k] = "escape" /\ k = j - 1 /\ (k = from \/ text[k - 1] # "escape")
RegexEnds(text, i) ==
  {j \in i + 1 .. Len(text) :
     /\ text[j] = "slash" /\ ~Escaped(text, i + 1, j)
     /\ \A k \in i + 1 .. j : text[k] # "nl" \/ Escaped(text, i + 1, k)}

(* The scanner's state: what it is inside of, how deep, the brackets that are *)
(* open, the last token of code, whether the next one is escaped, and where a *)
(* regular expression ends.                                                   *)
Scanning == [in |-> "code", depth |-> 0, open |-> <<>>, prev |-> "", escaped |-> FALSE,
             until |-> 0, bad |-> FALSE]

ScanCode(x, s, i) ==
  LET t == x.text[i]
      Enter(what) == [s EXCEPT !.in = what, !.depth = 1]
  IN CASE t = "nl" -> s
       [] t = "line_comment" -> Enter("line")
       [] t = "comment" -> Enter("block")
       [] t = "quote" -> Enter("string")
       [] t = "apostrophe" /\ x.language # "rust" -> Enter("char")
       [] t = "tick" /\ x.language = "ts" -> [Enter("template") EXCEPT !.depth = 0]
       [] t = "tick" /\ x.language = "go" -> Enter("raw")
       [] t = "slash" /\ x.language = "ts" /\ RegexMayFollow(s.prev) /\ RegexEnds(x.text, i) # {} ->
            [s EXCEPT !.in = "regex", !.until = Min(RegexEnds(x.text, i))]
       [] Opens(t) -> [s EXCEPT !.open = Append(@, t), !.prev = "{"]
       [] t \in {")", "}"} ->
            IF s.open = <<>> \/ ClosedBy(Last(s.open)) # t THEN [s EXCEPT !.bad = TRUE]
            ELSE [s EXCEPT !.open = Front(@), !.prev = t]
       [] OTHER -> [s EXCEPT !.prev = t]

(* A line end closes a string that is left open.                              *)
ScanString(s, t, delimiter) ==
  IF s.escaped THEN [s EXCEPT !.escaped = FALSE]
  ELSE IF t = "escape" THEN [s EXCEPT !.escaped = TRUE]
  ELSE IF t \in {"nl", delimiter} THEN [s EXCEPT !.in = "code", !.prev = delimiter]
  ELSE s
ScanBlock(x, s, t) ==
  CASE t = "comment" /\ x.language = "rust" -> [s EXCEPT !.depth = @ + 1]
    [] t = "end_comment" -> [s EXCEPT !.depth = @ - 1, !.in = IF s.depth = 1 THEN "code" ELSE "block"]
    [] OTHER -> s
(* Inside a template only the braces of interpolations are counted.           *)
ScanTemplate(s, t) ==
  CASE s.escaped -> [s EXCEPT !.escaped = FALSE]
    [] ~s.escaped /\ t = "escape" -> [s EXCEPT !.escaped = TRUE]
    [] ~s.escaped /\ t = "tick" /\ s.depth = 0 -> [s EXCEPT !.in = "code", !.prev = "tick"]
    [] ~s.escaped /\ t = "interpolate" -> [s EXCEPT !.depth = @ + 1]
    [] ~s.escaped /\ t = "}" /\ s.depth > 0 -> [s EXCEPT !.depth = @ - 1]
    [] OTHER -> s

Scan(x, s, i) ==
  LET t == x.text[i]
  IN CASE s.bad -> s
       [] ~s.bad /\ s.in = "code" -> ScanCode(x, s, i)
       [] ~s.bad /\ s.in = "line" -> IF t = "nl" THEN [s EXCEPT !.in = "code"] ELSE s
       [] ~s.bad /\ s.in = "block" -> ScanBlock(x, s, t)
       [] ~s.bad /\ s.in = "string" -> ScanString(s, t, "quote")
       [] ~s.bad /\ s.in = "char" -> ScanString(s, t, "apostrophe")
       [] ~s.bad /\ s.in = "template" -> ScanTemplate(s, t)
       [] ~s.bad /\ s.in = "raw" -> IF t = "tick" THEN [s EXCEPT !.in = "code", !.prev = t] ELSE s
       [] ~s.bad /\ s.in = "regex" -> IF i = s.until THEN [s EXCEPT !.in = "code", !.prev = "slash"] ELSE s

Scanned(x) ==
  LET at[i \in 0 .. Len(x.text)] == IF i = 0 THEN Scanning ELSE Scan(x, at[i - 1], i)
  IN at[Len(x.text)]
CheckBalanced(x) ==
  LET end == Scanned(x)
  IN ~end.bad /\ end.in \in {"code", "line"} /\ end.open = <<>>

------------------------------------------------------------------------------
(* audit_fork_preservation, for one file of a batch of changes on both sides: *)
(* a loss, a check that could not run, or nothing.                            *)
AuditCase ==
  [escalated : BOOLEAN, diffed : BOOLEAN, sensitive : BOOLEAN, changed : {0, 10, 60},
   blobs : BOOLEAN, upstreams : BOOLEAN, texts : BOOLEAN, own : {4, 10}, kept : {0, 3, 4, 10}]

MinForkLines(x) == IF x.sensitive THEN 0 ELSE 50
MinDistinctive == 5
Dropped(x) == IF x.own < x.kept THEN 0 ELSE x.own - x.kept

AuditForkPreservation(x) ==
  IF x.escalated \/ ~x.diffed \/ x.changed < MinForkLines(x) THEN "nothing"
  ELSE IF ~x.blobs THEN "not_run"
  ELSE IF x.upstreams THEN "loss"
  ELSE IF ~x.texts THEN "not_run"
  ELSE IF x.own >= MinDistinctive /\ 10 * Dropped(x) >= 7 * x.own THEN "loss"
  ELSE "nothing"
==============================================================================
