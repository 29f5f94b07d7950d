---------------------------- MODULE SemanticMerge ----------------------------
(* How the executor merges one file with the model and writes the result      *)
(* (executor_agent.execute_semantic_merge, response_parser.parse_merge_result, *)
(* chunk_processor.py, patch_applier.py).  A text is what the guards can tell *)
(* of it: a set of flaws.                                                     *)
EXTENDS Naturals, Sequences, SequencesExt, FiniteSets, FiniteSetsExt, Lists

(* A reply of the model, or "raised" in it when the request failed.           *)
Replies == {{}} \cup
  {{x} : x \in {"raised", "cut", "too_large", "prose", "elided", "short", "foreign", "invented",
                "dropped_export", "dup_class", "dup_function", "unbalanced", "markers"}}

(* How the writing goes, and what the snapshot of the old file could read.    *)
Writing == {"ok", "mismatch", "raises"}
Original == {"text", "new", "undecodable"}

(* Cases: one request for the whole file, or one for each chunk pair with an  *)
(* upstream side ("own" marks a pair without one, taken over verbatim); what  *)
(* the merge base read gives; whether a unit had to be split mid-body.        *)
SingleCase ==
  [form : {"single"}, replies : {<<r>> : r \in Replies}, own : {{}},
   base : {"read", "absent", "error"}, forced : {FALSE}, write : Writing, original : Original]
ChunkedCase ==
  [form : {"chunked"}, replies : {<<r, s>> : r, s \in Replies}, own : {{}, {1}, {1, 2}},
   base : {"read"}, forced : BOOLEAN, write : Writing, original : Original]
MergeCase == SingleCase \cup ChunkedCase

(* apply_with_snapshot: nothing is written over markers; a failed or changed  *)
(* write puts the old text back if the snapshot has one.                      *)
Refused == [decision |-> "escalate_human", tree |-> "original", rolledBack |-> FALSE]
LeaveAsWritten(x) == [Refused EXCEPT !.tree = "merged"]
PutBack(x) ==
  [Refused EXCEPT !.tree = IF x.original = "text" THEN "original" ELSE "part_written",
                  !.rolledBack = (x.original = "text")]
ApplyWithSnapshot(x, text) ==
  IF text \cap {"markers", "elided"} # {} THEN Refused
  ELSE IF x.write = "ok" THEN [decision |-> "semantic_merge", tree |-> "merged", rolledBack |-> FALSE]
  ELSE PutBack(x)

(* parse_merge_result's gates: cut off by the provider, refused as too large, *)
(* opening with prose, with an elision marker, under 60% of the smaller side. *)
ParseFails(reply) == reply \cap {"raised", "cut", "too_large", "prose", "elided", "short"} # {}

(* remove_duplicate_top_level_symbols.                                        *)
Dedup(text) == text \ {"dup_class"}

(* _single_shot_fidelity_issue; without the base's text nothing can be said   *)
(* of the fork's exports.                                                     *)
SingleShotInfidelity(x, text) ==
  \/ text \cap {"foreign", "invented"} # {}
  \/ "dropped_export" \in text /\ x.base = "read"

SingleShot(x) ==
  LET text == Dedup(x.replies[1])
  IN IF ParseFails(x.replies[1]) \/ SingleShotInfidelity(x, text) THEN Refused
     ELSE ApplyWithSnapshot(x, text)

(* _execute_chunked_semantic_merge: one failed chunk ends it; the guards see  *)
(* the text put together again.                                               *)
Reassembled(x) == Dedup(UNION {IF i \in x.own THEN {} ELSE x.replies[i] : i \in DOMAIN x.replies})
ChunkFailed(x) == \E i \in DOMAIN x.replies \ x.own : ParseFails(x.replies[i])
ChunkedMerge(x) ==
  IF x.forced \/ ChunkFailed(x)
     \/ Reassembled(x) \cap {"dup_function", "unbalanced", "foreign", "invented"} # {}
  THEN Refused
  ELSE ApplyWithSnapshot(x, Reassembled(x))

MergeFile(x) == IF x.form = "chunked" THEN ChunkedMerge(x) ELSE SingleShot(x)

------------------------------------------------------------------------------
(* align_chunks.  A side is the line counts of its chunks; matched says that  *)
(* both name the same leading symbols.  Midpoints are doubled to stay whole.  *)
ChunkSizes == UNION {[1 .. n -> {1, 3}] : n \in 1 .. 3}
AlignCase == [fork : ChunkSizes, upstream : ChunkSizes, matched : BOOLEAN]

SumTo(s, n) == SumOf(SubSeq(s, 1, n))
Midpoint(s, i) == 2 * SumTo(s, i - 1) + s[i]
Distance(m, n) == IF m < n THEN n - m ELSE m - n
Gap(x, i, j) ==
  Distance(Midpoint(x.fork, i) * SumTo(x.upstream, Len(x.upstream)),
           Midpoint(x.upstream, j) * SumTo(x.fork, Len(x.fork)))

ClosestTo(costs) == Min({i \in DOMAIN costs : \A k \in DOMAIN costs : costs[i] <= costs[k]})
\* Mutant: the upstream chunk nearest to each chunk of the fork.
NearestUpstream(x) ==
  [i \in DOMAIN x.fork |-> {ClosestTo([j \in DOMAIN x.upstream |-> Gap(x, i, j)])}]
(* The upstream chunks paired with each fork chunk.                           *)
AlignChunks(x) ==
  [i \in DOMAIN x.fork |->
     IF Len(x.fork) = Len(x.upstream) /\ x.matched THEN {i}
     ELSE {j \in DOMAIN x.upstream : ClosestTo([k \in DOMAIN x.fork |-> Gap(x, k, j)]) = i}]

------------------------------------------------------------------------------
(* What the user chose for single files is carried out with the same writing  *)
(* (user_choice_dispatcher.py, the three-way merges of git_tool.py).          *)

(* A choice for the file: where its text comes from and how that ends ("text" *)
(* was read, or merged; "markers" are left in it; "none" could be had), and   *)
(* how the writing goes.                                                      *)
Chosen ==
  [choice : {"take_target", "take_current", "keep_head", "union_additions", "manual_paste", "skip",
             "approve"},
   source : {"text", "markers", "none"}, binary : BOOLEAN, write : Writing]
ChoiceCase == [first : Chosen, again : {"nothing", "skip"}, original : Original]

Keep == [decision |-> "none", by |-> "nobody", tree |-> "original"]
LeaveEscalated(by) == [Keep EXCEPT !.decision = "escalate_human", !.by = by]

(* What is written is recorded as the executor's, a text as well as bytes; a  *)
(* side taken of a binary file is not looked at.                              *)
Sides == {"take_target", "take_current", "keep_head"}
DecisionFor(choice) ==
  CASE choice = "take_target" -> "take_target"
    [] choice \in {"take_current", "keep_head"} -> "take_current"
    [] choice = "union_additions" -> "semantic_merge"
    [] choice = "manual_paste" -> "manual_patch"
Apply(x, c) ==
  LET asBytes == c.binary /\ c.choice \in Sides
      text == IF c.source = "markers" /\ ~asBytes THEN {"markers"} ELSE {}
      done == ApplyWithSnapshot([write |-> c.write, original |-> x.original], text)
  IN [by |-> "executor",
      decision |-> IF done.decision = "semantic_merge" THEN DecisionFor(c.choice) ELSE done.decision,
      tree |-> IF done.tree = "merged" THEN c.choice ELSE done.tree]

(* A pasted or united text that is not there stays the human's to settle, a   *)
(* side that cannot be read is escalated by the executor.                     *)
CarryOut(x, c) ==
  CASE c.choice = "approve" -> Keep
    [] c.choice = "skip" -> [Keep EXCEPT !.decision = "skip", !.by = "human"]
    [] c.choice \in {"manual_paste", "union_additions"} /\ c.source = "none" -> LeaveEscalated("human")
    [] c.choice \in Sides /\ c.source = "none" -> LeaveEscalated("executor")
    [] OTHER -> Apply(x, c)

(* Of two choices for a file the first that can be carried out stands.        *)
DispatchUserChoice(x) ==
  LET done == CarryOut(x, x.first)
  IN IF done = Keep /\ x.again = "skip" THEN CarryOut(x, [x.first EXCEPT !.choice = "skip"]) ELSE done
=============================================================================
