--------------------------- MODULE ConflictRouting ---------------------------
(* The inside of the conflict analysis: which files are settled without the   *)
(* model, the commit rounds and their bisection, the circuit breaker between  *)
(* them, and the decision for every analysed file (conflict_analysis.py,      *)
(* conflict_analyst_agent.analyze_commit_round).                              *)
EXTENDS Naturals, Sequences, SequencesExt, FiniteSets

CONSTANTS
  RoutingCases,  \* the inputs: [commits, kind, known, recorded], see Entry
  RoundSize, RoundFiles,   \* config.commit_round_size, commit_round_max_files
  BisectDepth,   \* max_depth of the bisection
  BreakerAt      \* CIRCUIT_BREAKER_THRESHOLD

FileKind == {"plain", "ruled", "missing", "binary", "binary_both"}
ASSUME RoutingAssumption ==
  /\ \A x \in RoutingCases : x.commits \in Seq(SUBSET Nat) /\ x.kind \in Seq(FileKind)
  /\ RoundSize \in Nat \ {0} /\ RoundFiles \in Nat \ {0}
  /\ BisectDepth \in Nat /\ BreakerAt \in Nat \ {0}

VARIABLES
  entry,      \* the case: what kind each high-risk file is of, in their order,
              \* which have a FileDiff or a record, the non-replayable commits
  step,       \* "route", "rounds", "asking", "files", "done"
  rounds,     \* the commit rounds not yet analysed
  calls,      \* the stack of round analyses to ask for
  heard,      \* the answers of the current round, by file
  toAsk,      \* the files of the second stream not yet analysed
  analysed,   \* the strategy each file's analysis leads to, "none" without one
  misses,     \* consecutive failures of the analyst
  open,       \* the breaker is open
  settled,    \* files with a decision record
  asked,      \* files with a question for a person
  requests    \* history: requests sent to the model

routingVars == <<entry, step, rounds, calls, heard, toAsk, analysed, misses, open, settled, asked, requests>>

Entered == DOMAIN entry.kind
OfKind(k) == {f \in Entered : entry.kind[f] = k}
Strategy == {"take", "merge", "escalate"}

(* Resolved before the model: missing files, files a rule settles, and binary *)
(* files without a record.                                                    *)
Missing == OfKind("missing") \cap entry.known
Ruled == OfKind("ruled") \cap entry.known
Binary == (OfKind("binary") \cup OfKind("binary_both")) \ entry.recorded
CopiedBytes == Binary \cap OfKind("binary") \cap entry.known
LLMFiles == Entered \ (Missing \cup Ruled \cup Binary)

(* Stream A: files of a non-replayable commit, each with the first commit     *)
(* that carries it; stream B: the rest.  A commit comes with its first file.  *)
Carrier(f) == SelectInSeq(entry.commits, LAMBDA c : f \in c)
StreamA == {f \in LLMFiles : Carrier(f) # 0}
StreamB == LLMFiles \ StreamA
BringsCommit(f) == f \in StreamA /\ \A g \in StreamA : g < f => Carrier(g) # Carrier(f)

(* build_commit_rounds: a commit joins the last round unless it shares a file *)
(* with it or the round is full.                                              *)
FilesIn(round) == UNION ToSet(round)
Fits(c, round) ==
  /\ c \cap FilesIn(round) = {}
  /\ Len(round) < RoundSize
  /\ Cardinality(FilesIn(round) \cup c) <= RoundFiles
PutCommit(built, c) ==
  IF built # <<>> /\ Fits(c, Last(built))
  THEN Append(Front(built), Append(Last(built), c)) ELSE Append(built, <<c>>)
CommitRounds ==
  LET built[n \in 0 .. Len(entry.kind)] ==
        IF n = 0 THEN <<>>
        ELSE IF BringsCommit(n) THEN PutCommit(built[n - 1], entry.commits[Carrier(n)])
        ELSE built[n - 1]
  IN built[Len(entry.kind)]

Unheard == [f \in {} |-> "none"]
RoutingInit ==
  /\ entry \in RoutingCases /\ step = "route" /\ rounds = <<>> /\ calls = <<>> /\ heard = Unheard
  /\ toAsk = {} /\ analysed = [f \in Entered |-> "none"] /\ misses = 0 /\ open = FALSE
  /\ settled = entry.recorded /\ asked = {} /\ requests = 0

(* A binary file that both sides changed, or that has no FileDiff, is a       *)
(* person's.  A copy may fail; the record then escalates, but it is a record. *)
RouteFiles ==
  /\ step = "route" /\ step' = "rounds"
  /\ analysed' = [f \in Entered |->
       IF f \in Ruled \cup (Missing \ entry.recorded) THEN "take"
       ELSE IF f \in Binary \ CopiedBytes THEN "escalate" ELSE "none"]
  /\ settled' = settled \cup CopiedBytes
  /\ rounds' = CommitRounds
  /\ toAsk' = StreamB
  /\ UNCHANGED <<entry, calls, heard, misses, open, asked, requests>>

(* A round asks for its files that have no record and no rule.                *)
RoundFilesOf(round) == (FilesIn(round) \cap StreamA) \ (settled \cup Ruled)

StartRound ==
  /\ step = "rounds" /\ calls = <<>> /\ rounds # <<>> /\ ~open
  /\ IF RoundFilesOf(rounds[1]) = {}
     THEN rounds' = Tail(rounds) /\ UNCHANGED <<step, calls, heard>>
     ELSE /\ step' = "asking"
          /\ calls' = <<[commits |-> rounds[1], files |-> RoundFilesOf(rounds[1]), depth |-> 0]>>
          /\ heard' = Unheard
          /\ UNCHANGED rounds
  /\ UNCHANGED <<entry, toAsk, analysed, misses, open, settled, asked, requests>>

(* The halves of a round that got no answer, each with its own files.         *)
Halves(call) ==
  LET mid == Len(call.commits) \div 2
      Half(commits) == [commits |-> commits, files |-> call.files \cap FilesIn(commits),
                        depth |-> call.depth + 1]
  IN SelectSeq(<<Half(SubSeq(call.commits, 1, mid)),
                 Half(SubSeq(call.commits, mid + 1, Len(call.commits)))>>,
               LAMBDA half : half.files # {})

CanBisect(call) == call.depth < BisectDepth /\ Len(call.commits) >= 2

(* What the round's end writes for the files no call answered.                *)
ForgetUnheard(files) == heard
FillUnheard(files) == [f \in files |-> IF f \in DOMAIN heard THEN heard[f] ELSE "escalate"]

(* One analyze_commit_round: some files are answered; or none is, because the *)
(* call raised or its answer was empty or cut off.  An answer resets the      *)
(* failures, an empty one then counts as the first.                           *)
AskRound ==
  /\ step = "asking" /\ calls # <<>>
  /\ requests' = requests + 1
  /\ \/ \E answered \in (SUBSET calls[1].files) \ {{}} : \E a \in [answered -> Strategy] :
          /\ heard' = [f \in answered \cup DOMAIN heard |-> IF f \in answered THEN a[f] ELSE heard[f]]
          /\ calls' = Tail(calls) /\ misses' = 0
     \/ /\ calls' = (IF CanBisect(calls[1]) THEN Halves(calls[1]) ELSE <<>>) \o Tail(calls)
        /\ misses' \in {1, misses, misses + 1}
        /\ UNCHANGED heard
  /\ UNCHANGED <<entry, step, rounds, toAsk, analysed, open, settled, asked>>

EndRound ==
  /\ step = "asking" /\ calls = <<>> /\ step' = "rounds"
  /\ LET done == FillUnheard(RoundFilesOf(rounds[1]))
     IN analysed' = [f \in Entered |-> IF f \in DOMAIN done THEN done[f] ELSE analysed[f]]
  /\ open' = (misses >= BreakerAt)
  /\ rounds' = Tail(rounds)
  /\ UNCHANGED <<entry, calls, heard, toAsk, misses, settled, asked, requests>>

(* The breaker is open and rounds are left: everything of the stream that has *)
(* no analysis escalates.                                                     *)
SkipRounds ==
  /\ step = "rounds" /\ open /\ rounds # <<>>
  /\ analysed' = [f \in Entered |-> IF f \in StreamA /\ analysed[f] = "none" THEN "escalate" ELSE analysed[f]]
  /\ rounds' = <<>>
  /\ UNCHANGED <<entry, step, calls, heard, toAsk, misses, open, settled, asked, requests>>

RoundsDone ==
  /\ step = "rounds" /\ rounds = <<>> /\ step' = "files"
  /\ UNCHANGED <<entry, rounds, calls, heard, toAsk, analysed, misses, open, settled, asked, requests>>

(* One file of stream B: without a FileDiff it is passed over; with the       *)
(* breaker open it escalates unasked; a failed call escalates it too.         *)
AskFile ==
  /\ step = "files"
  /\ \E f \in toAsk :
       /\ toAsk' = toAsk \ {f}
       /\ IF f \notin entry.known THEN UNCHANGED <<analysed, misses, open, requests>>
          ELSE IF open
               THEN analysed' = [analysed EXCEPT ![f] = "escalate"] /\ UNCHANGED <<misses, open, requests>>
          ELSE /\ requests' = requests + 1
               /\ \/ misses' = 0 /\ \E a \in Strategy : analysed' = [analysed EXCEPT ![f] = a]
                  \/ misses' \in {misses, misses + 1} /\ analysed' = [analysed EXCEPT ![f] = "escalate"]
               /\ open' = (misses' >= BreakerAt)
  /\ UNCHANGED <<entry, step, rounds, calls, heard, settled, asked>>

(* The last loop: every analysed file without a record is decided.  A merge   *)
(* needs the hunks a synthesised FileDiff has not.                            *)
Decided(f) ==
  IF f \notin entry.known /\ analysed[f] = "merge" THEN "escalate" ELSE analysed[f]

DecideFiles ==
  /\ step = "files" /\ toAsk = {} /\ step' = "done"
  /\ LET due == {f \in Entered : analysed[f] # "none"} \ settled
     IN /\ asked' = {f \in due : Decided(f) = "escalate"}
        /\ settled' = settled \cup {f \in due : Decided(f) # "escalate"}
  /\ UNCHANGED <<entry, rounds, calls, heard, toAsk, analysed, misses, open, requests>>

RoutingNext ==
  \/ RouteFiles \/ StartRound \/ AskRound \/ EndRound \/ SkipRounds
  \/ RoundsDone \/ AskFile \/ DecideFiles
RoutingSpec == RoutingInit /\ [][RoutingNext]_routingVars

-----------------------------------------------------------------------------
(* When the loop is through, every file of the worklist has a record or a     *)
(* question for a person, whatever the rounds, their halves, the breaker and  *)
(* failed calls did, except a file without a FileDiff that no commit carries. *)
NothingForgotten ==
  step = "done" =>
    \A f \in DOMAIN entry.kind :
      \/ f \in settled \cup asked
      \/ f \notin entry.known /\ \A i \in DOMAIN entry.commits : f \notin entry.commits[i]
=============================================================================
