-------------------------- MODULE PlanNegotiation --------------------------
(***************************************************************************)
(* One run of the plan review: the judge reads the plan segment by segment *)
(* (PlannerJudgeAgent.review_plan), a deterministic precheck adds its own  *)
(* issues, the planner accepts, rejects or discusses each of them          *)
(* (PlannerAgent.revise_plan), and the next round re-reads only what       *)
(* changed.  Levels are numbers by severity, 1 auto_safe, 2 auto_risky,    *)
(* 3 human_required; 0 stands for a file in no batch, and for no issue.    *)
(***************************************************************************)
EXTENDS Naturals, Sequences

CONSTANTS PlanFile, Segments, MaxRevisions,
          PlanCases  \* the plans a review starts from: [rated, placed, plain] records

ASSUME PlanNegotiationAssumption ==
  /\ Segments \in Seq(SUBSET PlanFile) /\ PlanFile = UNION {Segments[k] : k \in DOMAIN Segments}
  /\ MaxRevisions \in Nat
  /\ PlanCases \subseteq [rated : [PlanFile -> 1 .. 3], placed : [PlanFile -> 0 .. 3],
                          plain : SUBSET PlanFile]

VARIABLES
  rated,     \* [PlanFile -> 1..3]: the classifier's level, as execute() read it before the loop
  placed,    \* [PlanFile -> 0..3]: the level of the file's batch in the plan
  plain,     \* the files of the safelist: no conflict, no security flag, a harmless path
  snapshot,  \* per segment, what segment_results remembers of its last review
  revision,  \* the round number
  stage,     \* "review", "revise", "approved" or "human"
  issue,     \* [PlanFile -> 0..3]: the level the last verdict suggests for the file
  soft,      \* every issue of the last verdict is settled by moving the file
  agreed,    \* the planner accepted every one of them
  heardOn    \* history: the segments, with their levels, the judge answered on or the safelist passed

planVars == <<rated, placed, plain, snapshot, revision, stage, issue, soft, agreed, heardOn>>

PlanInit ==
  /\ \E c \in PlanCases : rated = c.rated /\ placed = c.placed /\ plain = c.plain
  /\ snapshot = [k \in DOMAIN Segments |-> [of |-> <<>>, result |-> "none"]]
  /\ revision = 0 /\ stage = "review" /\ heardOn = {}
  /\ issue = [f \in PlanFile |-> 0] /\ soft = FALSE /\ agreed = FALSE

\* Mutant: the cache is keyed by the files alone.
SignatureOfPaths(k) == [f \in Segments[k] |-> 0]

Signature(k) == [f \in Segments[k] |-> placed[f]]

Cached(k) == snapshot[k].result = "approved" /\ snapshot[k].of = Signature(k)

ObviouslySafe(k) == \A f \in Segments[k] : f \in plain /\ placed[f] = rated[f]

\* The files the plan dropped or put in a laxer batch than the classifier's.
Mismatched == {f \in PlanFile : placed[f] < rated[f]}

Flagged == {f \in PlanFile : issue[f] # 0}

\* Every issue of the last round was accepted and applied, and the precheck is clean.
ShortCircuits ==
  /\ revision > 0 /\ Flagged # {} /\ soft /\ agreed /\ Mismatched = {}
  /\ \A f \in Flagged : placed[f] = issue[f]

ShortCircuit ==
  /\ stage = "review" /\ ShortCircuits
  /\ stage' = "approved"
  /\ UNCHANGED <<rated, placed, plain, snapshot, revision, issue, soft, agreed, heardOn>>

(* A segment is taken from the cache, passed by the safelist when there is *)
(* more than one, or read by the judge.  late is the file the precheck     *)
(* finds merged before what it depends on, if any: no move settles that,   *)
(* but its issue is dropped when the file has another one.                 *)
JudgePlan ==
  /\ stage = "review" /\ ~ShortCircuits
  /\ LET cached == {k \in DOMAIN Segments : Cached(k)}
         safe   == {k \in DOMAIN Segments \ cached : Len(Segments) > 1 /\ ObviouslySafe(k)}
         asked  == DOMAIN Segments \ (cached \cup safe)
     IN
     \E said \in [asked -> {"approved", "revision", "unparsed"}],
        wants \in [PlanFile -> 0 .. 3],
        late \in {{}} \cup {{f} : f \in {g \in PlanFile : placed[g] # 0}},
        movable \in BOOLEAN :
       LET read == UNION {Segments[k] : k \in {j \in asked : said[j] # "unparsed"}}
           found == [f \in PlanFile |->
                       IF wants[f] # 0 THEN wants[f]
                       ELSE IF f \in Mismatched THEN rated[f]
                       ELSE IF f \in late THEN placed[f] ELSE 0]
           flagged  == {f \in PlanFile : found[f] # 0}
           objected == Mismatched \cup late # {} \/ \E k \in asked : said[k] # "approved"
           failed   == Len(Segments) = 1 /\ flagged = {} /\ \E k \in asked : said[k] = "unparsed"
           opposed  == \E f \in Mismatched \ late : wants[f] # 0 /\ wants[f] < placed[f]
       IN
       /\ \A f \in PlanFile : wants[f] # 0 => f \in read /\ wants[f] # placed[f]
       /\ snapshot' = [k \in DOMAIN Segments |->
                         IF k \in cached THEN snapshot[k]
                         ELSE [of |-> Signature(k),
                               result |-> IF k \in asked THEN said[k] ELSE "approved"]]
       /\ heardOn' = heardOn \cup
            {<<k, [f \in Segments[k] |-> placed[f]]>> :
               k \in safe \cup {j \in asked : said[j] # "unparsed"}}
       /\ issue' = found
       /\ soft' = (movable /\ \A f \in late : wants[f] # 0 \/ f \in Mismatched)
       /\ stage' = IF failed \/ opposed THEN "human"
                   ELSE IF ~objected \/ flagged = {} THEN "approved"
                   ELSE IF revision < MaxRevisions THEN "revise" ELSE "human"
  /\ UNCHANGED <<rated, placed, plain, revision, agreed>>

\* LLM_UNAVAILABLE for a segment, or CRITICAL_REPLAN, ends this review.
ReviewEnds ==
  /\ stage = "review" /\ ~ShortCircuits
  /\ stage' = "human"
  /\ UNCHANGED <<rated, placed, plain, snapshot, revision, issue, soft, agreed, heardOn>>

(* The answers are zipped with the issues in the order the model gave      *)
(* them: order[f] is the file whose answer decides on f's issue.  A        *)
(* revision that moves nothing and leaves nothing to discuss ends here.    *)
AnswerIssues ==
  /\ stage = "revise"
  /\ \E answer \in [Flagged -> {"accept", "reject", "discuss"}],
        order \in {p \in [Flagged -> Flagged] : \A f \in Flagged : \E g \in Flagged : p[g] = f} :
       LET accepted == {f \in Flagged : answer[order[f]] = "accept"}
       IN  /\ placed' = [f \in PlanFile |-> IF f \in accepted THEN issue[f] ELSE placed[f]]
           /\ agreed' = \A f \in Flagged : answer[f] = "accept"
           /\ stage' = IF placed' # placed \/ \E f \in Flagged : answer[f] = "discuss"
                       THEN "review" ELSE "human"
  /\ revision' = revision + 1
  /\ UNCHANGED <<rated, plain, snapshot, issue, soft, heardOn>>

PlanNext == ShortCircuit \/ JudgePlan \/ ReviewEnds \/ AnswerIssues
PlanNegotiationSpec == PlanInit /\ [][PlanNext]_planVars

-----------------------------------------------------------------------------
(* An approved plan puts no file into a laxer batch than the classifier did,  *)
(* and each of its segments was read, or passed by the safelist, as it stands *)
(* or up to the moves its last verdict asked for; a segment whose answer      *)
(* could not be parsed is the exception the code makes.                       *)
ApprovedMeansRead ==
  stage = "approved" =>
    /\ \A f \in PlanFile : placed[f] >= rated[f]
    /\ \A k \in DOMAIN Segments :
         \/ snapshot[k].result = "unparsed"
         \/ \E h \in heardOn : h[1] = k /\ \A f \in Segments[k] : placed[f] \in {h[2][f], issue[f]}
=============================================================================
