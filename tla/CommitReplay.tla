---------------------------- MODULE CommitReplay ----------------------------
(***************************************************************************)
(* The replay of upstream commits at the head of AutoMergePhase            *)
(* (CommitReplayer over GitTool's cherry-picks), the native three-way      *)
(* merge and the pre-pass pause that follow it, the merge and commit of    *)
(* what is left, and the check of the files only upstream changed.  The    *)
(* process may die between two commits; the worktree and HEAD then stay    *)
(* and the state is the one saved last.  A file's version is the number of *)
(* upstream commits of it in HEAD, or Odd for a text upstream never had.   *)
(***************************************************************************)
EXTENDS Naturals, Sequences, FiniteSets

CONSTANTS ReplayFile, Upstreams,   \* the files, and those only upstream changed
          History,                 \* the files of each upstream commit, oldest first
          Bail, MaxDeaths          \* _PARTIAL_REPLAY_FAILURE_BAIL; a bound on deaths

ASSUME CommitReplayAssumption ==
  /\ Upstreams \subseteq ReplayFile /\ History \in Seq(SUBSET ReplayFile)
  /\ Bail \in Nat \ {0} /\ MaxDeaths \in Nat

VARIABLES
  head,      \* HEAD's version of each file
  written,   \* files whose worktree holds a recorded merge that HEAD does not
  mark,      \* [ReplayFile -> class of its decision record]
  replayed,  \* state.replayed_files; empty exactly while state.replayed_commits is
  drained,   \* files removed from the plan's batches
  uncategorised,  \* the plan's batches lost their change_category in a revision
  picked,    \* the local replayed_set
  todo, at,  \* commits the current loop has left; where the phase is
  inARow,    \* consecutive failures of partial replays
  undecided, \* the pre-pass still has an undecided item
  rerun,     \* state.rerun_round > 0
  savedReplay, deaths

replayVars == <<head, written, mark, replayed, drained, uncategorised, picked, todo, at,
                inARow, undecided, rerun, savedReplay, deaths>>
worktree == <<head, written>>
settings == <<uncategorised, undecided, rerun, savedReplay, deaths>>

Odd == Len(History) + 1
CommitsOf(f) == {i \in DOMAIN History : f \in History[i]}
Top(f) == Cardinality(CommitsOf(f))
Number(f, i) == Cardinality({j \in CommitsOf(f) : j <= i})

Full == {i \in DOMAIN History : History[i] # {} /\ History[i] \subseteq Upstreams}
Partial == {i \in DOMAIN History \ Full : History[i] \cap Upstreams # {}}
Next1(S) == CHOOSE i \in S : \A j \in S : i <= j

Persistent == [mark |-> mark, replayed |-> replayed, drained |-> drained]

ReplayInit ==
  /\ head = [f \in ReplayFile |-> 0] /\ written = {}
  /\ mark = [f \in ReplayFile |-> "none"] /\ replayed = {} /\ drained = {}
  /\ uncategorised \in BOOLEAN /\ undecided \in BOOLEAN
  /\ picked = {} /\ todo = {} /\ at = "enter" /\ inARow = 0 /\ rerun = FALSE
  /\ savedReplay = Persistent /\ deaths = 0

SkipReplay == rerun \/ replayed # {}

EnterReplay ==
  /\ at = "enter"
  /\ picked' = {} /\ inARow' = 0
  /\ IF SkipReplay \/ Full \cup Partial = {}
     THEN at' = "native" /\ todo' = {}
     ELSE at' = "full" /\ todo' = Full
  /\ UNCHANGED <<worktree, mark, replayed, drained, settings>>

(* What a cherry-pick that goes through makes of the files of commit i: the   *)
(* next version of a file that has the one before, or a mixture.              *)
Result(i) ==
  {r \in [History[i] -> 0 .. Odd] :
     \A f \in History[i] :
       r[f] \in IF head[f] + 1 = Number(f, i) /\ f \in Upstreams
                THEN {Number(f, i)} ELSE {head[f], Odd}}
Changed(i, r) == {f \in History[i] : r[f] # head[f]}
Conflicts(i) == \E f \in History[i] : f \notin Upstreams \/ head[f] + 1 # Number(f, i)

Picked(i, files, r) ==
  /\ head' = [f \in ReplayFile |-> IF f \in files THEN r[f] ELSE head[f]]
  /\ picked' = picked \cup files

(* The ladder.  A strategy git refuses because a file it would change has     *)
(* local changes leaves no cherry-pick in progress: cherry_pick_abort then    *)
(* resets the worktree, and the next strategy runs on a clean one.  A         *)
(* conflict or an empty pick is aborted, which leaves other files alone.      *)
PickFull ==
  /\ at = "full" /\ todo # {}
  /\ LET i == Next1(todo) IN
     /\ todo' = todo \ {i}
     /\ \/ \E r \in Result(i) :
             /\ Changed(i, r) # {}
             /\ Picked(i, Changed(i, r), r)
             /\ written' = IF Changed(i, r) \cap written = {} THEN written ELSE {}
             /\ replayed' = replayed \cup Changed(i, r)
        \/ /\ Conflicts(i)
           /\ written' = written \/ (written' = {} /\ History[i] \cap written # {})
           /\ UNCHANGED <<head, picked, replayed>>
  /\ UNCHANGED <<mark, drained, at, inARow, settings>>

FullDone ==
  /\ at = "full" /\ todo = {}
  /\ at' = "partial" /\ todo' = Partial
  /\ UNCHANGED <<worktree, mark, replayed, drained, picked, inARow, settings>>

(* cherry-pick -n leaves no cherry-pick in progress: a conflict, a refusal    *)
(* or a pick with nothing to stage ends in reset --hard.                      *)
PickPartial ==
  /\ at = "partial" /\ todo # {} /\ inARow < Bail
  /\ LET i == Next1(todo) IN
     /\ todo' = todo \ {i}
     /\ \/ \E r \in Result(i) :
             /\ Changed(i, r) \cap Upstreams # {} /\ Changed(i, r) \cap written = {}
             /\ Picked(i, Changed(i, r) \cap Upstreams, r)
             /\ inARow' = 0 /\ UNCHANGED written
        \/ /\ Conflicts(i)
           /\ written' = {} /\ inARow' = inARow + 1
           /\ UNCHANGED <<head, picked>>
  /\ UNCHANGED <<mark, replayed, drained, at, settings>>

(* The records of what was picked are made when both loops are over.          *)
ReplayDone ==
  /\ at = "partial" /\ (todo = {} \/ inARow = Bail)
  /\ at' = "native" /\ todo' = {}
  /\ mark' = [f \in ReplayFile |-> IF f \in picked /\ mark[f] = "none" THEN "picked" ELSE mark[f]]
  /\ UNCHANGED <<worktree, replayed, drained, picked, inARow, settings>>

(* Merged from the refs, whatever HEAD holds by now; the files leave their    *)
(* batches and are in no commit of this phase.                                *)
Free == {f \in ReplayFile \ (picked \cup drained) : mark[f] = "none"}
NativeMerge ==
  /\ at = "native" /\ at' = "gate"
  /\ \E merged \in SUBSET Free :
       /\ written' = written \cup {f \in merged : f \notin Upstreams \/ head[f] # Top(f)}
       /\ mark' = [f \in ReplayFile |-> IF f \in merged THEN "merged" ELSE mark[f]]
       /\ drained' = drained \cup merged
  /\ UNCHANGED <<head, replayed, picked, todo, inARow, settings>>

PrePassPauses ==
  /\ at = "gate" /\ undecided
  /\ at' = "paused" /\ savedReplay' = Persistent
  /\ UNCHANGED <<worktree, mark, replayed, drained, picked, todo, inARow,
                 uncategorised, undecided, rerun, deaths>>

UserDecides ==
  /\ at = "paused" /\ at' = "enter" /\ undecided' = FALSE
  /\ UNCHANGED <<worktree, mark, replayed, drained, picked, todo, inARow,
                 uncategorised, rerun, savedReplay, deaths>>

(* The batches copy upstream's text of the files left to them, or escalate;   *)
(* the copies are committed unless a fully replayed commit changed the file.  *)
MergeBatches ==
  /\ at = "gate" /\ ~undecided /\ at' = "check"
  /\ \E failed \in SUBSET (Free \cap Upstreams) :
       LET taken == (Free \cap Upstreams) \ failed IN
       /\ mark' = [f \in ReplayFile |-> IF f \in taken THEN "taken"
                                        ELSE IF f \in failed THEN "escalated" ELSE mark[f]]
       /\ head' = [f \in ReplayFile |-> IF f \in taken \ replayed THEN Top(f) ELSE head[f]]
       /\ written' = written \cup {f \in taken \cap replayed : head[f] # Top(f)}
  /\ UNCHANGED <<replayed, drained, picked, todo, inARow, settings>>

AtUpstream(f) == f \in written \/ head[f] = Top(f)

(* _b_class_sanity_check, and the repair of what it finds.                    *)
DriftedUnlessPicked ==
  {f \in Upstreams \ drained : ~uncategorised /\ mark[f] # "escalated" /\ f \notin picked /\ ~AtUpstream(f)}
Drifted ==
  {f \in Upstreams \ drained : ~uncategorised /\ mark[f] # "escalated" /\ ~AtUpstream(f)}
CheckDrift ==
  /\ at = "check" /\ at' = "done"
  /\ \E repaired \in SUBSET Drifted :
       /\ written' = written \cup repaired
       /\ mark' = [f \in ReplayFile |-> IF f \in repaired THEN "taken"
                                        ELSE IF f \in Drifted THEN "none" ELSE mark[f]]
  /\ savedReplay' = [mark |-> mark', replayed |-> replayed, drained |-> drained]
  /\ UNCHANGED <<head, replayed, drained, uncategorised, picked, todo, inARow, undecided,
                 rerun, deaths>>

(* The user asks for a rerun of the files the Judge failed.                   *)
Rerun1 ==
  /\ at = "done" /\ ~rerun /\ rerun' = TRUE /\ at' = "enter"
  /\ \E failed \in SUBSET ReplayFile :
       mark' = [f \in ReplayFile |-> IF f \in failed THEN "none" ELSE mark[f]]
  /\ UNCHANGED <<worktree, replayed, drained, uncategorised, picked, todo, inARow, undecided,
                 savedReplay, deaths>>

Dies ==
  /\ at \in {"full", "partial", "native", "check"} /\ deaths < MaxDeaths
  /\ deaths' = deaths + 1 /\ at' = "enter"
  /\ mark' = savedReplay.mark /\ replayed' = savedReplay.replayed
  /\ drained' = savedReplay.drained
  /\ UNCHANGED <<worktree, uncategorised, picked, todo, inARow, undecided, rerun, savedReplay>>

ReplayNext ==
  \/ EnterReplay \/ PickFull \/ FullDone \/ PickPartial \/ ReplayDone \/ NativeMerge
  \/ PrePassPauses \/ UserDecides \/ MergeBatches \/ CheckDrift \/ Rerun1 \/ Dies

ReplaySpec == ReplayInit /\ [][ReplayNext]_replayVars

-----------------------------------------------------------------------------
(* A file only upstream changed that is recorded as picked or taken is, at    *)
(* the end of the phase, upstream's last version: a pick out of order, a      *)
(* partial replay that bailed out, a death between two picks and a rerun      *)
(* leave no earlier version behind, unless a revised plan switched the check  *)
(* off by losing its categories.                                              *)
PickedIsUpstream ==
  at = "done" /\ ~uncategorised =>
    \A f \in Upstreams : mark[f] \in {"picked", "taken"} => f \in written \/ head[f] = Top(f)

(* The comment over skip_replay: any entry after the first, whatever caused   *)
(* it, passes the replay over, because the worktree holds what was written    *)
(* before.  So a recorded merge stays in the worktree until it is committed.  *)
WritesAreKept ==
  [][\A f \in written : f \in written' \/ head'[f] # head[f]]_replayVars
=============================================================================
