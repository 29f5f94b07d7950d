-------------------------------- MODULE Memory --------------------------------
(***************************************************************************)
(* What runs learn (memory/sqlite_store.py, hit_tracker.py, the            *)
(* orchestrator's _update_memory): entries in a database that the runs of  *)
(* a project share, and the tracker of a run, which knows what agents were *)
(* shown and what the judge made of their files.  One run is followed; the *)
(* others add entries at any moment.                                       *)
(***************************************************************************)
EXTENDS Integers, FiniteSets, FiniteSetsExt

CONSTANTS
  Lessons,     \* the entries that may be added, suppressed ones not
  MemoryFile,  \* the files agents work on
  HumanFile,   \* the files a person decided
  ConsolidateAbove, MaxEntries,   \* CONSOLIDATION_THRESHOLD, MAX_ENTRIES
  MaxContents, MaxPaths, MaxTags, \* 5, 20 and 10: what a merged entry holds
  MinFails,    \* suppress_min_fail_count
  MaxAdds      \* bound: phases summed up and entries added, in all

VARIABLES
  entries,     \* of the database
  learning,    \* where _update_memory is: "idle", "adding", "judging" or "pruning"
  phaseNow,    \* the rank of the phase it sums up
  toAdd,       \* what that phase has still to add
  shown,       \* the entries an agent was shown, by file
  outcomes,    \* by entry, how often its files passed and failed
  doomed,      \* entries found harmful, still to be suppressed
  adds         \* so far, of MaxAdds

memoryVars == <<entries, learning, phaseNow, toAdd, shown, outcomes, doomed, adds>>

JudgeRank == 3
TextKey(e) == <<e.phase, e.kind, e.says, e.more>>   \* content_hash
TextKeys(s) == {TextKey(e) : e \in s}
GroupOf(e) == <<e.phase, e.kind, e.tag, e.dir>>     \* by its first tag
Bootstrap == 1   \* _BOOTSTRAP_TAG, among tags in the order of the alphabet
MostConfident == 4

MemoryInit ==
  /\ entries = {} /\ learning = "idle" /\ phaseNow = 0 /\ toAdd = {}
  /\ shown = [f \in MemoryFile |-> {}]
  /\ outcomes = [k \in {} |-> <<0, 0>>]
  /\ doomed = {} /\ adds = 0

-----------------------------------------------------------------------------
(* _merge_entry_group: the first texts of the group, the first files and the  *)
(* first tags of the alphabet, more confident than any of it.  It says when   *)
(* there are texts it leaves out.  The group comes in the order of the rows,  *)
(* which is any here.                                                         *)
FirstOf(S, n) == IF Cardinality(S) <= n THEN {S} ELSE {k \in SUBSET S : Cardinality(k) = n}
MergedEntries(group) ==
  LET one == CHOOSE e \in group : TRUE
      contents == {e.says : e \in group}
      tags == UNION {e.tags : e \in group}
      conf == Max({e.conf : e \in group}) + 1
  IN {[phase |-> one.phase, kind |-> one.kind, dir |-> one.dir, tag |-> Min(tags),
       tags |-> {t \in tags : Cardinality({u \in tags : u < t}) < MaxTags},
       says |-> UNION shows, files |-> paths,
       more |-> Cardinality(contents) > MaxContents \/ \E e \in group : e.more,
       conf |-> IF conf > MostConfident THEN MostConfident ELSE conf,
       pinned |-> FALSE, suppressed |-> FALSE] :
        shows \in FirstOf(contents, MaxContents), paths \in FirstOf(UNION {e.files : e \in group}, MaxPaths)}

(* Some entries pass through, other groups of three and more become one entry *)
(* each.  The rows are written anew, each unless its text is there already,   *)
(* those that pass through last.                                              *)
Regrouped(s, through) ==
  LET groups == {{e \in s \ through : GroupOf(e) = g} : g \in {GroupOf(e) : e \in s \ through}}
      large == {g \in groups : Cardinality(g) > 2}
      merges == {m \in [large -> UNION {MergedEntries(g) : g \in large}] :
                   \A g \in large : m[g] \in MergedEntries(g)}
      rewritten(result) == result \cup {e \in through : TextKey(e) \notin TextKeys(result)}
  IN {rewritten(UNION (groups \ large) \cup {m[g] : g \in large}) : m \in merges}

ConsolidatePinned(s) ==   \* mutant
  IF Cardinality(s) <= ConsolidateAbove THEN {s} ELSE Regrouped(s, {e \in s : e.suppressed})
Consolidate(s) ==
  IF Cardinality(s) <= ConsolidateAbove THEN {s}
  ELSE Regrouped(s, {e \in s : e.suppressed \/ e.pinned})

\* At the limit the least confident row goes.
Evictions(s) ==
  IF Cardinality(s) <= MaxEntries THEN {s}
  ELSE {s \ {e} : e \in {e \in s : \A x \in s : e.conf <= x.conf}}

\* add_entry: nothing, if the text is there.
Added(s, e) ==
  IF TextKey(e) \in TextKeys(s) THEN {s}
  ELSE UNION {Evictions(c) : c \in Consolidate(s \cup {e})}

\* remove_superseded
Superseded(s, rank) ==
  LET paths == UNION {e.files : e \in {x \in s : x.phase = rank}}
  IN {e \in s : e.phase < rank /\ e.files # {} /\ e.files \subseteq paths}

\* An entry that is gone is never met again under its old id.
Known(s, counts) == [k \in DOMAIN counts \cap TextKeys(s) |-> counts[k]]
Store(s) ==
  /\ entries' = s
  /\ outcomes' = Known(s, outcomes)
  /\ shown' = [f \in MemoryFile |-> shown[f] \cap TextKeys(s)]

-----------------------------------------------------------------------------
OtherAdds ==
  /\ adds < MaxAdds /\ adds' = adds + 1
  /\ \E e \in Lessons : \E s \in Added(entries, e) : Store(s)
  /\ UNCHANGED <<learning, phaseNow, toAdd, doomed>>

\* LayeredMemoryLoader._build_l2
Score(k) == IF k \in DOMAIN outcomes THEN outcomes[k] ELSE <<0, 0>>
HarmfulNow(k) == Score(k)[1] + Score(k)[2] >= 2 /\ Score(k)[2] >= 3 * Score(k)[1]
Inject(f) ==
  /\ learning = "idle"
  /\ shown' = [shown EXCEPT ![f] = @ \cup
                 {TextKey(e) : e \in {x \in entries : /\ ~x.suppressed
                                                      /\ ~HarmfulNow(TextKey(x))
                                                      /\ x.files = {} \/ f \in x.files}}]
  /\ UNCHANGED <<entries, learning, phaseNow, toAdd, outcomes, doomed, adds>>

\* A phase ends and has some lessons; phases come in order, or start over.
StartUpdate ==
  /\ learning = "idle" /\ learning' = "adding"
  /\ phaseNow' \in {e.phase : e \in Lessons} \cup {JudgeRank}
  /\ toAdd' \in SUBSET {e \in Lessons : e.phase = phaseNow'}
  /\ adds' = adds + 1 + Cardinality(toAdd') /\ adds' <= MaxAdds
  /\ UNCHANGED <<entries, shown, outcomes, doomed>>

AddEntry ==
  /\ learning = "adding"
  /\ \E e \in toAdd : /\ toAdd' = toAdd \ {e}
                      /\ \E s \in Added(entries, e) : Store(s)
  /\ UNCHANGED <<learning, phaseNow, doomed, adds>>

RemoveSuperseded ==
  /\ learning = "adding" /\ toAdd = {}
  /\ Store(entries \ Superseded(entries, phaseNow))
  /\ learning' = IF phaseNow = JudgeRank THEN "judging" ELSE "idle"
  /\ UNCHANGED <<phaseNow, toAdd, doomed, adds>>

(* _record_memory_outcomes, each time the judge's phase ends: what was shown  *)
(* for a file shares its fate, also when it was counted before.  Then the     *)
(* entries' confidence follows, people's and the bootstrap's excepted.        *)
Exempt(e) == Bootstrap \in e.tags \/ e.files \cap HumanFile # {}
Counted(passed, failed) ==
  [k \in UNION {shown[f] : f \in passed \cup failed} \cup DOMAIN outcomes |->
     <<Score(k)[1] + Cardinality({f \in passed : k \in shown[f]}),
       Score(k)[2] + Cardinality({f \in failed : k \in shown[f]})>>]
Nudged(e, counts) ==
  IF TextKey(e) \notin DOMAIN counts \/ Exempt(e) THEN e
  ELSE LET c == counts[TextKey(e)]
       IN [e EXCEPT !.conf = IF c[1] > c[2] /\ @ < MostConfident THEN @ + 1
                             ELSE IF c[1] < c[2] /\ @ > 1 THEN @ - 1 ELSE @]

HarmfulIds(counts) == {k \in DOMAIN counts : counts[k][2] >= MinFails /\ counts[k][1] * 9 <= counts[k][2]}

RecordOutcomes ==
  /\ learning = "judging" /\ learning' = "pruning"
  /\ \E failed \in SUBSET MemoryFile, vetoed \in SUBSET MemoryFile :
       LET passed == MemoryFile \ failed
           counts == Counted(passed, failed)
           excused == {e \in entries : e.files \cap failed \cap vetoed # {} /\ e.files \cap passed = {}}
       IN /\ vetoed \subseteq failed
          /\ outcomes' = counts
          /\ entries' = {Nudged(e, counts) : e \in entries}
          /\ doomed' = {TextKey(e) : e \in {x \in entries \ excused :
                                               /\ TextKey(x) \in HarmfulIds(counts)
                                               /\ ~x.suppressed /\ ~Exempt(x)}}
  /\ UNCHANGED <<phaseNow, toAdd, shown, adds>>

\* suppress_entry, one row at a time; a row that is gone is passed over.
Suppress ==
  /\ learning = "pruning" /\ doomed # {}
  /\ \E k \in doomed :
       /\ doomed' = doomed \ {k}
       /\ entries' = {IF TextKey(e) = k THEN [e EXCEPT !.suppressed = TRUE] ELSE e : e \in entries}
  /\ UNCHANGED <<learning, phaseNow, toAdd, shown, outcomes, adds>>
Pruned ==
  /\ learning = "pruning" /\ doomed = {}
  /\ learning' = "idle"
  /\ UNCHANGED <<entries, phaseNow, toAdd, shown, outcomes, doomed, adds>>

MemoryNext ==
  \/ OtherAdds \/ (\E f \in MemoryFile : Inject(f)) \/ StartUpdate \/ AddEntry
  \/ RemoveSuperseded \/ RecordOutcomes \/ Suppress \/ Pruned

-----------------------------------------------------------------------------
(* No lesson is lost without cause: an entry that goes is one whose files a   *)
(* later phase has learnt about; one whose text lives on in the entry its     *)
(* group became, or is left out of one that says so and holds all it may,     *)
(* which happens to no pinned or suppressed entry; or, in a full store, the   *)
(* least confident one.                                                       *)
LivesOn(e, x) ==
  /\ x \notin entries /\ x.phase = e.phase /\ x.kind = e.kind /\ x.dir = e.dir
  /\ \/ e.says \subseteq x.says
     \/ x.more /\ Cardinality(x.says) >= MaxContents
LessonKept(e) ==
  \/ TextKey(e) \in TextKeys(entries')
  \/ e.files # {} /\ e.files \subseteq UNION {x.files : x \in {y \in entries : y.phase > e.phase}}
  \/ ~e.pinned /\ ~e.suppressed /\ \E x \in entries' : LivesOn(e, x)
  \/ \A x \in entries' \cap entries : e.conf <= x.conf
LessonsKept == [][\A e \in entries : LessonKept(e)]_memoryVars
=============================================================================
