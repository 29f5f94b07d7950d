---------------------------- MODULE AlgorithmProofs ----------------------------
(* The algorithms of one step: each is shown to keep its promise for any      *)
(* input of its kind, of which the cases TLC enumerates are some; the         *)
(* invariant is that an answer is what the algorithm makes of its question.   *)
(* What a run over a list of any length makes of it is shown by counting up   *)
(* along it (UpTo); the list of results is the one that exists (Recursion).   *)
EXTENDS PartProofs

-----------------------------------------------------------------------------
(* Routing: any blobs. *)
AnyRouting ==
  [base : Nat, head : Nat, up : Nat, module : Policy, removed : BOOLEAN,
   migration : {"free", "escalate_human", "take_current"},
   takeUpstream : BOOLEAN, takeCurrent : BOOLEAN]

Pinned(x) ==
  \/ x.module \in {"escalate_human", "take_current_with_diff_note"}
  \/ x.module = "none" /\ x.removed

\* Which side a decision takes, and whether one is taken at all.
LEMMA DecisionIs ==
  ASSUME NEW x \in AnyRouting
  PROVE  /\ Decision(x).record = "none" <=> Decision(x) = Undecided
         /\ Decision(x).tree # "fork" => x.takeUpstream /\ ~Pinned(x)
<1>1. /\ Undecided.record = "none" /\ Undecided.tree = "fork"
      /\ \A w : /\ TakeCurrent(w).record = "take_current" /\ TakeCurrent(w).tree = "fork"
                /\ Escalate(w).record = "escalate_human" /\ Escalate(w).tree = "fork"
      /\ ForceTakeTarget(x).record = "take_target"
  BY DEF Undecided, TakeCurrent, Escalate, ForceTakeTarget
<1>2. ByProfile(x) \in {Undecided, TakeCurrent("profile"), Escalate("profile")}
      /\ (Pinned(x) => ByProfile(x) # Undecided)
  <2>1. ByModule(x) \in {Undecided, TakeCurrent("profile"), Escalate("profile")}
        /\ (x.module \in {"escalate_human", "take_current_with_diff_note"} => ByModule(x).record # "none")
    BY <1>1, SMTT(30) DEF ByModule
  <2>2. ByMigration(x) \in {Undecided, TakeCurrent("profile"), Escalate("profile")}
    BY Zenon DEF ByMigration
  <2>. QED  BY <1>1, <2>1, <2>2 DEF ByProfile, Pinned
<1>3. ByPattern(x) = IF x.takeUpstream THEN ForceTakeTarget(x)
                     ELSE IF x.takeCurrent THEN TakeCurrent("pattern") ELSE Undecided
  BY DEF ByPattern
<1>4. Decision(x) = IF ByProfile(x) # Undecided THEN ByProfile(x) ELSE ByPattern(x)
  BY DEF Decision
<1>. QED  BY <1>1, <1>2, <1>3, <1>4

\* What RouteSound asks of the way one file goes.
LEMMA RouteIsSound ==
  ASSUME NEW x \in AnyRouting
  PROVE  /\ x.up # Absent /\ x.up # x.head /\ (x.head = Absent \/ x.up # x.base)
              => Route(x).agents \/ Route(x).record # "none"
         /\ Route(x).tree # "fork" =>
              \/ x.takeUpstream /\ ~Pinned(x)
              \/ x.base = Absent /\ x.head = Absent
<1>. DEFINE way == Way(x)
<1>1. way = IF GoesToAgents(x) /\ CategoryOf(x) = "D_MISSING" THEN MissingFile(x) ELSE Decision(x)
  BY DEF Way
<1>. HIDE DEF way
<1>3. Route(x).agents = GoesToAgents(x) /\ Route(x).record = way.record /\ Route(x).tree = way.tree
  BY DEF Route, way
<1>4. ASSUME x.up # Absent, x.up # x.head, x.head = Absent \/ x.up # x.base
      PROVE  CategoryOf(x) \in ActionableCategory
  <2>. DEFINE c == Category(x.base, x.head, x.up)
  <2>1. c \in {"D_MISSING", "B", "C"} /\ (c = "B" => x.head = x.base)
    BY <1>4 DEF Category
  <2>. HIDE DEF c
  <2>2. Audited(c, x.base, x.head, x.up) \in {"D_MISSING", "B", "C"}
    BY <2>1 DEF Audited
  <2>. QED  BY <2>2 DEF CategoryOf, ActionableCategory, c
<1>5. CategoryOf(x) = "D_MISSING" => x.head = Absent /\ x.up # Absent
  BY DEF CategoryOf, Category, Audited, AnyRouting
<1>6. CategoryOf(x) = "D_MISSING" /\ MissingFile(x).tree # "fork" => x.base = Absent /\ x.head = Absent
  BY <1>5 DEF MissingFile, IsForkDeleted, Divergence, AnyRouting
<1>7. ASSUME x.up # Absent, x.up # x.head, x.head = Absent \/ x.up # x.base, ~GoesToAgents(x)
      PROVE  way.record # "none"
  BY <1>1, <1>4, <1>7, DecisionIs DEF GoesToAgents, MissingFile
<1>8. way.tree # "fork" => \/ x.takeUpstream /\ ~Pinned(x)
                           \/ x.base = Absent /\ x.head = Absent
  BY <1>1, <1>6, DecisionIs
<1>. QED  BY <1>3, <1>7, <1>8

-----------------------------------------------------------------------------
(* The setup form: any models. *)
AnyForm(Models) ==
  [on : SUBSET Provider, models : [Provider -> Seq(Models)], default : Provider \cup {"none"},
   choice : {NoChoice} \cup [provider : Provider, model : Models],
   fallback : {NoChoice} \cup [provider : Provider, model : Models],
   overrides : {"valid", "invalid"}]

\* What FormSound asks of a form that is accepted.
LEMMA FormIsSound ==
  ASSUME NEW Models, NEW form \in AnyForm(Models), ValidForm(form)
  PROVE  LET agent == AgentBlock(form)
             other == form.on = Provider
                        /\ (form.fallback = NoChoice \/ form.fallback.provider # DefaultProvider(form))
         IN /\ agent.own # NoChoice /\ Offered(form, agent.own) /\ Offered(form, agent.fallback)
            /\ agent.own # agent.fallback
            /\ other => agent.fallback.provider \in Provider \ {agent.own.provider}
<1>. DEFINE default == DefaultProvider(form)
            own == AgentBlock(form).own
            back == AgentBlock(form).fallback
            Real == [provider : Provider, model : Models]
<1>0. /\ form.on \subseteq Provider /\ form.models \in [Provider -> Seq(Models)]
      /\ form.choice \in {NoChoice} \cup Real /\ form.fallback \in {NoChoice} \cup Real
      /\ NoChoice.provider = "none" /\ "none" \notin Provider
  BY DEF AnyForm, NoChoice, Provider
<1>1. default \in form.on
  <2>1. CASE form.default # "none"
    BY <2>1 DEF ValidForm, DefaultProvider
  <2>2. CASE form.default = "none"
    <3>1. \E y : y \in form.on
      BY DEF ValidForm
    <3>. QED  BY <2>2, <3>1 DEF DefaultProvider
  <2>. QED  BY <2>1, <2>2
<1>. HIDE DEF default
<1>2. ASSUME NEW y \in form.on
      PROVE  /\ First(form, y) \in Real /\ First(form, y).provider = y
             /\ Offered(form, First(form, y)) /\ First(form, y) # NoChoice
  <2>1. form.models[y] \in Seq(Models) /\ form.models[y] # <<>> /\ y \in Provider
    BY <1>0 DEF ValidForm
  <2>2. 1 \in DOMAIN form.models[y] /\ form.models[y][1] \in Models
        /\ form.models[y][1] \in ToSet(form.models[y])
    <3>1. 1 \in DOMAIN form.models[y] /\ form.models[y][1] \in Models
      BY <2>1
    <3>. QED  BY <3>1 DEF ToSet
  <2>3. First(form, y) = [provider |-> y, model |-> form.models[y][1]]
    BY DEF First
  <2>. QED  BY <1>0, <2>1, <2>2, <2>3 DEF Offered
<1>3. own = IF form.choice # NoChoice THEN form.choice ELSE First(form, default)
  BY DEF AgentBlock, default
<1>4. own \in Real /\ own.provider \in form.on /\ own # NoChoice /\ Offered(form, own)
  <2>1. CASE form.choice # NoChoice
    BY <1>0, <1>3, <2>1 DEF ValidForm, Offered
  <2>2. CASE form.choice = NoChoice
    BY <1>1, <1>2, <1>3, <2>2
  <2>. QED  BY <2>1, <2>2
<1>5. back = Fallback(form, own)
  BY DEF AgentBlock, default
<1>. HIDE DEF own, back
<1>. DEFINE wanted == IF form.on = Provider /\ own.provider = default
                      THEN IF form.fallback # NoChoice THEN form.fallback
                           ELSE First(form, CHOOSE y \in Provider \ {default} : TRUE)
                      ELSE First(form, default)
<1>6. back = IF wanted = own THEN NoChoice ELSE wanted
  BY <1>5 DEF Fallback, default
<1>7. (CHOOSE y \in Provider \ {default} : TRUE) \in Provider \ {default}
  <2>1. \E y : y \in Provider \ {default}
    BY DEF Provider
  <2>. QED  BY <2>1
<1>8. /\ Offered(form, wanted)
      /\ form.on = Provider /\ (form.fallback = NoChoice \/ form.fallback.provider # default) =>
           wanted.provider \in Provider \ {own.provider}
  <2>1. CASE form.on = Provider /\ own.provider = default /\ form.fallback # NoChoice
    BY <1>0, <1>4, <2>1 DEF ValidForm, Offered
  <2>2. CASE form.on = Provider /\ own.provider = default /\ form.fallback = NoChoice
    <3>. DEFINE y == CHOOSE y \in Provider \ {default} : TRUE
    <3>1. wanted = First(form, y)
      BY <2>2
    <3>. HIDE DEF y
    <3>2. y \in form.on /\ y # default /\ y \in Provider
      BY <1>7, <2>2 DEF y
    <3>. HIDE DEF wanted
    <3>. QED  BY <1>2, <2>2, <3>1, <3>2
  <2>3. CASE ~(form.on = Provider /\ own.provider = default)
    <3>1. wanted = First(form, default)
      BY <2>3
    <3>. HIDE DEF wanted
    <3>. QED  BY <1>0, <1>1, <1>2, <2>3, <3>1
  <2>. QED  BY <2>1, <2>2, <2>3
<1>. HIDE DEF wanted
<1>9. Offered(form, NoChoice)
  BY DEF Offered
<1>10. /\ own # NoChoice /\ Offered(form, own) /\ Offered(form, back) /\ own # back
       /\ form.on = Provider /\ (form.fallback = NoChoice \/ form.fallback.provider # default) =>
            back.provider \in Provider \ {own.provider}
  BY <1>4, <1>6, <1>8, <1>9
<1>. QED  BY <1>10 DEF own, back, default

-----------------------------------------------------------------------------
(* Writing the result of a merge: any number of chunks, any flaws. *)
AnyMerge(Flaw) ==
  [form : {"single", "chunked"}, replies : Seq(SUBSET Flaw), own : SUBSET Nat,
   base : {"read", "absent", "error"}, forced : BOOLEAN, write : Writing, original : Original]

\* What apply_with_snapshot makes of a text.
LEMMA SnapshotWrites ==
  ASSUME NEW x, NEW text, x.original \in Original
  PROVE  LET done == ApplyWithSnapshot(x, text)
         IN /\ done.decision \in {"semantic_merge", "escalate_human"}
            /\ done.tree \in {"merged", "original", "part_written"}
            /\ done.tree = "merged" <=> done.decision = "semantic_merge"
            /\ done.tree = "merged" => text \cap {"markers", "elided"} = {}
            /\ done.tree = "part_written" => x.original # "text"
<1>1. CASE text \cap {"markers", "elided"} # {}
  BY <1>1 DEF ApplyWithSnapshot, Refused
<1>2. CASE text \cap {"markers", "elided"} = {} /\ x.write = "ok"
  BY <1>2 DEF ApplyWithSnapshot
<1>3. CASE text \cap {"markers", "elided"} = {} /\ x.write # "ok"
  <2>1. ApplyWithSnapshot(x, text) = PutBack(x)
    BY <1>3 DEF ApplyWithSnapshot
  <2>. QED  BY <1>3, <2>1 DEF PutBack, Refused
<1>. QED  BY <1>1, <1>2, <1>3

\* What the merge of one file promises.
LEMMA MergeIsWhole ==
  ASSUME NEW Flaw, NEW x \in AnyMerge(Flaw), x.form = "single" => Len(x.replies) = 1 /\ x.own = {}
  PROVE  LET heardFrom == UNION {x.replies[i] : i \in DOMAIN x.replies \ x.own}
             done == MergeFile(x)
         IN /\ done.tree = "merged" <=> done.decision = "semantic_merge"
            /\ done.tree = "merged" =>
                 /\ heardFrom \cap {"raised", "cut", "too_large", "prose", "elided", "short", "foreign",
                                    "invented", "markers"} = {}
                 /\ x.form = "single" /\ x.base = "read" => "dropped_export" \notin heardFrom
                 /\ x.form = "chunked" => "unbalanced" \notin heardFrom /\ ~x.forced
            /\ done.tree = "part_written" => x.original # "text"
<1>. DEFINE heardFrom == UNION {x.replies[i] : i \in DOMAIN x.replies \ x.own}
            done == MergeFile(x)
<1>0. x.original \in Original /\ Refused.tree = "original" /\ Refused.decision = "escalate_human"
  BY DEF AnyMerge, Refused
<1>1. CASE x.form = "single"
  <2>. DEFINE text == Dedup(x.replies[1])
  <2>1. heardFrom = x.replies[1]
    <3>1. DOMAIN x.replies \ x.own = {1}
      BY <1>1 DEF AnyMerge
    <3>. QED  BY <3>1
  <2>2. done = IF ParseFails(x.replies[1]) \/ SingleShotInfidelity(x, text) THEN Refused
               ELSE ApplyWithSnapshot(x, text)
    BY <1>1 DEF MergeFile, SingleShot
  <2>3. text = heardFrom \ {"dup_class"}
    BY <2>1 DEF Dedup
  <2>. HIDE DEF heardFrom, done, text
  <2>4. ASSUME done.tree = "merged"
        PROVE  /\ ~ParseFails(heardFrom) /\ ~SingleShotInfidelity(x, text)
               /\ text \cap {"markers", "elided"} = {}
    BY <1>0, <2>1, <2>2, <2>4, SnapshotWrites
  <2>5. /\ done.tree = "merged" <=> done.decision = "semantic_merge"
        /\ done.tree = "part_written" => x.original # "text"
    BY <1>0, <2>2, SnapshotWrites
  <2>6. ASSUME done.tree = "merged"
        PROVE  /\ heardFrom \cap {"raised", "cut", "too_large", "prose", "elided", "short", "foreign",
                                  "invented", "markers"} = {}
               /\ x.base = "read" => "dropped_export" \notin heardFrom
    BY <2>3, <2>4, <2>6 DEF ParseFails, SingleShotInfidelity
  <2>. QED  BY <1>1, <2>5, <2>6 DEF done, heardFrom
<1>2. CASE x.form = "chunked"
  <2>. DEFINE text == Reassembled(x)
              held == UNION {IF i \in x.own THEN {} ELSE x.replies[i] : i \in DOMAIN x.replies}
  <2>1. text = heardFrom \ {"dup_class"}
    <3>1. held = heardFrom
      OBVIOUS
    <3>2. text = held \ {"dup_class"}
      BY DEF Reassembled, Dedup
    <3>. QED  BY <3>1, <3>2
  <2>2. done = IF x.forced \/ ChunkFailed(x)
                  \/ text \cap {"dup_function", "unbalanced", "foreign", "invented"} # {}
               THEN Refused ELSE ApplyWithSnapshot(x, text)
    BY <1>2 DEF MergeFile, ChunkedMerge
  <2>3. ~ChunkFailed(x) => ~ParseFails(heardFrom)
    BY DEF ChunkFailed, ParseFails
  <2>. HIDE DEF heardFrom, done, text
  <2>4. ASSUME done.tree = "merged"
        PROVE  /\ ~x.forced /\ ~ParseFails(heardFrom)
               /\ text \cap {"dup_function", "unbalanced", "foreign", "invented"} = {}
               /\ text \cap {"markers", "elided"} = {}
    BY <1>0, <2>2, <2>3, <2>4, SnapshotWrites
  <2>5. /\ done.tree = "merged" <=> done.decision = "semantic_merge"
        /\ done.tree = "part_written" => x.original # "text"
    BY <1>0, <2>2, SnapshotWrites
  <2>6. ASSUME done.tree = "merged"
        PROVE  /\ heardFrom \cap {"raised", "cut", "too_large", "prose", "elided", "short", "foreign",
                                  "invented", "markers"} = {}
               /\ "unbalanced" \notin heardFrom /\ ~x.forced
    BY <2>1, <2>4, <2>6 DEF ParseFails
  <2>. QED  BY <1>2, <2>5, <2>6 DEF done, heardFrom
<1>3. x.form \in {"single", "chunked"}
  BY DEF AnyMerge
<1>. QED  BY <1>1, <1>2, <1>3

\* What carrying out one user's choice promises.
LEMMA ChoiceIsWhole ==
  ASSUME NEW x \in ChoiceCase
  PROVE  LET done == DispatchUserChoice(x)
         IN /\ done.decision \notin {"none", "skip", "escalate_human"} <=> done.tree = x.first.choice
            /\ done.tree = "part_written" => x.original # "text" /\ done.decision = "escalate_human"
            /\ x.first.choice \notin {"approve", "skip"} /\ done.tree = "original" =>
                 done.decision = "escalate_human"
<1>. DEFINE c == x.first
            done == CarryOut(x, c)
<1>1. c \in Chosen /\ x.original \in Original /\ x.again \in {"nothing", "skip"}
  BY DEF ChoiceCase
<1>. HIDE DEF c
<1>2. c.choice \in {"take_target", "take_current", "keep_head", "union_additions", "manual_paste", "skip",
                    "approve"}
  BY <1>1 DEF Chosen
<1>. DEFINE skipped == [decision |-> "skip", by |-> "human", tree |-> "original"]
<1>a. ASSUME NEW d
      PROVE  /\ d.choice = "approve" => CarryOut(x, d) = Keep
             /\ d.choice = "skip" => CarryOut(x, d) = skipped
  <2>1. d.choice = "approve" => CarryOut(x, d) = Keep
    BY DEF CarryOut, Sides
  <2>2. [Keep EXCEPT !.decision = "skip", !.by = "human"] = skipped
    <3>. DEFINE half == [Keep EXCEPT !.decision = "skip"]
    <3>1. half = [decision |-> "skip", by |-> "nobody", tree |-> "original"]
      BY DEF Keep
    <3>2. [half EXCEPT !.by = "human"] = skipped
      <4>. HIDE DEF half
      <4>. QED  BY <3>1
    <3>. QED  BY <3>2
  <2>. HIDE DEF skipped
  <2>3. d.choice = "skip" => CarryOut(x, d) = skipped
    BY <2>2 DEF CarryOut, Sides
  <2>. QED  BY <2>1, <2>3
<1>b. skipped # Keep /\ Keep.decision = "none" /\ Keep.tree = "original"
  <2>1. skipped.decision # Keep.decision
    BY DEF Keep
  <2>. QED  BY <2>1 DEF Keep
<1>3. CASE c.choice = "approve"
  <2>1. done = Keep
    BY <1>3, <1>a
  <2>2. DispatchUserChoice(x) = Keep \/ DispatchUserChoice(x) = CarryOut(x, [c EXCEPT !.choice = "skip"])
    BY <2>1 DEF DispatchUserChoice, c
  <2>3. [c EXCEPT !.choice = "skip"].choice = "skip"
    BY <1>1 DEF Chosen
  <2>4. DispatchUserChoice(x) \in {Keep, skipped}
    BY <2>2, <2>3, <1>a
  <2>5. DispatchUserChoice(x).decision \in {"none", "skip"} /\ DispatchUserChoice(x).tree = "original"
    BY <1>b, <2>4
  <2>. QED  BY <1>3, <2>5 DEF c
<1>4. CASE c.choice = "skip"
  <2>1. done = skipped
    BY <1>4, <1>a
  <2>3. DispatchUserChoice(x) = skipped
    BY <1>b, <2>1 DEF DispatchUserChoice, c
  <2>. QED  BY <1>4, <2>3 DEF c
<1>5. CASE c.choice \notin {"approve", "skip"}
  <2>1. \/ done = LeaveEscalated("human") \/ done = LeaveEscalated("executor") \/ done = Apply(x, c)
    BY <1>2, <1>5, SMTT(30) DEF CarryOut, Sides
  <2>2. /\ done.decision \notin {"none", "skip", "escalate_human"} <=> done.tree = c.choice
        /\ done.tree = "part_written" => x.original # "text" /\ done.decision = "escalate_human"
        /\ done.tree = "original" => done.decision = "escalate_human"
        /\ done.decision # "none"
    <3>1. CASE done \in {LeaveEscalated("human"), LeaveEscalated("executor")}
      BY <1>2, <3>1 DEF LeaveEscalated, Keep
    <3>2. CASE done = Apply(x, c)
      <4>. DEFINE text == IF c.source = "markers" /\ ~(c.binary /\ c.choice \in Sides) THEN {"markers"} ELSE {}
                  landed == ApplyWithSnapshot([write |-> c.write, original |-> x.original], text)
      <4>1. /\ Apply(x, c).decision = IF landed.decision = "semantic_merge" THEN DecisionFor(c.choice)
                                      ELSE landed.decision
            /\ Apply(x, c).tree = IF landed.tree = "merged" THEN c.choice ELSE landed.tree
        BY DEF Apply
      <4>2. /\ landed.decision \in {"semantic_merge", "escalate_human"}
            /\ landed.tree \in {"merged", "original", "part_written"}
            /\ landed.tree = "merged" <=> landed.decision = "semantic_merge"
            /\ landed.tree = "part_written" => x.original # "text"
        BY <1>1, SnapshotWrites
      <4>3. DecisionFor(c.choice) \in {"take_target", "take_current", "semantic_merge", "manual_patch"}
        BY <1>2, <1>5 DEF DecisionFor
      <4>. HIDE DEF landed
      <4>. QED  BY <1>2, <3>2, <4>1, <4>2, <4>3
    <3>. QED  BY <2>1, <3>1, <3>2
  <2>3. DispatchUserChoice(x) = done
    <3>1. done # Keep
      BY <2>2 DEF Keep
    <3>. QED  BY <3>1 DEF DispatchUserChoice, c
  <2>. QED  BY <2>2, <2>3 DEF c
<1>. QED  BY <1>3, <1>4, <1>5

-----------------------------------------------------------------------------
(* Gates, the build and the smoke tests: any output of any length. *)
AnyRun ==
  {r \in [end : {"exit", "timeout", "launch", "never"}, code : Nat, prints : Seq(OutputLine)] :
     r.end # "exit" => r.prints = <<>>}

\* An output that sums itself up is counted as it should be, wherever its tail starts.
LEMMA CountIs ==
  ASSUME NEW run \in AnyRun, TailLines \in Nat \ {0}
  PROVE  /\ FailedCount(run) # NoCount => run.prints # <<>>
         /\ SumsUp(run) => FailedCount(run) = Cardinality(TestsOf(run.prints))
<1>. DEFINE n == Len(run.prints)
            from == IF n > TailLines THEN n - TailLines + 1 ELSE 1
            tail == TailOf(run)
            failed == {i \in DOMAIN tail : tail[i].failed # NoCount}
            errors == {i \in DOMAIN tail : tail[i].errors # NoCount}
<1>1. run.prints \in Seq(OutputLine) /\ n \in Nat
  BY DEF AnyRun
<1>2. tail = SubSeq(run.prints, from, n)
  BY DEF TailOf
<1>3. /\ from \in 1 .. n + 1 /\ DOMAIN tail = 1 .. n - from + 1
      /\ \A i \in DOMAIN tail : tail[i] = run.prints[from + i - 1]
      /\ n > 0 => from <= n
  <2>. DEFINE s == run.prints
  <2>1. s \in Seq(OutputLine)
    BY <1>1
  <2>2. \A f \in 1 .. Len(s) + 1 :
          /\ DOMAIN SubSeq(s, f, Len(s)) = 1 .. Len(s) - f + 1
          /\ \A i \in 1 .. Len(s) - f + 1 : SubSeq(s, f, Len(s))[i] = s[f + i - 1]
    <3>. HIDE DEF s
    <3>. QED  BY <2>1
  <2>3. from \in 1 .. n + 1 /\ (n > 0 => from <= n)
    BY <1>1
  <2>. HIDE DEF from
  <2>. QED  BY <1>2, <2>2, <2>3
<1>4. FailedCount(run) = IF failed # {} THEN tail[Min(failed)].failed
                         ELSE IF errors # {} THEN tail[Min(errors)].errors ELSE NoCount
  BY DEF FailedCount
<1>5. FailedCount(run) # NoCount => run.prints # <<>>
  <2>1. n = 0 => failed = {} /\ errors = {}
    BY <1>1, <1>3
  <2>. HIDE DEF failed, errors, tail
  <2>2. run.prints = <<>> => n = 0
    BY <1>1
  <2>. QED  BY <1>4, <2>1, <2>2
<1>6. ASSUME SumsUp(run) PROVE FailedCount(run) = Cardinality(TestsOf(run.prints))
  <2>1. n > 0 /\ run.prints[n].failed = Cardinality(TestsOf(run.prints)) /\ run.prints[n].failed # NoCount
        /\ \A i \in 1 .. n - 1 : run.prints[i].failed = NoCount
    BY <1>6 DEF SumsUp
  <2>. DEFINE last == n - from + 1
  <2>. HIDE DEF tail, from
  <2>2. last \in DOMAIN tail /\ from + last - 1 = n /\ tail[last] = run.prints[n]
    <3>1. last \in 1 .. n - from + 1 /\ from + last - 1 = n
      BY <1>1, <1>3, <2>1
    <3>. QED  BY <1>3, <3>1
  <2>3. \A i \in DOMAIN tail : i # last => tail[i].failed = NoCount
    <3>. SUFFICES ASSUME NEW i \in DOMAIN tail, i # last PROVE tail[i].failed = NoCount
      OBVIOUS
    <3>1. tail[i] = run.prints[from + i - 1]
      BY <1>3
    <3>2. from + i - 1 \in 1 .. n - 1
      BY <1>1, <1>3
    <3>. QED  BY <2>1, <3>1, <3>2
  <2>. HIDE DEF n
  <2>4. failed = {last}
    BY <2>1, <2>2, <2>3
  <2>5. last \in Nat
    BY <1>1, <1>3, <2>1, <2>2
  <2>. HIDE DEF last, failed
  <2>6. Min(failed) = last
    BY <2>4, <2>5, MinIsLeast
  <2>. QED  BY <1>4, <2>1, <2>2, <2>4, <2>6
<1>. QED  BY <1>5, <1>6

\* What GatesSound asks of one gate.
LEMMA GateIsSound ==
  ASSUME TailLines \in Nat \ {0}, NEW x, x.before \in AnyRun, x.now \in AnyRun
  PROVE  LET byName == x.criteria = "no_new_regression" /\ x.parser = "known"
             whole(run) == run.end = "exit" /\ Len(run.prints) <= TailLines
         IN /\ byName /\ whole(x.before) /\ whole(x.now) =>
                 (RunGate(x).passed <=> TestsOf(x.now.prints) \subseteq TestsOf(x.before.prints))
            /\ RunGate(x).passed /\ ~byName =>
                 /\ x.now.end = "exit"
                 /\ x.now.code # 0 =>
                      /\ x.before.end = "exit"
                      /\ SumsUp(x.before) /\ SumsUp(x.now) =>
                           Cardinality(TestsOf(x.now.prints)) <= Cardinality(TestsOf(x.before.prints))
<1>. DEFINE byName == x.criteria = "no_new_regression" /\ x.parser = "known"
<1>0. RunGate(x).passed = GatePassed(x)
  BY DEF RunGate
<1>1. ASSUME NEW run \in AnyRun, run.end = "exit", Len(run.prints) <= TailLines
      PROVE  ParsedIds(run) = TestsOf(run.prints)
  <2>. DEFINE s == run.prints
  <2>1. s \in Seq(OutputLine)
    BY DEF AnyRun
  <2>2. TailOf(run) = SubSeq(s, 1, Len(s))
    <3>1. Len(s) \in Nat /\ ~(Len(s) > TailLines)
      BY <1>1, <2>1
    <3>. QED  BY <3>1 DEF TailOf
  <2>. HIDE DEF s
  <2>3. SubSeq(s, 1, Len(s)) = s
    BY <2>1
  <2>. QED  BY <2>2, <2>3 DEF ParsedIds, s
<1>2. CASE byName
  <2>1. GatePassed(x) <=> Regressions(x) = {}
    BY <1>2 DEF GatePassed
  <2>2. Regressions(x) = ParsedIds(x.now) \ BaselineIds(x)
    BY <1>2 DEF Regressions, NewFailures
  <2>3. x.before.end = "exit" => BaselineIds(x) = ParsedIds(x.before)
    BY DEF BaselineIds, HasBaseline
  <2>. QED  BY <1>0, <1>1, <1>2, <2>1, <2>2, <2>3
<1>3. CASE ~byName
  <2>1. GatePassed(x) => ExitZero(x) \/ NotWorse(x)
    BY <1>3 DEF GatePassed
  <2>2. ASSUME NotWorse(x)
        PROVE  /\ x.now.end = "exit" /\ x.before.end = "exit"
               /\ SumsUp(x.before) /\ SumsUp(x.now) =>
                    Cardinality(TestsOf(x.now.prints)) <= Cardinality(TestsOf(x.before.prints))
    <3>1. /\ BaselineCount(x) = FailedCount(x.before)
          /\ FailedCount(x.before) # NoCount /\ FailedCount(x.now) # NoCount
          /\ FailedCount(x.now) <= FailedCount(x.before)
      BY <2>2 DEF NotWorse, BaselineCount
    <3>2. x.before.prints # <<>> /\ x.now.prints # <<>>
      BY <3>1, CountIs
    <3>3. x.before.end = "exit" /\ x.now.end = "exit"
      BY <3>2 DEF AnyRun
    <3>4. /\ SumsUp(x.before) => FailedCount(x.before) = Cardinality(TestsOf(x.before.prints))
          /\ SumsUp(x.now) => FailedCount(x.now) = Cardinality(TestsOf(x.now.prints))
      BY CountIs
    <3>. QED  BY <3>1, <3>3, <3>4
  <2>. QED  BY <1>0, <1>3, <2>1, <2>2 DEF ExitZero
<1>. QED  BY <1>2, <1>3

\* What GatesSound asks of what follows a PASS.
LEMMA FinishIsSound ==
  ASSUME NEW Event, NEW x, x.smoke \in Seq(Event)
  PROVE  LET failed == x.buildCommand # "none" /\ x.build # "exit0"
             shaky == x.block /\ ~ToSet(x.smoke) \subseteq {"exit0", "expected"}
             compiled == Compiles(x.buildCommand) \cup Compiles(x.gateCommand)
         IN /\ failed \/ shaky => AfterPass(x).verdict = "fail"
            /\ AfterPass(x).goes = "generating_report" =>
                 AfterPass(x).verdict = "pass" /\ (x.strict => x.merged \subseteq compiled)
<1>1. x.block /\ ~ToSet(x.smoke) \subseteq {"exit0", "expected"} => SmokeFails(x)
  <2>. SUFFICES ASSUME x.block, ~ToSet(x.smoke) \subseteq {"exit0", "expected"} PROVE SmokeFails(x)
    OBVIOUS
  <2>1. PICK i \in DOMAIN x.smoke : x.smoke[i] \notin {"exit0", "expected"}
    BY DEF ToSet
  <2>2. SmokeStatus(x.smoke[i]) # "pass"
    BY <2>1 DEF SmokeStatus
  <2>3. x.smoke # <<>>
    BY <2>1
  <2>. QED  BY <2>1, <2>2, <2>3 DEF SmokeFails
<1>2. BuildFails(x) <=> x.buildCommand # "none" /\ x.build # "exit0"
  BY DEF BuildFails
<1>3. AtRisk(x) = {} <=> x.merged \subseteq Compiles(x.buildCommand) \cup Compiles(x.gateCommand)
  BY DEF AtRisk
<1>4. CASE BuildFails(x)
  BY <1>2, <1>4 DEF AfterPass
<1>5. CASE ~BuildFails(x) /\ SmokeFails(x)
  BY <1>2, <1>5 DEF AfterPass
<1>6. CASE ~BuildFails(x) /\ ~SmokeFails(x)
  <2>1. AfterPass(x).verdict = "pass"
        /\ AfterPass(x).goes = IF x.strict /\ AtRisk(x) # {} THEN "awaiting_human" ELSE "generating_report"
    BY <1>6 DEF AfterPass
  <2>. QED  BY <1>1, <1>2, <1>3, <1>6, <2>1
<1>. QED  BY <1>4, <1>5, <1>6

-----------------------------------------------------------------------------
(* Chunks of a file: any number of them, any confidence. *)
AnySaying ==
  [fails : BOOLEAN, strategy : {"escalate_human", "semantic_merge", "take_target", "take_current"},
   confidence : 0 .. 100, type : {"semantic_equivalent", "logic_contradiction", "unknown"},
   sensitive : BOOLEAN]
AnyChunk == [same : BOOLEAN, says : AnySaying]

\* An analysis that is unsure escalates, whatever the fields it is given.
LEMMA UnsureIs ==
  ASSUME NEW c, NEW a, a = Unsure(c)
  PROVE  /\ a.confidence = c /\ a.recommended = "escalate_human" /\ a.type = "unknown"
         /\ ~a.sensitive /\ ~a.fabricated /\ ~a.incompatible /\ ~a.coexist
         /\ DOMAIN a = {"confidence", "recommended", "type", "sensitive", "fabricated", "incompatible", "coexist"}
<1>. DEFINE half == [Certain(c) EXCEPT !.recommended = "escalate_human"]
<1>1. /\ half.confidence = c /\ half.recommended = "escalate_human" /\ ~half.coexist
      /\ ~half.sensitive /\ ~half.fabricated /\ ~half.incompatible
      /\ DOMAIN half = {"confidence", "recommended", "type", "sensitive", "fabricated", "incompatible", "coexist"}
  <2>. DEFINE sure == Certain(c)
  <2>1. /\ sure.confidence = c /\ ~sure.coexist
        /\ ~sure.sensitive /\ ~sure.fabricated /\ ~sure.incompatible
        /\ DOMAIN sure = {"confidence", "recommended", "type", "sensitive", "fabricated", "incompatible", "coexist"}
    BY DEF Certain
  <2>2. half = [sure EXCEPT !.recommended = "escalate_human"]
    OBVIOUS
  <2>. HIDE DEF sure, half
  <2>. QED  BY <2>1, <2>2
<1>2. a = [half EXCEPT !.type = "unknown"]
  BY DEF Unsure
<1>. HIDE DEF half
<1>. QED  BY <1>1, <1>2

\* What the reducer makes of analysed chunks, the fields that count.
LEMMA AggregateIs ==
  ASSUME NEW said,
         LET strategies == {said[i].strategy : i \in DOMAIN said}
             least == Min({said[i].confidence : i \in DOMAIN said})
         IN least \in 0 .. 100
  PROVE  LET a == Aggregate(said)
             strategies == {said[i].strategy : i \in DOMAIN said}
             least == Min({said[i].confidence : i \in DOMAIN said})
             touchy == \E i \in DOMAIN said : said[i].sensitive
             first == said[Min(DOMAIN said)]
         IN /\ touchy => SelectMergeStrategy(a) = "escalate_human"
            /\ \/ SelectMergeStrategy(a) = "escalate_human"
               \/ /\ Cardinality(strategies) = 1 /\ least >= MinChunkedConfidence
                  /\ first.type = "semantic_equivalent" \/ first.strategy # "escalate_human"
               \/ Precedence(strategies) # "escalate_human"
<1>. DEFINE a == Aggregate(said)
            strategies == {said[i].strategy : i \in DOMAIN said}
            least == Min({said[i].confidence : i \in DOMAIN said})
            touchy == \E i \in DOMAIN said : said[i].sensitive
            first == said[Min(DOMAIN said)]
<1>0. touchy \in BOOLEAN /\ least \in 0 .. 100
  OBVIOUS
<1>1. a = IF Cardinality(DOMAIN said) > HardCapChunks
          THEN [Unsure(HardCapConfidence) EXCEPT !.sensitive = touchy]
          ELSE IF Cardinality(strategies) = 1 /\ least >= MinChunkedConfidence /\ ~touchy
          THEN [Unsure(least) EXCEPT !.recommended = first.strategy, !.type = first.type]
          ELSE [Unsure((least * 8) \div 10) EXCEPT !.recommended = Precedence(strategies), !.sensitive = touchy]
  BY Zenon DEF Aggregate
<1>. HIDE DEF a, strategies, least, touchy, first
<1>2. ASSUME NEW b, b.sensitive PROVE SelectMergeStrategy(b) = "escalate_human"
  BY <1>2 DEF SelectMergeStrategy, Barred
<1>3. CASE Cardinality(DOMAIN said) > HardCapChunks
  <2>. DEFINE u == Unsure(HardCapConfidence)
  <2>1. a = [u EXCEPT !.sensitive = touchy]
    BY <1>1, <1>3
  <2>2. /\ u.confidence = 30 /\ u.recommended = "escalate_human" /\ u.type = "unknown"
        /\ ~u.fabricated /\ ~u.incompatible
        /\ DOMAIN u = {"confidence", "recommended", "type", "sensitive", "fabricated", "incompatible", "coexist"}
    BY UnsureIs DEF HardCapConfidence
  <2>. HIDE DEF u
  <2>3. /\ a.confidence = 30 /\ a.recommended = "escalate_human" /\ a.type = "unknown"
        /\ ~a.fabricated /\ ~a.incompatible /\ a.sensitive = touchy
    BY <2>1, <2>2
  <2>4. SelectMergeStrategy(a) = "escalate_human"
    <3>1. CASE a.sensitive
      BY <1>2, <3>1
    <3>2. CASE ~a.sensitive
      BY <2>3, <3>2 DEF SelectMergeStrategy, Barred, Directional, AutoMergeConfidence
    <3>. QED  BY <3>1, <3>2
  <2>. QED  BY <2>4 DEF a, strategies, least, touchy, first
<1>4. CASE /\ ~(Cardinality(DOMAIN said) > HardCapChunks)
           /\ Cardinality(strategies) = 1 /\ least >= MinChunkedConfidence /\ ~touchy
  <2>. DEFINE u == Unsure(least)
              v == [u EXCEPT !.recommended = first.strategy]
  <2>1. a = [v EXCEPT !.type = first.type]
    BY <1>1, <1>4
  <2>2. /\ u.confidence = least /\ ~u.sensitive /\ ~u.fabricated /\ ~u.incompatible /\ ~u.coexist
        /\ DOMAIN u = {"confidence", "recommended", "type", "sensitive", "fabricated", "incompatible", "coexist"}
    BY UnsureIs
  <2>. HIDE DEF u
  <2>3. /\ v.confidence = least /\ ~v.sensitive /\ ~v.fabricated /\ ~v.incompatible /\ ~v.coexist
        /\ v.recommended = first.strategy
        /\ DOMAIN v = {"confidence", "recommended", "type", "sensitive", "fabricated", "incompatible", "coexist"}
    BY <2>2
  <2>. HIDE DEF v
  <2>4. /\ a.confidence = least /\ a.recommended = first.strategy /\ a.type = first.type
        /\ ~a.sensitive /\ ~a.fabricated /\ ~a.incompatible /\ ~a.coexist
    BY <2>1, <2>3
  <2>5. SelectMergeStrategy(a) = "escalate_human" \/ first.type = "semantic_equivalent"
        \/ first.strategy # "escalate_human"
    <3>1. CASE Barred(a)
      BY <3>1 DEF SelectMergeStrategy
    <3>2. CASE ~Barred(a)
      BY <1>0, <1>4, <2>4, <3>2 DEF SelectMergeStrategy, AutoMergeConfidence, MinChunkedConfidence
    <3>. QED  BY <3>1, <3>2
  <2>. QED  BY <1>4, <2>5 DEF a, strategies, least, touchy, first
<1>5. CASE /\ ~(Cardinality(DOMAIN said) > HardCapChunks)
           /\ ~(Cardinality(strategies) = 1 /\ least >= MinChunkedConfidence /\ ~touchy)
  <2>. DEFINE u == Unsure((least * 8) \div 10)
              v == [u EXCEPT !.recommended = Precedence(strategies)]
  <2>1. a = [v EXCEPT !.sensitive = touchy]
    BY <1>1, <1>5
  <2>2. /\ u.confidence = (least * 8) \div 10 /\ u.type = "unknown" /\ ~u.fabricated /\ ~u.incompatible /\ ~u.coexist
        /\ DOMAIN u = {"confidence", "recommended", "type", "sensitive", "fabricated", "incompatible", "coexist"}
    BY UnsureIs
  <2>. HIDE DEF u
  <2>3. /\ v.confidence = (least * 8) \div 10 /\ v.type = "unknown" /\ ~v.fabricated /\ ~v.incompatible /\ ~v.coexist
        /\ v.recommended = Precedence(strategies)
        /\ DOMAIN v = {"confidence", "recommended", "type", "sensitive", "fabricated", "incompatible", "coexist"}
    BY <2>2
  <2>. HIDE DEF v
  <2>4. /\ a.confidence = (least * 8) \div 10 /\ a.recommended = Precedence(strategies)
        /\ a.type = "unknown" /\ a.sensitive = touchy /\ ~a.fabricated /\ ~a.incompatible /\ ~a.coexist
    BY <2>1, <2>3
  <2>5. touchy => SelectMergeStrategy(a) = "escalate_human"
    BY <1>2, <2>4
  <2>6. (least * 8) \div 10 \in 0 .. 80
    BY <1>0
  <2>7. ~touchy /\ Precedence(strategies) = "escalate_human" => SelectMergeStrategy(a) = "escalate_human"
    BY <2>4, <2>6 DEF SelectMergeStrategy, Barred, Directional, AutoMergeConfidence
  <2>. QED  BY <2>5, <2>7 DEF a, strategies, least, touchy, first
<1>. QED  BY <1>3, <1>4, <1>5

\* What the verdict on a file owes to the verdicts on its chunks.
LEMMA ChunksVeto ==
  ASSUME NEW pairs \in Seq(AnyChunk), pairs # <<>>
  PROVE  LET changed == {i \in DOMAIN pairs : ~pairs[i].same}
             read == IF changed = {} THEN DOMAIN pairs ELSE changed
             says == [i \in read |-> pairs[i].says]
             result == SelectMergeStrategy(ChunkedAnalyzeFile(pairs))
         IN /\ (\E i \in read : says[i].fails \/ says[i].sensitive) => result = "escalate_human"
            /\ (\E i \in read : says[i].strategy = "escalate_human")
                 => \/ result = "escalate_human"
                    \/ /\ \A i \in read : /\ says[i].strategy = "escalate_human"
                                          /\ says[i].confidence >= MinChunkedConfidence
                       /\ says[Min(read)].type = "semantic_equivalent"
<1>. DEFINE changed == {i \in DOMAIN pairs : ~pairs[i].same}
            read == IF changed = {} THEN DOMAIN pairs ELSE changed
            says == [i \in read |-> pairs[i].says]
            strategies == {says[i].strategy : i \in read}
            confidences == {says[i].confidence : i \in read}
            result == SelectMergeStrategy(ChunkedAnalyzeFile(pairs))
<1>1. read # {} /\ read \subseteq DOMAIN pairs /\ DOMAIN pairs \subseteq Nat /\ IsFiniteSet(read)
      /\ \A i \in read : pairs[i].says \in AnySaying
  <2>1. DOMAIN pairs = 1 .. Len(pairs) /\ Len(pairs) \in Nat \ {0}
        /\ \A i \in DOMAIN pairs : pairs[i].says \in AnySaying
    <3>1. DOMAIN pairs = 1 .. Len(pairs) /\ Len(pairs) \in Nat \ {0}
          /\ \A i \in DOMAIN pairs : pairs[i] \in AnyChunk
      OBVIOUS
    <3>2. \A k \in AnyChunk : k.says \in AnySaying
      BY DEF AnyChunk
    <3>. QED  BY <3>1, <3>2
  <2>2. IsFiniteSet(1 .. Len(pairs))
    BY <2>1, FS_Interval
  <2>3. read # {} /\ read \subseteq DOMAIN pairs
    BY <2>1
  <2>. QED  BY <2>1, <2>2, <2>3, FS_Subset
<1>2. read = AnalysedPairs(pairs)
  BY DEF AnalysedPairs
<1>. HIDE DEF read
<1>3. DOMAIN says = read /\ \A i \in read : says[i] \in AnySaying
  BY <1>1
<1>4. ChunkedAnalyzeFile(pairs) = IF \E i \in read : says[i].fails THEN Unsure(HardCapConfidence)
                                  ELSE Aggregate(says)
  BY <1>2, Zenon DEF ChunkedAnalyzeFile
<1>. HIDE DEF says
<1>5. SelectMergeStrategy(Unsure(HardCapConfidence)) = "escalate_human"
  <2>. DEFINE u == Unsure(HardCapConfidence)
  <2>1. u.confidence = 30 /\ u.recommended = "escalate_human" /\ u.type = "unknown"
        /\ ~u.sensitive /\ ~u.fabricated /\ ~u.incompatible
    BY UnsureIs DEF HardCapConfidence
  <2>. HIDE DEF u
  <2>2. SelectMergeStrategy(u) = "escalate_human"
    BY <2>1 DEF SelectMergeStrategy, Barred, Directional, AutoMergeConfidence
  <2>. QED  BY <2>2 DEF u
<1>6. Min(confidences) \in 0 .. 100
  <2>1. confidences \in SUBSET Nat /\ confidences # {} /\ confidences \subseteq 0 .. 100
    <3>1. \A i \in read : says[i].confidence \in 0 .. 100
      BY <1>3 DEF AnySaying
    <3>2. confidences \subseteq 0 .. 100 /\ confidences # {}
      BY <1>1, <3>1
    <3>. HIDE DEF confidences
    <3>. QED  BY <3>2
  <2>. HIDE DEF confidences
  <2>. QED  BY <2>1, MinIsLeast
<1>7. Min(read) \in read
  BY <1>1, MinIsLeast
<1>8. /\ (\E i \in read : says[i].sensitive) => SelectMergeStrategy(Aggregate(says)) = "escalate_human"
      /\ \/ SelectMergeStrategy(Aggregate(says)) = "escalate_human"
         \/ /\ Cardinality(strategies) = 1 /\ Min(confidences) >= MinChunkedConfidence
            /\ says[Min(read)].type = "semantic_equivalent" \/ says[Min(read)].strategy # "escalate_human"
         \/ Precedence(strategies) # "escalate_human"
  BY <1>3, <1>6, AggregateIs, Zenon
<1>9. ASSUME \E i \in read : says[i].strategy = "escalate_human"
      PROVE  Precedence(strategies) = "escalate_human"
  <2>. DEFINE order == <<"escalate_human", "semantic_merge", "take_target", "take_current">>
              places == {i \in DOMAIN order : order[i] \in strategies}
  <2>1. "escalate_human" \in strategies
    BY <1>9
  <2>2. 1 \in places /\ places \in SUBSET Nat /\ \A i \in places : 1 <= i
    BY <2>1
  <2>3. Min(places) = 1
    <3>. HIDE DEF places
    <3>1. places # {}
      BY <2>2
    <3>2. Min(places) \in places /\ Min(places) <= 1 /\ 1 <= Min(places) /\ Min(places) \in Nat
      BY <2>2, <3>1, MinIsLeast
    <3>. QED  BY <3>2
  <2>. HIDE DEF strategies
  <2>4. Precedence(strategies) = order[Min(places)]
    BY DEF Precedence, MostWanted
  <2>. QED  BY <2>3, <2>4
<1>10. ASSUME Cardinality(strategies) = 1, NEW i \in read, NEW j \in read
       PROVE  says[i].strategy = says[j].strategy
  <2>1. IsFiniteSet(strategies)
    <3>1. strategies \subseteq {"escalate_human", "semantic_merge", "take_target", "take_current"}
      BY <1>3 DEF AnySaying
    <3>2. IsFiniteSet({"escalate_human", "semantic_merge", "take_target", "take_current"})
      <4>1. \A s, t : IsFiniteSet({s} \cup {t})
        BY FS_Singleton, FS_Union
      <4>2. IsFiniteSet(({"escalate_human"} \cup {"semantic_merge"}) \cup ({"take_target"} \cup {"take_current"}))
        BY <4>1, FS_Union
      <4>3. ({"escalate_human"} \cup {"semantic_merge"}) \cup ({"take_target"} \cup {"take_current"})
              = {"escalate_human", "semantic_merge", "take_target", "take_current"}
        OBVIOUS
      <4>. QED  BY <4>2, <4>3
    <3>. QED  BY <3>1, <3>2, FS_Subset
  <2>2. \E s : strategies = {s}
    <3>. HIDE DEF strategies
    <3>. QED  BY <1>10, <2>1, FS_Singleton
  <2>. QED  BY <1>10, <2>2
<1>11. (\E i \in read : says[i].fails \/ says[i].sensitive) => result = "escalate_human"
  BY <1>4, <1>5, <1>8
<1>12. ASSUME \E i \in read : says[i].strategy = "escalate_human", result # "escalate_human"
       PROVE  /\ \A i \in read : /\ says[i].strategy = "escalate_human"
                                 /\ says[i].confidence >= MinChunkedConfidence
              /\ says[Min(read)].type = "semantic_equivalent"
  <2>1. result = SelectMergeStrategy(Aggregate(says))
    BY <1>4, <1>5, <1>12
  <2>2. \A i \in read : Min(confidences) <= says[i].confidence /\ says[i].confidence \in 0 .. 100
    <3>1. \A i \in read : says[i].confidence \in 0 .. 100
      BY <1>3 DEF AnySaying
    <3>2. confidences \subseteq 0 .. 100 /\ confidences # {}
          /\ \A i \in read : says[i].confidence \in confidences
      BY <1>1, <3>1
    <3>. HIDE DEF confidences, says
    <3>3. confidences \in SUBSET Nat /\ confidences # {}
      BY <3>2
    <3>4. \A k \in confidences : Min(confidences) <= k
      BY <3>3, MinIsLeast
    <3>. QED  BY <3>1, <3>2, <3>4
  <2>6. Min(confidences) \in 0 .. 100
    BY <1>6
  <2>. HIDE DEF strategies, result, confidences
  <2>3. Cardinality(strategies) = 1 /\ Min(confidences) >= MinChunkedConfidence
        /\ (says[Min(read)].type = "semantic_equivalent" \/ says[Min(read)].strategy # "escalate_human")
    BY <1>8, <1>9, <1>12, <2>1
  <2>4. \A j \in read : says[j].strategy = "escalate_human"
    BY <1>10, <1>12, <2>3
  <2>5. \A j \in read : says[j].confidence >= MinChunkedConfidence
    <3>1. \A l, m \in 0 .. 100 : l >= 85 /\ l <= m => m >= 85
      OBVIOUS
    <3>2. MinChunkedConfidence = 85
      BY DEF MinChunkedConfidence
    <3>3. Min(confidences) >= 85
      BY <2>3, <3>2
    <3>. HIDE DEF says
    <3>4. \A j \in read : says[j].confidence >= 85
      BY <2>2, <2>6, <3>1, <3>3
    <3>. QED  BY <3>2, <3>4
  <2>. QED  BY <1>7, <2>3, <2>4, <2>5
<1>. QED  BY <1>11, <1>12 DEF read, says, result

-----------------------------------------------------------------------------
(* The answers.  A question is one of TLC's cases, which are inputs of the    *)
(* kind the lemmas speak of.                                                  *)
AnswerInv ==
  /\ Asked("route") => question.route \in RoutingCase /\ answer.route = Route(question.route)
  /\ Asked("form") => question.form \in FormCase /\ answer.form = ApplySetupPayload(question.form)
  /\ Asked("merge") => question.merge \in MergeCase /\ answer.merge = MergeFile(question.merge)
  /\ Asked("choice") => question.choice \in ChoiceCase /\ answer.choice = DispatchUserChoice(question.choice)
  /\ Asked("chunks") => question.chunks \in ChunkCase /\ answer.chunks = ChunkedAnalyzeFile(question.chunks)
  /\ Asked("gate") => question.gate \in GateCase /\ answer.gate = RunGate(question.gate)
  /\ Asked("finish") => question.finish \in AfterPassCase /\ answer.finish = AfterPass(question.finish)

\* A step of the tools answers another case or leaves the last answer as it is.
LEMMA AnswersFit ==
  ASSUME AnswerInv, [ToolsNext]_toolVars
  PROVE  AnswerInv'
<1>1. CASE UNCHANGED <<question, answer>>
  BY <1>1 DEF AnswerInv, Asked
<1>2. CASE AskAlgorithm
  <2>1. CASE AskRoute
    <3>1. PICK x \in RoutingCase : question' = [route |-> x] /\ answer' = [route |-> Route(x)]
      BY <2>1, Zenon DEF AskRoute, Ask
    <3>2. DOMAIN question' = {"route"} /\ question'.route = x /\ answer'.route = Route(x)
      BY <3>1
    <3>. QED  BY <3>2 DEF AnswerInv, Asked
  <2>2. CASE AskForm
    <3>1. PICK x \in FormCase : question' = [form |-> x] /\ answer' = [form |-> ApplySetupPayload(x)]
      BY <2>2, Zenon DEF AskForm, Ask
    <3>2. DOMAIN question' = {"form"} /\ question'.form = x /\ answer'.form = ApplySetupPayload(x)
      BY <3>1
    <3>. QED  BY <3>2 DEF AnswerInv, Asked
  <2>3. CASE AskMerge
    <3>1. PICK x \in MergeCase : question' = [merge |-> x] /\ answer' = [merge |-> MergeFile(x)]
      BY <2>3, Zenon DEF AskMerge, Ask
    <3>2. DOMAIN question' = {"merge"} /\ question'.merge = x /\ answer'.merge = MergeFile(x)
      BY <3>1
    <3>. QED  BY <3>2 DEF AnswerInv, Asked
  <2>4. CASE AskChoice
    <3>1. PICK x \in ChoiceCase : question' = [choice |-> x] /\ answer' = [choice |-> DispatchUserChoice(x)]
      BY <2>4, Zenon DEF AskChoice, Ask
    <3>2. DOMAIN question' = {"choice"} /\ question'.choice = x /\ answer'.choice = DispatchUserChoice(x)
      BY <3>1
    <3>. QED  BY <3>2 DEF AnswerInv, Asked
  <2>5. CASE AskChunks
    <3>1. PICK x \in ChunkCase : question' = [chunks |-> x] /\ answer' = [chunks |-> ChunkedAnalyzeFile(x)]
      BY <2>5, Zenon DEF AskChunks, Ask
    <3>2. DOMAIN question' = {"chunks"} /\ question'.chunks = x /\ answer'.chunks = ChunkedAnalyzeFile(x)
      BY <3>1
    <3>. QED  BY <3>2 DEF AnswerInv, Asked
  <2>6. CASE AskGate
    <3>1. PICK x \in GateCase : question' = [gate |-> x] /\ answer' = [gate |-> RunGate(x)]
      BY <2>6, Zenon DEF AskGate, Ask
    <3>2. DOMAIN question' = {"gate"} /\ question'.gate = x /\ answer'.gate = RunGate(x)
      BY <3>1
    <3>. QED  BY <3>2 DEF AnswerInv, Asked
  <2>7. CASE AskFinish
    <3>1. PICK x \in AfterPassCase : question' = [finish |-> x] /\ answer' = [finish |-> AfterPass(x)]
      BY <2>7, Zenon DEF AskFinish, Ask
    <3>2. DOMAIN question' = {"finish"} /\ question'.finish = x /\ answer'.finish = AfterPass(x)
      BY <3>1
    <3>. QED  BY <3>2 DEF AnswerInv, Asked
  <2>8. CASE \/ AskTree \/ AskCustom \/ AskRisk \/ AskRules \/ AskAlign \/ AskDraft \/ AskStage
             \/ AskCompress \/ AskRating \/ AskBatches \/ AskBalance \/ AskAudit
    <3>1. DOMAIN question' \in {{"tree"}, {"custom"}, {"risk"}, {"rules"}, {"align"}, {"draft"}, {"stage"},
                                {"compress"}, {"rating"}, {"batches"}, {"balance"}, {"audit"}}
      <4>1. CASE AskTree
        BY <4>1 DEF AskTree, Ask
      <4>2. CASE AskCustom
        BY <4>2 DEF AskCustom, Ask
      <4>3. CASE AskRisk
        BY <4>3 DEF AskRisk, Ask
      <4>4. CASE AskRules
        BY <4>4 DEF AskRules, Ask
      <4>5. CASE AskAlign
        BY <4>5 DEF AskAlign, Ask
      <4>6. CASE AskDraft
        BY <4>6 DEF AskDraft, Ask
      <4>7. CASE AskStage
        BY <4>7 DEF AskStage, Ask
      <4>8. CASE AskCompress
        BY <4>8 DEF AskCompress, Ask
      <4>9. CASE AskRating
        BY <4>9 DEF AskRating, Ask
      <4>10. CASE AskBatches
        BY <4>10 DEF AskBatches, Ask
      <4>11. CASE AskBalance
        BY <4>11 DEF AskBalance, Ask
      <4>12. CASE AskAudit
        BY <4>12 DEF AskAudit, Ask
      <4>. QED  BY <2>8, <4>1, <4>2, <4>3, <4>4, <4>5, <4>6, <4>7, <4>8, <4>9, <4>10, <4>11, <4>12
    <3>2. \A a \in {"route", "form", "merge", "choice", "chunks", "gate", "finish"} : a \notin DOMAIN question'
      BY <3>1
    <3>. QED  BY <3>2 DEF AnswerInv, Asked
  <2>. QED  BY <1>2, <2>1, <2>2, <2>3, <2>4, <2>5, <2>6, <2>7, <2>8 DEF AskAlgorithm
<1>3. CASE UNCHANGED toolVars
  BY <1>1, <1>3 DEF toolVars
<1>4. CASE ToolsNext /\ ~AskAlgorithm
  <2>1. \E p \in {"calls", "keys", "client", "dispute", "judge", "routing", "layers", "plan", "replay",
                  "web", "ledger", "memory"} : Only(p)
    BY <1>4, Zenon DEF ToolsNext
  <2>2. UNCHANGED <<question, answer>>
    BY <2>1 DEF Only, Algorithms
  <2>. QED  BY <1>1, <2>2
<1>. QED  BY <1>2, <1>3, <1>4

\* What is answered is what the algorithm makes of one of the cases.
LEMMA AnswersHold == ToolsSpec => []AnswerInv
<1>1. ToolsInit => AnswerInv
  BY DEF ToolsInit, AnswerInv, Asked, Unasked
<1>2. AnswerInv /\ [ToolsNext]_toolVars => AnswerInv'
  BY AnswersFit
<1>. QED  BY <1>1, <1>2, PTL DEF ToolsSpec

(* A file upstream changed is never dropped on its way to the agents, and the *)
(* fork's copy gives way to a pattern only where the profile does not speak:  *)
(* initialize.py's routing, for any blobs.                                    *)
THEOREM RoutingLosesNothing == ToolsSpec => []RouteSound
<1>1. AnswerInv => RouteSound
  <2>. SUFFICES ASSUME AnswerInv, Asked("route") PROVE RouteSound
    BY DEF RouteSound
  <2>1. answer.route = Route(question.route) /\ question.route \in AnyRouting
    BY DEF AnswerInv, RoutingCase, AnyRouting, Blob
  <2>. QED  BY <2>1, RouteIsSound DEF RouteSound, Pinned
<1>. QED  BY <1>1, AnswersHold, PTL

(* A setup form that is accepted gives the agent a model that is offered and  *)
(* a fallback that is another one: apply_setup_payload, for any models.       *)
THEOREM FormsAreSound == ToolsSpec => []FormSound
<1>1. AnswerInv => FormSound
  <2>. SUFFICES ASSUME AnswerInv, Asked("form") PROVE FormSound
    BY DEF FormSound
  <2>. DEFINE form == question.form
              Models == {"x", "y"}
  <2>1. answer.form = ApplySetupPayload(form) /\ form \in FormCase
    BY DEF AnswerInv
  <2>2. form \in AnyForm(Models)
    <3>1. {<<>>, <<"x">>, <<"y", "x">>} \subseteq Seq(Models)
      OBVIOUS
    <3>. HIDE DEF Models
    <3>2. [Provider -> {<<>>, <<"x">>, <<"y", "x">>}] \subseteq [Provider -> Seq(Models)]
      BY <3>1
    <3>. HIDE DEF form
    <3>3. Choice = {NoChoice} \cup [provider : Provider, model : Models]
      BY DEF Choice, Models
    <3>. QED  BY <2>1, <3>2, <3>3 DEF FormCase, AnyForm
  <2>. HIDE DEF form, Models
  <2>3. CASE ~ValidForm(form)
    <3>1. answer.form = [env |-> FALSE, config |-> FALSE, agent |-> NoChoice]
      BY <2>1, <2>3 DEF ApplySetupPayload
    <3>. QED  BY <3>1 DEF FormSound, form
  <2>4. CASE ValidForm(form)
    <3>1. answer.form = [env |-> TRUE, config |-> form.overrides = "valid", agent |-> AgentBlock(form)]
      BY <2>1, <2>4 DEF ApplySetupPayload
    <3>2. answer.form.agent = AgentBlock(form)
      BY <3>1
    <3>3. AgentBlock(form) # NoChoice
      <4>1. DOMAIN AgentBlock(form) = {"own", "fallback"} /\ DOMAIN NoChoice = {"provider", "model"}
        BY DEF AgentBlock, NoChoice
      <4>. QED  BY <4>1
    <3>. QED  BY <2>2, <2>4, <3>2, <3>3, FormIsSound, Zenon DEF FormSound, form
  <2>. QED  BY <2>3, <2>4
<1>. QED  BY <1>1, AnswersHold, PTL

(* A merged text is in the tree only with its record and never with a flaw a  *)
(* guard looks for, and a user's choice reaches the tree with its record:     *)
(* the executor and apply_with_snapshot, for any number of chunks.            *)
THEOREM MergesAreWhole == ToolsSpec => []NoHalfMerge
<1>1. AnswerInv => NoHalfMerge
  <2>. SUFFICES ASSUME AnswerInv PROVE NoHalfMerge
    OBVIOUS
  <2>1. ASSUME Asked("merge")
        PROVE  LET x == question.merge
                   heardFrom == UNION {x.replies[i] : i \in DOMAIN x.replies \ x.own}
               IN /\ answer.merge.tree = "merged" <=> answer.merge.decision = "semantic_merge"
                  /\ answer.merge.tree = "merged" =>
                       /\ heardFrom \cap {"raised", "cut", "too_large", "prose", "elided", "short", "foreign",
                                          "invented", "markers"} = {}
                       /\ x.form = "single" /\ x.base = "read" => "dropped_export" \notin heardFrom
                       /\ x.form = "chunked" => "unbalanced" \notin heardFrom /\ ~x.forced
                  /\ answer.merge.tree = "part_written" => x.original # "text"
    <3>. DEFINE x == question.merge
                Flaw == UNION Replies
    <3>1. answer.merge = MergeFile(x) /\ x \in MergeCase
      BY <2>1 DEF AnswerInv
    <3>. HIDE DEF x
    <3>2. Replies \subseteq SUBSET Flaw
      OBVIOUS
    <3>. HIDE DEF Flaw
    <3>3. \A r \in Replies, s \in Replies : <<r>> \in Seq(SUBSET Flaw) /\ <<r, s>> \in Seq(SUBSET Flaw)
      BY <3>2
    <3>4. x \in AnyMerge(Flaw) /\ (x.form = "single" => Len(x.replies) = 1 /\ x.own = {})
      <4>0. x \in SingleCase \cup ChunkedCase
        BY <3>1 DEF MergeCase
      <4>1. CASE x \in SingleCase
        <5>1. PICK r \in Replies : x.replies = <<r>>
          BY <4>1 DEF SingleCase
        <5>2. x.replies \in Seq(SUBSET Flaw) /\ Len(x.replies) = 1
          BY <3>3, <5>1
        <5>3. {{}} \subseteq SUBSET Nat
          OBVIOUS
        <5>. QED  BY <4>1, <5>2, <5>3 DEF AnyMerge, SingleCase
      <4>2. CASE x \in ChunkedCase
        <5>1. PICK r \in Replies, s \in Replies : x.replies = <<r, s>>
          BY <4>2 DEF ChunkedCase
        <5>2. x.replies \in Seq(SUBSET Flaw)
          BY <3>3, <5>1
        <5>3. {{}, {1}, {1, 2}} \subseteq SUBSET Nat
          OBVIOUS
        <5>. QED  BY <4>2, <5>2, <5>3 DEF AnyMerge, ChunkedCase
      <4>. QED  BY <4>0, <4>1, <4>2
    <3>. QED  BY <3>1, <3>4, MergeIsWhole, ZenonT(60) DEF x
  <2>2. ASSUME Asked("choice")
        PROVE  LET x == question.choice
                   done == answer.choice
               IN /\ done.decision \notin {"none", "skip", "escalate_human"} <=> done.tree = x.first.choice
                  /\ done.tree = "part_written" => x.original # "text" /\ done.decision = "escalate_human"
                  /\ x.first.choice \notin {"approve", "skip"} /\ done.tree = "original" =>
                       done.decision = "escalate_human"
    BY <2>2, ChoiceIsWhole DEF AnswerInv
  <2>. QED  BY <2>1, <2>2, Zenon DEF NoHalfMerge
<1>. QED  BY <1>1, AnswersHold, PTL

(* A chunk that failed or is sensitive sends the file to a person, and so     *)
(* does one that asks for a person, unless all ask for one with confidence    *)
(* and the first says both sides mean the same: the reducer of                *)
(* _chunked_analyze_file and _select_merge_strategy, for any number of chunks *)
(* and any confidences.                                                       *)
THEOREM ChunksHaveAVeto == ToolsSpec => []ChunkVetoHolds
<1>1. AnswerInv => ChunkVetoHolds
  <2>. SUFFICES ASSUME AnswerInv, Asked("chunks") PROVE ChunkVetoHolds
    BY DEF ChunkVetoHolds
  <2>. DEFINE pairs == question.chunks
  <2>1. answer.chunks = ChunkedAnalyzeFile(pairs) /\ pairs \in ChunkCase
    BY DEF AnswerInv
  <2>. HIDE DEF pairs
  <2>2. [same : BOOLEAN, says : ChunkSays \cup {ChunkFails}] \subseteq AnyChunk
    <3>1. ChunkSays \subseteq AnySaying
      <4>. SUFFICES ASSUME NEW y \in ChunkSays PROVE y \in AnySaying
        OBVIOUS
      <4>1. PICK s \in {"escalate_human", "semantic_merge", "take_target", "take_current"}, c \in {50, 88},
                 t \in {"semantic_equivalent", "unknown"}, b \in BOOLEAN :
              y = [fails |-> FALSE, strategy |-> s, confidence |-> c, type |-> t, sensitive |-> b]
        BY DEF ChunkSays
      <4>2. c \in 0 .. 100
        OBVIOUS
      <4>. QED  BY <4>1, <4>2 DEF AnySaying
    <3>2. ChunkFails \in AnySaying
      BY DEF ChunkFails, AnySaying
    <3>. QED  BY <3>1, <3>2 DEF AnyChunk
  <2>3. pairs \in Seq(AnyChunk) /\ pairs # <<>>
    <3>1. PICK n \in 1 .. 2 : pairs \in [1 .. n -> [same : BOOLEAN, says : ChunkSays \cup {ChunkFails}]]
      BY <2>1 DEF ChunkCase
    <3>2. pairs \in [1 .. n -> AnyChunk]
      BY <2>2, <3>1
    <3>. QED  BY <3>2
  <2>. QED  BY <2>1, <2>3, ChunksVeto, ZenonT(60) DEF ChunkVetoHolds, pairs
<1>. QED  BY <1>1, AnswersHold, PTL

(* A gate passes exactly when no failure is new, and a PASS stands only with  *)
(* a build and smoke tests that succeed: gate_runner.py and judge_review.py,  *)
(* for any tests, commands of any output and any smoke suite.                 *)
THEOREM GatesAreSound == ToolsSpec => []GatesSound
<1>1. AnswerInv => GatesSound
  <2>. SUFFICES ASSUME AnswerInv PROVE GatesSound
    OBVIOUS
  <2>1. ASSUME Asked("gate")
        PROVE  LET x == question.gate
                   byName == x.criteria = "no_new_regression" /\ x.parser = "known"
                   whole(run) == run.end = "exit" /\ Len(run.prints) <= TailLines
               IN /\ byName /\ whole(x.before) /\ whole(x.now) =>
                       (answer.gate.passed <=> TestsOf(x.now.prints) \subseteq TestsOf(x.before.prints))
                  /\ answer.gate.passed /\ ~byName =>
                       /\ x.now.end = "exit"
                       /\ x.now.code # 0 =>
                            /\ x.before.end = "exit"
                            /\ SumsUp(x.before) /\ SumsUp(x.now) =>
                                 Cardinality(TestsOf(x.now.prints)) <= Cardinality(TestsOf(x.before.prints))
    <3>. DEFINE x == question.gate
    <3>1. answer.gate = RunGate(x) /\ x \in GateCase
      BY <2>1 DEF AnswerInv
    <3>. HIDE DEF x
    <3>2. TailLines \in Nat \ {0}
      BY DEF TailLines
    <3>3. <<>> \in Seq(OutputLine)
      OBVIOUS
    <3>4. EndedRuns \subseteq AnyRun
      BY OutputsAssumption DEF EndedRuns, AnyRun
    <3>5. BrokenRuns \subseteq AnyRun /\ NeverRun \in AnyRun
      <4>1. ASSUME NEW r \in BrokenRuns PROVE r \in AnyRun
        <5>1. r \in [end : {"timeout", "launch"}, code : {1}, prints : {<<>>}]
          BY DEF BrokenRuns
        <5>. DEFINE P == Seq(OutputLine)
        <5>2. <<>> \in P
          BY <3>3
        <5>. HIDE DEF P
        <5>3. r \in [end : {"exit", "timeout", "launch", "never"}, code : Nat, prints : P] /\ r.prints = <<>>
          BY <5>1, <5>2
        <5>. QED  BY <5>3 DEF AnyRun, P
      <4>2. NeverRun \in AnyRun
        BY <3>3 DEF NeverRun, AnyRun
      <4>. QED  BY <4>1, <4>2
    <3>6. x.before \in AnyRun /\ x.now \in AnyRun
      BY <3>1, <3>4, <3>5 DEF GateCase, CommandRuns
    <3>. QED  BY <3>1, <3>2, <3>6, GateIsSound, Zenon DEF x
  <2>2. ASSUME Asked("finish")
        PROVE  LET x == question.finish
                   failed == x.buildCommand # "none" /\ x.build # "exit0"
                   shaky == x.block /\ ~ToSet(x.smoke) \subseteq {"exit0", "expected"}
                   compiled == Compiles(x.buildCommand) \cup Compiles(x.gateCommand)
               IN /\ failed \/ shaky => answer.finish.verdict = "fail"
                  /\ answer.finish.goes = "generating_report" =>
                       answer.finish.verdict = "pass" /\ (x.strict => x.merged \subseteq compiled)
    <3>. DEFINE x == question.finish
                Event == SmokeEvent \cup {"crash"}
    <3>1. answer.finish = AfterPass(x) /\ x \in AfterPassCase
      BY <2>2 DEF AnswerInv
    <3>. HIDE DEF x
    <3>2. "crash" \in Event /\ "exit0" \in Event /\ "timeout" \in Event /\ SmokeEvent \subseteq Event
      BY DEF SmokeEvent
    <3>. HIDE DEF Event
    <3>3. x.smoke \in Seq(Event)
      <4>1. x.smoke \in {<<>>, <<"crash">>, <<"exit0", "timeout">>} \/ \E a \in SmokeEvent : x.smoke = <<a>>
        BY <3>1 DEF AfterPassCase
      <4>2. <<"crash">> \in Seq(Event) /\ <<"exit0", "timeout">> \in Seq(Event) /\ <<>> \in Seq(Event)
        BY <3>2
      <4>3. \A a \in SmokeEvent : <<a>> \in Seq(Event)
        BY <3>2
      <4>. QED  BY <4>1, <4>2, <4>3
    <3>. QED  BY <3>1, <3>3, FinishIsSound, Zenon DEF x
  <2>. QED  BY <2>1, <2>2, Zenon DEF GatesSound
<1>. QED  BY <1>1, AnswersHold, PTL

-----------------------------------------------------------------------------
(* Lists. *)

\* What holds of 0, and of n when it holds of n - 1, holds up to N.
LEMMA UpTo ==
  ASSUME NEW N \in Nat, NEW T, 0 \in T, \A n \in 1 .. N : n - 1 \in T => n \in T
  PROVE  \A n \in 0 .. N : n \in T
<1>. DEFINE Bad == {n \in 0 .. N : n \notin T}
<1>. SUFFICES ASSUME Bad # {} PROVE FALSE
  OBVIOUS
<1>1. PICK m \in Bad : \A k \in Bad : m <= k
  <2>1. Bad \in SUBSET Nat
    OBVIOUS
  <2>. HIDE DEF Bad
  <2>. QED  BY <2>1, MinIsLeast
<1>2. m \in 1 .. N /\ m \notin T
  OBVIOUS
<1>3. m - 1 \in 0 .. N /\ m - 1 \notin T
  BY <1>2
<1>4. m - 1 \in Bad /\ m - 1 < m
  BY <1>2, <1>3
<1>. HIDE DEF Bad
<1>. QED  BY <1>1, <1>2, <1>4

\* A recursion over a list has its function: F is the step, base the start.
Follows(g, N, D, base, F) ==
  g \in [0 .. N -> D] /\ g[0] = base /\ \A n \in 1 .. N : g[n] = F[<<n, g[n - 1]>>]

\* Counting up along 0 .. N, each result made from the one before, has a result.
LEMMA Recursion ==
  ASSUME NEW N \in Nat, NEW D, NEW base \in D, NEW F \in [(1 .. N) \X D -> D]
  PROVE  \E g : Follows(g, N, D, base, F)
<1>. DEFINE Done(g, n) == g \in [0 .. n -> D] /\ g[0] = base /\ \A k \in 1 .. n : g[k] = F[<<k, g[k - 1]>>]
            T == {n \in 0 .. N : \E g : Done(g, n)}
<1>1. 0 \in T
  <2>1. \E g : Done(g, 0)
    <3>1. Done([k \in 0 .. 0 |-> base], 0)
      OBVIOUS
    <3>. QED  BY <3>1
  <2>. HIDE DEF Done
  <2>. QED  BY <2>1
<1>2. ASSUME NEW n \in 1 .. N, n - 1 \in T
      PROVE  n \in T
  <2>1. PICK g : Done(g, n - 1)
    BY <1>2
  <2>. DEFINE h == [k \in 0 .. n |-> IF k < n THEN g[k] ELSE F[<<n, g[n - 1]>>]]
  <2>2. g[n - 1] \in D /\ F[<<n, g[n - 1]>>] \in D
    BY <2>1
  <2>3. \A k \in 0 .. n : k = n \/ k \in 0 .. n - 1
    OBVIOUS
  <2>4. h \in [0 .. n -> D]
    BY <2>1, <2>2, <2>3
  <2>5. h[0] = base /\ h[n] = F[<<n, g[n - 1]>>] /\ \A k \in 0 .. n - 1 : h[k] = g[k]
    BY <2>1
  <2>6. ASSUME NEW k \in 1 .. n PROVE h[k] = F[<<k, h[k - 1]>>]
    <3>1. CASE k = n
      <4>1. n - 1 \in 0 .. n - 1
        OBVIOUS
      <4>. QED  BY <2>5, <3>1, <4>1
    <3>2. CASE k # n
      <4>1. k \in 1 .. n - 1 /\ k - 1 \in 0 .. n - 1 /\ k \in 0 .. n - 1
        BY <3>2
      <4>. HIDE DEF h
      <4>. QED  BY <2>1, <2>5, <4>1
    <3>. QED  BY <3>1, <3>2
  <2>7. \E f : Done(f, n)
    <3>1. Done(h, n)
      <4>. HIDE DEF h
      <4>. QED  BY <2>4, <2>5, <2>6
    <3>. QED  BY <3>1
  <2>. HIDE DEF Done
  <2>. QED  BY <2>7
<1>3. N \in T
  <2>. HIDE DEF T
  <2>1. \A n \in 0 .. N : n \in T
    BY <1>1, <1>2, UpTo
  <2>. QED  BY <2>1
<1>. QED  BY <1>3 DEF Follows

\* A list is sorted when before is a strict total order of its members.
Orders(before, S) ==
  /\ \A a \in S : <<a, a>> \notin before
  /\ \A a, b \in S : a = b \/ <<a, b>> \in before \/ <<b, a>> \in before
  /\ \A a, b, c \in S : <<a, b>> \in before /\ <<b, c>> \in before => <<a, c>> \in before

Sorts(s, S, before) ==
  /\ s \in [1 .. Cardinality(S) -> S] /\ s \in Seq(S) /\ Len(s) = Cardinality(S)
  /\ ToSet(s) = S
  /\ \A i, k \in 1 .. Len(s) : i < k <=> <<s[i], s[k]>> \in before
  /\ \A i, k \in 1 .. Len(s) : s[i] = s[k] => i = k

\* A finite set that is strictly ordered is listed once each, in that order.
LEMMA SortedIs ==
  ASSUME NEW S, IsFiniteSet(S), NEW before, Orders(before, S)
  PROVE  Sorts(Sorted(S, before), S, before)
<1>. DEFINE Below(x) == {y \in S : <<y, x>> \in before}
            n == Cardinality(S)
            rank == [x \in S |-> Cardinality(Below(x)) + 1]
<1>1. n \in Nat
  BY FS_CardinalityType
<1>2. \A x \in S : IsFiniteSet(Below(x)) /\ Cardinality(Below(x)) \in Nat
  BY FS_Subset, FS_CardinalityType
<1>3. ASSUME NEW x \in S, NEW y \in S, <<x, y>> \in before
      PROVE  Cardinality(Below(x)) < Cardinality(Below(y))
  <2>1. Below(x) \subseteq Below(y) /\ x \in Below(y) /\ x \notin Below(x)
    BY <1>3 DEF Orders
  <2>2. Below(x) \in SUBSET Below(y) /\ Below(x) # Below(y)
    BY <2>1
  <2>. HIDE DEF Below
  <2>3. /\ Cardinality(Below(x)) <= Cardinality(Below(y))
        /\ Cardinality(Below(x)) = Cardinality(Below(y)) => Below(x) = Below(y)
    BY <1>2, <2>2, FS_Subset
  <2>. QED  BY <1>2, <2>2, <2>3
<1>4. ASSUME NEW x \in S
      PROVE  rank[x] \in 1 .. n
  <2>1. Below(x) \in SUBSET S /\ x \notin Below(x)
    BY DEF Orders
  <2>. HIDE DEF Below
  <2>2. Below(x) # S
    BY <2>1
  <2>3. Cardinality(Below(x)) <= n /\ Cardinality(Below(x)) # n
    BY <2>1, <2>2, FS_Subset
  <2>. QED  BY <1>1, <1>2, <2>3
<1>5. \A x, y \in S : <<x, y>> \in before => rank[x] < rank[y]
  <2>. HIDE DEF Below
  <2>. QED  BY <1>2, <1>3
<1>6. rank \in Injection(S, 1 .. n)
  <2>1. rank \in [S -> 1 .. n]
    BY <1>4
  <2>. HIDE DEF rank, n
  <2>2. \A x, y \in S : rank[x] = rank[y] => x = y
    <3>. SUFFICES ASSUME NEW x \in S, NEW y \in S, x # y PROVE rank[x] # rank[y]
      OBVIOUS
    <3>1. rank[x] \in Nat /\ rank[y] \in Nat
      BY <1>1, <2>1
    <3>2. <<x, y>> \in before \/ <<y, x>> \in before
      BY DEF Orders
    <3>. QED  BY <1>5, <3>1, <3>2
  <2>. QED  BY <2>1, <2>2 DEF Injection, IsInjective
<1>7. rank \in Surjection(S, 1 .. n)
  <2>1. IsFiniteSet(1 .. n) /\ Cardinality(1 .. n) = n
    BY <1>1, FS_Interval
  <2>. HIDE DEF rank
  <2>. QED  BY <1>6, <2>1, FS_Injection
<1>8. \A i \in 1 .. n : \E x \in S : rank[x] = i
  <2>. HIDE DEF rank, n
  <2>. QED  BY <1>7 DEF Surjection
<1>9. \A i \in 1 .. n : \E x \in S : Cardinality(Below(x)) = i - 1
  <2>. HIDE DEF Below
  <2>. QED  BY <1>1, <1>2, <1>8
<1>. DEFINE s == Sorted(S, before)
<1>10. s = [i \in 1 .. n |-> CHOOSE x \in S : Cardinality(Below(x)) = i - 1]
  BY DEF Sorted
<1>11. \A i \in 1 .. n : s[i] \in S /\ Cardinality(Below(s[i])) = i - 1
  <2>. HIDE DEF Below
  <2>. QED  BY <1>9, <1>10
<1>12. \A i \in 1 .. n : s[i] \in S /\ rank[s[i]] = i
  <2>. HIDE DEF Below, s, n
  <2>. QED  BY <1>1, <1>11
<1>13. s \in [1 .. n -> S] /\ s \in Seq(S) /\ Len(s) = n
  <2>1. s \in [1 .. n -> S]
    BY <1>10, <1>11
  <2>. HIDE DEF s, n
  <2>. QED  BY <1>1, <2>1
<1>. HIDE DEF s, rank, n
<1>14. ToSet(s) = S
  <2>1. \A x \in S : rank[x] \in 1 .. n /\ s[rank[x]] = x
    <3>1. \A x, y \in S : rank[x] = rank[y] => x = y
      BY <1>6 DEF Injection, IsInjective
    <3>. QED  BY <1>4, <1>12, <3>1
  <2>. QED  BY <1>13, <1>12, <2>1 DEF ToSet
<1>15. \A i, k \in 1 .. n : i < k <=> <<s[i], s[k]>> \in before
  <2>. SUFFICES ASSUME NEW i \in 1 .. n, NEW k \in 1 .. n PROVE i < k <=> <<s[i], s[k]>> \in before
    OBVIOUS
  <2>1. s[i] \in S /\ s[k] \in S /\ rank[s[i]] = i /\ rank[s[k]] = k
    BY <1>12
  <2>2. <<s[i], s[k]>> \in before => i < k
    BY <1>5, <2>1
  <2>3. <<s[k], s[i]>> \in before => k < i
    BY <1>5, <2>1
  <2>. QED  BY <1>1, <2>1, <2>2, <2>3 DEF Orders
<1>16. \A i, k \in 1 .. n : s[i] = s[k] => i = k
  BY <1>12
<1>. QED  BY <1>13, <1>14, <1>15, <1>16 DEF Sorts, s, n

\* A finite set of numbers is listed once each, from the least to the greatest.
LEMMA AscendingIs ==
  ASSUME NEW S \in SUBSET Nat, IsFiniteSet(S)
  PROVE  /\ Ascending(S) \in Seq(S) /\ Len(Ascending(S)) = Cardinality(S) /\ Cardinality(S) \in Nat
         /\ ToSet(Ascending(S)) = S
         /\ \A i, k \in 1 .. Len(Ascending(S)) : i < k <=> Ascending(S)[i] < Ascending(S)[k]
         /\ \A i, k \in 1 .. Len(Ascending(S)) : Ascending(S)[i] = Ascending(S)[k] => i = k
<1>. DEFINE before == {e \in S \X S : e[1] < e[2]}
<1>1. \A a, b \in S : <<a, b>> \in before <=> a < b
  OBVIOUS
<1>2. Ascending(S) = Sorted(S, before)
  BY DEF Ascending
<1>. HIDE DEF before
<1>3. Orders(before, S)
  BY <1>1 DEF Orders
<1>4. Sorts(Ascending(S), S, before)
  BY <1>2, <1>3, SortedIs
<1>. QED  BY <1>1, <1>4, FS_CardinalityType DEF Sorts

\* A list kept at some places is a list of the members there, in their order.
Keeps(t, s, places, spot) ==
  /\ spot \in [1 .. Len(t) -> places] /\ \A i \in places : \E k \in 1 .. Len(t) : spot[k] = i
  /\ \A k \in 1 .. Len(t) : t[k] = s[spot[k]]
  /\ \A k, m \in 1 .. Len(t) : k < m <=> spot[k] < spot[m]

\* The elements kept stand in their old order: spot says where each one stood.
LEMMA KeptIs ==
  ASSUME NEW D, NEW s \in Seq(D), NEW places \in SUBSET DOMAIN s
  PROVE  /\ KeptAt(s, places) \in Seq(D)
         /\ \E spot : Keeps(KeptAt(s, places), s, places, spot)
<1>. DEFINE spot == Ascending(places)
            t == KeptAt(s, places)
            n == Cardinality(places)
<1>1. places \in SUBSET Nat /\ IsFiniteSet(places)
  <2>1. IsFiniteSet(1 .. Len(s))
    BY FS_Interval
  <2>. QED  BY <2>1, FS_Subset
<1>2. /\ spot \in Seq(places) /\ Len(spot) = n /\ n \in Nat /\ ToSet(spot) = places
      /\ \A i, k \in 1 .. Len(spot) : i < k <=> spot[i] < spot[k]
  BY <1>1, AscendingIs
<1>3. t = [k \in 1 .. n |-> s[spot[k]]]
  BY DEF KeptAt
<1>. HIDE DEF spot, t, n
<1>4. \A k \in 1 .. n : spot[k] \in places /\ s[spot[k]] \in D
  BY <1>2
<1>5. t \in Seq(D) /\ Len(t) = n
  BY <1>2, <1>3, <1>4
<1>6. Keeps(t, s, places, spot)
  <2>1. spot \in [1 .. n -> places]
    BY <1>2
  <2>2. \A i \in places : \E k \in 1 .. n : spot[k] = i
    BY <1>2 DEF ToSet
  <2>. QED  BY <1>2, <1>3, <1>5, <2>1, <2>2 DEF Keeps
<1>. QED  BY <1>5, <1>6 DEF t

\* sum() over a list of naturals, with its running totals.
Sums(g, s) == g \in [0 .. Len(s) -> Nat] /\ g[0] = 0 /\ \A n \in 1 .. Len(s) : g[n] = g[n - 1] + s[n]

\* The sum of a list is counted up along it.
LEMMA SumIs ==
  ASSUME NEW s \in Seq(Nat)
  PROVE  \E g : Sums(g, s) /\ SumOf(s) = g[Len(s)]
<1>. DEFINE N == Len(s)
            F == [e \in (1 .. N) \X Nat |-> e[2] + s[e[1]]]
            IsSum(h) == h = [n \in 0 .. N |-> IF n = 0 THEN 0 ELSE h[n - 1] + s[n]]
<1>1. N \in Nat /\ 0 \in Nat /\ \A n \in 1 .. N : s[n] \in Nat
  OBVIOUS
<1>2. F \in [(1 .. N) \X Nat -> Nat]
  BY <1>1
<1>3. \A n \in 1 .. N, r \in Nat : F[<<n, r>>] = r + s[n]
  OBVIOUS
<1>. HIDE DEF F, N
<1>4. PICK f \in [0 .. N -> Nat] : f[0] = 0 /\ \A n \in 1 .. N : f[n] = F[<<n, f[n - 1]>>]
  <2>1. 0 \in Nat
    OBVIOUS
  <2>2. \E f : Follows(f, N, Nat, 0, F)
    BY <1>1, <1>2, <2>1, Recursion
  <2>. QED  BY <2>2 DEF Follows
<1>5. IsSum(f)
  <2>1. ASSUME NEW n \in 0 .. N PROVE f[n] = IF n = 0 THEN 0 ELSE f[n - 1] + s[n]
    <3>1. CASE n = 0
      BY <1>4, <3>1
    <3>2. CASE n # 0
      <4>1. n \in 1 .. N /\ n - 1 \in 0 .. N
        BY <1>1, <3>2
      <4>. QED  BY <1>3, <1>4, <3>2, <4>1
    <3>. QED  BY <3>1, <3>2
  <2>. QED  BY <1>4, <2>1
<1>6. \E h : IsSum(h)
  <2>. HIDE DEF IsSum
  <2>. QED  BY <1>5
<1>. DEFINE g == CHOOSE h : IsSum(h)
<1>7. SumOf(s) = g[N]
  BY DEF SumOf, N
<1>8. IsSum(g)
  <2>. HIDE DEF IsSum
  <2>. QED  BY <1>6
<1>. HIDE DEF g
<1>9. \A n \in 0 .. N : g[n] = IF n = 0 THEN 0 ELSE g[n - 1] + s[n]
  BY <1>8
<1>10. g[0] = 0
  BY <1>1, <1>9
<1>11. ASSUME NEW n \in 1 .. N PROVE g[n] = g[n - 1] + s[n]
  <2>1. n \in 0 .. N /\ n # 0
    BY <1>1
  <2>. QED  BY <1>9, <2>1
<1>12. g \in [0 .. N -> Nat]
  <2>. DEFINE T == {n \in 0 .. N : g[n] \in Nat}
  <2>1. 0 \in T
    BY <1>1, <1>10
  <2>2. \A n \in 1 .. N : n - 1 \in T => n \in T
    <3>. SUFFICES ASSUME NEW n \in 1 .. N, g[n - 1] \in Nat PROVE n \in T
      OBVIOUS
    <3>1. n \in 0 .. N /\ s[n] \in Nat
      BY <1>1
    <3>. QED  BY <1>11, <3>1
  <2>3. \A n \in 0 .. N : n \in T
    <3>. HIDE DEF T
    <3>. QED  BY <1>1, <2>1, <2>2, UpTo
  <2>4. DOMAIN g = 0 .. N /\ g = [n \in 0 .. N |-> g[n]]
    BY <1>8
  <2>. QED  BY <2>3, <2>4
<1>13. Sums(g, s)
  BY <1>10, <1>11, <1>12 DEF Sums, N
<1>. QED  BY <1>7, <1>13 DEF N

\* Members of two lists that agree so far add up to the same.
LEMMA SumsAgree ==
  ASSUME NEW s \in Seq(Nat), NEW t \in Seq(Nat), NEW m \in Nat, m <= Len(s), m <= Len(t),
         \A i \in 1 .. m : s[i] = t[i], NEW g, Sums(g, s), NEW h, Sums(h, t)
  PROVE  \A n \in 0 .. m : g[n] = h[n]
<1>. DEFINE T == {n \in 0 .. m : g[n] = h[n]}
<1>1. 0 \in T
  BY DEF Sums
<1>2. \A n \in 1 .. m : n - 1 \in T => n \in T
  BY DEF Sums
<1>3. \A n \in 0 .. m : n \in T
  <2>. HIDE DEF T
  <2>. QED  BY <1>1, <1>2, UpTo
<1>. QED  BY <1>3

\* One more element adds itself to the sum.
LEMMA SumAppends ==
  ASSUME NEW s \in Seq(Nat), NEW x \in Nat
  PROVE  SumOf(s) \in Nat /\ SumOf(Append(s, x)) = SumOf(s) + x /\ SumOf(<<>>) = 0
<1>. DEFINE t == Append(s, x)
            n == Len(s)
<1>1. t \in Seq(Nat) /\ Len(t) = n + 1 /\ n \in Nat /\ t[n + 1] = x /\ \A i \in 1 .. n : t[i] = s[i]
  OBVIOUS
<1>. HIDE DEF t
<1>2. PICK g : Sums(g, s) /\ SumOf(s) = g[n]
  BY SumIs
<1>3. PICK h : Sums(h, t) /\ SumOf(t) = h[n + 1]
  BY <1>1, SumIs
<1>4. \A m \in 0 .. n : g[m] = h[m]
  <2>1. n <= Len(s) /\ n <= Len(t)
    BY <1>1
  <2>. HIDE DEF n
  <2>. QED  BY <1>1, <1>2, <1>3, <2>1, SumsAgree
<1>5. g \in [0 .. n -> Nat] /\ h[n + 1] = h[n] + x
  <2>1. n + 1 \in 1 .. Len(t) /\ (n + 1) - 1 = n
    BY <1>1
  <2>. QED  BY <1>1, <1>2, <1>3, <2>1 DEF Sums
<1>6. n \in 0 .. n
  BY <1>1
<1>7. SumOf(s) \in Nat /\ SumOf(t) = SumOf(s) + x
  BY <1>2, <1>3, <1>4, <1>5, <1>6
<1>8. SumOf(<<>>) = 0
  <2>1. <<>> \in Seq(Nat) /\ Len(<<>>) = 0
    OBVIOUS
  <2>2. PICK f : Sums(f, <<>>) /\ SumOf(<<>>) = f[0]
    BY <2>1, SumIs
  <2>. QED  BY <2>2 DEF Sums
<1>. QED  BY <1>7, <1>8 DEF t

\* The elements of two lists one after the other.
LEMMA ConcatIs ==
  ASSUME NEW D, NEW u \in Seq(D), NEW v \in Seq(D)
  PROVE  /\ u \o v \in Seq(D) /\ Len(u \o v) = Len(u) + Len(v)
         /\ \A i \in 1 .. Len(u) : (u \o v)[i] = u[i]
         /\ \A i \in 1 .. Len(v) : (u \o v)[Len(u) + i] = v[i]
         /\ ToSet(u \o v) = ToSet(u) \cup ToSet(v)
<1>. DEFINE w == u \o v
<1>1. w \in Seq(D) /\ Len(w) = Len(u) + Len(v) /\ Len(u) \in Nat /\ Len(v) \in Nat
  OBVIOUS
<1>2. /\ \A i \in 1 .. Len(u) : w[i] = u[i]
      /\ \A i \in 1 .. Len(v) : w[Len(u) + i] = v[i]
  OBVIOUS
<1>3. DOMAIN u = 1 .. Len(u) /\ DOMAIN v = 1 .. Len(v) /\ DOMAIN w = 1 .. Len(w)
  OBVIOUS
<1>. HIDE DEF w
<1>4. \A i \in 1 .. Len(w) : i \in 1 .. Len(u) \/ (i - Len(u) \in 1 .. Len(v) /\ Len(u) + (i - Len(u)) = i)
  BY <1>1
<1>5. (\A i \in 1 .. Len(u) : i \in 1 .. Len(w)) /\ \A i \in 1 .. Len(v) : Len(u) + i \in 1 .. Len(w)
  BY <1>1
<1>6. ToSet(w) \subseteq ToSet(u) \cup ToSet(v)
  <2>. SUFFICES ASSUME NEW i \in 1 .. Len(w) PROVE w[i] \in ToSet(u) \cup ToSet(v)
    BY <1>3 DEF ToSet
  <2>1. CASE i \in 1 .. Len(u)
    BY <1>2, <1>3, <2>1 DEF ToSet
  <2>2. CASE i - Len(u) \in 1 .. Len(v) /\ Len(u) + (i - Len(u)) = i
    <3>1. w[i] = v[i - Len(u)]
      BY <1>2, <2>2
    <3>. QED  BY <1>3, <2>2, <3>1 DEF ToSet
  <2>. QED  BY <1>4, <2>1, <2>2
<1>7. ToSet(u) \subseteq ToSet(w) /\ ToSet(v) \subseteq ToSet(w)
  BY <1>2, <1>3, <1>5 DEF ToSet
<1>. QED  BY <1>1, <1>2, <1>6, <1>7 DEF w

-----------------------------------------------------------------------------
(* Risk. *)

\* A file of any scores and sizes.
AnyRisk ==
  [category : {"B", "C", "D_MISSING"}, path : {"plain", "hint", "template", "strict"},
   changed : Nat, raw : Nat, takeTarget : BOOLEAN, forceSafe : BOOLEAN,
   kind : {"text", "binary", "excluded", "deleted"}, markers : BOOLEAN,
   fields : SUBSET {"auto_safe", "auto_risky", "human_required"}]
Levels == {"auto_safe", "auto_risky", "human_required"}

\* The greater of two numbers.
LEMMA LargerOfTwo ==
  ASSUME NEW a \in Nat, NEW b \in Nat
  PROVE  Max({a, b}) = IF a >= b THEN a ELSE b
<1>1. \A x \in {a, b} : (\A y \in {a, b} : x >= y) => x = IF a >= b THEN a ELSE b
  OBVIOUS
<1>2. \E x \in {a, b} : \A y \in {a, b} : x >= y
  <2>1. CASE a >= b
    BY <2>1
  <2>2. CASE ~(a >= b)
    BY <2>2
  <2>. QED  BY <2>1, <2>2
<1>3. Max({a, b}) \in {a, b} /\ \A y \in {a, b} : Max({a, b}) >= y
  BY <1>2 DEF Max
<1>. QED  BY <1>1, <1>3

\* The lesser of two numbers.
LEMMA SmallerOfTwo ==
  ASSUME NEW a \in Nat, NEW b \in Nat
  PROVE  Min({a, b}) = IF a <= b THEN a ELSE b
<1>1. Min({a, b}) \in {a, b} /\ \A y \in {a, b} : Min({a, b}) <= y
  <2>1. {a, b} \in SUBSET Nat /\ {a, b} # {}
    OBVIOUS
  <2>. QED  BY <2>1, MinIsLeast
<1>. QED  BY <1>1

\* The level of a text file at any score.
LEMMA ClassifyIs ==
  ASSUME NEW x \in AnyRisk, x.kind = "text", NEW score \in Nat
  PROVE  /\ Classify(x, score) \in Levels
         /\ x.markers => Classify(x, score) = "human_required"
         /\ x.category = "C" /\ ~x.forceSafe => Classify(x, score) # "auto_safe"
         /\ score >= 60 /\ (IsSecuritySensitive(x) \/ ~x.forceSafe) => Classify(x, score) = "human_required"
         /\ ~x.markers => Classify(x, score) = IF x.forceSafe /\ ~IsSecuritySensitive(x) THEN "auto_safe"
                                               ELSE BandWithFloor(x, score)
<1>1. /\ BandWithFloor(x, score) \in Levels
      /\ x.category = "C" => BandWithFloor(x, score) # "auto_safe"
      /\ score >= 60 => BandWithFloor(x, score) = "human_required"
  BY DEF BandWithFloor, Band, Levels
<1>2. Classify(x, score) = IF x.markers THEN "human_required"
                           ELSE IF x.forceSafe /\ ~IsSecuritySensitive(x) THEN "auto_safe"
                           ELSE BandWithFloor(x, score)
  BY DEF Classify, AnyRisk
<1>. QED  BY <1>1, <1>2 DEF IsSecuritySensitive, Levels, AnyRisk

\* The score of a file, and its level before the planner rates it.
LEMMA ScoreIs ==
  ASSUME NEW x \in AnyRisk
  PROVE  RiskScore(x) \in Nat /\ (x.path = "strict" /\ x.changed > 0 /\ ~x.takeTarget => RiskScore(x) >= 60)
<1>1. /\ x.raw \in Nat /\ x.changed \in Nat /\ CClassFloor \in Nat /\ 80 \in Nat /\ 100 \in Nat
      /\ x.raw + RiskHintBump \in Nat
  BY DEF AnyRisk, CClassFloor, RiskHintBump
<1>2. Max({x.raw, 80}) \in Nat /\ Max({x.raw, 80}) >= 80
  BY <1>1, LargerOfTwo
<1>3. \A s \in Nat : LiftBothChanged(x, s) \in Nat
  <2>. SUFFICES ASSUME NEW s \in Nat PROVE LiftBothChanged(x, s) \in Nat
    OBVIOUS
  <2>1. Max({s, CClassFloor}) \in Nat
    BY <1>1, LargerOfTwo
  <2>. QED  BY <2>1 DEF LiftBothChanged
<1>4. \A s \in Nat : Min({100, s}) \in Nat
  BY <1>1, SmallerOfTwo
<1>5. Min({100, LiftBothChanged(x, x.raw + RiskHintBump)}) \in Nat /\ LiftBothChanged(x, x.raw) \in Nat
  BY <1>1, <1>3, <1>4
<1>. QED  BY <1>1, <1>2, <1>5 DEF RiskScore

\* What RiskSound asks of the classification of one file.
LEMMA RiskIsSound ==
  ASSUME NEW x \in AnyRisk, x.kind = "text"
  PROVE  LET rank == [auto_safe |-> 0, auto_risky |-> 1, human_required |-> 2]
             given == RiskLevelOf(x)
         IN /\ x.category = "C" /\ ~x.forceSafe => given # "auto_safe"
            /\ x.path = "strict" /\ x.changed > 0 /\ ~x.takeTarget => given = "human_required"
            /\ \A demanded \in x.fields : rank[given] >= rank[demanded]
            /\ given \in Levels /\ (x.markers => given = "human_required")
<1>. DEFINE level == Classify(x, RiskScore(x))
<1>1. RiskScore(x) \in Nat /\ (x.path = "strict" /\ x.changed > 0 /\ ~x.takeTarget => RiskScore(x) >= 60)
  BY ScoreIs
<1>5. /\ level \in Levels
      /\ x.markers => level = "human_required"
      /\ x.category = "C" /\ ~x.forceSafe => level # "auto_safe"
      /\ x.path = "strict" /\ x.changed > 0 /\ ~x.takeTarget => level = "human_required"
  BY <1>1, ClassifyIs DEF IsSecuritySensitive
<1>. HIDE DEF level
<1>6. /\ Severity("auto_safe") = 0 /\ Severity("auto_risky") = 1 /\ Severity("human_required") = 2
  BY DEF Severity
<1>7. CASE x.fields = {}
  BY <1>5, <1>7 DEF RiskLevelOf, level
<1>8. CASE x.fields # {}
  <2>. DEFINE most == Strictest(x.fields)
  <2>1. x.fields \subseteq Levels
    BY DEF AnyRisk, Levels
  <2>2. \E a \in x.fields : \A b \in x.fields : Severity(b) <= Severity(a)
    <3>1. CASE "human_required" \in x.fields
      BY <1>6, <2>1, <3>1 DEF Levels
    <3>2. CASE "human_required" \notin x.fields /\ "auto_risky" \in x.fields
      BY <1>6, <2>1, <3>2 DEF Levels
    <3>3. CASE "human_required" \notin x.fields /\ "auto_risky" \notin x.fields
      BY <1>6, <1>8, <2>1, <3>3 DEF Levels
    <3>. QED  BY <3>1, <3>2, <3>3
  <2>3. most \in x.fields /\ \A b \in x.fields : Severity(b) <= Severity(most)
    BY <2>2 DEF Strictest
  <2>4. RiskLevelOf(x) = IF Severity(most) > Severity(level) THEN most ELSE level
    BY <1>8 DEF RiskLevelOf, Escalated, level
  <2>. HIDE DEF most
  <2>5. \A b \in Levels : Severity(b) \in 0 .. 2
    BY <1>6 DEF Levels
  <2>6. RiskLevelOf(x) \in Levels /\ Severity(RiskLevelOf(x)) >= Severity(level)
        /\ \A b \in x.fields : Severity(b) <= Severity(RiskLevelOf(x))
    BY <1>5, <2>1, <2>3, <2>4, <2>5
  <2>. QED  BY <1>5, <1>6, <2>1, <2>6 DEF Levels
<1>. QED  BY <1>7, <1>8

\* Files rated with any request answered or not.
AnyRated ==
  [file : AnyRisk, complexity : {"low", "mid", "high"}, answer : (0 .. 100) \cup {NoAnswer, NoScore}]
AnyRating ==
  UNION {[files : [1 .. n -> AnyRated], label : Label, mode : {"off", "auto", "always"}, budget : Nat,
          central : SUBSET Nat] : n \in Nat}

\* The rated files are never more than the budget, and none when rating is off.
LEMMA SelectedIs ==
  ASSUME NEW x \in AnyRating
  PROVE  /\ IsFiniteSet(Selected(x)) /\ Cardinality(Selected(x)) <= x.budget
         /\ Cardinality(Selected(x)) \in Nat
         /\ x.mode = "off" => Selected(x) = {}
<1>. DEFINE before == {e \in Wanted(x) \X Wanted(x) :
                         \/ Rank(x.files[e[1]].complexity) > Rank(x.files[e[2]].complexity)
                         \/ Rank(x.files[e[1]].complexity) = Rank(x.files[e[2]].complexity) /\ e[1] < e[2]}
            order == Sorted(Wanted(x), before)
            n == Min({Len(order), x.budget})
<1>1. Selected(x) = ToSet(SubSeq(order, 1, n))
  BY DEF Selected, OrderedBy
<1>2. PICK last \in Nat : DOMAIN x.files = 1 .. last
        /\ \A f \in 1 .. last : x.files[f].complexity \in {"low", "mid", "high"}
  BY DEF AnyRating, AnyRated
<1>3. Wanted(x) \subseteq 1 .. last /\ IsFiniteSet(Wanted(x))
  <2>1. IsFiniteSet(1 .. last)
    BY FS_Interval
  <2>2. Wanted(x) \in SUBSET (1 .. last)
    BY <1>2 DEF Wanted
  <2>. QED  BY <2>1, <2>2, FS_Subset
<1>4. Orders(before, Wanted(x))
  <2>1. \A f \in Wanted(x) : f \in Nat /\ Rank(x.files[f].complexity) \in Nat
    BY <1>2, <1>3 DEF Rank
  <2>2. \A f, g \in Wanted(x) : <<f, g>> \in before <=>
           \/ Rank(x.files[f].complexity) > Rank(x.files[g].complexity)
           \/ Rank(x.files[f].complexity) = Rank(x.files[g].complexity) /\ f < g
    OBVIOUS
  <2>. HIDE DEF before
  <2>. QED  BY <2>1, <2>2 DEF Orders
<1>. HIDE DEF before, order
<1>5. Sorts(order, Wanted(x), before)
  BY <1>3, <1>4, SortedIs DEF order
<1>6. Len(order) \in Nat /\ order \in Seq(Wanted(x)) /\ x.budget \in Nat /\ Len(order) = Cardinality(Wanted(x))
  BY <1>5 DEF Sorts, AnyRating
<1>7. n \in Nat /\ n <= Len(order) /\ n <= x.budget
  BY <1>6, SmallerOfTwo
<1>. HIDE DEF n
<1>8. ToSet(SubSeq(order, 1, n)) = {order[i] : i \in 1 .. n}
  <2>1. Len(SubSeq(order, 1, n)) = n /\ DOMAIN SubSeq(order, 1, n) = 1 .. n
        /\ \A i \in 1 .. n : SubSeq(order, 1, n)[i] = order[i]
    BY <1>6, <1>7
  <2>. QED  BY <2>1 DEF ToSet
<1>9. IsFiniteSet(1 .. n) /\ Cardinality(1 .. n) = n
  BY <1>7, FS_Interval
<1>10. [i \in 1 .. n |-> order[i]] \in Surjection(1 .. n, {order[i] : i \in 1 .. n})
  BY DEF Surjection
<1>11. IsFiniteSet(Selected(x)) /\ Cardinality(Selected(x)) <= n
  <2>. DEFINE f == [i \in 1 .. n |-> order[i]]
              S == {order[i] : i \in 1 .. n}
  <2>1. f \in Surjection(1 .. n, S)
    BY <1>10
  <2>. HIDE DEF f, S
  <2>2. IsFiniteSet(S) /\ Cardinality(S) <= n
    BY <1>9, <2>1, FS_Surjection
  <2>. QED  BY <1>1, <1>8, <2>2 DEF S
<1>12. x.mode = "off" => Selected(x) = {}
  <2>. SUFFICES ASSUME x.mode = "off" PROVE Selected(x) = {}
    OBVIOUS
  <2>1. Wanted(x) = {} /\ Len(order) = 0
    BY <1>6, FS_EmptySet DEF Wanted
  <2>2. n = 0
    BY <1>7, <2>1
  <2>. QED  BY <1>1, <1>8, <2>2
<1>. QED  BY <1>6, <1>7, <1>11, <1>12, FS_CardinalityType

\* What RiskSound asks of the rating of a set of files.
RatingSound(x, after) ==
  LET rank == [auto_safe |-> 0, auto_risky |-> 1, human_required |-> 2]
      Before(f) == Unrated(x.files[f].file)
      moved == {f \in DOMAIN x.files \ x.central : after[f] # Before(f)}
  IN /\ Cardinality(moved) <= x.budget /\ (x.mode = "off" => moved = {})
     /\ \A f \in DOMAIN x.files :
          LET file == x.files[f].file
              level == after[f].level
          IN file.kind = "text" /\ x.files[f].complexity # "high" =>
               /\ file.markers => level = "human_required"
               /\ file.category = "C" /\ ~file.forceSafe => level # "auto_safe"
               /\ f \notin x.central /\ file.fields = {} =>
                    rank[level] - rank[Before(f).level] \in {-1, 0, 1}
               /\ f \in x.central /\ file.fields = {} /\ file.category # "C" =>
                    rank[level] >= rank[Enhanced(x)[f].level]

\* A higher score gives no lower a level to a file that only upstream changed.
LEMMA ClassifyClimbs ==
  ASSUME NEW x \in AnyRisk, x.kind = "text", x.category # "C",
         NEW low \in Nat, NEW high \in Nat, low <= high
  PROVE  LET rank == [auto_safe |-> 0, auto_risky |-> 1, human_required |-> 2]
         IN rank[Classify(x, high)] >= rank[Classify(x, low)]
<1>. DEFINE rank == [auto_safe |-> 0, auto_risky |-> 1, human_required |-> 2]
<1>1. /\ Classify(x, high) \in Levels /\ Classify(x, low) \in Levels
      /\ x.markers => Classify(x, high) = Classify(x, low)
      /\ ~x.markers /\ x.forceSafe /\ ~IsSecuritySensitive(x) => Classify(x, high) = Classify(x, low)
      /\ ~x.markers /\ ~(x.forceSafe /\ ~IsSecuritySensitive(x)) =>
           Classify(x, high) = BandWithFloor(x, high) /\ Classify(x, low) = BandWithFloor(x, low)
  BY ClassifyIs
<1>2. \A l \in Levels : rank[l] \in 0 .. 2
  BY DEF Levels
<1>3. rank[BandWithFloor(x, high)] >= rank[BandWithFloor(x, low)]
  BY DEF BandWithFloor, Band
<1>4. CASE Classify(x, high) = Classify(x, low)
  BY <1>1, <1>2, <1>4
<1>5. CASE Classify(x, high) # Classify(x, low)
  <2>1. Classify(x, high) = BandWithFloor(x, high) /\ Classify(x, low) = BandWithFloor(x, low)
    BY <1>1, <1>5
  <2>. QED  BY <1>3, <2>1
<1>. QED  BY <1>4, <1>5

\* A blended score is at most one band away from the rule's.
LEMMA BlendIs ==
  ASSUME NEW score \in Nat, NEW a \in (0 .. 100) \cup {NoScore}
  PROVE  LET new == Blended(score, a)
         IN new \in Nat /\ (score < 30 => new < 60) /\ (score >= 60 => new >= 30)
<1>. DEFINE told == IF a = NoScore THEN score ELSE a
<1>1. told \in Nat /\ (told = score \/ told <= 100)
  BY DEF NoScore
<1>2. Blended(score, a) = (60 * score + 40 * told) \div 100
  BY DEF Blended, RuleWeight
<1>. HIDE DEF told
<1>. QED  BY <1>1, <1>2

\* The level of a text file that is not very complex, and does not move by two.
LEMMA RescoredIs ==
  ASSUME NEW r \in AnyRated, r.file.kind = "text"
  PROVE  LET old == Unrated(r.file)
             new == Rescored(r)
         IN /\ new.score \in Nat /\ new.level \in Levels /\ old.score \in Nat /\ old.level \in Levels
            /\ r.file.markers => new.level = "human_required" /\ old.level = "human_required"
            /\ r.file.category = "C" /\ ~r.file.forceSafe => new.level # "auto_safe" /\ old.level # "auto_safe"
            /\ r.file.fields = {} => {new.level, old.level} # {"auto_safe", "human_required"}
            /\ r.file.fields = {} => /\ new.level = Classify(r.file, new.score)
                                    /\ old.level = Classify(r.file, old.score)
<1>. DEFINE file == r.file
            s == RiskScore(file)
<1>1. file \in AnyRisk /\ r.answer \in (0 .. 100) \cup {NoAnswer, NoScore} /\ file.kind = "text"
  BY DEF AnyRated
<1>2. s \in Nat
  BY <1>1, ScoreIs
<1>3. /\ RiskLevelOf(file) \in Levels
      /\ file.markers => RiskLevelOf(file) = "human_required"
      /\ file.category = "C" /\ ~file.forceSafe => RiskLevelOf(file) # "auto_safe"
  <2>. HIDE DEF file
  <2>. QED  BY <1>1, RiskIsSound
<1>4. /\ Unrated(file) = [score |-> s, level |-> RiskLevelOf(file)]
      /\ file.fields = {} => RiskLevelOf(file) = Classify(file, s)
  BY DEF Unrated, RiskLevelOf
<1>. HIDE DEF file
<1>5. CASE r.answer = NoAnswer
  <2>1. Rescored(r) = Unrated(file)
    BY <1>5 DEF Rescored, file
  <2>. QED  BY <1>2, <1>3, <1>4, <2>1 DEF file
<1>6. CASE r.answer # NoAnswer
  <2>. DEFINE new == Blended(s, r.answer)
  <2>1. Rescored(r) = [score |-> new, level |-> Classify(file, new)]
    BY <1>6 DEF Rescored, Rated, file
  <2>2. new \in Nat /\ (s < 30 => new < 60) /\ (s >= 60 => new >= 30)
    BY <1>1, <1>2, <1>6, BlendIs
  <2>. HIDE DEF new, s
  <2>3. /\ Classify(file, new) \in Levels
        /\ file.markers => Classify(file, new) = "human_required"
        /\ file.category = "C" /\ ~file.forceSafe => Classify(file, new) # "auto_safe"
    BY <1>1, <2>2, ClassifyIs
  <2>4. file.fields = {} => {Classify(file, new), RiskLevelOf(file)} # {"auto_safe", "human_required"}
    <3>. SUFFICES ASSUME file.fields = {}
                  PROVE  {Classify(file, new), RiskLevelOf(file)} # {"auto_safe", "human_required"}
      OBVIOUS
    <3>1. RiskLevelOf(file) = Classify(file, s)
      BY DEF RiskLevelOf, s
    <3>2. CASE file.markers
      BY <1>1, <1>2, <2>2, <3>1, <3>2, ClassifyIs
    <3>3. CASE ~file.markers /\ file.forceSafe /\ ~IsSecuritySensitive(file)
      BY <1>1, <1>2, <2>2, <3>1, <3>3, ClassifyIs
    <3>4. CASE ~file.markers /\ ~(file.forceSafe /\ ~IsSecuritySensitive(file))
      <4>1. Classify(file, s) = BandWithFloor(file, s) /\ Classify(file, new) = BandWithFloor(file, new)
        BY <1>1, <1>2, <2>2, <3>4, ClassifyIs
      <4>. QED  BY <1>2, <2>2, <3>1, <4>1 DEF BandWithFloor, Band
    <3>. QED  BY <3>2, <3>3, <3>4
  <2>. QED  BY <1>2, <1>3, <1>4, <2>1, <2>2, <2>3, <2>4 DEF file
<1>. QED  BY <1>5, <1>6

\* Rating keeps what RatingSound asks for.
LEMMA RatingIsSound ==
  ASSUME NEW x \in AnyRating
  PROVE  RatingSound(x, Rate(x))
<1>. DEFINE after == Rate(x)
            moved == {f \in DOMAIN x.files \ x.central : after[f] # Unrated(x.files[f].file)}
<1>1. \A f \in DOMAIN x.files : after[f] =
        IF f \in x.central THEN Bumped(x.files[f].file, Enhanced(x)[f]) ELSE Enhanced(x)[f]
  BY DEF Rate
<1>2. \A f \in DOMAIN x.files \ x.central : f \notin Selected(x) => after[f] = Unrated(x.files[f].file)
  BY <1>1 DEF Enhanced
<1>. HIDE DEF after
<1>3. moved \subseteq Selected(x)
  BY <1>2
<1>4. IsFiniteSet(moved) /\ Cardinality(moved) <= Cardinality(Selected(x)) /\ Cardinality(moved) \in Nat
  <2>1. moved \in SUBSET Selected(x)
    BY <1>3
  <2>. HIDE DEF moved
  <2>. QED  BY <2>1, SelectedIs, FS_Subset, FS_CardinalityType
<1>5. Cardinality(moved) <= x.budget
  <2>1. x.budget \in Nat
    BY DEF AnyRating
  <2>. QED  BY <1>4, <2>1, SelectedIs
<1>6. x.mode = "off" => moved = {}
  BY <1>3, SelectedIs
<1>. DEFINE Ranks == [auto_safe |-> 0, auto_risky |-> 1, human_required |-> 2]
<1>7. ASSUME NEW f \in DOMAIN x.files, x.files[f].file.kind = "text", x.files[f].complexity # "high"
      PROVE  LET file == x.files[f].file
                 old == Unrated(file).level
             IN /\ after[f].level \in Levels /\ old \in Levels
                /\ file.markers => after[f].level = "human_required"
                /\ file.category = "C" /\ ~file.forceSafe => after[f].level # "auto_safe"
                /\ f \notin x.central /\ file.fields = {} =>
                     {after[f].level, old} # {"auto_safe", "human_required"}
                /\ f \in x.central /\ file.fields = {} /\ file.category # "C" =>
                     Ranks[after[f].level] >= Ranks[Enhanced(x)[f].level]
  <2>. DEFINE r == x.files[f]
              now == Enhanced(x)[f]
  <2>1. r \in AnyRated /\ r.file \in AnyRisk
    BY DEF AnyRating, AnyRated
  <2>2. now = Unrated(r.file) \/ now = Rescored(r)
    BY <1>7 DEF Enhanced
  <2>3. after[f] = IF f \in x.central THEN Bumped(r.file, now) ELSE now
    BY <1>1
  <2>. HIDE DEF r, now
  <2>4. r.file.kind = "text"
    BY <1>7 DEF r
  <2>5. /\ now.score \in Nat /\ now.level \in Levels /\ Unrated(r.file).level \in Levels
        /\ r.file.markers => now.level = "human_required"
        /\ r.file.category = "C" /\ ~r.file.forceSafe => now.level # "auto_safe"
        /\ r.file.fields = {} => {now.level, Unrated(r.file).level} # {"auto_safe", "human_required"}
        /\ r.file.fields = {} => now.level = Classify(r.file, now.score)
    BY <2>1, <2>2, <2>4, RescoredIs
  <2>6. CASE f \notin x.central
    BY <2>3, <2>5, <2>6 DEF r
  <2>7. CASE f \in x.central
    <3>. DEFINE score == Min({100, now.score + GodNodeBump})
    <3>1. score \in Nat
      <4>1. now.score + GodNodeBump \in Nat /\ 100 \in Nat
        BY <2>5 DEF GodNodeBump
      <4>. QED  BY <4>1, SmallerOfTwo
    <3>2. after[f] = IF score > now.score THEN Rated(r.file, score) ELSE now
      BY <2>3, <2>7 DEF Bumped
    <3>. HIDE DEF score
    <3>3. CASE score > now.score
      <4>1. after[f].level = Classify(r.file, score)
        BY <3>2, <3>3 DEF Rated
      <4>2. r.file.fields = {} /\ r.file.category # "C" =>
              Ranks[Classify(r.file, score)] >= Ranks[Classify(r.file, now.score)]
        BY <2>1, <2>4, <2>5, <3>1, <3>3, ClassifyClimbs
      <4>3. r.file.fields = {} /\ r.file.category # "C" => Ranks[after[f].level] >= Ranks[now.level]
        BY <2>5, <4>1, <4>2
      <4>. HIDE DEF Ranks
      <4>. QED  BY <2>1, <2>4, <2>5, <2>7, <3>1, <4>1, <4>3, ClassifyIs DEF r, now
    <3>4. CASE ~(score > now.score)
      <4>1. after[f].level = now.level
        BY <3>2, <3>4
      <4>2. Ranks[now.level] >= Ranks[now.level]
        BY <2>5 DEF Levels
      <4>. HIDE DEF Ranks
      <4>. QED  BY <2>5, <2>7, <4>1, <4>2 DEF r, now
    <3>. HIDE DEF Ranks
    <3>. QED  BY <3>3, <3>4
  <2>. HIDE DEF Ranks
  <2>. QED  BY <2>6, <2>7
<1>8. \A f \in DOMAIN x.files :
        LET file == x.files[f].file
            rank == [auto_safe |-> 0, auto_risky |-> 1, human_required |-> 2]
        IN file.kind = "text" /\ x.files[f].complexity # "high" =>
             /\ file.markers => after[f].level = "human_required"
             /\ file.category = "C" /\ ~file.forceSafe => after[f].level # "auto_safe"
             /\ f \notin x.central /\ file.fields = {} =>
                  rank[after[f].level] - rank[Unrated(file).level] \in {-1, 0, 1}
             /\ f \in x.central /\ file.fields = {} /\ file.category # "C" =>
                  rank[after[f].level] >= rank[Enhanced(x)[f].level]
  BY <1>7 DEF Levels
<1>. QED  BY <1>5, <1>6, <1>8 DEF RatingSound, after, moved

-----------------------------------------------------------------------------
(* Brackets. *)

\* A split symbol, a forbidden pattern or too many markers fail the tree.
LEMMA TreeCheckIsStrict ==
  ASSUME NEW x, x.todos \in Nat, x.grepped = {} \/ x.grepped # {}
  PROVE  LET split == \E c \in x.changes, u \in x.uses :
                        u[1] = c[1] /\ {x.decisions[c[2]], x.decisions[u[2]]} = {"take_target", "take_current"}
         IN split \/ x.grepped # {} \/ x.todos > 30 => TreeVerdict(x) = "fail"
<1>. DEFINE seen == SignatureSplit(x.changes, x.uses, x.decisions)
                       \cup DependencyMissed(x.changes, x.uses, x.decisions, x.edges, [s |-> x.grepped])
                       \cup GlobalIssues(x.todos, {}, {}, {}, [s |-> x.grepped])
<1>1. ASSUME NEW i \in seen, i.level \in {"critical", "high"} PROVE TreeVerdict(x) = "fail"
  BY <1>1 DEF TreeVerdict, Verdict
<1>2. ASSUME NEW c \in x.changes, NEW u \in x.uses, u[1] = c[1],
             {x.decisions[c[2]], x.decisions[u[2]]} = {"take_target", "take_current"}
      PROVE  TreeVerdict(x) = "fail"
  <2>1. c[2] # u[2] /\ x.decisions[c[2]] \in OneSided /\ x.decisions[u[2]] = Opposite(x.decisions[c[2]])
    BY <1>2 DEF OneSided, Opposite
  <2>2. Found(u[2], "cross_file_signature_split", "high", TRUE, TRUE) \in seen
    BY <1>2, <2>1 DEF SignatureSplit
  <2>3. Found(u[2], "cross_file_signature_split", "high", TRUE, TRUE).level = "high"
    BY DEF Found
  <2>. HIDE DEF seen
  <2>. QED  BY <1>1, <2>2, <2>3
<1>3. ASSUME x.grepped # {} PROVE TreeVerdict(x) = "fail"
  <2>. DEFINE blemish == Veto(CHOOSE f \in [s |-> x.grepped]["s"] : TRUE, "reverse_impact_unhandled")
  <2>1. "s" \in {t \in DOMAIN [s |-> x.grepped] : [s |-> x.grepped][t] # {}}
    BY <1>3
  <2>2. blemish \in seen
    BY <2>1 DEF GlobalIssues
  <2>3. blemish.level = "critical"
    BY DEF Veto, Found
  <2>. HIDE DEF seen, blemish
  <2>. QED  BY <1>1, <2>2, <2>3
<1>4. ASSUME x.todos > 30 PROVE TreeVerdict(x) = "fail"
  <2>. DEFINE blemish == Veto(WholeTree, "todo_merge_exceeded")
  <2>1. blemish \in seen
    BY <1>4 DEF GlobalIssues, When
  <2>2. blemish.level = "critical"
    BY DEF Veto, Found
  <2>. HIDE DEF seen, blemish
  <2>. QED  BY <1>1, <2>1, <2>2
<1>. QED  BY <1>2, <1>3, <1>4

\* A custom check passes only when the file it is about is there.
LEMMA CustomIsStrict ==
  ASSUME NEW x,
         x.type = "file_exists" \/ (x.type = "line_retention" /\ x.baseline > 0), Retained(x),
         x.present \in BOOLEAN
  PROVE  x.present
BY DEF Retained

AnyAudit ==
  [escalated : BOOLEAN, diffed : BOOLEAN, sensitive : BOOLEAN, changed : Nat, blobs : BOOLEAN,
   upstreams : BOOLEAN, texts : BOOLEAN, own : Nat, kept : Nat]

\* A sensitive or large change to upstream's text, or that keeps none of the fork's, is reported.
LEMMA AuditIsStrict ==
  ASSUME NEW x \in AnyAudit,
         ~x.escalated, x.diffed, x.sensitive \/ x.changed > 50,
         x.upstreams \/ (x.kept = 0 /\ x.own >= MinDistinctive)
  PROVE  AuditForkPreservation(x) # "nothing"
<1>1. x.changed >= MinForkLines(x)
  BY DEF MinForkLines, AnyAudit
<1>2. x.upstreams \/ 10 * Dropped(x) >= 7 * x.own
  BY DEF Dropped, MinDistinctive, AnyAudit
<1>3. x.changed \in Nat /\ MinForkLines(x) \in Nat
  BY DEF MinForkLines, AnyAudit
<1>4. ~(x.escalated \/ ~x.diffed \/ x.changed < MinForkLines(x))
  BY <1>1, <1>3
<1>5. ~x.upstreams => x.own >= MinDistinctive
  BY DEF AnyAudit
<1>. QED  BY <1>2, <1>4, <1>5 DEF AuditForkPreservation

\* A text of brackets alone, and what the scanner keeps of it.
Bracket == {"(", ")", "{", "}"}
Opener == {"(", "{"}
Stack == [open : Seq(Opener), bad : BOOLEAN]
Pushed(s, c) ==
  IF s.bad THEN s
  ELSE IF c \in Opener THEN [open |-> Append(s.open, c), bad |-> FALSE]
  ELSE IF s.open = <<>> \/ ClosedBy(s.open[Len(s.open)]) # c THEN [open |-> s.open, bad |-> TRUE]
  ELSE [open |-> SubSeq(s.open, 1, Len(s.open) - 1), bad |-> FALSE]
Runs(h, t) ==
  /\ h \in [0 .. Len(t) -> Stack] /\ h[0] = [open |-> <<>>, bad |-> FALSE]
  /\ \A n \in 1 .. Len(t) : h[n] = Pushed(h[n - 1], t[n])
Ends(h, t) == ~h[Len(t)].bad /\ h[Len(t)].open = <<>>

\* Reading one bracket leaves a stack.
LEMMA PushIs ==
  ASSUME NEW s \in Stack, NEW c \in Bracket
  PROVE  Pushed(s, c) \in Stack
<1>1. PICK o \in Seq(Opener), b \in BOOLEAN : s = [open |-> o, bad |-> b]
  BY DEF Stack
<1>2. c \in Opener => Append(o, c) \in Seq(Opener)
  OBVIOUS
<1>3. o # <<>> => SubSeq(o, 1, Len(o) - 1) \in Seq(Opener)
  OBVIOUS
<1>4. /\ [open |-> o, bad |-> TRUE] \in Stack
      /\ c \in Opener => [open |-> Append(o, c), bad |-> FALSE] \in Stack
      /\ o # <<>> => [open |-> SubSeq(o, 1, Len(o) - 1), bad |-> FALSE] \in Stack
  BY <1>1, <1>2, <1>3 DEF Stack
<1>. QED  BY <1>1, <1>4 DEF Pushed

\* A text of brackets can be read from its start to its end.
LEMMA RunsExist ==
  ASSUME NEW t \in Seq(Bracket)
  PROVE  \E h : Runs(h, t)
<1>. DEFINE N == Len(t)
            F == [e \in (1 .. N) \X Stack |-> Pushed(e[2], t[e[1]])]
            base == [open |-> <<>>, bad |-> FALSE]
<1>1. N \in Nat /\ base \in Stack
  BY DEF Stack
<1>2. F \in [(1 .. N) \X Stack -> Stack] /\ \A n \in 1 .. N, s \in Stack : F[<<n, s>>] = Pushed(s, t[n])
  BY PushIs
<1>. HIDE DEF F, base
<1>3. PICK h : Follows(h, N, Stack, base, F)
  BY <1>1, <1>2, Recursion
<1>4. ASSUME NEW n \in 1 .. N PROVE h[n] = Pushed(h[n - 1], t[n])
  <2>1. n - 1 \in 0 .. N
    OBVIOUS
  <2>. QED  BY <1>2, <1>3, <2>1 DEF Follows
<1>. QED  BY <1>3, <1>4 DEF Runs, Follows, base

\* There is only one way to read it.
LEMMA RunsAgree ==
  ASSUME NEW t \in Seq(Bracket), NEW g, Runs(g, t), NEW h, Runs(h, t)
  PROVE  g[Len(t)] = h[Len(t)]
<1>. DEFINE T == {n \in 0 .. Len(t) : g[n] = h[n]}
<1>1. 0 \in T
  BY DEF Runs
<1>2. \A n \in 1 .. Len(t) : n - 1 \in T => n \in T
  BY DEF Runs
<1>3. \A n \in 0 .. Len(t) : n \in T
  <2>1. Len(t) \in Nat
    OBVIOUS
  <2>. HIDE DEF T
  <2>. QED  BY <1>1, <1>2, <2>1, UpTo
<1>. QED  BY <1>3

\* Where a pair stands, its opener and its closer one after the other.
PairsIn(t) == {i \in 1 .. Len(t) - 1 : Opens(t[i]) /\ t[i + 1] = ClosedBy(t[i])}
Without(t, i) == SubSeq(t, 1, i - 1) \o SubSeq(t, i + 2, Len(t))

\* The text without the pair at i.
LEMMA WithoutIs ==
  ASSUME NEW t \in Seq(Bracket), NEW i \in 1 .. Len(t) - 1
  PROVE  /\ Without(t, i) \in Seq(Bracket) /\ Len(Without(t, i)) = Len(t) - 2 /\ Len(t) - 2 \in Nat
         /\ \A k \in 1 .. i - 1 : Without(t, i)[k] = t[k]
         /\ \A k \in i .. Len(t) - 2 : Without(t, i)[k] = t[k + 2]
<1>. DEFINE a == SubSeq(t, 1, i - 1)
            b == SubSeq(t, i + 2, Len(t))
<1>1. a \in Seq(Bracket) /\ Len(a) = i - 1 /\ \A k \in 1 .. i - 1 : a[k] = t[k]
  OBVIOUS
<1>2. b \in Seq(Bracket) /\ Len(b) = Len(t) - i - 1 /\ \A k \in 1 .. Len(t) - i - 1 : b[k] = t[k + i + 1]
  OBVIOUS
<1>0. Len(t) \in Nat /\ i \in Nat /\ Len(t) - 2 \in Nat /\ (i - 1) + (Len(t) - i - 1) = Len(t) - 2
  OBVIOUS
<1>. HIDE DEF a, b
<1>9. a \in Seq(Bracket) /\ b \in Seq(Bracket)
  BY <1>1, <1>2
<1>3. a \o b \in Seq(Bracket) /\ Len(a \o b) = Len(t) - 2
  <2>1. a \o b \in Seq(Bracket) /\ Len(a \o b) = Len(a) + Len(b)
    BY <1>9, ConcatIs
  <2>. QED  BY <1>0, <1>1, <1>2, <2>1
<1>4. \A k \in 1 .. Len(t) - 2 : (a \o b)[k] = IF k <= i - 1 THEN a[k] ELSE b[k - (i - 1)]
  BY <1>0, <1>1, <1>2
<1>5. \A k \in 1 .. i - 1 : (a \o b)[k] = t[k]
  BY <1>0, <1>1, <1>4
<1>6. ASSUME NEW k \in i .. Len(t) - 2 PROVE (a \o b)[k] = t[k + 2]
  <2>1. k - (i - 1) \in 1 .. Len(t) - i - 1 /\ (k - (i - 1)) + i + 1 = k + 2
    BY <1>0
  <2>2. k \in 1 .. Len(t) - 2 /\ ~(k <= i - 1)
    BY <1>0
  <2>3. (a \o b)[k] = b[k - (i - 1)]
    BY <1>4, <2>2
  <2>4. b[k - (i - 1)] = t[(k - (i - 1)) + i + 1]
    BY <1>2, <2>1
  <2>. QED  BY <2>1, <2>3, <2>4
<1>. QED  BY <1>0, <1>3, <1>5, <1>6 DEF Without, a, b

\* Taking a pair out changes nothing for what comes after it.
LEMMA PairsDoNotMatter ==
  ASSUME NEW t \in Seq(Bracket), NEW i \in PairsIn(t), NEW h, Runs(h, t),
         NEW g, Runs(g, Without(t, i))
  PROVE  g[Len(t) - 2] = h[Len(t)]
<1>. DEFINE u == Without(t, i)
            n == Len(t)
<1>1. i \in 1 .. n - 1 /\ t[i] \in Opener /\ t[i + 1] = ClosedBy(t[i]) /\ n \in Nat
  <2>1. i \in 1 .. n - 1 /\ Opens(t[i]) /\ t[i + 1] = ClosedBy(t[i]) /\ n \in Nat
    BY DEF PairsIn
  <2>2. t[i] \in Bracket
    BY <2>1
  <2>. QED  BY <2>1, <2>2 DEF Opens, Opener, Bracket
<1>2. /\ u \in Seq(Bracket) /\ Len(u) = n - 2 /\ n - 2 \in Nat
      /\ \A k \in 1 .. i - 1 : u[k] = t[k]
      /\ \A k \in i .. n - 2 : u[k] = t[k + 2]
  BY <1>1, WithoutIs
<1>. HIDE DEF u
<1>3. /\ \A k \in 1 .. n : h[k] = Pushed(h[k - 1], t[k])
      /\ \A k \in 1 .. n - 2 : g[k] = Pushed(g[k - 1], u[k])
      /\ g[0] = h[0] /\ h \in [0 .. n -> Stack]
  BY <1>2 DEF Runs, u
<1>. HIDE DEF n
<1>4. \A k \in 0 .. i - 1 : g[k] = h[k]
  <2>. DEFINE T == {k \in 0 .. i - 1 : g[k] = h[k]}
  <2>1. 0 \in T
    BY <1>1, <1>3
  <2>2. ASSUME NEW k \in 1 .. i - 1, k - 1 \in T PROVE k \in T
    <3>1. k \in 1 .. n /\ k \in 1 .. n - 2 /\ k \in 0 .. i - 1
      BY <1>1
    <3>. QED  BY <1>2, <1>3, <2>2, <3>1
  <2>3. \A k \in 0 .. i - 1 : k \in T
    <3>1. i - 1 \in Nat
      BY <1>1
    <3>. HIDE DEF T
    <3>. QED  BY <2>1, <2>2, <3>1, UpTo
  <2>. QED  BY <2>3
<1>5. h[i + 1] = h[i - 1]
  <2>1. h[i] = Pushed(h[i - 1], t[i]) /\ h[i + 1] = Pushed(h[i], t[i + 1]) /\ h[i - 1] \in Stack
    <3>1. i \in 1 .. n /\ i + 1 \in 1 .. n /\ i - 1 \in 0 .. n /\ (i + 1) - 1 = i
      BY <1>1
    <3>. QED  BY <1>3, <3>1
  <2>2. CASE h[i - 1].bad
    BY <2>1, <2>2 DEF Pushed
  <2>3. CASE ~h[i - 1].bad
    <3>1. PICK s \in Seq(Opener) : h[i - 1] = [open |-> s, bad |-> FALSE]
      BY <2>1, <2>3 DEF Stack
    <3>2. h[i] = [open |-> Append(s, t[i]), bad |-> FALSE]
      BY <1>1, <2>1, <3>1 DEF Pushed
    <3>3. /\ Append(s, t[i]) # <<>> /\ Append(s, t[i])[Len(Append(s, t[i]))] = t[i]
          /\ SubSeq(Append(s, t[i]), 1, Len(Append(s, t[i])) - 1) = s
      BY <1>1
    <3>4. t[i + 1] \notin Opener
      BY <1>1 DEF Opener, ClosedBy
    <3>5. h[i + 1] = Pushed([open |-> Append(s, t[i]), bad |-> FALSE], t[i + 1])
      BY <2>1, <3>2
    <3>6. Pushed([open |-> Append(s, t[i]), bad |-> FALSE], t[i + 1]) = [open |-> s, bad |-> FALSE]
      <4>. DEFINE o == Append(s, t[i])
      <4>1. o # <<>> /\ o[Len(o)] = t[i] /\ SubSeq(o, 1, Len(o) - 1) = s
        BY <3>3
      <4>2. ~(o = <<>> \/ ClosedBy(o[Len(o)]) # t[i + 1])
        BY <1>1, <4>1
      <4>. HIDE DEF o
      <4>3. Pushed([open |-> o, bad |-> FALSE], t[i + 1]) = [open |-> SubSeq(o, 1, Len(o) - 1), bad |-> FALSE]
        BY <3>4, <4>2 DEF Pushed
      <4>. QED  BY <4>1, <4>3 DEF o
    <3>. QED  BY <3>1, <3>5, <3>6
  <2>. QED  BY <2>2, <2>3
<1>6. \A k \in 0 .. (n - 1) - i : g[k + (i - 1)] = h[k + (i + 1)]
  <2>. DEFINE T == {k \in 0 .. (n - 1) - i : g[k + (i - 1)] = h[k + (i + 1)]}
  <2>1. 0 \in T
    BY <1>1, <1>4, <1>5
  <2>2. ASSUME NEW k \in 1 .. (n - 1) - i, k - 1 \in T PROVE k \in T
    <3>1. /\ k + (i - 1) \in 1 .. n - 2 /\ k + (i + 1) \in 1 .. n /\ k \in 0 .. (n - 1) - i
          /\ (k + (i - 1)) - 1 = (k - 1) + (i - 1) /\ (k + (i + 1)) - 1 = (k - 1) + (i + 1)
          /\ k + (i - 1) \in i .. n - 2 /\ (k + (i - 1)) + 2 = k + (i + 1)
      BY <1>1
    <3>2. u[k + (i - 1)] = t[k + (i + 1)]
      BY <1>2, <3>1
    <3>3. g[(k - 1) + (i - 1)] = h[(k - 1) + (i + 1)]
      BY <2>2
    <3>. QED  BY <1>3, <3>1, <3>2, <3>3
  <2>3. \A k \in 0 .. (n - 1) - i : k \in T
    <3>1. (n - 1) - i \in Nat
      BY <1>1
    <3>. HIDE DEF T
    <3>. QED  BY <2>1, <2>2, <3>1, UpTo
  <2>. QED  BY <2>3
<1>7. ((n - 1) - i) + (i - 1) = n - 2 /\ ((n - 1) - i) + (i + 1) = n /\ (n - 1) - i \in 0 .. (n - 1) - i
  BY <1>1
<1>8. g[n - 2] = h[n]
  BY <1>6, <1>7
<1>. QED  BY <1>8 DEF n

\* A text that is not empty and has no pair is not whole.
LEMMA WholeHasAPair ==
  ASSUME NEW t \in Seq(Bracket), PairsIn(t) = {}, NEW h, Runs(h, t), Ends(h, t)
  PROVE  t = <<>>
<1>. DEFINE n == Len(t)
            Growing(k) == /\ \A j \in 1 .. k : t[j] \in Opener
                          /\ Len(h[k].open) = k /\ (k > 0 => h[k].open[k] = t[k])
            T == {k \in 0 .. n : h[k].bad \/ Growing(k)}
<1>1. n \in Nat /\ h \in [0 .. n -> Stack] /\ \A k \in 1 .. n : h[k] = Pushed(h[k - 1], t[k])
  BY DEF Runs
<1>2. 0 \in T
  BY DEF Runs
<1>3. ASSUME NEW k \in 1 .. n, k - 1 \in T PROVE k \in T
  <2>1. k \in 0 .. n /\ k - 1 \in 0 .. n /\ h[k] = Pushed(h[k - 1], t[k]) /\ t[k] \in Bracket /\ h[k - 1] \in Stack
    BY <1>1
  <2>2. CASE h[k - 1].bad
    BY <2>1, <2>2 DEF Pushed
  <2>3. CASE ~h[k - 1].bad
    <3>1. Growing(k - 1)
      BY <1>3, <2>3
    <3>2. PICK s \in Seq(Opener) : h[k - 1] = [open |-> s, bad |-> FALSE] /\ Len(s) = k - 1
      BY <2>1, <2>3, <3>1 DEF Stack
    <3>3. CASE t[k] \in Opener
      <4>1. h[k] = [open |-> Append(s, t[k]), bad |-> FALSE]
        BY <2>1, <3>2, <3>3 DEF Pushed
      <4>2. Len(Append(s, t[k])) = k /\ Append(s, t[k])[k] = t[k]
        BY <3>2
      <4>3. \A j \in 1 .. k : j = k \/ j \in 1 .. k - 1
        OBVIOUS
      <4>4. Growing(k)
        BY <3>1, <3>3, <4>1, <4>2, <4>3
      <4>. HIDE DEF Growing
      <4>. QED  BY <2>1, <4>4
    <3>4. CASE t[k] \notin Opener
      <4>1. s = <<>> \/ ClosedBy(s[Len(s)]) # t[k]
        <5>1. CASE k = 1
          BY <3>2, <5>1
        <5>2. CASE k # 1
          <6>1. k - 1 \in 1 .. n - 1 /\ (k - 1) + 1 = k /\ k - 1 > 0 /\ k - 1 \in 1 .. k - 1
            BY <5>2
          <6>2. s[k - 1] = t[k - 1] /\ t[k - 1] \in Opener
            BY <3>1, <3>2, <6>1
          <6>3. ClosedBy(t[k - 1]) # t[k]
            BY <6>1, <6>2 DEF PairsIn, Opens, Opener
          <6>. QED  BY <3>2, <6>2, <6>3
        <5>. QED  BY <5>1, <5>2
      <4>2. h[k].bad
        BY <2>1, <3>2, <3>4, <4>1 DEF Pushed
      <4>. QED  BY <2>1, <4>2
    <3>. QED  BY <3>3, <3>4
  <2>. QED  BY <2>2, <2>3
<1>4. n \in T
  <2>. HIDE DEF T, n
  <2>1. \A k \in 0 .. n : k \in T
    BY <1>1, <1>2, <1>3, UpTo
  <2>. QED  BY <1>1, <2>1
<1>5. Len(h[n].open) = n /\ h[n].open = <<>>
  BY <1>4 DEF Ends
<1>. QED  BY <1>5

\* What is left of a text of brackets when pairs are taken out.
UnpairedStep(t) == IF PairsIn(t) = {} THEN t ELSE Without(t, Min(PairsIn(t)))

\* One step of the removal takes out a pair, or finds none.
LEMMA UnpairedStepIs ==
  ASSUME NEW t \in Seq(Bracket)
  PROVE  /\ UnpairedStep(t) \in Seq(Bracket)
         /\ PairsIn(t) = {} => UnpairedStep(t) = t
         /\ PairsIn(t) # {} => \E i \in PairsIn(t) : UnpairedStep(t) = Without(t, i)
<1>1. CASE PairsIn(t) = {}
  BY <1>1 DEF UnpairedStep
<1>2. CASE PairsIn(t) # {}
  <2>1. PairsIn(t) \in SUBSET Nat /\ \A i \in PairsIn(t) : i \in 1 .. Len(t) - 1
    BY DEF PairsIn
  <2>2. Min(PairsIn(t)) \in PairsIn(t)
    BY <1>2, <2>1, MinIsLeast
  <2>3. Without(t, Min(PairsIn(t))) \in Seq(Bracket)
    BY <2>1, <2>2, WithoutIs
  <2>. QED  BY <1>2, <2>2, <2>3 DEF UnpairedStep
<1>. QED  BY <1>1, <1>2

\* The removal goes on for as many steps as the text is long.
LEMMA UnpairedIs ==
  ASSUME NEW text \in Seq(Bracket)
  PROVE  \E g : /\ g \in [0 .. Len(text) -> Seq(Bracket)] /\ g[0] = text
                /\ \A n \in 1 .. Len(text) : g[n] = UnpairedStep(g[n - 1])
                /\ Unpaired(text) = g[Len(text)]
<1>. DEFINE N == Len(text)
            D == Seq(Bracket)
            base == text
            Step(r, n) == UnpairedStep(r)
            F == [e \in (1 .. N) \X D |-> Step(e[2], e[1])]
            IsRun(h) == h = [n \in 0 .. N |-> IF n = 0 THEN base ELSE Step(h[n - 1], n)]
<1>1. N \in Nat
  OBVIOUS
<1>2. base \in D
  OBVIOUS
<1>3. ASSUME NEW n \in 1 .. N, NEW r \in D PROVE Step(r, n) \in D
  BY UnpairedStepIs
<1>. DEFINE g == CHOOSE h : IsRun(h)
<1>4. Unpaired(text) = g[N]
  BY Zenon DEF Unpaired, UnpairedStep, PairsIn, Without
<1>. HIDE DEF N, D, base, Step
<1>5. F \in [(1 .. N) \X D -> D] /\ \A n \in 1 .. N, r \in D : F[<<n, r>>] = Step(r, n)
  BY <1>3
<1>. HIDE DEF F
<1>6. PICK f : Follows(f, N, D, base, F)
  BY <1>1, <1>2, <1>5, Recursion
<1>7. IsRun(f)
  <2>1. ASSUME NEW n \in 0 .. N PROVE f[n] = IF n = 0 THEN base ELSE Step(f[n - 1], n)
    <3>1. CASE n = 0
      BY <1>6, <3>1 DEF Follows
    <3>2. CASE n # 0
      <4>1. n \in 1 .. N /\ n - 1 \in 0 .. N
        BY <1>1, <3>2
      <4>. QED  BY <1>5, <1>6, <3>2, <4>1 DEF Follows
    <3>. QED  BY <3>1, <3>2
  <2>. QED  BY <1>6, <2>1 DEF Follows
<1>8. IsRun(g)
  <2>1. \E h : IsRun(h)
    <3>. HIDE DEF IsRun
    <3>. QED  BY <1>7
  <2>. HIDE DEF IsRun
  <2>. QED  BY <2>1
<1>. HIDE DEF g
<1>9. g[0] = base /\ DOMAIN g = 0 .. N /\ g = [n \in 0 .. N |-> g[n]]
  BY <1>1, <1>8
<1>10. ASSUME NEW n \in 1 .. N PROVE g[n] = Step(g[n - 1], n)
  <2>1. n \in 0 .. N /\ n # 0
    BY <1>1
  <2>. QED  BY <1>8, <2>1
<1>11. g \in [0 .. N -> D]
  <2>. DEFINE T == {n \in 0 .. N : g[n] \in D}
  <2>1. 0 \in T
    BY <1>1, <1>2, <1>9
  <2>2. ASSUME NEW n \in 1 .. N, n - 1 \in T PROVE n \in T
    <3>1. n \in 0 .. N
      BY <1>1
    <3>. QED  BY <1>3, <1>10, <2>2, <3>1
  <2>3. \A n \in 0 .. N : n \in T
    <3>. HIDE DEF T
    <3>. QED  BY <1>1, <2>1, <2>2, UpTo
  <2>. QED  BY <1>9, <2>3
<1>. QED  BY <1>4, <1>9, <1>10, <1>11 DEF N, D, base, Step

Whole(t) == \E h : Runs(h, t) /\ Ends(h, t)

\* Taking a pair out does not change whether a text is whole.
LEMMA WholeWithout ==
  ASSUME NEW t \in Seq(Bracket), NEW i \in PairsIn(t)
  PROVE  Whole(Without(t, i)) <=> Whole(t)
<1>1. PICK h : Runs(h, t)
  BY RunsExist
<1>2. i \in 1 .. Len(t) - 1
  BY DEF PairsIn
<1>3. Without(t, i) \in Seq(Bracket) /\ Len(Without(t, i)) = Len(t) - 2
  BY <1>2, WithoutIs
<1>4. PICK g : Runs(g, Without(t, i))
  BY <1>3, RunsExist
<1>5. g[Len(t) - 2] = h[Len(t)]
  BY <1>1, <1>4, PairsDoNotMatter
<1>6. Whole(t) <=> Ends(h, t)
  BY <1>1, RunsAgree DEF Whole, Ends
<1>7. Whole(Without(t, i)) <=> Ends(g, Without(t, i))
  BY <1>3, <1>4, RunsAgree DEF Whole, Ends
<1>8. Ends(g, Without(t, i)) <=> Ends(h, t)
  BY <1>3, <1>5 DEF Ends
<1>. QED  BY <1>6, <1>7, <1>8

\* A text is read to its end with nothing open exactly when all its brackets pair off.
LEMMA WholeIsPaired ==
  ASSUME NEW text \in Seq(Bracket)
  PROVE  Whole(text) <=> Unpaired(text) = <<>>
<1>. DEFINE N == Len(text)
<1>1. PICK g : /\ g \in [0 .. N -> Seq(Bracket)] /\ g[0] = text
               /\ \A n \in 1 .. N : g[n] = UnpairedStep(g[n - 1])
               /\ Unpaired(text) = g[N]
  BY UnpairedIs
<1>. DEFINE T == {n \in 0 .. N : /\ Whole(g[n]) <=> Whole(text)
                                 /\ PairsIn(g[n]) = {} \/ Len(g[n]) + n <= N}
<1>2. N \in Nat
  OBVIOUS
<1>3. 0 \in T
  BY <1>1
<1>4. ASSUME NEW n \in 1 .. N, n - 1 \in T PROVE n \in T
  <2>. DEFINE t == g[n - 1]
  <2>1. n \in 0 .. N /\ n - 1 \in 0 .. N
    BY <1>2
  <2>2. t \in Seq(Bracket) /\ g[n] = UnpairedStep(t)
    BY <1>1, <2>1
  <2>3. /\ Whole(t) <=> Whole(text)
        /\ PairsIn(t) = {} \/ Len(t) + (n - 1) <= N
    BY <1>4
  <2>. HIDE DEF t
  <2>4. CASE PairsIn(t) = {}
    BY <2>1, <2>2, <2>3, <2>4, UnpairedStepIs
  <2>5. CASE PairsIn(t) # {}
    <3>1. PICK i \in PairsIn(t) : g[n] = Without(t, i)
      BY <2>2, <2>5, UnpairedStepIs
    <3>2. i \in 1 .. Len(t) - 1
      BY DEF PairsIn
    <3>3. Len(g[n]) = Len(t) - 2 /\ Len(t) \in Nat
      BY <2>2, <3>1, <3>2, WithoutIs
    <3>4. Whole(g[n]) <=> Whole(t)
      BY <2>2, <3>1, WholeWithout
    <3>5. Len(g[n]) + n <= N
      BY <1>2, <2>3, <2>5, <3>3
    <3>. QED  BY <2>1, <2>3, <3>4, <3>5
  <2>. QED  BY <2>4, <2>5
<1>5. N \in T
  <2>. HIDE DEF T, N
  <2>1. \A n \in 0 .. N : n \in T
    BY <1>2, <1>3, <1>4, UpTo
  <2>. QED  BY <1>2, <2>1
<1>. DEFINE u == Unpaired(text)
<1>6. u \in Seq(Bracket) /\ (Whole(u) <=> Whole(text)) /\ (PairsIn(u) = {} \/ Len(u) <= 0)
  <2>1. N \in 0 .. N /\ Len(u) \in Nat
    BY <1>1, <1>2
  <2>. QED  BY <1>1, <1>2, <1>5, <2>1
<1>. HIDE DEF u
<1>7. PairsIn(u) = {}
  BY <1>6 DEF PairsIn
<1>8. Whole(u) => u = <<>>
  BY <1>6, <1>7, WholeHasAPair DEF Whole
<1>9. Whole(<<>>)
  <2>1. <<>> \in Seq(Bracket) /\ Len(<<>>) = 0
    OBVIOUS
  <2>2. PICK h : Runs(h, <<>>)
    BY <2>1, RunsExist
  <2>. QED  BY <2>1, <2>2 DEF Whole, Ends, Runs
<1>. QED  BY <1>6, <1>8, <1>9 DEF u

\* The scanner over brackets.
AnyScan ==
  [in : {"code"}, depth : {0}, open : Seq(Opener), prev : {"", "{", ")", "}"}, escaped : {FALSE}, until : {0},
   bad : BOOLEAN]

\* Another stack makes another scan.
LEMMA OpenKept ==
  ASSUME NEW s \in AnyScan, NEW q \in Seq(Opener)
  PROVE  [s EXCEPT !.open = q] \in AnyScan
BY DEF AnyScan

\* So does an outer bracket.
LEMMA ScanKept ==
  ASSUME NEW s \in AnyScan, NEW q \in Seq(Opener), NEW c \in {"{", ")", "}"}
  PROVE  [s EXCEPT !.open = q, !.prev = c] \in AnyScan /\ [s EXCEPT !.bad = TRUE] \in AnyScan
<1>1. \A r \in AnyScan : [r EXCEPT !.prev = c] \in AnyScan
  BY DEF AnyScan
<1>2. [s EXCEPT !.bad = TRUE] \in AnyScan
  BY DEF AnyScan
<1>3. [s EXCEPT !.open = q, !.prev = c] = [[s EXCEPT !.open = q] EXCEPT !.prev = c]
  OBVIOUS
<1>. QED  BY <1>1, <1>2, <1>3, OpenKept

\* One character does to the stack what reading its bracket does.
LEMMA ScanBrackets ==
  ASSUME NEW x, x.text \in Seq(Bracket), NEW i \in 1 .. Len(x.text), NEW s \in AnyScan
  PROVE  /\ Scan(x, s, i) \in AnyScan
         /\ Scan(x, s, i).bad = Pushed([open |-> s.open, bad |-> s.bad], x.text[i]).bad
         /\ Scan(x, s, i).open = Pushed([open |-> s.open, bad |-> s.bad], x.text[i]).open
<1>. DEFINE t == x.text[i]
            o == s.open
<1>1. t \in Bracket /\ o \in Seq(Opener) /\ s.in = "code" /\ s.bad \in BOOLEAN
  <2>1. t \in Bracket
    OBVIOUS
  <2>2. o \in Seq(Opener) /\ s.in = "code" /\ s.bad \in BOOLEAN
    BY DEF AnyScan
  <2>. QED  BY <2>1, <2>2
<1>2. CASE s.bad
  BY <1>1, <1>2 DEF Scan, Pushed
<1>3. CASE ~s.bad
  <2>1. Scan(x, s, i) = ScanCode(x, s, i)
    BY <1>1, <1>3 DEF Scan
  <2>2. CASE t \in Opener
    <3>1. Scan(x, s, i) = [s EXCEPT !.open = Append(@, t), !.prev = "{"]
      BY <2>1, <2>2 DEF ScanCode, Opener, Opens
    <3>2. Append(o, t) \in Seq(Opener)
      BY <1>1, <2>2
    <3>3. Pushed([open |-> o, bad |-> s.bad], t) = [open |-> Append(o, t), bad |-> FALSE]
      BY <1>3, <2>2 DEF Pushed
    <3>. HIDE DEF t, o
    <3>4. Scan(x, s, i) \in AnyScan
      <4>1. o \in Seq(Opener)
        BY DEF AnyScan, o
      <4>2. Append(o, t) \in Seq(Opener) /\ "{" \in {"{", ")", "}"}
        BY <3>2
      <4>3. [s EXCEPT !.open = Append(o, t), !.prev = "{"] \in AnyScan
        BY <4>2, ScanKept, Zenon
      <4>. QED  BY <3>1, <4>3 DEF o
    <3>5. Scan(x, s, i).bad = FALSE /\ Scan(x, s, i).open = Append(o, t)
      BY <1>3, <3>1 DEF AnyScan, o
    <3>6. Pushed([open |-> o, bad |-> s.bad], t).bad = FALSE
      BY <3>3
    <3>7. Pushed([open |-> o, bad |-> s.bad], t).open = Append(o, t)
      BY <3>3
    <3>. QED  BY <3>4, <3>5, <3>6, <3>7, Zenon DEF t, o
  <2>3. CASE t \notin Opener
    <3>1. t \in {")", "}"}
      BY <1>1, <2>3 DEF Bracket, Opener
    <3>2. Scan(x, s, i) = IF o = <<>> \/ ClosedBy(Last(o)) # t THEN [s EXCEPT !.bad = TRUE]
                          ELSE [s EXCEPT !.open = Front(@), !.prev = t]
      BY <2>1, <3>1 DEF ScanCode, Opens
    <3>3. Last(o) = o[Len(o)] /\ Front(o) = SubSeq(o, 1, Len(o) - 1)
      BY DEF Last, Front
    <3>4. CASE o = <<>> \/ ClosedBy(o[Len(o)]) # t
      <4>1. Pushed([open |-> o, bad |-> s.bad], t) = [open |-> o, bad |-> TRUE]
        BY <1>3, <2>3, <3>4 DEF Pushed
      <4>2. Scan(x, s, i) = [s EXCEPT !.bad = TRUE]
        BY <3>2, <3>3, <3>4
      <4>3. Scan(x, s, i).bad = TRUE /\ Scan(x, s, i).open = o
        BY <4>2 DEF AnyScan
      <4>4. Pushed([open |-> o, bad |-> s.bad], t).bad = TRUE
        BY <4>1
      <4>5. Pushed([open |-> o, bad |-> s.bad], t).open = o
        BY <4>1
      <4>6. Scan(x, s, i) \in AnyScan
        <5>1. <<>> \in Seq(Opener) /\ "{" \in {"{", ")", "}"}
          OBVIOUS
        <5>. QED  BY <4>2, <5>1, ScanKept
      <4>. QED  BY <4>3, <4>4, <4>5, <4>6, Zenon
    <3>5. CASE ~(o = <<>> \/ ClosedBy(o[Len(o)]) # t)
      <4>1. Pushed([open |-> o, bad |-> s.bad], t) = [open |-> SubSeq(o, 1, Len(o) - 1), bad |-> FALSE]
        BY <1>3, <2>3, <3>5 DEF Pushed
      <4>2. SubSeq(o, 1, Len(o) - 1) \in Seq(Opener)
        BY <1>1, <3>5
      <4>3. Scan(x, s, i) = [s EXCEPT !.open = SubSeq(o, 1, Len(o) - 1), !.prev = t]
        BY <3>2, <3>3, <3>5
      <4>4. Scan(x, s, i).bad = FALSE /\ Scan(x, s, i).open = SubSeq(o, 1, Len(o) - 1)
        BY <1>3, <4>3 DEF AnyScan
      <4>5. Scan(x, s, i) \in AnyScan
        <5>. DEFINE q == SubSeq(o, 1, Len(o) - 1)
        <5>1. q \in Seq(Opener) /\ Scan(x, s, i) = [s EXCEPT !.open = q, !.prev = t]
          BY <4>2, <4>3
        <5>. HIDE DEF q, t
        <5>2. t \in {"{", ")", "}"}
          BY <3>1
        <5>3. [s EXCEPT !.open = q, !.prev = t] \in AnyScan
          BY <5>1, <5>2, ScanKept, Zenon
        <5>. QED  BY <5>1, <5>3, Zenon
      <4>6. Pushed([open |-> o, bad |-> s.bad], t).bad = FALSE
        BY <4>1
      <4>7. Pushed([open |-> o, bad |-> s.bad], t).open = SubSeq(o, 1, Len(o) - 1)
        BY <4>1
      <4>. QED  BY <4>4, <4>5, <4>6, <4>7, Zenon
    <3>. QED  BY <3>4, <3>5
  <2>. QED  BY <2>2, <2>3
<1>. QED  BY <1>2, <1>3

\* The scan goes character by character.
LEMMA ScannedIs ==
  ASSUME NEW x, x.text \in Seq(Bracket)
  PROVE  \E g : /\ g \in [0 .. Len(x.text) -> AnyScan] /\ g[0] = Scanning
                /\ \A n \in 1 .. Len(x.text) : g[n] = Scan(x, g[n - 1], n)
                /\ Scanned(x) = g[Len(x.text)]
<1>. DEFINE N == Len(x.text)
            D == AnyScan
            base == Scanning
            Step(r, n) == Scan(x, r, n)
            F == [e \in (1 .. N) \X D |-> Step(e[2], e[1])]
            IsRun(h) == h = [n \in 0 .. N |-> IF n = 0 THEN base ELSE Step(h[n - 1], n)]
<1>1. N \in Nat
  OBVIOUS
<1>2. base \in D
  BY DEF Scanning, AnyScan
<1>3. ASSUME NEW n \in 1 .. N, NEW r \in D PROVE Step(r, n) \in D
  BY ScanBrackets
<1>. DEFINE g == CHOOSE h : IsRun(h)
<1>4. Scanned(x) = g[N]
  BY Zenon DEF Scanned
<1>. HIDE DEF N, D, base, Step
<1>5. F \in [(1 .. N) \X D -> D] /\ \A n \in 1 .. N, r \in D : F[<<n, r>>] = Step(r, n)
  BY <1>3
<1>. HIDE DEF F
<1>6. PICK f : Follows(f, N, D, base, F)
  BY <1>1, <1>2, <1>5, Recursion
<1>7. IsRun(f)
  <2>1. ASSUME NEW n \in 0 .. N PROVE f[n] = IF n = 0 THEN base ELSE Step(f[n - 1], n)
    <3>1. CASE n = 0
      BY <1>6, <3>1 DEF Follows
    <3>2. CASE n # 0
      <4>1. n \in 1 .. N /\ n - 1 \in 0 .. N
        BY <1>1, <3>2
      <4>. QED  BY <1>5, <1>6, <3>2, <4>1 DEF Follows
    <3>. QED  BY <3>1, <3>2
  <2>. QED  BY <1>6, <2>1 DEF Follows
<1>8. IsRun(g)
  <2>1. \E h : IsRun(h)
    <3>. HIDE DEF IsRun
    <3>. QED  BY <1>7
  <2>. HIDE DEF IsRun
  <2>. QED  BY <2>1
<1>. HIDE DEF g
<1>9. g[0] = base /\ DOMAIN g = 0 .. N /\ g = [n \in 0 .. N |-> g[n]]
  BY <1>1, <1>8
<1>10. ASSUME NEW n \in 1 .. N PROVE g[n] = Step(g[n - 1], n)
  <2>1. n \in 0 .. N /\ n # 0
    BY <1>1
  <2>. QED  BY <1>8, <2>1
<1>11. g \in [0 .. N -> D]
  <2>. DEFINE T == {n \in 0 .. N : g[n] \in D}
  <2>1. 0 \in T
    BY <1>1, <1>2, <1>9
  <2>2. ASSUME NEW n \in 1 .. N, n - 1 \in T PROVE n \in T
    <3>1. n \in 0 .. N
      BY <1>1
    <3>. QED  BY <1>3, <1>10, <2>2, <3>1
  <2>3. \A n \in 0 .. N : n \in T
    <3>. HIDE DEF T
    <3>. QED  BY <1>1, <2>1, <2>2, UpTo
  <2>. QED  BY <1>9, <2>3
<1>. QED  BY <1>4, <1>9, <1>10, <1>11 DEF N, D, base, Step

\* check_balanced accepts exactly the texts whose brackets pair off.
LEMMA BracketsBalance ==
  ASSUME NEW x, x.text \in Seq(Bracket)
  PROVE  CheckBalanced(x) <=> Unpaired(x.text) = <<>>
<1>. DEFINE t == x.text
            N == Len(t)
<1>1. PICK g : /\ g \in [0 .. N -> AnyScan] /\ g[0] = Scanning
               /\ \A n \in 1 .. N : g[n] = Scan(x, g[n - 1], n)
               /\ Scanned(x) = g[N]
  BY ScannedIs
<1>. DEFINE h == [n \in 0 .. N |-> [open |-> g[n].open, bad |-> g[n].bad]]
<1>2. Runs(h, t)
  <2>1. N \in Nat /\ \A n \in 0 .. N : h[n] \in Stack /\ h[n] = [open |-> g[n].open, bad |-> g[n].bad]
    <3>1. \A n \in 0 .. N : g[n] \in AnyScan
      BY <1>1
    <3>2. \A n \in 0 .. N : g[n].open \in Seq(Opener) /\ g[n].bad \in BOOLEAN
      <4>. HIDE DEF h
      <4>. QED  BY <3>1 DEF AnyScan
    <3>. QED  BY <3>2 DEF Stack
  <2>2. h[0] = [open |-> <<>>, bad |-> FALSE]
    <3>1. g[0].open = <<>> /\ g[0].bad = FALSE
      <4>. HIDE DEF h
      <4>1. Scanning.open = <<>> /\ Scanning.bad = FALSE
        BY DEF Scanning
      <4>. QED  BY <1>1, <4>1
    <3>2. 0 \in 0 .. N
      BY <2>1
    <3>. HIDE DEF h
    <3>. QED  BY <2>1, <3>1, <3>2
  <2>3. ASSUME NEW n \in 1 .. N PROVE h[n] = Pushed(h[n - 1], t[n])
    <3>1. n \in 0 .. N /\ n - 1 \in 0 .. N /\ g[n - 1] \in AnyScan /\ g[n] = Scan(x, g[n - 1], n)
      BY <1>1, <2>1
    <3>2. Pushed(h[n - 1], t[n]) \in Stack /\ h[n - 1] = [open |-> g[n - 1].open, bad |-> g[n - 1].bad]
      <4>1. h[n - 1] \in Stack /\ t[n] \in Bracket
        <5>1. t[n] \in Bracket
          OBVIOUS
        <5>. HIDE DEF h
        <5>. QED  BY <2>1, <3>1, <5>1
      <4>. HIDE DEF h
      <4>. QED  BY <2>1, <3>1, <4>1, PushIs
    <3>3. g[n].bad = Pushed(h[n - 1], t[n]).bad /\ g[n].open = Pushed(h[n - 1], t[n]).open
      BY <3>1, <3>2, ScanBrackets
    <3>. QED  BY <2>1, <3>1, <3>2, <3>3 DEF Stack
  <2>. QED  BY <2>1, <2>2, <2>3 DEF Runs
<1>3. CheckBalanced(x) <=> Ends(h, t)
  <2>1. N \in 0 .. N /\ g[N] \in AnyScan
    BY <1>1
  <2>2. h[N] = [open |-> g[N].open, bad |-> g[N].bad] /\ g[N].in = "code"
    BY <2>1 DEF AnyScan
  <2>. HIDE DEF h
  <2>. QED  BY <1>1, <2>2 DEF CheckBalanced, Ends
<1>4. Ends(h, t) <=> Whole(t)
  <2>. HIDE DEF h
  <2>. QED  BY <1>2, RunsAgree DEF Whole, Ends
<1>. QED  BY <1>3, <1>4, WholeIsPaired

\* A line comment without a line end is whole whatever it holds.
LEMMA CommentsBalance ==
  ASSUME NEW x, NEW D, x.text \in Seq(D), Len(x.text) > 0, x.text[1] = "line_comment",
         "nl" \notin ToSet(x.text)
  PROVE  CheckBalanced(x)
<1>. DEFINE N == Len(x.text)
            inside == [Scanning EXCEPT !.in = "line", !.depth = 1]
            IsRun(h) == h = [i \in 0 .. N |-> IF i = 0 THEN Scanning ELSE Scan(x, h[i - 1], i)]
            f == [i \in 0 .. N |-> IF i = 0 THEN Scanning ELSE inside]
<1>1. N \in Nat /\ 1 \in 1 .. N /\ \A i \in 1 .. N : x.text[i] # "nl"
  BY DEF ToSet
<1>2. inside.in = "line" /\ inside.open = <<>> /\ ~inside.bad
  BY DEF Scanning
<1>3. Scan(x, Scanning, 1) = inside
  <2>1. Scanning.in = "code" /\ ~Scanning.bad
    BY DEF Scanning
  <2>2. Scan(x, Scanning, 1) = ScanCode(x, Scanning, 1)
    BY <2>1 DEF Scan
  <2>3. ScanCode(x, Scanning, 1) = [Scanning EXCEPT !.in = "line", !.depth = 1]
    <3>. DEFINE s == Scanning
    <3>. HIDE DEF s
    <3>1. ScanCode(x, s, 1) = [s EXCEPT !.in = "line", !.depth = 1]
      BY <1>1 DEF ScanCode, Opens
    <3>. QED  BY <3>1 DEF s
  <2>. QED  BY <2>2, <2>3
<1>. HIDE DEF N, inside
<1>4. \A i \in 1 .. N : Scan(x, inside, i) = inside
  BY <1>1, <1>2 DEF Scan
<1>5. IsRun(f)
  <2>1. ASSUME NEW i \in 0 .. N PROVE f[i] = IF i = 0 THEN Scanning ELSE Scan(x, f[i - 1], i)
    <3>1. CASE i = 0
      BY <3>1
    <3>2. CASE i = 1
      BY <1>1, <1>3, <3>2
    <3>3. CASE i # 0 /\ i # 1
      <4>1. i \in 1 .. N /\ i - 1 \in 0 .. N /\ i - 1 # 0
        BY <1>1, <3>3
      <4>. QED  BY <1>4, <3>3, <4>1
    <3>. QED  BY <3>1, <3>2, <3>3
  <2>. QED  BY <2>1
<1>. DEFINE g == CHOOSE h : IsRun(h)
<1>6. Scanned(x) = g[N]
  BY Zenon DEF Scanned, N
<1>7. IsRun(g)
  <2>1. \E h : IsRun(h)
    <3>. HIDE DEF IsRun
    <3>. QED  BY <1>5
  <2>. HIDE DEF IsRun
  <2>. QED  BY <2>1
<1>. HIDE DEF g
<1>8. \A i \in 0 .. N : g[i] = IF i = 0 THEN Scanning ELSE Scan(x, g[i - 1], i)
  BY <1>7
<1>. DEFINE T == {i \in 0 .. N : i > 0 => g[i] = inside}
<1>9. 0 \in T
  BY <1>1
<1>10. ASSUME NEW i \in 1 .. N, i - 1 \in T PROVE i \in T
  <2>1. i \in 0 .. N /\ i - 1 \in 0 .. N /\ 0 \in 0 .. N
    BY <1>1
  <2>2. g[i] = Scan(x, g[i - 1], i)
    BY <1>8, <2>1
  <2>3. CASE i = 1
    <3>1. g[0] = Scanning
      BY <1>8, <2>1
    <3>. QED  BY <1>3, <2>1, <2>2, <2>3, <3>1
  <2>4. CASE i # 1
    <3>1. g[i - 1] = inside
      BY <1>10, <2>1, <2>4
    <3>. QED  BY <1>4, <2>1, <2>2, <3>1
  <2>. QED  BY <2>3, <2>4
<1>11. g[N] = inside
  <2>1. \A i \in 0 .. N : i \in T
    <3>. HIDE DEF T
    <3>. QED  BY <1>1, <1>9, <1>10, UpTo
  <2>. QED  BY <1>1, <2>1
<1>. QED  BY <1>2, <1>6, <1>11 DEF CheckBalanced

-----------------------------------------------------------------------------
(* Rules. *)

\* The elements kept are those at the places kept.
LEMMA KeptSet ==
  ASSUME NEW D, NEW s \in Seq(D), NEW places \in SUBSET DOMAIN s
  PROVE  KeptAt(s, places) \in Seq(D) /\ ToSet(KeptAt(s, places)) = {s[i] : i \in places}
<1>. DEFINE t == KeptAt(s, places)
<1>1. t \in Seq(D) /\ \E spot : Keeps(t, s, places, spot)
  BY KeptIs
<1>. HIDE DEF t
<1>2. PICK spot : Keeps(t, s, places, spot)
  BY <1>1
<1>3. ToSet(t) = {t[k] : k \in 1 .. Len(t)}
  BY <1>1 DEF ToSet
<1>4. \A k \in 1 .. Len(t) : spot[k] \in places /\ t[k] = s[spot[k]]
  BY <1>2 DEF Keeps
<1>5. \A i \in places : \E k \in 1 .. Len(t) : spot[k] = i
  BY <1>2 DEF Keeps
<1>6. ToSet(t) = {s[i] : i \in places}
  BY <1>3, <1>4, <1>5
<1>. QED  BY <1>1, <1>6 DEF t

\* Repeats are dropped line by line.
LEMMA OnceIs ==
  ASSUME NEW D0, NEW text \in Seq(D0)
  PROVE  \E g : /\ g \in [0 .. Len(text) -> Seq(D0)] /\ g[0] = <<>>
                /\ \A n \in 1 .. Len(text) : g[n] = AddNew(g[n - 1], text[n])
                /\ Once(text) = g[Len(text)]
<1>. DEFINE N == Len(text)
            D == Seq(D0)
            base == <<>>
            Step(r, n) == AddNew(r, text[n])
            F == [e \in (1 .. N) \X D |-> Step(e[2], e[1])]
            IsRun(h) == h = [n \in 0 .. N |-> IF n = 0 THEN base ELSE Step(h[n - 1], n)]
<1>1. N \in Nat
  OBVIOUS
<1>2. base \in D
  OBVIOUS
<1>3. ASSUME NEW n \in 1 .. N, NEW r \in D PROVE Step(r, n) \in D
  BY DEF AddNew
<1>. DEFINE g == CHOOSE h : IsRun(h)
<1>4. Once(text) = g[N]
  BY Zenon DEF Once
<1>. HIDE DEF N, D, base, Step
<1>5. F \in [(1 .. N) \X D -> D] /\ \A n \in 1 .. N, r \in D : F[<<n, r>>] = Step(r, n)
  BY <1>3
<1>. HIDE DEF F
<1>6. PICK f : Follows(f, N, D, base, F)
  BY <1>1, <1>2, <1>5, Recursion
<1>7. IsRun(f)
  <2>1. ASSUME NEW n \in 0 .. N PROVE f[n] = IF n = 0 THEN base ELSE Step(f[n - 1], n)
    <3>1. CASE n = 0
      BY <1>6, <3>1 DEF Follows
    <3>2. CASE n # 0
      <4>1. n \in 1 .. N /\ n - 1 \in 0 .. N
        BY <1>1, <3>2
      <4>. QED  BY <1>5, <1>6, <3>2, <4>1 DEF Follows
    <3>. QED  BY <3>1, <3>2
  <2>. QED  BY <1>6, <2>1 DEF Follows
<1>8. IsRun(g)
  <2>1. \E h : IsRun(h)
    <3>. HIDE DEF IsRun
    <3>. QED  BY <1>7
  <2>. HIDE DEF IsRun
  <2>. QED  BY <2>1
<1>. HIDE DEF g
<1>9. g[0] = base /\ DOMAIN g = 0 .. N /\ g = [n \in 0 .. N |-> g[n]]
  BY <1>1, <1>8
<1>10. ASSUME NEW n \in 1 .. N PROVE g[n] = Step(g[n - 1], n)
  <2>1. n \in 0 .. N /\ n # 0
    BY <1>1
  <2>. QED  BY <1>8, <2>1
<1>11. g \in [0 .. N -> D]
  <2>. DEFINE T == {n \in 0 .. N : g[n] \in D}
  <2>1. 0 \in T
    BY <1>1, <1>2, <1>9
  <2>2. ASSUME NEW n \in 1 .. N, n - 1 \in T PROVE n \in T
    <3>1. n \in 0 .. N
      BY <1>1
    <3>. QED  BY <1>3, <1>10, <2>2, <3>1
  <2>3. \A n \in 0 .. N : n \in T
    <3>. HIDE DEF T
    <3>. QED  BY <1>1, <2>1, <2>2, UpTo
  <2>. QED  BY <1>9, <2>3
<1>. QED  BY <1>4, <1>9, <1>10, <1>11 DEF N, D, base, Step

\* Dropping repeats loses no line.
LEMMA OnceKeeps ==
  ASSUME NEW D, NEW text \in Seq(D)
  PROVE  Once(text) \in Seq(D) /\ ToSet(Once(text)) = ToSet(text)
<1>. DEFINE N == Len(text)
<1>1. PICK g : /\ g \in [0 .. N -> Seq(D)] /\ g[0] = <<>>
               /\ \A n \in 1 .. N : g[n] = AddNew(g[n - 1], text[n])
               /\ Once(text) = g[N]
  BY OnceIs
<1>2. N \in Nat
  OBVIOUS
<1>. DEFINE T == {n \in 0 .. N : ToSet(g[n]) = {text[i] : i \in 1 .. n}}
<1>3. 0 \in T
  BY <1>1 DEF ToSet
<1>4. ASSUME NEW n \in 1 .. N, n - 1 \in T PROVE n \in T
  <2>. DEFINE r == g[n - 1]
              a == text[n]
  <2>1. n \in 0 .. N /\ n - 1 \in 0 .. N /\ r \in Seq(D) /\ a \in D /\ g[n] = AddNew(r, a)
    BY <1>1
  <2>2. ToSet(r) = {text[i] : i \in 1 .. n - 1}
    BY <1>4
  <2>3. \A i \in 1 .. n : i = n \/ i \in 1 .. n - 1
    OBVIOUS
  <2>4. {text[i] : i \in 1 .. n} = {text[i] : i \in 1 .. n - 1} \cup {a}
    BY <2>3
  <2>. HIDE DEF r, a
  <2>5. ToSet(AddNew(r, a)) = ToSet(r) \cup {a}
    <3>1. CASE Contains(r, a)
      BY <2>1, <3>1 DEF AddNew, Contains, ToSet
    <3>2. CASE ~Contains(r, a)
      <4>1. AddNew(r, a) = Append(r, a)
        BY <3>2 DEF AddNew
      <4>2. /\ DOMAIN Append(r, a) = 1 .. Len(r) + 1 /\ Append(r, a)[Len(r) + 1] = a
            /\ \A i \in 1 .. Len(r) : Append(r, a)[i] = r[i]
            /\ DOMAIN r = 1 .. Len(r) /\ Len(r) \in Nat
        BY <2>1
      <4>3. \A i \in 1 .. Len(r) + 1 : i = Len(r) + 1 \/ i \in 1 .. Len(r)
        BY <4>2
      <4>. QED  BY <4>1, <4>2, <4>3 DEF ToSet
    <3>. QED  BY <3>1, <3>2
  <2>. QED  BY <2>1, <2>2, <2>4, <2>5
<1>5. N \in T
  <2>1. \A n \in 0 .. N : n \in T
    <3>. HIDE DEF T, N
    <3>. QED  BY <1>2, <1>3, <1>4, UpTo
  <2>2. N \in 0 .. N
    BY <1>2
  <2>. QED  BY <2>1, <2>2
<1>6. ToSet(text) = {text[i] : i \in 1 .. N}
  BY DEF ToSet
<1>7. N \in 0 .. N
  BY <1>2
<1>. QED  BY <1>1, <1>5, <1>6, <1>7

Bare(text) == {StripLine(text[i]) : i \in DOMAIN text}

\* A text with as many stripped lines as lines repeats none of them.
LEMMA BareOnce ==
  ASSUME NEW text \in Seq(Line), Cardinality(Bare(text)) = Len(text)
  PROVE  \A i, k \in DOMAIN text : StripLine(text[i]) = StripLine(text[k]) => i = k
<1>. DEFINE f == [i \in 1 .. Len(text) |-> StripLine(text[i])]
            S == 1 .. Len(text)
<1>1. DOMAIN text = S /\ \A i \in S : f[i] = StripLine(text[i])
  OBVIOUS
<1>2. f \in Surjection(S, Bare(text))
  BY DEF Surjection, Bare
<1>3. IsFiniteSet(S) /\ Cardinality(S) = Len(text)
  <2>. DEFINE n == Len(text)
  <2>1. n \in Nat
    OBVIOUS
  <2>. HIDE DEF n
  <2>2. IsFiniteSet(1 .. n) /\ Cardinality(1 .. n) = n
    <3>1. 1 \in Int /\ n \in Int
      BY <2>1
    <3>2. IsFiniteSet(1 .. n) /\ Cardinality(1 .. n) = IF 1 > n THEN 0 ELSE n - 1 + 1
      BY <3>1, FS_Interval
    <3>. QED  BY <2>1, <3>2
  <2>. QED  BY <2>2 DEF n
<1>. HIDE DEF f, S
<1>4. f \in Injection(S, Bare(text))
  BY <1>2, <1>3, FS_SurjSameCardinalityImpliesInj
<1>. QED  BY <1>1, <1>4 DEF Injection, IsInjective

\* What a rule's text may keep and must drop.
KeepsSides(b, c, t, m) ==
  /\ (c \ b) \cup (t \ b) \subseteq m
  /\ m \cap ((b \ c) \cup (b \ t)) = {}

\* The stripped lines of a text are those of its lines.
LEMMA BareIs ==
  ASSUME NEW text \in Seq(Line)
  PROVE  Bare(text) = {StripLine(n) : n \in Lines(text)}
BY DEF Bare, Lines, ToSet

\* Texts that are alike when stripped have the same stripped lines.
LEMMA SameStripped ==
  ASSUME NEW s \in Seq(Line), NEW t \in Seq(Line), Stripped(s) = Stripped(t)
  PROVE  Bare(s) = Bare(t)
<1>1. DOMAIN s = DOMAIN t
  BY DEF Stripped
<1>2. \A i \in DOMAIN s : StripLine(s[i]) = StripLine(t[i])
  BY <1>1 DEF Stripped
<1>. QED  BY <1>1, <1>2 DEF Bare

\* The whitespace rule keeps what each side changed.
LEMMA WhitespaceKeeps ==
  ASSUME NEW b \in Seq(Line), NEW c \in Seq(Line), NEW t \in Seq(Line),
         WhitespaceOnly(b, c, t) # Unresolved
  PROVE  KeepsSides(Bare(b), Bare(c), Bare(t), Bare(WhitespaceOnly(b, c, t).text))
<1>1. CASE Stripped(c) = Stripped(t)
  BY <1>1, SameStripped DEF WhitespaceOnly, Resolved, KeepsSides
<1>2. CASE Stripped(c) # Stripped(t) /\ Stripped(c) = Stripped(b)
  BY <1>2, SameStripped DEF WhitespaceOnly, Resolved, KeepsSides
<1>3. CASE Stripped(c) # Stripped(t) /\ Stripped(c) # Stripped(b) /\ Stripped(t) = Stripped(b)
  BY <1>3, SameStripped DEF WhitespaceOnly, Resolved, KeepsSides
<1>. QED  BY <1>1, <1>2, <1>3 DEF WhitespaceOnly

\* What is left of a text without its import lines.
LEMMA RestIs ==
  ASSUME NEW text \in Seq(Line)
  PROVE  Rest(text) \in Seq(Line) /\ Lines(Rest(text)) = Lines(text) \ ImportLines
<1>. DEFINE places == {i \in DOMAIN text : ~IsImport(text[i])}
<1>1. Rest(text) \in Seq(Line) /\ ToSet(Rest(text)) = {text[i] : i \in places}
  BY KeptSet DEF Rest
<1>. QED  BY <1>1 DEF Lines, ToSet, IsImport

\* The import rule keeps what each side changed.
LEMMA ImportsKeep ==
  ASSUME NEW b \in Seq(Line), NEW c \in Seq(Line), NEW t \in Seq(Line),
         ImportUnion(b, c, t) # Unresolved
  PROVE  /\ ImportUnion(b, c, t).text \in Seq(Line)
         /\ KeepsSides(Bare(b), Bare(c), Bare(t), Bare(ImportUnion(b, c, t).text))
<1>. DEFINE union == Ascending(ImportSet(c) \cup ImportSet(t))
            first == {i \in DOMAIN b : IsImport(b[i]) /\ \A j \in 1 .. i - 1 : ~IsImport(b[j])}
            spot == IF first = {} THEN 0 ELSE (CHOOSE i \in first : TRUE) - 1
            text == SubSeq(b, 1, spot) \o union \o Rest(SubSeq(b, spot + 1, Len(b)))
            R == Lines(b) \ ImportLines
<1>1. /\ Rest(c) = Rest(b) /\ Rest(t) = Rest(b)
      /\ ImportSet(b) \subseteq ImportSet(c) \cap ImportSet(t)
      /\ ImportUnion(b, c, t) = Resolved("import_union", text)
  BY DEF ImportUnion
<1>2. ImportUnion(b, c, t).text = text
  <2>. HIDE DEF text
  <2>. QED  BY <1>1 DEF Resolved
<1>3. union \in Seq(Line) /\ ToSet(union) = ImportSet(c) \cup ImportSet(t)
  <2>1. ImportSet(c) \cup ImportSet(t) \in SUBSET Nat /\ ImportSet(c) \cup ImportSet(t) \in SUBSET (1 .. 2)
        /\ ImportSet(c) \cup ImportSet(t) \in SUBSET Line
    BY DEF ImportSet, ImportLines, Line
  <2>2. IsFiniteSet(ImportSet(c) \cup ImportSet(t))
    <3>1. IsFiniteSet(1 .. 2)
      <4>1. 1 \in Int /\ 2 \in Int
        OBVIOUS
      <4>. QED  BY <4>1, FS_Interval
    <3>. QED  BY <2>1, <3>1, FS_Subset
  <2>3. union \in Seq(ImportSet(c) \cup ImportSet(t)) /\ ToSet(union) = ImportSet(c) \cup ImportSet(t)
    BY <2>1, <2>2, AscendingIs
  <2>. HIDE DEF union
  <2>. QED  BY <2>1, <2>3
<1>4. spot \in 0 .. Len(b) /\ \A j \in 1 .. spot : ~IsImport(b[j])
  <2>1. CASE first = {}
    BY <2>1
  <2>2. CASE first # {}
    <3>1. PICK i \in first : spot = i - 1
      BY <2>2
    <3>2. i \in 1 .. Len(b) /\ \A j \in 1 .. i - 1 : ~IsImport(b[j])
      BY <3>1
    <3>. HIDE DEF spot, first
    <3>. QED  BY <3>1, <3>2
  <2>. QED  BY <2>1, <2>2
<1>5. SubSeq(b, 1, spot) \in Seq(Line) /\ Len(SubSeq(b, 1, spot)) = spot
      /\ \A j \in 1 .. spot : SubSeq(b, 1, spot)[j] = b[j]
  <2>. HIDE DEF spot
  <2>. QED  BY <1>4
<1>6. SubSeq(b, spot + 1, Len(b)) \in Seq(Line) /\ Len(SubSeq(b, spot + 1, Len(b))) = Len(b) - spot
      /\ \A j \in 1 .. Len(b) - spot : SubSeq(b, spot + 1, Len(b))[j] = b[spot + j]
  <2>. HIDE DEF spot
  <2>. QED  BY <1>4
<1>. HIDE DEF spot, union, first
<1>. DEFINE h == SubSeq(b, 1, spot)
            e == SubSeq(b, spot + 1, Len(b))
<1>7. Rest(e) \in Seq(Line) /\ ToSet(Rest(e)) = ToSet(e) \ ImportLines
  BY <1>6, RestIs DEF Lines
<1>8. ToSet(h) \cup (ToSet(e) \ ImportLines) = R
  <2>1. ToSet(h) = {b[j] : j \in 1 .. spot}
    BY <1>5 DEF ToSet
  <2>2. ToSet(e) = {b[spot + j] : j \in 1 .. Len(b) - spot}
    <3>1. DOMAIN e = 1 .. Len(b) - spot
      BY <1>6 DEF e
    <3>2. \A j \in 1 .. Len(b) - spot : e[j] = b[spot + j]
      BY <1>6 DEF e
    <3>. QED  BY <3>1, <3>2 DEF ToSet
  <2>3. \A n \in R : \E j \in 1 .. Len(b) : b[j] = n
    BY DEF Lines, ToSet
  <2>4. \A j \in 1 .. Len(b) : j \in 1 .. spot \/ (j - spot \in 1 .. Len(b) - spot /\ spot + (j - spot) = j)
    BY <1>4
  <2>5. R \subseteq ToSet(h) \cup (ToSet(e) \ ImportLines)
    <3>. SUFFICES ASSUME NEW n \in R, n \notin ToSet(h) PROVE n \in ToSet(e)
      OBVIOUS
    <3>1. PICK j \in 1 .. Len(b) : b[j] = n
      BY <2>3
    <3>2. j - spot \in 1 .. Len(b) - spot /\ spot + (j - spot) = j
      BY <2>1, <2>4, <3>1
    <3>. QED  BY <2>2, <3>1, <3>2
  <2>6. ToSet(h) \subseteq R
    <3>1. \A j \in 1 .. spot : b[j] \in Lines(b) /\ b[j] \notin ImportLines
      BY <1>4 DEF Lines, ToSet, IsImport
    <3>. QED  BY <2>1, <3>1
  <2>7. ToSet(e) \subseteq Lines(b)
    <3>1. \A j \in 1 .. Len(b) - spot : spot + j \in 1 .. Len(b)
      BY <1>4
    <3>2. \A j \in 1 .. Len(b) : b[j] \in Lines(b)
      BY DEF Lines, ToSet
    <3>. QED  BY <2>2, <3>1, <3>2
  <2>. QED  BY <2>5, <2>6, <2>7
<1>. HIDE DEF h, e
<1>9. text = h \o union \o Rest(e) /\ h \in Seq(Line)
  BY <1>5 DEF h, e
<1>10. h \o union \in Seq(Line) /\ ToSet(h \o union) = ToSet(h) \cup ToSet(union)
  BY <1>3, <1>9, ConcatIs
<1>11. text \in Seq(Line) /\ ToSet(text) = R \cup ImportSet(c) \cup ImportSet(t)
  <2>1. text \in Seq(Line) /\ ToSet(text) = ToSet(h \o union) \cup ToSet(Rest(e))
    <3>. DEFINE u == h \o union
                v == Rest(e)
    <3>1. u \in Seq(Line) /\ v \in Seq(Line)
      BY <1>7, <1>10
    <3>. HIDE DEF u, v
    <3>2. u \o v \in Seq(Line) /\ ToSet(u \o v) = ToSet(u) \cup ToSet(v)
      BY <3>1, ConcatIs
    <3>. QED  BY <1>9, <3>2 DEF u, v
  <2>. HIDE DEF text, R
  <2>. QED  BY <1>3, <1>7, <1>8, <1>10, <2>1
<1>. HIDE DEF text
<1>12. /\ Lines(b) = R \cup ImportSet(b) /\ Lines(c) = R \cup ImportSet(c) /\ Lines(t) = R \cup ImportSet(t)
  <2>1. \A s \in {b, c, t} : Lines(Rest(s)) = Lines(s) \ ImportLines
    BY RestIs
  <2>. QED  BY <1>1, <2>1 DEF ImportSet
<1>13. Lines(b) \subseteq Lines(c) /\ Lines(b) \subseteq Lines(t) /\ Lines(text) = Lines(c) \cup Lines(t)
  BY <1>1, <1>11, <1>12 DEF Lines
<1>14. Bare(b) \subseteq Bare(c) /\ Bare(b) \subseteq Bare(t) /\ Bare(text) = Bare(c) \cup Bare(t)
  BY <1>11, <1>13, BareIs
<1>. QED  BY <1>2, <1>11, <1>14 DEF KeepsSides

\* The adjacent-edit rule does too, in texts that repeat no line.
LEMMA EditsKeep ==
  ASSUME NEW b \in Seq(Line), NEW c \in Seq(Line), NEW t \in Seq(Line),
         AdjacentEdit(b, c, t) # Unresolved,
         Cardinality(Bare(c)) = Len(c), Cardinality(Bare(t)) = Len(t)
  PROVE  KeepsSides(Bare(b), Bare(c), Bare(t), Bare(AdjacentEdit(b, c, t).text))
<1>. DEFINE C == Edited(b, c)
            T == Edited(b, t)
            text == [i \in DOMAIN b |-> IF i \in C THEN c[i] ELSE t[i]]
<1>1. Cardinality({Len(b), Len(c), Len(t)}) = 1 /\ C \cap T = {}
      /\ AdjacentEdit(b, c, t) = Resolved("adjacent_edit", text)
  BY DEF AdjacentEdit
<1>2. Len(b) = Len(c) /\ Len(b) = Len(t)
  <2>. DEFINE L == {Len(b), Len(c), Len(t)}
  <2>1. IsFiniteSet(L)
    <3>1. L = ({Len(b)} \cup {Len(c)}) \cup {Len(t)}
      OBVIOUS
    <3>. HIDE DEF L
    <3>. QED  BY <3>1, FS_Singleton, FS_Union
  <2>2. \E a : L = {a}
    <3>. HIDE DEF L
    <3>. QED  BY <1>1, <2>1, FS_Singleton DEF L
  <2>. QED  BY <2>2
<1>3. DOMAIN c = DOMAIN b /\ DOMAIN t = DOMAIN b
  <2>1. DOMAIN b = 1 .. Len(b) /\ DOMAIN c = 1 .. Len(c) /\ DOMAIN t = 1 .. Len(t)
    OBVIOUS
  <2>. QED  BY <1>2, <2>1
<1>4. /\ \A i \in DOMAIN b : i \in C <=> b[i] # c[i]
      /\ \A i \in DOMAIN b : i \in T <=> b[i] # t[i]
  BY DEF Edited
<1>5. \A i \in DOMAIN b : text[i] = IF i \in C THEN c[i] ELSE t[i]
  OBVIOUS
<1>6. DOMAIN text = DOMAIN b /\ AdjacentEdit(b, c, t).text = text
  BY <1>1 DEF Resolved
<1>. HIDE DEF text, C, T
<1>7. /\ \A i, k \in DOMAIN b : StripLine(c[i]) = StripLine(c[k]) => i = k
      /\ \A i, k \in DOMAIN b : StripLine(t[i]) = StripLine(t[k]) => i = k
  BY <1>3, BareOnce
<1>8. /\ \A m : m \in Bare(b) <=> \E i \in DOMAIN b : m = StripLine(b[i])
      /\ \A m : m \in Bare(c) <=> \E i \in DOMAIN b : m = StripLine(c[i])
      /\ \A m : m \in Bare(t) <=> \E i \in DOMAIN b : m = StripLine(t[i])
      /\ \A m : m \in Bare(text) <=> \E i \in DOMAIN b : m = StripLine(text[i])
  BY <1>3, <1>6 DEF Bare
<1>9. ASSUME NEW m \in Bare(c), m \notin Bare(b) PROVE m \in Bare(text)
  BY <1>4, <1>5, <1>8, <1>9
<1>10. ASSUME NEW m \in Bare(t), m \notin Bare(b) PROVE m \in Bare(text)
  BY <1>1, <1>4, <1>5, <1>8, <1>10
<1>11. ASSUME NEW m \in Bare(text), m \in Bare(b), m \notin Bare(c) PROVE FALSE
  <2>1. PICK i \in DOMAIN b : m = StripLine(text[i])
    BY <1>8
  <2>2. PICK j \in DOMAIN b : m = StripLine(b[j])
    BY <1>8, <1>11
  <2>3. i \notin C /\ j \in C
    BY <1>4, <1>5, <1>8, <1>11, <2>1, <2>2
  <2>4. text[i] = t[i] /\ j \notin T /\ t[j] = b[j]
    BY <1>1, <1>4, <1>5, <2>3
  <2>. QED  BY <1>7, <2>1, <2>2, <2>3, <2>4
<1>12. ASSUME NEW m \in Bare(text), m \in Bare(b), m \notin Bare(t) PROVE FALSE
  <2>1. PICK i \in DOMAIN b : m = StripLine(text[i])
    BY <1>8
  <2>2. PICK j \in DOMAIN b : m = StripLine(b[j])
    BY <1>8, <1>12
  <2>3. i \in C /\ j \in T
    BY <1>4, <1>5, <1>8, <1>12, <2>1, <2>2
  <2>4. text[i] = c[i] /\ j \notin C /\ c[j] = b[j]
    BY <1>1, <1>4, <1>5, <2>3
  <2>. QED  BY <1>7, <2>1, <2>2, <2>3, <2>4
<1>. QED  BY <1>6, <1>9, <1>10, <1>11, <1>12 DEF KeepsSides

\* And so does the rule for lines added on both sides.
LEMMA AdditionsKeep ==
  ASSUME NEW b \in Seq(Line), NEW c \in Seq(Line), NEW t \in Seq(Line),
         LineAdditionUnion(b, c, t) # Unresolved
  PROVE  KeepsSides(Bare(b), Bare(c), Bare(t), Bare(LineAdditionUnion(b, c, t).text))
<1>. DEFINE text == Once(b \o c \o t)
<1>1. /\ Lines(b) \subseteq Lines(c) \cap Lines(t)
      /\ LineAdditionUnion(b, c, t) = Resolved("line_addition_union", text)
  BY DEF LineAdditionUnion
<1>2. LineAdditionUnion(b, c, t).text = text
  BY <1>1 DEF Resolved
<1>3. b \o c \o t \in Seq(Line) /\ ToSet(b \o c \o t) = ToSet(b) \cup ToSet(c) \cup ToSet(t)
  <2>1. b \o c \in Seq(Line) /\ ToSet(b \o c) = ToSet(b) \cup ToSet(c)
    BY ConcatIs
  <2>. DEFINE u == b \o c
  <2>. HIDE DEF u
  <2>2. u \o t \in Seq(Line) /\ ToSet(u \o t) = ToSet(u) \cup ToSet(t)
    <3>1. u \in Seq(Line)
      BY <2>1 DEF u
    <3>. QED  BY <3>1, ConcatIs
  <2>. QED  BY <2>1, <2>2 DEF u
<1>4. text \in Seq(Line) /\ Lines(text) = Lines(b) \cup Lines(c) \cup Lines(t)
  BY <1>3, OnceKeeps DEF Lines
<1>. HIDE DEF text
<1>5. Bare(b) \subseteq Bare(c) /\ Bare(b) \subseteq Bare(t) /\ Bare(text) = Bare(b) \cup Bare(c) \cup Bare(t)
  BY <1>1, <1>4, BareIs
<1>. QED  BY <1>2, <1>5 DEF KeepsSides

\* Whichever rule resolves a conflict keeps what each side changed.
LEMMA RulesKeep ==
  ASSUME NEW b \in Seq(Line), NEW c \in Seq(Line), NEW t \in Seq(Line),
         TryResolve(b, c, t).rule # "none",
         Cardinality(Bare(c)) = Len(c), Cardinality(Bare(t)) = Len(t)
  PROVE  KeepsSides(Bare(b), Bare(c), Bare(t), Bare(TryResolve(b, c, t).text))
<1>1. CASE c = t
  BY <1>1 DEF TryResolve, Resolved, KeepsSides
<1>2. CASE c # t
  <2>. DEFINE tried == <<WhitespaceOnly(b, c, t), ImportUnion(b, c, t),
                         AdjacentEdit(b, c, t), LineAdditionUnion(b, c, t)>>
              hits == {i \in DOMAIN tried : tried[i] # Unresolved}
  <2>1. TryResolve(b, c, t) =
          IF hits = {} THEN Unresolved ELSE tried[CHOOSE i \in hits : \A j \in hits : i <= j]
    BY <1>2 DEF TryResolve
  <2>2. hits # {}
    BY <2>1 DEF Unresolved, Resolved
  <2>3. \E i \in hits : \A j \in hits : i <= j
    <3>1. hits \in SUBSET Nat
      OBVIOUS
    <3>. HIDE DEF hits
    <3>. QED  BY <2>2, <3>1, MinIsLeast
  <2>4. PICK i \in hits : TryResolve(b, c, t) = tried[i]
    <3>. HIDE DEF tried, hits
    <3>. QED  BY <2>1, <2>2, <2>3
  <2>5. \E r \in {WhitespaceOnly(b, c, t), ImportUnion(b, c, t),
                  AdjacentEdit(b, c, t), LineAdditionUnion(b, c, t)} :
          TryResolve(b, c, t) = r /\ r # Unresolved
    <3>1. i \in {1, 2, 3, 4} /\ tried[i] # Unresolved
      OBVIOUS
    <3>. QED  BY <2>4, <3>1
  <2>. QED  BY <2>5, WhitespaceKeeps, ImportsKeep, EditsKeep, AdditionsKeep
<1>. QED  BY <1>1, <1>2

-----------------------------------------------------------------------------
(* Lists of lists. *)

\* A list of lists is joined list by list.
LEMMA FlattenIs ==
  ASSUME NEW D, NEW seqs \in Seq(Seq(D))
  PROVE  \E g : /\ g \in [0 .. Len(seqs) -> Seq(D)] /\ g[0] = <<>>
                /\ \A n \in 1 .. Len(seqs) : g[n] = g[n - 1] \o seqs[n]
                /\ FlattenSeq(seqs) = g[Len(seqs)]
<1>. DEFINE N == Len(seqs)
            base == <<>>
            F == [e \in (1 .. N) \X Seq(D) |-> e[2] \o seqs[e[1]]]
            IsRun(h) == h = [i \in 1 .. N |-> IF i = 1 THEN seqs[i] ELSE h[i - 1] \o seqs[i]]
<1>1. N \in Nat /\ \A n \in 1 .. N : seqs[n] \in Seq(D)
  OBVIOUS
<1>2. base \in Seq(D)
  OBVIOUS
<1>. HIDE DEF N
<1>3. F \in [(1 .. N) \X Seq(D) -> Seq(D)] /\ \A n \in 1 .. N, r \in Seq(D) : F[<<n, r>>] = r \o seqs[n]
  <2>1. \A n \in 1 .. N, r \in Seq(D) : r \o seqs[n] \in Seq(D)
    BY <1>1
  <2>. QED  BY <2>1
<1>. HIDE DEF F, base
<1>4. PICK g : Follows(g, N, Seq(D), base, F)
  BY <1>1, <1>2, <1>3, Recursion
<1>5. g \in [0 .. N -> Seq(D)] /\ g[0] = <<>>
  BY <1>4 DEF Follows, base
<1>6. ASSUME NEW n \in 1 .. N PROVE g[n] = g[n - 1] \o seqs[n]
  <2>1. n - 1 \in 0 .. N
    BY <1>1
  <2>. QED  BY <1>3, <1>4, <1>5, <2>1 DEF Follows
<1>7. CASE N = 0
  <2>1. FlattenSeq(seqs) = <<>>
    BY <1>7 DEF FlattenSeq, N
  <2>. QED  BY <1>5, <1>6, <1>7, <2>1 DEF N
<1>8. CASE N # 0
  <2>. DEFINE f == [i \in 1 .. N |-> g[i]]
  <2>1. 1 \in 1 .. N
    BY <1>1, <1>8
  <2>2. g[1] = seqs[1]
    <3>1. g[1] = g[0] \o seqs[1]
      <4>1. 1 - 1 = 0
        OBVIOUS
      <4>. QED  BY <1>6, <2>1, <4>1
    <3>2. \A s \in Seq(D) : <<>> \o s = s
      OBVIOUS
    <3>. QED  BY <1>1, <1>5, <2>1, <3>1, <3>2
  <2>3. IsRun(f)
    <3>1. ASSUME NEW i \in 1 .. N PROVE f[i] = IF i = 1 THEN seqs[i] ELSE f[i - 1] \o seqs[i]
      <4>1. CASE i = 1
        BY <2>2, <4>1
      <4>2. CASE i # 1
        <5>1. i - 1 \in 1 .. N
          BY <1>1, <4>2
        <5>. QED  BY <1>6, <4>2, <5>1
      <4>. QED  BY <4>1, <4>2
    <3>. QED  BY <3>1
  <2>. DEFINE h == CHOOSE u : IsRun(u)
  <2>4. FlattenSeq(seqs) = h[N]
    <3>1. Len(seqs) # 0
      BY <1>8 DEF N
    <3>. QED  BY <3>1, Zenon DEF FlattenSeq, N
  <2>5. IsRun(h)
    <3>1. \E u : IsRun(u)
      <4>. HIDE DEF IsRun
      <4>. QED  BY <2>3
    <3>. HIDE DEF IsRun
    <3>. QED  BY <3>1
  <2>. HIDE DEF h
  <2>6. \A i \in 1 .. N : h[i] = IF i = 1 THEN seqs[i] ELSE h[i - 1] \o seqs[i]
    BY <2>5
  <2>. DEFINE T == {i \in 0 .. N : i > 0 => h[i] = g[i]}
  <2>7. 0 \in T
    BY <1>1
  <2>8. ASSUME NEW i \in 1 .. N, i - 1 \in T PROVE i \in T
    <3>1. CASE i = 1
      BY <1>1, <2>2, <2>6, <3>1
    <3>2. CASE i # 1
      <4>1. h[i - 1] = g[i - 1] /\ i \in 0 .. N
        BY <1>1, <2>8, <3>2
      <4>. QED  BY <1>6, <2>6, <3>2, <4>1
    <3>. QED  BY <3>1, <3>2
  <2>9. \A i \in 0 .. N : i \in T
    <3>. HIDE DEF T
    <3>. QED  BY <1>1, <2>7, <2>8, UpTo
  <2>10. h[N] = g[N]
    BY <1>1, <1>8, <2>9
  <2>. QED  BY <1>5, <1>6, <2>4, <2>10 DEF N
<1>. QED  BY <1>7, <1>8

\* Where the members of a list of lists stand once it is flat.
Laid(flat, seqs, n, row, col) ==
  /\ \A p \in 1 .. Len(flat) : /\ row[p] \in 1 .. n /\ col[p] \in 1 .. Len(seqs[row[p]])
                               /\ flat[p] = seqs[row[p]][col[p]]
  /\ \A r \in 1 .. n : \A c \in 1 .. Len(seqs[r]) : \E p \in 1 .. Len(flat) : row[p] = r /\ col[p] = c
  /\ \A p, q \in 1 .. Len(flat) : p < q <=> row[p] < row[q] \/ (row[p] = row[q] /\ col[p] < col[q])

\* Where each element of the joined list comes from: its row and its column.
LEMMA FlatIs ==
  ASSUME NEW D, NEW seqs \in Seq(Seq(D))
  PROVE  FlattenSeq(seqs) \in Seq(D) /\ \E row, col : Laid(FlattenSeq(seqs), seqs, Len(seqs), row, col)
<1>. DEFINE N == Len(seqs)
<1>1. PICK g : /\ g \in [0 .. N -> Seq(D)] /\ g[0] = <<>>
               /\ \A n \in 1 .. N : g[n] = g[n - 1] \o seqs[n]
               /\ FlattenSeq(seqs) = g[N]
  BY FlattenIs
<1>2. N \in Nat /\ \A n \in 1 .. N : seqs[n] \in Seq(D)
  OBVIOUS
<1>. HIDE DEF N
<1>. DEFINE Placed(n) == \E row, col : Laid(g[n], seqs, n, row, col)
            T == {n \in 0 .. N : Placed(n)}
<1>3. 0 \in T
  <2>1. Laid(g[0], seqs, 0, <<>>, <<>>)
    BY <1>1 DEF Laid
  <2>2. Placed(0)
    BY <2>1
  <2>. HIDE DEF Placed
  <2>. QED  BY <1>2, <2>2
<1>4. ASSUME NEW n \in 1 .. N, n - 1 \in T PROVE n \in T
  <2>. DEFINE u == g[n - 1]
              v == seqs[n]
              w == u \o v
              L == Len(u)
  <2>1. n - 1 \in 0 .. N /\ n \in 0 .. N /\ n \in Nat
    BY <1>2
  <2>2. u \in Seq(D) /\ v \in Seq(D) /\ g[n] = w /\ L \in Nat /\ Len(v) \in Nat
    <3>1. u \in Seq(D) /\ v \in Seq(D) /\ g[n] = w
      BY <1>1, <1>2, <2>1
    <3>. HIDE DEF u, v, w
    <3>. QED  BY <3>1
  <2>3. PICK row, col : Laid(u, seqs, n - 1, row, col)
    BY <1>4
  <2>4. Len(w) = L + Len(v) /\ (\A i \in 1 .. L : w[i] = u[i]) /\ \A i \in 1 .. Len(v) : w[L + i] = v[i]
    <3>. HIDE DEF u, v
    <3>. QED  BY <2>2, ConcatIs
  <2>. DEFINE row2 == [p \in 1 .. Len(w) |-> IF p <= L THEN row[p] ELSE n]
              col2 == [p \in 1 .. Len(w) |-> IF p <= L THEN col[p] ELSE p - L]
  <2>5. /\ \A p \in 1 .. Len(w) : p <= L => p \in 1 .. L /\ row2[p] = row[p] /\ col2[p] = col[p]
        /\ \A p \in 1 .. Len(w) : ~(p <= L) => /\ p - L \in 1 .. Len(v) /\ L + (p - L) = p
                                               /\ row2[p] = n /\ col2[p] = p - L
        /\ \A p \in 1 .. L : p \in 1 .. Len(w) /\ row2[p] = row[p] /\ col2[p] = col[p]
    <3>. HIDE DEF w, L
    <3>. QED  BY <2>2, <2>4
  <2>. HIDE DEF row2, col2, w, u, L
  <2>6. /\ \A p \in 1 .. L : /\ row[p] \in 1 .. n - 1 /\ col[p] \in 1 .. Len(seqs[row[p]])
                             /\ u[p] = seqs[row[p]][col[p]]
        /\ \A r \in 1 .. n - 1 : \A c \in 1 .. Len(seqs[r]) : \E p \in 1 .. L : row[p] = r /\ col[p] = c
        /\ \A p, q \in 1 .. L : p < q <=> row[p] < row[q] \/ (row[p] = row[q] /\ col[p] < col[q])
    BY <2>3 DEF Laid, L
  <2>7. ASSUME NEW p \in 1 .. Len(w)
        PROVE  row2[p] \in 1 .. n /\ col2[p] \in 1 .. Len(seqs[row2[p]]) /\ w[p] = seqs[row2[p]][col2[p]]
    <3>1. CASE p <= L
      <4>1. p \in 1 .. L /\ row2[p] = row[p] /\ col2[p] = col[p] /\ w[p] = u[p]
        BY <2>4, <2>5, <3>1
      <4>2. row[p] \in 1 .. n - 1 /\ \A r \in 1 .. n - 1 : r \in 1 .. n
        BY <2>1, <2>6, <4>1
      <4>. QED  BY <2>6, <4>1, <4>2
    <3>2. CASE ~(p <= L)
      <4>1. p - L \in 1 .. Len(v) /\ w[p] = v[p - L] /\ row2[p] = n /\ col2[p] = p - L
        BY <2>4, <2>5, <3>2
      <4>. QED  BY <2>1, <4>1
    <3>. QED  BY <3>1, <3>2
  <2>8. ASSUME NEW r \in 1 .. n, NEW c \in 1 .. Len(seqs[r])
        PROVE  \E p \in 1 .. Len(w) : row2[p] = r /\ col2[p] = c
    <3>1. CASE r \in 1 .. n - 1
      <4>1. PICK p \in 1 .. L : row[p] = r /\ col[p] = c
        BY <2>6, <3>1
      <4>. QED  BY <2>5, <4>1
    <3>2. CASE r = n
      <4>1. c \in 1 .. Len(v)
        BY <3>2
      <4>2. L + c \in 1 .. Len(w) /\ ~(L + c <= L) /\ (L + c) - L = c
        BY <2>2, <2>4, <4>1
      <4>. QED  BY <2>5, <3>2, <4>2
    <3>3. r \in 1 .. n - 1 \/ r = n
      BY <2>1
    <3>. QED  BY <3>1, <3>2, <3>3
  <2>9. ASSUME NEW p \in 1 .. Len(w), NEW q \in 1 .. Len(w)
        PROVE  p < q <=> row2[p] < row2[q] \/ (row2[p] = row2[q] /\ col2[p] < col2[q])
    <3>1. CASE p <= L /\ q <= L
      BY <2>5, <2>6, <3>1
    <3>2. CASE p <= L /\ ~(q <= L)
      <4>1. row2[p] \in 1 .. n - 1 /\ row2[q] = n
        BY <2>5, <2>6, <3>2
      <4>. QED  BY <2>1, <2>2, <3>2, <4>1
    <3>3. CASE ~(p <= L) /\ q <= L
      <4>1. row2[q] \in 1 .. n - 1 /\ row2[p] = n
        BY <2>5, <2>6, <3>3
      <4>. QED  BY <2>1, <2>2, <3>3, <4>1
    <3>4. CASE ~(p <= L) /\ ~(q <= L)
      BY <2>1, <2>2, <2>5, <3>4
    <3>. QED  BY <3>1, <3>2, <3>3, <3>4
  <2>10. Laid(w, seqs, n, row2, col2)
    BY <2>7, <2>8, <2>9 DEF Laid
  <2>11. Placed(n)
    BY <2>2, <2>10
  <2>. HIDE DEF Placed
  <2>. QED  BY <2>1, <2>11
<1>5. N \in T
  <2>. HIDE DEF T
  <2>1. \A n \in 0 .. N : n \in T
    BY <1>2, <1>3, <1>4, UpTo
  <2>2. N \in 0 .. N
    BY <1>2
  <2>. QED  BY <2>1, <2>2
<1>6. N \in 0 .. N
  BY <1>2
<1>. QED  BY <1>1, <1>5, <1>6 DEF N

\* Joining nothing, and joining one more list.
LEMMA FlattenStarts ==
  ASSUME NEW D, NEW seqs \in Seq(Seq(D)), NEW s \in Seq(D)
  PROVE  FlattenSeq(<<>>) = <<>> /\ FlattenSeq(Append(seqs, s)) = FlattenSeq(seqs) \o s
<1>1. FlattenSeq(<<>>) = <<>>
  BY DEF FlattenSeq
<1>. DEFINE t == Append(seqs, s)
            n == Len(seqs)
<1>2. t \in Seq(Seq(D)) /\ Len(t) = n + 1 /\ n \in Nat /\ t[n + 1] = s /\ \A i \in 1 .. n : t[i] = seqs[i]
  OBVIOUS
<1>. HIDE DEF t
<1>3. PICK g : /\ g \in [0 .. n -> Seq(D)] /\ g[0] = <<>>
               /\ \A i \in 1 .. n : g[i] = g[i - 1] \o seqs[i]
               /\ FlattenSeq(seqs) = g[n]
  BY FlattenIs
<1>4. PICK h : /\ h \in [0 .. n + 1 -> Seq(D)] /\ h[0] = <<>>
               /\ \A i \in 1 .. n + 1 : h[i] = h[i - 1] \o t[i]
               /\ FlattenSeq(t) = h[n + 1]
  <2>1. \E h : /\ h \in [0 .. Len(t) -> Seq(D)] /\ h[0] = <<>>
               /\ \A i \in 1 .. Len(t) : h[i] = h[i - 1] \o t[i]
               /\ FlattenSeq(t) = h[Len(t)]
    BY <1>2, FlattenIs
  <2>. QED  BY <1>2, <2>1
<1>. HIDE DEF n
<1>. DEFINE T == {i \in 0 .. n : g[i] = h[i]}
<1>5. 0 \in T
  BY <1>2, <1>3, <1>4
<1>6. ASSUME NEW i \in 1 .. n, i - 1 \in T PROVE i \in T
  <2>1. i \in 1 .. n + 1 /\ i \in 0 .. n
    BY <1>2
  <2>. QED  BY <1>2, <1>3, <1>4, <1>6, <2>1
<1>7. g[n] = h[n]
  <2>1. \A i \in 0 .. n : i \in T
    <3>. HIDE DEF T
    <3>. QED  BY <1>2, <1>5, <1>6, UpTo
  <2>. QED  BY <1>2, <2>1
<1>8. n + 1 \in 1 .. n + 1 /\ (n + 1) - 1 = n
  BY <1>2
<1>9. h[n + 1] = h[n] \o s
  BY <1>2, <1>4, <1>8
<1>. QED  BY <1>1, <1>3, <1>4, <1>7, <1>9 DEF t

\* The prefixes of a list.
LEMMA PrefixIs ==
  ASSUME NEW D, NEW s \in Seq(D)
  PROVE  /\ \A n \in 0 .. Len(s) : SubSeq(s, 1, n) \in Seq(D) /\ Len(SubSeq(s, 1, n)) = n
         /\ SubSeq(s, 1, 0) = <<>> /\ SubSeq(s, 1, Len(s)) = s
         /\ \A n \in 1 .. Len(s) : SubSeq(s, 1, n) = Append(SubSeq(s, 1, n - 1), s[n])
<1>1. \A n \in 0 .. Len(s) : SubSeq(s, 1, n) \in Seq(D) /\ Len(SubSeq(s, 1, n)) = n
  OBVIOUS
<1>2. SubSeq(s, 1, 0) = <<>> /\ SubSeq(s, 1, Len(s)) = s
  OBVIOUS
<1>3. ASSUME NEW n \in 1 .. Len(s) PROVE SubSeq(s, 1, n) = Append(SubSeq(s, 1, n - 1), s[n])
  <2>. DEFINE a == SubSeq(s, 1, n)
              b == SubSeq(s, 1, n - 1)
              c == Append(b, s[n])
  <2>1. n - 1 \in 0 .. Len(s) /\ n \in Nat /\ s[n] \in D
    OBVIOUS
  <2>2. a \in Seq(D) /\ Len(a) = n /\ \A i \in 1 .. n : a[i] = s[i]
    OBVIOUS
  <2>3. b \in Seq(D) /\ Len(b) = n - 1 /\ \A i \in 1 .. n - 1 : b[i] = s[i]
    OBVIOUS
  <2>. HIDE DEF a, b
  <2>4. c \in Seq(D) /\ Len(c) = n /\ c[n] = s[n] /\ \A i \in 1 .. n - 1 : c[i] = b[i]
    BY <2>1, <2>3
  <2>. HIDE DEF c
  <2>5. \A i \in 1 .. n : i = n \/ i \in 1 .. n - 1
    BY <2>1
  <2>6. \A i \in 1 .. n : a[i] = c[i]
    BY <2>2, <2>3, <2>4, <2>5
  <2>7. a = c
    BY <2>2, <2>4, <2>6
  <2>. QED  BY <2>7 DEF a, b, c
<1>. QED  BY <1>1, <1>2, <1>3

\* Joining two lists of lists one after the other.
LEMMA FlattenConcat ==
  ASSUME NEW D, NEW u \in Seq(Seq(D)), NEW v \in Seq(Seq(D))
  PROVE  FlattenSeq(u \o v) = FlattenSeq(u) \o FlattenSeq(v)
<1>. DEFINE N == Len(v)
            P(n) == SubSeq(v, 1, n)
            Ok(n) == FlattenSeq(u \o P(n)) = FlattenSeq(u) \o FlattenSeq(P(n))
            T == {n \in 0 .. N : Ok(n)}
<1>1. N \in Nat /\ (\A n \in 0 .. N : P(n) \in Seq(Seq(D))) /\ P(0) = <<>> /\ P(N) = v
      /\ \A n \in 1 .. N : P(n) = Append(P(n - 1), v[n]) /\ v[n] \in Seq(D)
  BY PrefixIs
<1>. HIDE DEF P, N
<1>2. FlattenSeq(u) \in Seq(D)
  BY FlatIs
<1>3. 0 \in T
  <2>1. u \o <<>> = u
    OBVIOUS
  <2>3. FlattenSeq(<<>>) = <<>>
    BY DEF FlattenSeq
  <2>4. 0 \in 0 .. N
    BY <1>1
  <2>2. FlattenSeq(u) \o <<>> = FlattenSeq(u)
    <3>. DEFINE w == FlattenSeq(u)
    <3>. HIDE DEF w
    <3>1. w \in Seq(D)
      BY <1>2 DEF w
    <3>2. w \o <<>> = w
      BY <3>1
    <3>. QED  BY <3>2 DEF w
  <2>5. P(0) = <<>>
    BY <1>1
  <2>6. Ok(0)
    BY <2>1, <2>2, <2>3, <2>5
  <2>. QED  BY <2>4, <2>6
<1>4. ASSUME NEW n \in 1 .. N, n - 1 \in T PROVE n \in T
  <2>. DEFINE p == P(n - 1)
              a == v[n]
              fu == FlattenSeq(u)
              fp == FlattenSeq(p)
  <2>9. n \in 0 .. N /\ n - 1 \in 0 .. N
    BY <1>1
  <2>1. n \in 0 .. N /\ p \in Seq(Seq(D)) /\ a \in Seq(D) /\ P(n) = Append(p, a)
        /\ FlattenSeq(u \o p) = fu \o fp
    BY <1>1, <1>4, <2>9
  <2>. HIDE DEF p, a
  <2>2. fp \in Seq(D)
    BY <2>1, FlatIs
  <2>3. u \o Append(p, a) = Append(u \o p, a) /\ u \o p \in Seq(Seq(D))
    <3>. DEFINE E == Seq(D)
    <3>1. p \in Seq(E) /\ a \in E /\ u \in Seq(E)
      BY <2>1
    <3>. HIDE DEF E
    <3>2. u \o Append(p, a) = Append(u \o p, a) /\ u \o p \in Seq(E)
      BY <3>1
    <3>. QED  BY <3>2 DEF E
  <2>4. FlattenSeq(Append(u \o p, a)) = FlattenSeq(u \o p) \o a
    <3>. DEFINE w == u \o p
    <3>1. w \in Seq(Seq(D))
      BY <2>3
    <3>. HIDE DEF w
    <3>2. FlattenSeq(Append(w, a)) = FlattenSeq(w) \o a
      BY <2>1, <3>1, FlattenStarts
    <3>. QED  BY <3>2 DEF w
  <2>5. FlattenSeq(Append(p, a)) = fp \o a
    BY <2>1, FlattenStarts
  <2>. HIDE DEF fu, fp
  <2>6. (fu \o fp) \o a = fu \o (fp \o a)
    <3>1. fu \in Seq(D)
      BY <1>2 DEF fu
    <3>. QED  BY <2>2, <3>1
  <2>7. FlattenSeq(u \o P(n)) = (fu \o fp) \o a
    BY <2>1, <2>3, <2>4
  <2>8. FlattenSeq(P(n)) = fp \o a
    BY <2>1, <2>5
  <2>10. Ok(n)
    BY <2>6, <2>7, <2>8 DEF fu
  <2>. QED  BY <2>9, <2>10
<1>5. N \in T
  <2>. HIDE DEF T
  <2>1. \A n \in 0 .. N : n \in T
    BY <1>1, <1>3, <1>4, UpTo
  <2>2. N \in 0 .. N
    BY <1>1
  <2>. QED  BY <2>1, <2>2
<1>. QED  BY <1>1, <1>5

\* Joining inside first or outside first makes no difference.
LEMMA FlattenTwice ==
  ASSUME NEW D, NEW seqs \in Seq(Seq(Seq(D)))
  PROVE  FlattenSeq(FlattenSeq(seqs)) = FlattenSeq([i \in DOMAIN seqs |-> FlattenSeq(seqs[i])])
<1>. DEFINE N == Len(seqs)
            M == [i \in DOMAIN seqs |-> FlattenSeq(seqs[i])]
            P(n) == SubSeq(seqs, 1, n)
            Q(n) == SubSeq(M, 1, n)
            T == {n \in 0 .. N : FlattenSeq(FlattenSeq(P(n))) = FlattenSeq(Q(n))}
<1>1. N \in Nat /\ (\A n \in 0 .. N : P(n) \in Seq(Seq(Seq(D)))) /\ P(0) = <<>> /\ P(N) = seqs
      /\ \A n \in 1 .. N : P(n) = Append(P(n - 1), seqs[n]) /\ seqs[n] \in Seq(Seq(D))
  BY PrefixIs
<1>2. M \in Seq(Seq(D)) /\ Len(M) = N /\ \A n \in 1 .. N : M[n] = FlattenSeq(seqs[n])
  <2>1. ASSUME NEW n \in 1 .. N PROVE FlattenSeq(seqs[n]) \in Seq(D)
    <3>. DEFINE s == seqs[n]
    <3>1. s \in Seq(Seq(D))
      OBVIOUS
    <3>. HIDE DEF s
    <3>2. FlattenSeq(s) \in Seq(D)
      BY <3>1, FlatIs
    <3>. QED  BY <3>2 DEF s
  <2>2. DOMAIN M = 1 .. N /\ N \in Nat
    OBVIOUS
  <2>3. \A n \in 1 .. N : M[n] = FlattenSeq(seqs[n])
    OBVIOUS
  <2>4. \A n \in 1 .. N : M[n] \in Seq(D)
    BY <2>1, <2>3
  <2>5. M = [n \in 1 .. N |-> M[n]]
    OBVIOUS
  <2>. HIDE DEF M, N
  <2>. DEFINE E == Seq(D)
  <2>6. M \in [1 .. N -> E]
    BY <2>4, <2>5
  <2>. HIDE DEF E
  <2>7. M \in Seq(E) /\ Len(M) = N
    BY <2>2, <2>6
  <2>. QED  BY <2>3, <2>7 DEF E
<1>. HIDE DEF M, N, P
<1>3. (\A n \in 0 .. N : Q(n) \in Seq(Seq(D))) /\ Q(0) = <<>> /\ Q(N) = M
      /\ \A n \in 1 .. N : Q(n) = Append(Q(n - 1), M[n]) /\ M[n] \in Seq(D)
  <2>1. \A n \in 1 .. Len(M) : M[n] \in Seq(D)
    BY <1>2
  <2>. QED  BY <1>2, <2>1, PrefixIs
<1>. HIDE DEF Q
<1>4. 0 \in T
  <2>1. FlattenSeq(<<>>) = <<>>
    BY DEF FlattenSeq
  <2>. QED  BY <1>1, <1>3, <2>1
<1>5. ASSUME NEW n \in 1 .. N, n - 1 \in T PROVE n \in T
  <2>. DEFINE p == P(n - 1)
              q == Q(n - 1)
              a == seqs[n]
              fp == FlattenSeq(p)
  <2>1. n \in 0 .. N /\ n - 1 \in 0 .. N
    BY <1>1
  <2>2. p \in Seq(Seq(Seq(D))) /\ a \in Seq(Seq(D)) /\ P(n) = Append(p, a) /\ q \in Seq(Seq(D))
        /\ Q(n) = Append(q, FlattenSeq(a)) /\ FlattenSeq(a) \in Seq(D)
        /\ FlattenSeq(fp) = FlattenSeq(q)
    BY <1>1, <1>2, <1>3, <1>5, <2>1
  <2>. HIDE DEF p, q, a
  <2>3. FlattenSeq(P(n)) = fp \o a /\ fp \in Seq(Seq(D))
    <3>. DEFINE E == Seq(D)
    <3>1. p \in Seq(Seq(E)) /\ a \in Seq(E)
      BY <2>2
    <3>. HIDE DEF E
    <3>2. FlattenSeq(Append(p, a)) = fp \o a /\ fp \in Seq(E)
      BY <3>1, FlattenStarts, FlatIs
    <3>. QED  BY <2>2, <3>2 DEF E
  <2>. HIDE DEF fp
  <2>4. FlattenSeq(fp \o a) = FlattenSeq(fp) \o FlattenSeq(a)
    BY <2>2, <2>3, FlattenConcat
  <2>5. FlattenSeq(Append(q, FlattenSeq(a))) = FlattenSeq(q) \o FlattenSeq(a)
    <3>. DEFINE b == FlattenSeq(a)
    <3>. HIDE DEF b
    <3>1. b \in Seq(D)
      BY <2>2 DEF b
    <3>2. FlattenSeq(Append(q, b)) = FlattenSeq(q) \o b
      BY <2>2, <3>1, FlattenStarts
    <3>. QED  BY <3>2 DEF b
  <2>6. FlattenSeq(FlattenSeq(P(n))) = FlattenSeq(Q(n))
    BY <2>2, <2>3, <2>4, <2>5
  <2>. QED  BY <2>1, <2>6
<1>6. N \in T
  <2>. HIDE DEF T
  <2>1. \A n \in 0 .. N : n \in T
    BY <1>1, <1>4, <1>5, UpTo
  <2>2. N \in 0 .. N
    BY <1>1
  <2>. QED  BY <2>1, <2>2
<1>. QED  BY <1>1, <1>3, <1>6 DEF M

\* Cutting a list into lists of one size.
LEMMA ByCountIs ==
  ASSUME NEW D, NEW group \in Seq(D), NEW size \in Nat, size > 0
  PROVE  /\ ByCount(group, size) \in Seq(Seq(D)) /\ FlattenSeq(ByCount(group, size)) = group
         /\ \A b \in ToSet(ByCount(group, size)) : Len(b) <= size /\ ToSet(b) \subseteq ToSet(group)
<1>. DEFINE L == Len(group)
            K == (L + size - 1) \div size
            upto(k) == Min({k * size, L})
            M == ByCount(group, size)
            Q(k) == SubSeq(M, 1, k)
<1>1. L \in Nat
  OBVIOUS
<1>2. K \in Nat /\ K * size >= L
  <2>. HIDE DEF L
  <2>. QED  BY <1>1
<1>3. ASSUME NEW k \in Nat PROVE k * size \in Nat /\ upto(k) = IF k * size <= L THEN k * size ELSE L
  <2>1. k * size \in Nat
    OBVIOUS
  <2>. QED  BY <1>1, <2>1, SmallerOfTwo
<1>4. M = [k \in 1 .. K |-> SubSeq(group, (k - 1) * size + 1, upto(k))]
  BY DEF ByCount
<1>. HIDE DEF upto, M, K
<1>5. ASSUME NEW k \in 1 .. K
      PROVE  /\ k - 1 \in Nat /\ (k - 1) * size \in Nat /\ k * size = (k - 1) * size + size
             /\ M[k] \in Seq(D) /\ Len(M[k]) <= size /\ ToSet(M[k]) \subseteq ToSet(group)
             /\ SubSeq(group, 1, upto(k - 1)) \o M[k] = SubSeq(group, 1, upto(k))
  <2>. DEFINE m == (k - 1) * size
  <2>1. k \in Nat /\ k - 1 \in Nat /\ m \in Nat /\ k * size = m + size
    BY <1>2
  <2>2. upto(k - 1) = (IF m <= L THEN m ELSE L) /\ upto(k) = IF m + size <= L THEN m + size ELSE L
    BY <1>3, <2>1
  <2>3. M[k] = SubSeq(group, m + 1, upto(k))
    BY <1>4
  <2>. HIDE DEF m
  <2>. DEFINE a == SubSeq(group, 1, upto(k - 1))
              b == SubSeq(group, m + 1, upto(k))
              c == SubSeq(group, 1, upto(k))
  <2>4. upto(k - 1) \in 0 .. L /\ upto(k) \in 0 .. L
    BY <1>1, <2>1, <2>2
  <2>5. a \in Seq(D) /\ Len(a) = upto(k - 1) /\ \A i \in 1 .. upto(k - 1) : a[i] = group[i]
    BY <2>4
  <2>6. c \in Seq(D) /\ Len(c) = upto(k) /\ \A i \in 1 .. upto(k) : c[i] = group[i]
    BY <2>4
  <2>7. b \in Seq(D) /\ Len(b) = upto(k) - upto(k - 1)
        /\ \A i \in 1 .. upto(k) - upto(k - 1) : b[i] = group[upto(k - 1) + i]
    <3>1. CASE m <= L
      <4>1. m + 1 \in Int /\ upto(k - 1) = m /\ m <= upto(k)
        BY <1>1, <2>1, <2>2, <3>1
      <4>2. b \in Seq(D) /\ Len(b) = upto(k) - m
        BY <2>1, <2>4, <4>1
      <4>3. \A i \in 1 .. upto(k) - m : b[i] = group[m + i]
        BY <2>1, <2>4, <4>1
      <4>. HIDE DEF b
      <4>. QED  BY <4>1, <4>2, <4>3
    <3>2. CASE ~(m <= L)
      <4>1. upto(k - 1) = L /\ upto(k) = L /\ m + 1 > L
        BY <1>1, <2>1, <2>2, <3>2
      <4>2. b = <<>>
        BY <1>1, <2>1, <4>1
      <4>3. <<>> \in Seq(D) /\ Len(<<>>) = 0
        OBVIOUS
      <4>. HIDE DEF b
      <4>. QED  BY <1>1, <4>1, <4>2, <4>3
    <3>. QED  BY <3>1, <3>2
  <2>. HIDE DEF a, b, c
  <2>8. upto(k) - upto(k - 1) \in 0 .. size
    BY <1>1, <2>1, <2>2
  <2>9. a \o b = c
    <3>. DEFINE w == a \o b
    <3>5. a \in Seq(D) /\ b \in Seq(D)
      BY <2>5, <2>7
    <3>1. w \in Seq(D) /\ Len(w) = Len(a) + Len(b)
          /\ (\A i \in 1 .. Len(a) : w[i] = a[i]) /\ \A i \in 1 .. Len(b) : w[Len(a) + i] = b[i]
      BY <3>5, ConcatIs
    <3>. HIDE DEF w
    <3>2. Len(w) = upto(k)
      BY <2>4, <2>5, <2>7, <3>1
    <3>3. ASSUME NEW i \in 1 .. upto(k) PROVE w[i] = c[i]
      <4>1. CASE i <= upto(k - 1)
        BY <2>4, <2>5, <2>6, <3>1, <4>1
      <4>2. CASE ~(i <= upto(k - 1))
        <5>1. i - upto(k - 1) \in 1 .. upto(k) - upto(k - 1) /\ upto(k - 1) + (i - upto(k - 1)) = i
          BY <2>4, <4>2
        <5>2. w[i] = b[i - upto(k - 1)]
          BY <2>5, <2>7, <3>1, <5>1
        <5>. QED  BY <2>6, <2>7, <5>1, <5>2
      <4>. QED  BY <4>1, <4>2
    <3>4. w = c
      BY <2>6, <3>1, <3>2, <3>3
    <3>. QED  BY <3>4 DEF w
  <2>10. ToSet(b) \subseteq ToSet(group)
    <3>1. \A i \in 1 .. Len(b) : upto(k - 1) + i \in 1 .. L
      BY <2>4, <2>7
    <3>2. DOMAIN b = 1 .. Len(b) /\ DOMAIN group = 1 .. L
      BY <2>7
    <3>. QED  BY <2>7, <3>1, <3>2 DEF ToSet
  <2>11. M[k] = b
    BY <2>3 DEF b
  <2>12. SubSeq(group, 1, upto(k - 1)) \o M[k] = SubSeq(group, 1, upto(k))
    BY <2>9, <2>11 DEF a, c
  <2>13. M[k] \in Seq(D) /\ Len(M[k]) <= size /\ ToSet(M[k]) \subseteq ToSet(group)
    <3>1. Len(b) <= size
      BY <2>7, <2>8
    <3>. QED  BY <2>7, <2>10, <2>11, <3>1
  <2>. QED  BY <2>1, <2>12, <2>13 DEF m
<1>6. M \in Seq(Seq(D)) /\ Len(M) = K
  BY <1>2, <1>4, <1>5
<1>7. (\A k \in 0 .. K : Q(k) \in Seq(Seq(D))) /\ Q(0) = <<>> /\ Q(K) = M
      /\ \A k \in 1 .. K : Q(k) = Append(Q(k - 1), M[k])
  BY <1>6, PrefixIs
<1>. HIDE DEF Q
<1>. DEFINE T == {k \in 0 .. K : FlattenSeq(Q(k)) = SubSeq(group, 1, upto(k))}
<1>8. 0 \in T
  <2>1. FlattenSeq(<<>>) = <<>>
    BY DEF FlattenSeq
  <2>2. upto(0) = 0 /\ 0 \in 0 .. K
    BY <1>1, <1>2, <1>3
  <2>3. SubSeq(group, 1, 0) = <<>>
    BY PrefixIs
  <2>. QED  BY <1>7, <2>1, <2>2, <2>3
<1>9. ASSUME NEW k \in 1 .. K, k - 1 \in T PROVE k \in T
  <2>1. k \in 0 .. K /\ k - 1 \in 0 .. K
    BY <1>2
  <2>2. FlattenSeq(Append(Q(k - 1), M[k])) = FlattenSeq(Q(k - 1)) \o M[k]
    <3>1. Q(k - 1) \in Seq(Seq(D)) /\ M[k] \in Seq(D)
      BY <1>5, <1>7, <2>1
    <3>. QED  BY <3>1, FlattenStarts
  <2>3. FlattenSeq(Q(k - 1)) = SubSeq(group, 1, upto(k - 1))
    BY <1>9
  <2>. QED  BY <1>5, <1>7, <2>1, <2>2, <2>3
<1>10. K \in T
  <2>. HIDE DEF T
  <2>1. \A k \in 0 .. K : k \in T
    BY <1>2, <1>8, <1>9, UpTo
  <2>2. K \in 0 .. K
    BY <1>2
  <2>. QED  BY <2>1, <2>2
<1>11. upto(K) = L
  <2>1. upto(K) = (IF K * size <= L THEN K * size ELSE L) /\ K * size \in Nat
    BY <1>2, <1>3
  <2>. QED  BY <1>1, <1>2, <2>1
<1>12. FlattenSeq(M) = group
  <2>1. SubSeq(group, 1, L) = group
    BY PrefixIs
  <2>. QED  BY <1>7, <1>10, <1>11, <2>1
<1>13. ToSet(M) = {M[k] : k \in 1 .. K}
  <2>1. DOMAIN M = 1 .. K
    BY <1>2, <1>6
  <2>. QED  BY <2>1 DEF ToSet
<1>. QED  BY <1>5, <1>6, <1>12, <1>13 DEF M

\* The least and the greatest of a finite set of numbers.
LEMMA LeastIs ==
  ASSUME NEW S \in SUBSET Nat, IsFiniteSet(S), S # {}
  PROVE  /\ Min(S) \in S /\ \A k \in S : Min(S) <= k
         /\ Max(S) \in S /\ \A k \in S : k <= Max(S)
<1>. DEFINE s == Ascending(S)
            n == Cardinality(S)
<1>1. s \in Seq(S) /\ Len(s) = n /\ n \in Nat /\ ToSet(s) = S
      /\ \A i, k \in 1 .. n : i < k <=> s[i] < s[k]
  BY AscendingIs
<1>. HIDE DEF s, n
<1>2. \A k \in S : \E i \in 1 .. n : s[i] = k
  BY <1>1 DEF ToSet
<1>3. n >= 1
  <2>1. PICK k \in S : TRUE
    OBVIOUS
  <2>2. PICK i \in 1 .. n : s[i] = k
    BY <1>2
  <2>. QED  BY <1>1
<1>4. s[1] \in S /\ s[n] \in S /\ 1 \in 1 .. n /\ n \in 1 .. n
  BY <1>1, <1>3
<1>5. ASSUME NEW k \in S PROVE s[1] <= k /\ k <= s[n]
  <2>1. PICK i \in 1 .. n : s[i] = k
    BY <1>2
  <2>2. i = 1 \/ 1 < i
    OBVIOUS
  <2>3. i = n \/ i < n
    BY <1>1
  <2>4. s[1] \in Nat /\ s[n] \in Nat /\ k \in Nat
    BY <1>4
  <2>. QED  BY <1>1, <1>4, <2>1, <2>2, <2>3, <2>4
<1>6. \E m \in S : \A k \in S : m <= k
  BY <1>4, <1>5
<1>7. \E m \in S : \A k \in S : m >= k
  <2>1. \A k \in S : s[n] >= k
    BY <1>4, <1>5
  <2>. QED  BY <1>4, <2>1
<1>8. Min(S) \in S /\ \A k \in S : Min(S) <= k
  BY <1>6 DEF Min
<1>9. Max(S) \in S /\ \A k \in S : Max(S) >= k
  BY <1>7 DEF Max
<1>10. \A k \in S : k <= Max(S)
  BY <1>9
<1>. QED  BY <1>8, <1>9, <1>10

\* A list that is not empty, taken apart.
LEMMA FrontLast ==
  ASSUME NEW D, NEW s \in Seq(D), s # <<>>
  PROVE  /\ Front(s) \in Seq(D) /\ Last(s) \in D /\ s = Append(Front(s), Last(s))
         /\ Len(Front(s)) = Len(s) - 1 /\ Len(s) - 1 \in Nat
<1>1. Len(s) \in Nat /\ Len(s) >= 1
  OBVIOUS
<1>2. Len(s) \in 1 .. Len(s) /\ Len(s) - 1 \in 0 .. Len(s)
  BY <1>1
<1>3. SubSeq(s, 1, Len(s)) = s /\ SubSeq(s, 1, Len(s)) = Append(SubSeq(s, 1, Len(s) - 1), s[Len(s)])
      /\ SubSeq(s, 1, Len(s) - 1) \in Seq(D) /\ Len(SubSeq(s, 1, Len(s) - 1)) = Len(s) - 1
  BY <1>2, PrefixIs
<1>. QED  BY <1>1, <1>3 DEF Front, Last

\* A list with one more element.
LEMMA AppendIs ==
  ASSUME NEW D, NEW s \in Seq(D), NEW e \in D
  PROVE  /\ Append(s, e) \in Seq(D) /\ Len(Append(s, e)) = Len(s) + 1 /\ Append(s, e)[Len(s) + 1] = e
         /\ \A i \in 1 .. Len(s) : Append(s, e)[i] = s[i]
         /\ ToSet(Append(s, e)) = ToSet(s) \cup {e}
<1>. DEFINE t == Append(s, e)
            n == Len(s)
<1>1. t \in Seq(D) /\ Len(t) = n + 1 /\ t[n + 1] = e /\ n \in Nat /\ (\A i \in 1 .. n : t[i] = s[i])
      /\ DOMAIN t = 1 .. n + 1 /\ DOMAIN s = 1 .. n
  OBVIOUS
<1>. HIDE DEF t
<1>2. \A i \in 1 .. n + 1 : i \in 1 .. n \/ i = n + 1
  BY <1>1
<1>3. (\A i \in 1 .. n : i \in 1 .. n + 1) /\ n + 1 \in 1 .. n + 1
  BY <1>1
<1>. HIDE DEF n
<1>4. ToSet(t) = ToSet(s) \cup {e}
  BY <1>1, <1>2, <1>3 DEF ToSet
<1>. QED  BY <1>1, <1>4 DEF t, n

\* The joined list has the elements of all the lists.
LEMMA FlatSet ==
  ASSUME NEW D, NEW seqs \in Seq(Seq(D))
  PROVE  ToSet(FlattenSeq(seqs)) = UNION {ToSet(b) : b \in ToSet(seqs)}
<1>. DEFINE flat == FlattenSeq(seqs)
<1>1. PICK row, col : Laid(flat, seqs, Len(seqs), row, col)
  BY FlatIs
<1>2. flat \in Seq(D)
  BY FlatIs
<1>. HIDE DEF flat
<1>3. DOMAIN flat = 1 .. Len(flat) /\ DOMAIN seqs = 1 .. Len(seqs)
  BY <1>2
<1>4. \A r \in 1 .. Len(seqs) : DOMAIN seqs[r] = 1 .. Len(seqs[r])
  OBVIOUS
<1>5. ASSUME NEW p \in 1 .. Len(flat) PROVE flat[p] \in UNION {ToSet(b) : b \in ToSet(seqs)}
  <2>1. row[p] \in 1 .. Len(seqs) /\ col[p] \in 1 .. Len(seqs[row[p]]) /\ flat[p] = seqs[row[p]][col[p]]
    BY <1>1 DEF Laid
  <2>2. flat[p] \in ToSet(seqs[row[p]])
    BY <1>4, <2>1 DEF ToSet
  <2>3. seqs[row[p]] \in ToSet(seqs)
    BY <1>3, <2>1 DEF ToSet
  <2>. QED  BY <2>2, <2>3
<1>6. ASSUME NEW r \in 1 .. Len(seqs), NEW c \in 1 .. Len(seqs[r]) PROVE seqs[r][c] \in ToSet(flat)
  <2>1. PICK p \in 1 .. Len(flat) : row[p] = r /\ col[p] = c
    BY <1>1 DEF Laid
  <2>2. flat[p] = seqs[row[p]][col[p]]
    BY <1>1 DEF Laid
  <2>. QED  BY <1>3, <2>1, <2>2 DEF ToSet
<1>7. ToSet(flat) \subseteq UNION {ToSet(b) : b \in ToSet(seqs)}
  BY <1>3, <1>5 DEF ToSet
<1>8. UNION {ToSet(b) : b \in ToSet(seqs)} \subseteq ToSet(flat)
  <2>. SUFFICES ASSUME NEW r \in 1 .. Len(seqs), NEW v \in ToSet(seqs[r]) PROVE v \in ToSet(flat)
    <3>1. ASSUME NEW b \in ToSet(seqs), NEW v \in ToSet(b) PROVE v \in ToSet(flat)
      <4>1. PICK r \in 1 .. Len(seqs) : b = seqs[r]
        BY <1>3 DEF ToSet
      <4>. QED  BY <3>1, <4>1
    <3>. QED  BY <3>1
  <2>1. PICK c \in 1 .. Len(seqs[r]) : v = seqs[r][c]
    BY <1>4 DEF ToSet
  <2>. QED  BY <1>6, <2>1
<1>9. ToSet(flat) = UNION {ToSet(b) : b \in ToSet(seqs)}
  BY <1>7, <1>8
<1>. QED  BY <1>9 DEF flat

\* The last list stands at the end.
LEMMA FlattenLast ==
  ASSUME NEW D, NEW seqs \in Seq(Seq(D)), seqs # <<>>
  PROVE  FlattenSeq(seqs) = FlattenSeq(Front(seqs)) \o Last(seqs)
<1>. DEFINE E == Seq(D)
            f == Front(seqs)
            l == Last(seqs)
<1>1. f \in Seq(E) /\ l \in E /\ seqs = Append(f, l)
  BY FrontLast
<1>. HIDE DEF f, l
<1>2. FlattenSeq(Append(f, l)) = FlattenSeq(f) \o l
  BY <1>1, FlattenStarts
<1>. QED  BY <1>1, <1>2 DEF f, l

-----------------------------------------------------------------------------
(* Batches within limits. *)

PutFits(x, out, i, put) ==
  /\ FlattenSeq(put) = Append(FlattenSeq(out), i)
  /\ \A b \in ToSet(put) :
       \/ b \in ToSet(out)
       \/ b = <<i>>
       \/ out # <<>> /\ b = Append(Last(out), i) /\ TokensOf(x, b) <= x.maxTokens
\* A file goes into the last batch where it fits, else into a new one.
LEMMA PutIs ==
  ASSUME NEW D, NEW out \in Seq(Seq(D)), NEW i \in D, NEW x
  PROVE  PutFile(x, out, i) \in Seq(Seq(D)) /\ PutFits(x, out, i, PutFile(x, out, i))
<1>. DEFINE E == Seq(D)
            f == Front(out)
            l == Last(out)
            flat == FlattenSeq(out)
            ff == FlattenSeq(f)
<1>0. out \in Seq(E) /\ <<i>> \in E /\ \A s \in E : Append(s, i) \in E /\ s \o <<i>> = Append(s, i)
  OBVIOUS
<1>1. flat \in E
  BY FlatIs
<1>2. CASE out # <<>> /\ TokensOf(x, Append(l, i)) <= x.maxTokens
  <2>1. PutFile(x, out, i) = Append(f, Append(l, i))
    BY <1>2 DEF PutFile
  <2>2. f \in Seq(E) /\ l \in E /\ out = Append(f, l)
    <3>. HIDE DEF E
    <3>. QED  BY <1>0, <1>2, FrontLast
  <2>3. flat = ff \o l /\ ff \in E
    <3>1. flat = ff \o l
      BY <1>2, FlattenLast
    <3>2. f \in Seq(Seq(D))
      BY <2>2
    <3>. HIDE DEF f
    <3>. QED  BY <3>1, <3>2, FlatIs
  <2>. HIDE DEF f, l, flat, E
  <2>. DEFINE m == Append(l, i)
  <2>4. m \in E
    BY <1>0, <2>2
  <2>5. FlattenSeq(Append(f, m)) = ff \o m
    <3>1. f \in Seq(Seq(D)) /\ m \in Seq(D)
      BY <2>2, <2>4 DEF E
    <3>. HIDE DEF m
    <3>. QED  BY <3>1, FlattenStarts
  <2>. HIDE DEF ff
  <2>6. ff \o Append(l, i) = Append(ff \o l, i)
    BY <2>2, <2>3 DEF E
  <2>7. Append(f, m) \in Seq(E) /\ ToSet(Append(f, m)) = ToSet(f) \cup {m} /\ ToSet(out) = ToSet(f) \cup {l}
    <3>. HIDE DEF m
    <3>. QED  BY <2>2, <2>4, AppendIs
  <2>8. PutFile(x, out, i) \in Seq(E) /\ FlattenSeq(PutFile(x, out, i)) = Append(flat, i)
    BY <2>1, <2>3, <2>5, <2>6, <2>7
  <2>9. \A b \in ToSet(PutFile(x, out, i)) : b \in ToSet(out) \/ b = m
    BY <2>1, <2>7
  <2>. QED  BY <1>2, <2>8, <2>9 DEF E, flat, l, PutFits
<1>3. CASE ~(out # <<>> /\ TokensOf(x, Append(l, i)) <= x.maxTokens)
  <2>1. PutFile(x, out, i) = Append(out, <<i>>)
    BY <1>3 DEF PutFile
  <2>. DEFINE m == <<i>>
  <2>2. m \in E
    BY <1>0
  <2>3. flat \o <<i>> = Append(flat, i)
    BY <1>0, <1>1
  <2>. HIDE DEF m, E
  <2>4. Append(out, m) \in Seq(E) /\ ToSet(Append(out, m)) = ToSet(out) \cup {m}
    BY <1>0, <2>2, AppendIs
  <2>5. FlattenSeq(Append(out, m)) = flat \o m
    BY <2>2, FlattenStarts DEF E
  <2>. HIDE DEF flat
  <2>6. PutFile(x, out, i) \in Seq(E) /\ FlattenSeq(PutFile(x, out, i)) = Append(flat, i)
    BY <2>1, <2>3, <2>4, <2>5 DEF m
  <2>7. \A b \in ToSet(PutFile(x, out, i)) : b \in ToSet(out) \/ b = m
    BY <2>1, <2>4 DEF m
  <2>. QED  BY <2>6, <2>7 DEF E, flat, m, PutFits
<1>. QED  BY <1>2, <1>3

Puts(g, x, group, Lists) ==
  /\ g \in [0 .. Len(group) -> Lists] /\ g[0] = <<>>
  /\ \A n \in 1 .. Len(group) : g[n] = PutFile(x, g[n - 1], group[n])
  /\ ByTokens(x, group) = g[Len(group)]
\* The files of a group are put one by one.
LEMMA TokensRun ==
  ASSUME NEW D0, NEW group \in Seq(D0), NEW x
  PROVE  \E g : Puts(g, x, group, Seq(Seq(D0)))
<1>. DEFINE N == Len(group)
            D == Seq(Seq(D0))
            base == <<>>
            Step(r, n) == PutFile(x, r, group[n])
            F == [e \in (1 .. N) \X D |-> Step(e[2], e[1])]
            IsRun(h) == h = [n \in 0 .. N |-> IF n = 0 THEN base ELSE Step(h[n - 1], n)]
<1>1. N \in Nat
  OBVIOUS
<1>2. base \in D
  OBVIOUS
<1>3. ASSUME NEW n \in 1 .. N, NEW r \in D PROVE Step(r, n) \in D
  <2>. DEFINE a == group[n]
  <2>1. a \in D0
    OBVIOUS
  <2>. HIDE DEF a
  <2>2. PutFile(x, r, a) \in Seq(Seq(D0))
    BY <2>1, PutIs
  <2>. QED  BY <2>2 DEF a
<1>. DEFINE g == CHOOSE h : IsRun(h)
<1>4. ByTokens(x, group) = g[N]
  BY Zenon DEF ByTokens
<1>. HIDE DEF N, D, base, Step
<1>5. F \in [(1 .. N) \X D -> D] /\ \A n \in 1 .. N, r \in D : F[<<n, r>>] = Step(r, n)
  BY <1>3
<1>. HIDE DEF F
<1>6. PICK f : Follows(f, N, D, base, F)
  BY <1>1, <1>2, <1>5, Recursion
<1>7. IsRun(f)
  <2>1. ASSUME NEW n \in 0 .. N PROVE f[n] = IF n = 0 THEN base ELSE Step(f[n - 1], n)
    <3>1. CASE n = 0
      BY <1>6, <3>1 DEF Follows
    <3>2. CASE n # 0
      <4>1. n \in 1 .. N /\ n - 1 \in 0 .. N
        BY <1>1, <3>2
      <4>. QED  BY <1>5, <1>6, <3>2, <4>1 DEF Follows
    <3>. QED  BY <3>1, <3>2
  <2>. QED  BY <1>6, <2>1 DEF Follows
<1>8. IsRun(g)
  <2>1. \E h : IsRun(h)
    <3>. HIDE DEF IsRun
    <3>. QED  BY <1>7
  <2>. HIDE DEF IsRun
  <2>. QED  BY <2>1
<1>. HIDE DEF g
<1>9. g[0] = base /\ DOMAIN g = 0 .. N /\ g = [n \in 0 .. N |-> g[n]]
  BY <1>1, <1>8
<1>10. ASSUME NEW n \in 1 .. N PROVE g[n] = Step(g[n - 1], n)
  <2>1. n \in 0 .. N /\ n # 0
    BY <1>1
  <2>. QED  BY <1>8, <2>1
<1>11. g \in [0 .. N -> D]
  <2>. DEFINE T == {n \in 0 .. N : g[n] \in D}
  <2>1. 0 \in T
    BY <1>1, <1>2, <1>9
  <2>2. ASSUME NEW n \in 1 .. N, n - 1 \in T PROVE n \in T
    <3>1. n \in 0 .. N
      BY <1>1
    <3>. QED  BY <1>3, <1>10, <2>2, <3>1
  <2>3. \A n \in 0 .. N : n \in T
    <3>. HIDE DEF T
    <3>. QED  BY <1>1, <2>1, <2>2, UpTo
  <2>. QED  BY <1>9, <2>3
<1>. QED  BY <1>4, <1>9, <1>10, <1>11 DEF N, D, base, Step, Puts

\* A group is cut, in order, into batches within the token limit or of one file.
LEMMA ByTokensIs ==
  ASSUME NEW D, NEW x, NEW group \in Seq(D)
  PROVE  /\ ByTokens(x, group) \in Seq(Seq(D)) /\ FlattenSeq(ByTokens(x, group)) = group
         /\ \A b \in ToSet(ByTokens(x, group)) :
              /\ b \in Seq(D) /\ Len(b) <= Len(group) /\ ToSet(b) \subseteq ToSet(group)
              /\ TokensOf(x, b) <= x.maxTokens \/ Len(b) = 1
<1>. DEFINE N == Len(group)
            Ok(b, n) == /\ b \in Seq(D) /\ Len(b) <= n
                        /\ TokensOf(x, b) <= x.maxTokens \/ Len(b) = 1
<1>1. PICK g : /\ g \in [0 .. N -> Seq(Seq(D))] /\ g[0] = <<>>
               /\ \A n \in 1 .. N : g[n] = PutFile(x, g[n - 1], group[n])
               /\ ByTokens(x, group) = g[N]
  <2>1. PICK g : Puts(g, x, group, Seq(Seq(D)))
    BY TokensRun
  <2>. QED  BY <2>1 DEF Puts
<1>. DEFINE Parted(n) == /\ FlattenSeq(g[n]) = SubSeq(group, 1, n)
                       /\ \A b \in ToSet(g[n]) : Ok(b, n)
            T == {n \in 0 .. N : Parted(n)}
<1>2. N \in Nat /\ N \in 0 .. N
  OBVIOUS
<1>3. 0 \in T
  <2>1. FlattenSeq(<<>>) = <<>> /\ ToSet(<<>>) = {}
    BY DEF FlattenSeq, ToSet
  <2>2. SubSeq(group, 1, 0) = <<>>
    BY PrefixIs
  <2>3. Parted(0)
    BY <1>1, <2>1, <2>2
  <2>. QED  BY <1>2, <2>3
<1>4. ASSUME NEW n \in 1 .. N, n - 1 \in T PROVE n \in T
  <2>. DEFINE out == g[n - 1]
              i == group[n]
  <2>1. n \in 0 .. N /\ n - 1 \in 0 .. N /\ i \in D /\ n - 1 < n /\ n \in Nat /\ n >= 1
    BY <1>2
  <2>2. out \in Seq(Seq(D)) /\ g[n] = PutFile(x, out, i) /\ Parted(n - 1)
    BY <1>1, <1>4, <2>1
  <2>. HIDE DEF out, i, Ok
  <2>3. /\ PutFile(x, out, i) \in Seq(Seq(D))
        /\ FlattenSeq(PutFile(x, out, i)) = Append(FlattenSeq(out), i)
        /\ \A b \in ToSet(PutFile(x, out, i)) :
             \/ b \in ToSet(out)
             \/ b = <<i>>
             \/ out # <<>> /\ b = Append(Last(out), i) /\ TokensOf(x, b) <= x.maxTokens
    <3>1. PutFile(x, out, i) \in Seq(Seq(D)) /\ PutFits(x, out, i, PutFile(x, out, i))
      BY <2>1, <2>2, PutIs
    <3>. QED  BY <3>1 DEF PutFits
  <2>4. FlattenSeq(g[n]) = SubSeq(group, 1, n)
    <3>1. SubSeq(group, 1, n) = Append(SubSeq(group, 1, n - 1), group[n])
      BY PrefixIs
    <3>. QED  BY <2>2, <2>3, <3>1 DEF out, i
  <2>5. ASSUME NEW b \in ToSet(g[n]) PROVE Ok(b, n)
    <3>1. CASE b \in ToSet(out)
      <4>1. Ok(b, n - 1)
        BY <2>2, <3>1 DEF out
      <4>2. Len(b) \in Nat
        BY <4>1 DEF Ok
      <4>. QED  BY <2>1, <4>1, <4>2 DEF Ok
    <3>2. CASE b = <<i>>
      BY <2>1, <3>2 DEF Ok
    <3>3. CASE out # <<>> /\ b = Append(Last(out), i) /\ TokensOf(x, b) <= x.maxTokens
      <4>. DEFINE l == Last(out)
                  E == Seq(D)
      <4>1. l \in E /\ out = Append(Front(out), l) /\ Front(out) \in Seq(E)
        <5>1. out \in Seq(E)
          BY <2>2
        <5>. HIDE DEF E
        <5>. QED  BY <3>3, <5>1, FrontLast
      <4>2. l \in ToSet(out)
        <5>. DEFINE f == Front(out)
        <5>. HIDE DEF E, l, f
        <5>1. ToSet(Append(f, l)) = ToSet(f) \cup {l}
          BY <4>1, AppendIs DEF f
        <5>. QED  BY <4>1, <5>1 DEF f
      <4>3. Ok(l, n - 1)
        BY <2>2, <4>2 DEF out
      <4>. HIDE DEF l
      <4>4. l \in Seq(D) /\ Len(l) <= n - 1 /\ Len(l) \in Nat
        BY <4>3 DEF Ok
      <4>5. b = Append(l, i)
        BY <3>3 DEF l
      <4>6. b \in Seq(D) /\ Len(b) = Len(l) + 1
        BY <2>1, <4>4, <4>5
      <4>. QED  BY <2>1, <3>3, <4>4, <4>6 DEF Ok
    <3>. QED  BY <2>2, <2>3, <3>1, <3>2, <3>3
  <2>. QED  BY <2>1, <2>4, <2>5
<1>5. N \in T
  <2>. HIDE DEF T
  <2>1. \A n \in 0 .. N : n \in T
    BY <1>2, <1>3, <1>4, UpTo
  <2>. QED  BY <1>2, <2>1
<1>. DEFINE t == ByTokens(x, group)
<1>6. t \in Seq(Seq(D)) /\ FlattenSeq(t) = SubSeq(group, 1, N) /\ \A b \in ToSet(t) : Ok(b, N)
  BY <1>1, <1>2, <1>5
<1>7. SubSeq(group, 1, N) = group
  BY PrefixIs
<1>. HIDE DEF t
<1>8. ToSet(FlattenSeq(t)) = UNION {ToSet(b) : b \in ToSet(t)}
  BY <1>6, FlatSet
<1>9. \A b \in ToSet(t) : ToSet(b) \subseteq ToSet(group)
  BY <1>6, <1>7, <1>8
<1>. QED  BY <1>6, <1>7, <1>9 DEF t

-----------------------------------------------------------------------------
(* The other answers: what a case's algorithm makes of it.                    *)
RulesAnswer(x) ==
  LET resolved == TryResolve(x.base, x.current, x.target)
  IN [rule |-> resolved.rule, text |-> resolved.text,
      written |-> IF resolved = Unresolved THEN x.current
                  ELSE WrittenText(resolved.rule, x.current, x.target)]
RulesCase == [base : Seq(Line), current : Seq(Line), target : Seq(Line)]

CaseInv ==
  /\ Asked("tree") => question.tree \in TreeCase /\ answer.tree = TreeVerdict(question.tree)
  /\ Asked("custom") => question.custom \in CustomCase /\ answer.custom = Retained(question.custom)
  /\ Asked("balance") => question.balance \in BalanceCase /\ answer.balance = CheckBalanced(question.balance)
  /\ Asked("audit") => question.audit \in AuditCase /\ answer.audit = AuditForkPreservation(question.audit)
  /\ Asked("risk") => question.risk \in RiskCase /\ answer.risk = RiskLevelOf(question.risk)
  /\ Asked("rating") => question.rating \in RatingCase /\ answer.rating = Rate(question.rating)
  /\ Asked("rules") => question.rules \in RulesCase /\ answer.rules = RulesAnswer(question.rules)
  /\ Asked("align") => question.align \in AlignCase /\ answer.align = AlignChunks(question.align)
  /\ Asked("stage") => question.stage \in StagedCase /\ answer.stage = StageContent(question.stage)
  /\ Asked("compress") => question.compress \in ChatCase /\ answer.compress = Compress(question.compress)
  /\ Asked("batches") => question.batches \in BatchCase /\ answer.batches = EnforceBatchLimits(question.batches)
  /\ Asked("draft") => question.draft \in DraftCase /\ answer.draft = DraftPlan(question.draft)

\* As in AnswersFit.
LEMMA CasesFit ==
  ASSUME CaseInv, [ToolsNext]_toolVars
  PROVE  CaseInv'
<1>1. CASE UNCHANGED <<question, answer>>
  BY <1>1 DEF CaseInv, Asked
<1>2. CASE AskAlgorithm
  <2>1. CASE AskTree
    <3>1. PICK x \in TreeCase : question' = [tree |-> x] /\ answer' = [tree |-> TreeVerdict(x)]
      BY <2>1, Zenon DEF AskTree, Ask
    <3>2. DOMAIN question' = {"tree"} /\ question'.tree = x /\ answer'.tree = TreeVerdict(x)
      BY <3>1
    <3>. QED  BY <3>2 DEF CaseInv, Asked
  <2>2. CASE AskCustom
    <3>1. PICK x \in CustomCase : question' = [custom |-> x] /\ answer' = [custom |-> Retained(x)]
      BY <2>2, Zenon DEF AskCustom, Ask
    <3>2. DOMAIN question' = {"custom"} /\ question'.custom = x /\ answer'.custom = Retained(x)
      BY <3>1
    <3>. QED  BY <3>2 DEF CaseInv, Asked
  <2>3. CASE AskBalance
    <3>1. PICK x \in BalanceCase : question' = [balance |-> x] /\ answer' = [balance |-> CheckBalanced(x)]
      BY <2>3, Zenon DEF AskBalance, Ask
    <3>2. DOMAIN question' = {"balance"} /\ question'.balance = x /\ answer'.balance = CheckBalanced(x)
      BY <3>1
    <3>. QED  BY <3>2 DEF CaseInv, Asked
  <2>4. CASE AskAudit
    <3>1. PICK x \in AuditCase : question' = [audit |-> x] /\ answer' = [audit |-> AuditForkPreservation(x)]
      BY <2>4, Zenon DEF AskAudit, Ask
    <3>2. DOMAIN question' = {"audit"} /\ question'.audit = x /\ answer'.audit = AuditForkPreservation(x)
      BY <3>1
    <3>. QED  BY <3>2 DEF CaseInv, Asked
  <2>5. CASE AskRisk
    <3>1. PICK x \in RiskCase : question' = [risk |-> x] /\ answer' = [risk |-> RiskLevelOf(x)]
      BY <2>5, Zenon DEF AskRisk, Ask
    <3>2. DOMAIN question' = {"risk"} /\ question'.risk = x /\ answer'.risk = RiskLevelOf(x)
      BY <3>1
    <3>. QED  BY <3>2 DEF CaseInv, Asked
  <2>6. CASE AskRating
    <3>1. PICK x \in RatingCase : question' = [rating |-> x] /\ answer' = [rating |-> Rate(x)]
      BY <2>6, Zenon DEF AskRating, Ask
    <3>2. DOMAIN question' = {"rating"} /\ question'.rating = x /\ answer'.rating = Rate(x)
      BY <3>1
    <3>. QED  BY <3>2 DEF CaseInv, Asked
  <2>7. CASE AskAlign
    <3>1. PICK x \in AlignCase : question' = [align |-> x] /\ answer' = [align |-> AlignChunks(x)]
      BY <2>7, Zenon DEF AskAlign, Ask
    <3>2. DOMAIN question' = {"align"} /\ question'.align = x /\ answer'.align = AlignChunks(x)
      BY <3>1
    <3>. QED  BY <3>2 DEF CaseInv, Asked
  <2>8. CASE AskStage
    <3>1. PICK x \in StagedCase : question' = [stage |-> x] /\ answer' = [stage |-> StageContent(x)]
      BY <2>8, Zenon DEF AskStage, Ask
    <3>2. DOMAIN question' = {"stage"} /\ question'.stage = x /\ answer'.stage = StageContent(x)
      BY <3>1
    <3>. QED  BY <3>2 DEF CaseInv, Asked
  <2>9. CASE AskCompress
    <3>1. PICK x \in ChatCase : question' = [compress |-> x] /\ answer' = [compress |-> Compress(x)]
      BY <2>9, Zenon DEF AskCompress, Ask
    <3>2. DOMAIN question' = {"compress"} /\ question'.compress = x /\ answer'.compress = Compress(x)
      BY <3>1
    <3>. QED  BY <3>2 DEF CaseInv, Asked
  <2>10. CASE AskBatches
    <3>1. PICK x \in BatchCase : question' = [batches |-> x] /\ answer' = [batches |-> EnforceBatchLimits(x)]
      BY <2>10, Zenon DEF AskBatches, Ask
    <3>2. DOMAIN question' = {"batches"} /\ question'.batches = x /\ answer'.batches = EnforceBatchLimits(x)
      BY <3>1
    <3>. QED  BY <3>2 DEF CaseInv, Asked
  <2>11. CASE AskDraft
    <3>1. PICK x \in DraftCase : question' = [draft |-> x] /\ answer' = [draft |-> DraftPlan(x)]
      BY <2>11, Zenon DEF AskDraft, Ask
    <3>2. DOMAIN question' = {"draft"} /\ question'.draft = x /\ answer'.draft = DraftPlan(x)
      BY <3>1
    <3>. QED  BY <3>2 DEF CaseInv, Asked
  <2>12. CASE AskRules
    <3>. DEFINE Lists == UNION {[1 .. n -> Line] : n \in 0 .. MaxLines}
    <3>1. Lists \subseteq Seq(Line)
      <4>1. 0 .. MaxLines \subseteq Nat
        BY MaxLinesAssumption
      <4>2. \A n \in Nat : [1 .. n -> Line] \subseteq Seq(Line)
        OBVIOUS
      <4>. QED  BY <4>1, <4>2
    <3>2. PICK base, current, target \in Lists :
             LET x == [base |-> base, current |-> current, target |-> target]
             IN question' = [rules |-> x] /\ answer' = [rules |-> RulesAnswer(x)]
      BY <2>12 DEF AskRules, Ask, RulesAnswer
    <3>. HIDE DEF Lists
    <3>. DEFINE x == [base |-> base, current |-> current, target |-> target]
    <3>3. x \in RulesCase
      BY <3>1, <3>2 DEF RulesCase
    <3>4. question' = [rules |-> x] /\ answer' = [rules |-> RulesAnswer(x)]
      BY <3>2
    <3>. HIDE DEF x
    <3>5. DOMAIN question' = {"rules"} /\ question'.rules = x /\ answer'.rules = RulesAnswer(x)
      BY <3>4
    <3>. QED  BY <3>3, <3>5 DEF CaseInv, Asked
  <2>13. CASE \/ AskRoute \/ AskForm \/ AskMerge \/ AskChoice \/ AskChunks \/ AskGate \/ AskFinish
    <3>1. DOMAIN question' \in {{"route"}, {"form"}, {"merge"}, {"choice"}, {"chunks"}, {"gate"}, {"finish"}}
      <4>1. CASE AskRoute
        BY <4>1 DEF AskRoute, Ask
      <4>2. CASE AskForm
        BY <4>2 DEF AskForm, Ask
      <4>3. CASE AskMerge
        BY <4>3 DEF AskMerge, Ask
      <4>4. CASE AskChoice
        BY <4>4 DEF AskChoice, Ask
      <4>5. CASE AskChunks
        BY <4>5 DEF AskChunks, Ask
      <4>6. CASE AskGate
        BY <4>6 DEF AskGate, Ask
      <4>7. CASE AskFinish
        BY <4>7 DEF AskFinish, Ask
      <4>. QED  BY <2>13, <4>1, <4>2, <4>3, <4>4, <4>5, <4>6, <4>7
    <3>2. \A a \in {"tree", "custom", "balance", "audit", "risk", "rating", "rules", "align", "stage", "compress",
                   "batches", "draft"} : a \notin DOMAIN question'
      BY <3>1
    <3>. QED  BY <3>2 DEF CaseInv, Asked
  <2>. QED  BY <1>2, <2>1, <2>2, <2>3, <2>4, <2>5, <2>6, <2>7, <2>8, <2>9, <2>10, <2>11, <2>12, <2>13 DEF AskAlgorithm
<1>3. CASE UNCHANGED toolVars
  BY <1>1, <1>3 DEF toolVars
<1>4. CASE ToolsNext /\ ~AskAlgorithm
  <2>1. \E p \in {"calls", "keys", "client", "dispute", "judge", "routing", "layers", "plan", "replay",
                  "web", "ledger", "memory"} : Only(p)
    BY <1>4, Zenon DEF ToolsNext
  <2>2. UNCHANGED <<question, answer>>
    BY <2>1 DEF Only, Algorithms
  <2>. QED  BY <1>1, <2>2
<1>. QED  BY <1>2, <1>3, <1>4

\* As in AnswersHold.
LEMMA CasesHold == ToolsSpec => []CaseInv
<1>1. ToolsInit => CaseInv
  BY DEF ToolsInit, CaseInv, Asked, Unasked
<1>2. CaseInv /\ [ToolsNext]_toolVars => CaseInv'
  BY CasesFit
<1>. QED  BY <1>1, <1>2, PTL DEF ToolsSpec

(* A text file both sides changed is never on the safe path by itself, a      *)
(* secret is a person's, and no rule about fields lowers a level: the risk    *)
(* scorer's decision for any score and size of a diff.  And the rescoring of  *)
(* the planner, which derives the level of a file of any history anew from    *)
(* the blended score, keeps both sides' changes off the safe path and         *)
(* markers with a person, also after the bump of central files, moves no      *)
(* level a rule about fields did not touch by more than one, and touches no   *)
(* more files than the budget allows; the bump of a central file that only    *)
(* upstream changed lowers no level: for any number of files, any central     *)
(* ones and any answer in the range the model is asked for.                   *)
THEOREM RiskIsWellPlaced == ToolsSpec => []RiskSound
<1>. DEFINE rank == [auto_safe |-> 0, auto_risky |-> 1, human_required |-> 2]
<1>1. CaseInv /\ Asked("risk") =>
        LET x == question.risk
        IN x.kind = "text" =>
             /\ x.category = "C" /\ ~x.forceSafe => answer.risk # "auto_safe"
             /\ x.path = "strict" /\ x.changed > 0 /\ ~x.takeTarget => answer.risk = "human_required"
             /\ \A demanded \in x.fields : rank[answer.risk] >= rank[demanded]
  <2>. SUFFICES ASSUME CaseInv, Asked("risk"), NEW x, x = question.risk, x.kind = "text"
                PROVE  /\ x.category = "C" /\ ~x.forceSafe => answer.risk # "auto_safe"
                       /\ x.path = "strict" /\ x.changed > 0 /\ ~x.takeTarget => answer.risk = "human_required"
                       /\ \A demanded \in x.fields : rank[answer.risk] >= rank[demanded]
    BY Zenon
  <2>1. x \in RiskCase /\ answer.risk = RiskLevelOf(x)
    BY DEF CaseInv
  <2>2. x \in AnyRisk
    <3>1. RawScores \subseteq Nat /\ {0, 3, 30} \subseteq Nat /\ {0} \subseteq Nat /\ {10, 95} \subseteq Nat
          /\ Demands \subseteq SUBSET {"auto_safe", "auto_risky", "human_required"}
      BY DEF RawScores, Demands
    <3>2. RiskCase \subseteq AnyRisk
      BY <3>1 DEF RiskCase, AnyRisk
    <3>. QED  BY <2>1, <3>2
  <2>. QED  BY <2>1, <2>2, RiskIsSound
<1>2. CaseInv /\ Asked("rating") => RatingSound(question.rating, answer.rating)
  <2>. SUFFICES ASSUME CaseInv, Asked("rating") PROVE RatingSound(question.rating, answer.rating)
    OBVIOUS
  <2>1. question.rating \in RatingCase /\ answer.rating = Rate(question.rating)
    BY DEF CaseInv
  <2>2. question.rating \in AnyRating
    <3>1. RiskCase \subseteq AnyRisk
      <4>1. RawScores \subseteq Nat /\ {0, 3, 30} \subseteq Nat /\ {0} \subseteq Nat /\ {10, 95} \subseteq Nat
            /\ Demands \subseteq SUBSET {"auto_safe", "auto_risky", "human_required"}
        BY DEF RawScores, Demands
      <4>. QED  BY <4>1 DEF RiskCase, AnyRisk
    <3>2. RatedFiles \subseteq AnyRated
      <4>. HIDE DEF AnyRisk, RiskCase
      <4>. QED  BY <3>1, RatedFilesAssumption DEF RatedFile, AnyRated
    <3>3. [1 .. 2 -> RatedFiles] \subseteq [1 .. 2 -> AnyRated]
      BY <3>2
    <3>. DEFINE Sized(n) == [files : [1 .. n -> AnyRated], label : Label, mode : {"off", "auto", "always"},
                             budget : Nat, central : SUBSET Nat]
    <3>4. {1, 2} \subseteq Nat /\ SUBSET {1} \subseteq SUBSET Nat
      OBVIOUS
    <3>5. question.rating \in Sized(2)
      BY <2>1, <3>3, <3>4 DEF RatingCase
    <3>6. AnyRating = UNION {Sized(n) : n \in Nat}
      BY DEF AnyRating
    <3>. HIDE DEF Sized
    <3>. QED  BY <3>5, <3>6
  <2>. QED  BY <2>1, <2>2, RatingIsSound
<1>3. CaseInv => RiskSound
  BY <1>1, <1>2, Zenon DEF RiskSound, RatingSound
<1>. QED  BY <1>3, CasesHold, PTL
(* A caller merged to one side of a changed signature and its definition to   *)
(* the other fail the verdict, as does a caller no one looked at or one TODO  *)
(* too many; a lost customization is seen; a loss of the fork's lines is      *)
(* never taken for nothing; and the balance check of a merged text agrees     *)
(* with taking out pairs until none is left, for brackets of any length.      *)
THEOREM TreeIssuesFound == ToolsSpec => []TreeIssuesFail
<1>1. CaseInv /\ Asked("tree") =>
        LET x == question.tree
            split == \E c \in x.changes, u \in x.uses :
                       u[1] = c[1] /\ {x.decisions[c[2]], x.decisions[u[2]]} = {"take_target", "take_current"}
        IN split \/ x.grepped # {} \/ x.todos > 30 => answer.tree = "fail"
  <2>. SUFFICES ASSUME CaseInv, Asked("tree"), NEW x, x = question.tree
                PROVE  (\E c \in x.changes, u \in x.uses :
                          u[1] = c[1] /\ {x.decisions[c[2]], x.decisions[u[2]]} = {"take_target", "take_current"})
                       \/ x.grepped # {} \/ x.todos > 30 => answer.tree = "fail"
    BY Zenon
  <2>1. x \in TreeCase /\ answer.tree = TreeVerdict(x)
    BY DEF CaseInv
  <2>2. x.todos \in Nat
    BY <2>1 DEF TreeCase
  <2>. QED  BY <2>1, <2>2, TreeCheckIsStrict
<1>2. CaseInv /\ Asked("custom") =>
        LET x == question.custom
        IN x.type = "file_exists" \/ (x.type = "line_retention" /\ x.baseline > 0)
             => (answer.custom => x.present)
  <2>. SUFFICES ASSUME CaseInv, Asked("custom"), NEW x, x = question.custom,
                       x.type = "file_exists" \/ (x.type = "line_retention" /\ x.baseline > 0), answer.custom
                PROVE  x.present
    BY Zenon
  <2>1. x \in CustomCase /\ answer.custom = Retained(x)
    BY DEF CaseInv
  <2>2. x.present \in BOOLEAN
    BY <2>1 DEF CustomCase
  <2>. QED  BY <2>1, <2>2, CustomIsStrict
<1>3. CaseInv /\ Asked("balance") =>
        LET text == question.balance.text
        IN /\ ToSet(text) \subseteq {"(", ")", "{", "}"} => (answer.balance <=> Unpaired(text) = <<>>)
           /\ Len(text) > 0 /\ text[1] = "line_comment" /\ "nl" \notin ToSet(text) => answer.balance
  <2>. SUFFICES ASSUME CaseInv, Asked("balance"), NEW x, x = question.balance
                PROVE  /\ ToSet(x.text) \subseteq {"(", ")", "{", "}"} =>
                            (answer.balance <=> Unpaired(x.text) = <<>>)
                       /\ Len(x.text) > 0 /\ x.text[1] = "line_comment" /\ "nl" \notin ToSet(x.text) => answer.balance
    BY Zenon
  <2>1. x \in BalanceCase /\ answer.balance = CheckBalanced(x)
    BY DEF CaseInv
  <2>2. x.text \in Seq(Token)
    BY <2>1, TextsAssumption DEF BalanceCase
  <2>3. ASSUME ToSet(x.text) \subseteq Bracket PROVE answer.balance <=> Unpaired(x.text) = <<>>
    <3>1. x.text \in Seq(Bracket)
      BY <2>2, <2>3 DEF ToSet
    <3>. QED  BY <2>1, <3>1, BracketsBalance
  <2>4. Bracket = {"(", ")", "{", "}"}
    BY DEF Bracket
  <2>5. Len(x.text) > 0 /\ x.text[1] = "line_comment" /\ "nl" \notin ToSet(x.text) => answer.balance
    BY <2>1, <2>2, CommentsBalance
  <2>. QED  BY <2>3, <2>4, <2>5
<1>4. CaseInv /\ Asked("audit") =>
        LET x == question.audit
            audited == ~x.escalated /\ x.diffed /\ (x.sensitive \/ x.changed > 50)
        IN audited /\ (x.upstreams \/ (x.kept = 0 /\ x.own = 10)) => answer.audit # "nothing"
  <2>. SUFFICES ASSUME CaseInv, Asked("audit"), NEW x, x = question.audit, ~x.escalated, x.diffed,
                       x.sensitive \/ x.changed > 50, x.upstreams \/ (x.kept = 0 /\ x.own = 10)
                PROVE  answer.audit # "nothing"
    BY Zenon
  <2>1. x \in AuditCase /\ answer.audit = AuditForkPreservation(x)
    BY DEF CaseInv
  <2>2. {0, 10, 60} \subseteq Nat /\ {4, 10} \subseteq Nat /\ {0, 3, 4, 10} \subseteq Nat
    OBVIOUS
  <2>3. x \in AnyAudit
    BY <2>1, <2>2 DEF AuditCase, AnyAudit
  <2>4. x.own = 10 => x.own >= MinDistinctive
    BY DEF MinDistinctive
  <2>. QED  BY <2>1, <2>3, <2>4, AuditIsStrict
<1>5. CaseInv => TreeIssuesFail
  BY <1>1, <1>2, <1>3, <1>4, Zenon DEF TreeIssuesFail
<1>. QED  BY <1>5, CasesHold, PTL

(* Every rule that settles a file keeps what either side added and drops what *)
(* a side removed and the other left alone: rule_resolver.py, for versions of *)
(* any length.                                                                *)
THEOREM RulesKeepTheirPromise == ToolsSpec => []RulesKeepBothSides
<1>1. ASSUME CaseInv, Asked("rules"), answer.rules.rule # "none",
             Cardinality(Bare(question.rules.current)) = Len(question.rules.current),
             Cardinality(Bare(question.rules.target)) = Len(question.rules.target)
      PROVE  KeepsSides(Bare(question.rules.base), Bare(question.rules.current),
                        Bare(question.rules.target), Bare(answer.rules.text))
  <2>. DEFINE x == question.rules
  <2>1. x \in RulesCase /\ answer.rules = RulesAnswer(x)
    BY <1>1 DEF CaseInv
  <2>2. /\ x.base \in Seq(Line) /\ x.current \in Seq(Line) /\ x.target \in Seq(Line)
        /\ answer.rules.text = TryResolve(x.base, x.current, x.target).text
        /\ TryResolve(x.base, x.current, x.target).rule # "none"
    BY <1>1, <2>1 DEF RulesCase, RulesAnswer
  <2>. QED  BY <1>1, <2>2, RulesKeep
<1>2. CaseInv => RulesKeepBothSides
  BY <1>1, Zenon DEF RulesKeepBothSides, Bare, KeepsSides
<1>. QED  BY <1>2, CasesHold, PTL

=============================================================================
