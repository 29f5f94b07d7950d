--------------------------- MODULE AutoMergePhase ---------------------------
(***************************************************************************)
(* AUTO_MERGING (core/phases/auto_merge.py): replay and deterministic      *)
(* routing, the pre-pass gate on undecided items, the user's item choices, *)
(* the merge of the automatic files with its judge sub-review, and the     *)
(* accounting that decides where the run goes next.  The layers of the     *)
(* plan are one layer here.                                                *)
(***************************************************************************)
EXTENDS MergeState

Automatic(s) == PlanFiles(s, {"safe", "risky"})
Routable(s) == Automatic(s) \cap Unrecorded(s)

(* Deterministic routing of the files without a record, before any LLM     *)
(* call: cherry-picked with a commit, whatever the plan says of the file;  *)
(* or, of an automatic one, merged natively or copied, which the patch     *)
(* applier may refuse; left with conflict markers, or a binary changed on  *)
(* both sides, which the user resolves (a text file with markers changed   *)
(* on both sides is reset and kept aside for conflict analysis); untouched.*)
Routes(s) ==
  {way \in [Unrecorded(s) -> {"replay", "written", "refused", "user", "analysis", "keep"}] :
     \A f \in Unrecorded(s) :
       /\ way[f] = "replay" => f \notin BothChanged /\ s.rerun_round = 0 /\ ~s.replayed
       /\ way[f] = "analysis" => f \in BothChanged
       /\ way[f] \notin {"replay", "keep"} => f \in Automatic(s)}
Sent(s, way, to) == {f \in Unrecorded(s) : way[f] \in to}

Route(s, way) ==
  LET toUser    == Sent(s, way, {"user"})
      escalated == Sent(s, way, {"user", "refused"})
      treated   == Sent(s, way, {"replay", "written"}) \cup escalated
  IN  [Record(s, [f \in treated |-> IF f \in escalated THEN "esc" ELSE "auto"])
       EXCEPT !.current_phase = "auto_merge",
              !.removed  = s.removed \cup Sent(s, way, {"written", "refused", "user", "analysis"}),
              !.replayed = s.replayed \/ Sent(s, way, {"replay"}) # {},
              !.items = [f \in File |-> IF f \in toUser /\ s.items[f] = "none"
                                        THEN "open" ELSE s.items[f]]]

\* The pre-pass gives every HUMAN_REQUIRED file an item, with options A/B/C.
PrePassItems(s) ==
  [s EXCEPT !.items = [f \in File |->
     IF f \in PlanFiles(s, {"human"}) /\ s.items[f] = "none" THEN "letters"
     ELSE s.items[f]]]

(* Phase entry up to the pre-pass gate: with any item undecided the run    *)
(* goes back to the user before the first merge.  The files kept aside are *)
(* in a local list.                                                        *)
MergeStart ==
  /\ Dispatch("AUTO_MERGING")
  /\ \E way \in Routes(st) :
       LET routed == PrePassItems(Route(st, way))
       IN  /\ Wrote(Sent(st, way, {"replay", "written"}))
           /\ IF Open(routed) # {}
              THEN Return(Goto(routed, "AWAITING_HUMAN"))
              ELSE /\ Step(routed, "items")
                   /\ queue' = Sent(st, way, {"analysis"})
                   /\ UNCHANGED <<round, work>>

-----------------------------------------------------------------------------
\* The user's downgrade moves a HUMAN_REQUIRED file into an automatic batch.
Downgrade(s, safe) ==
  [s EXCEPT !.risk = [f \in File |->
     IF f \in PlanFiles(s, {"human"}) /\ s.items[f] = "auto"
     THEN IF f \in safe THEN "safe" ELSE "risky"
     ELSE s.risk[f]]]

ApplyItemChoices ==
  /\ pc = "items"
  /\ \E g \in [Actionable(st) -> DispatchOutcome], safe \in SUBSET File :
       /\ safe \subseteq {f \in PlanFiles(st, {"human"}) : st.items[f] = "auto"}
       /\ Step(Downgrade([Record(st, g) EXCEPT !.removed = @ \cup Actionable(st)], safe),
               "merge")
       /\ Wrote(Landed(g))
  /\ UNCHANGED <<round, work, queue>>

(* The batches of the layer run in parallel.  Category C is deferred to    *)
(* conflict analysis; a file that has a record keeps it; a file whose      *)
(* worker raised is logged and left without a record.  layer_files are the *)
(* files treated now and those decided before; when their number happens   *)
(* to be a multiple of ten, the state is saved.                            *)
ProcessOutcome(f) == IF f \in BothChanged THEN {"none"} ELSE {"auto", "esc", "none"}

MergeLayer ==
  /\ pc = "merge"
  /\ \E g \in [Routable(st) -> {"auto", "esc", "none"}] :
       LET layer_files == {f \in Routable(st) : g[f] # "none"}
                          \cup {f \in Automatic(st) : st.records[f] \notin Escalated
                                                      /\ st.records[f] # "none"}
       IN  /\ \A f \in Routable(st) : g[f] \in ProcessOutcome(f)
           /\ st' = Record(st, g) /\ pc' = IF layer_files = {} THEN "finish" ELSE "subreview"
           /\ UNCHANGED disk \/ (layer_files # {} /\ SaveInPhase)
           /\ work' = layer_files
           /\ Wrote({f \in Routable(st) : g[f] = "auto"})
  /\ UNCHANGED <<round, queue>>

-----------------------------------------------------------------------------
SubReviewApproves ==
  /\ pc = "subreview"
  /\ st' = st /\ pc' = "finish" /\ round' = 0 /\ work' = {}
  /\ IF round < MaxDisputes THEN SaveInPhase ELSE UNCHANGED disk
  /\ UNCHANGED <<queue, unseen>>

(* One dispute round: the executor repairs what it accepts and the Judge   *)
(* looks again, or it rebuts and the Judge keeps its verdict.              *)
SubReviewDispute ==
  /\ pc = "subreview" /\ round < MaxDisputes
  /\ \E F \in SUBSET Repairable(st, work) : \E g \in Repairs(F) :
       Step(Record(st, g), "subreview") /\ Wrote(Landed(g))
  /\ round' = round + 1
  /\ UNCHANGED <<work, queue>>

(* No consensus (rounds used up, or the executor's circuit breaker open):  *)
(* every blocking file gets a request unless it has one, and the run waits.*)
SubReviewExhausted ==
  /\ pc = "subreview"
  /\ \E blocking \in SUBSET work :
       Pause([st EXCEPT
         !.exhausted = TRUE, !.status = "AWAITING_HUMAN",
         !.requests = [f \in File |-> IF f \in blocking /\ st.requests[f] = "none"
                                      THEN "open" ELSE st.requests[f]]])
  /\ UNCHANGED unseen

-----------------------------------------------------------------------------
\* The gate commands failed max_consecutive_failures times in a row.
MergeGateFails ==
  /\ pc = "finish" /\ "gate" \in Env
  /\ Return(Goto(st, "AWAITING_HUMAN"))
  /\ UNCHANGED unseen

\* Files kept aside and files of non-replayable commits, if still undecided.
Unhandled(s) == (queue \cup NonReplayable) \cap Unrecorded(s)

LeakedUnlessAutomatic(s) ==   \* mutant: the category is not looked at
  (PlanFiles(s, RiskLevel) \cap Unrecorded(s)) \ Automatic(s)

\* O-B5-leak: a plan file that is in no bucket becomes an escalation.
Leaked(s) == {f \in PlanFiles(s, RiskLevel) \cap Unrecorded(s) :
                ~(f \in Automatic(s) /\ f \in BothChanged)}

\* Lock files of non-replayable commits are taken from upstream, as g says;
\* a write that fails is an escalation.
Accounted(g) ==
  LET s == Record(st, g)
  IN  Record(s, [f \in Leaked(s) |-> "esc"])

\* Upstream-only plan files whose content the sanity check compares.
DriftCandidates(s) == {f \in PlanFiles(s, RiskLevel) \ BothChanged :
                         s.records[f] \notin Escalated}

\* The files that no earlier step has kept aside: each may be a lock file.
Takeable == (NonReplayable \cap Unrecorded(st)) \ queue
Takes == [Takeable -> {"auto", "esc", "none"}]

(* Accounting of every plan file, then the sanity check: `drifted' files   *)
(* are rewritten to upstream, except the `stuck' ones, whose record is     *)
(* dropped.  What is unhandled goes to conflict analysis.                  *)
MergeFinish ==
  /\ pc = "finish"
  /\ \E g \in Takes :
     \E drifted \in SUBSET DriftCandidates(Accounted(g)) :
     \E stuck \in SUBSET drifted :
       LET unhandled == Unhandled(Record(st, g)) \cup stuck
           risky == \E f \in File : st.risk[f] = "risky"
       IN  /\ Return([Record(Accounted(g),
                             [f \in drifted |-> IF f \in stuck THEN "none" ELSE "auto"])
                EXCEPT !.pending_conflict = IF unhandled = {} THEN @ ELSE unhandled,
                       !.status = IF risky \/ unhandled # {} THEN "ANALYZING_CONFLICTS"
                                  ELSE "JUDGE_REVIEWING"])
           /\ Wrote(Landed(g) \cup (drifted \ stuck))

(* More files drifted than _B_CLASS_DRIFT_FATAL_THRESHOLD: the phase       *)
(* returns AWAITING_HUMAN as its outcome but makes no transition.          *)
DriftIsFatal ==
  /\ pc = "finish" /\ "drift" \in Env
  /\ \E g \in Takes :
     \E drifted \in (SUBSET DriftCandidates(Accounted(g))) \ {{}} :
       /\ Return([Accounted(g) EXCEPT !.pending_conflict = drifted])
       /\ Wrote(Landed(g))

AutoMergeNext ==
  \/ MergeStart \/ ApplyItemChoices \/ MergeLayer \/ SubReviewApproves
  \/ SubReviewDispute \/ SubReviewExhausted \/ MergeGateFails \/ MergeFinish
  \/ DriftIsFatal
=============================================================================
