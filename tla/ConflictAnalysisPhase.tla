------------------------ MODULE ConflictAnalysisPhase ------------------------
(***************************************************************************)
(* ANALYZING_CONFLICTS (core/phases/conflict_analysis.py): rules and the   *)
(* analyst give every file of the worklist an analysis, then a strategy is *)
(* executed, or the user is asked, file by file.                           *)
(***************************************************************************)
EXTENDS MergeState

(* HUMAN_REQUIRED and AUTO_RISKY files of the plan, decided or not, and    *)
(* what auto-merge left in pending_conflict_files, if still undecided.     *)
Worklist(s) == PlanFiles(s, {"human", "risky"}) \cup (s.pending_conflict \cap Unrecorded(s))

ConflictStart ==
  /\ Dispatch("ANALYZING_CONFLICTS")
  /\ Step([st EXCEPT !.current_phase = "conflict_analysis"], "analyze")
  /\ UNCHANGED <<round, work, queue, unseen>>

(* Every undecided file of the worklist is analysed or, for an upstream    *)
(* only binary, settled at once; decided ones may be analysed again.  The  *)
(* commit-stream rounds save checkpoints.                                  *)
Analyze ==
  /\ pc = "analyze"
  /\ \E settled \in SUBSET ((Worklist(st) \cap Unrecorded(st)) \ BothChanged),
        again \in SUBSET (Worklist(st) \ Unrecorded(st)) :
     \E g \in Repairs(settled) :
       LET s == [Record(st, g) EXCEPT
                   !.analyses = st.analyses \cup again
                                \cup ((Worklist(st) \cap Unrecorded(st)) \ settled)]
       IN  /\ st' = s /\ pc' = "strategy"
           /\ work' = s.analyses \cap Unrecorded(s)
           /\ IF Worklist(st) \cap NonReplayable = {} THEN UNCHANGED disk ELSE SaveInPhase
           /\ Wrote(Landed(g))
  /\ UNCHANGED <<round, queue>>

\* The strategy is ESCALATE_HUMAN: a new request replaces any older one.
AskHuman(f) ==
  /\ pc = "strategy" /\ f \in work
  /\ Step([st EXCEPT !.requests[f] = "open"], "strategy")
  /\ work' = work \ {f} /\ queue' = queue \cup {f}
  /\ UNCHANGED <<round, unseen>>

(* A semantic merge (saved at once), or one side taken; either may be      *)
(* refused by the patch applier, which leaves an escalation.               *)
Resolve(f) ==
  /\ pc = "strategy" /\ f \in work
  /\ \E g \in Repairs({f}), semantic \in BOOLEAN :
       /\ st' = Record(st, g) /\ pc' = pc
       /\ IF semantic THEN SaveInPhase ELSE UNCHANGED disk
       /\ Wrote(Landed(g))
  /\ work' = work \ {f}
  /\ UNCHANGED <<round, queue>>

ConflictFinishUnasked ==   \* mutant: needs_human is not looked at
  /\ pc = "strategy" /\ work = {}
  /\ Return(Goto(st, "JUDGE_REVIEWING"))
  /\ UNCHANGED unseen

ConflictFinish ==
  /\ pc = "strategy" /\ work = {}
  /\ Return(Goto(st, IF queue = {} THEN "JUDGE_REVIEWING" ELSE "AWAITING_HUMAN"))
  /\ UNCHANGED unseen

ConflictNext ==
  \/ ConflictStart \/ Analyze \/ ConflictFinish
  \/ \E f \in File : AskHuman(f) \/ Resolve(f)
=============================================================================
