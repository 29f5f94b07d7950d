-------------------------- MODULE JudgeReviewPhase --------------------------
(***************************************************************************)
(* JUDGE_REVIEWING and GENERATING_REPORT (core/phases/judge_review.py,     *)
(* report_generation.py): the Judge reads the merged tree, disputes its    *)
(* verdict with the executor for at most MaxDisputes rounds, and the run   *)
(* is reported or handed to the user.  FAIL stands for every verdict that  *)
(* is not PASS.                                                            *)
(***************************************************************************)
EXTENDS MergeState

JudgeStart ==
  /\ Dispatch("JUDGE_REVIEWING")
  /\ Step([st EXCEPT !.current_phase = "judge_review"], "judge")
  /\ UNCHANGED <<round, work, queue, unseen>>

LastRound == round = MaxDisputes - 1

\* judge.run reads the tree as it is and replaces the verdict.
JudgeRun ==
  /\ pc = "judge"
  /\ \E verdict \in {"PASS", "FAIL"}, failed \in SUBSET File :
       /\ verdict = "PASS" => failed = {}
       /\ Step([st EXCEPT !.verdict = verdict, !.failed_files = failed],
               IF verdict = "PASS" \/ LastRound THEN "verdict" ELSE "judged")
  /\ unseen' = {}
  /\ UNCHANGED <<round, work, queue>>

NextRound == pc' = "judge" /\ round' = round + 1 /\ UNCHANGED <<work, queue>>

\* Mutant: what the executor has repaired counts as passed.
JudgeRepairTrusted ==
  /\ pc = "judged"
  /\ \E F \in SUBSET Repairable(st, File) : \E g \in Repairs(F) :
       Step([Record(st, g) EXCEPT !.verdict = "PASS"], "verdict") /\ Wrote(Landed(g))
  /\ UNCHANGED <<round, work, queue>>

\* The executor accepts every issue and repairs what no human decided.
JudgeRepair ==
  /\ pc = "judged"
  /\ \E F \in SUBSET Repairable(st, File) : \E g \in Repairs(F) :
       /\ st' = Record(st, g)
       /\ IF F = {} THEN UNCHANGED disk ELSE SaveInPhase
       /\ Wrote(Landed(g))
  /\ NextRound

\* All it could repair was decided by a human: the loop ends.
OnlyHumanDecided ==
  /\ pc = "judged" /\ \E f \in File : st.records[f] \in HumanSource
  /\ Step(st, "verdict")
  /\ UNCHANGED <<round, work, queue, unseen>>

\* The executor rebuts and the Judge withdraws, or maintains, its issues.
RebuttalAccepted ==
  /\ pc = "judged"
  /\ Step([st EXCEPT !.verdict = "PASS"], "verdict")
  /\ UNCHANGED <<round, work, queue, unseen>>

RebuttalRejected ==
  /\ pc = "judged"
  /\ st' = st /\ UNCHANGED <<disk, unseen>>
  /\ NextRound

-----------------------------------------------------------------------------
JudgeGateFails ==
  /\ pc = "verdict" /\ "gate" \in Env
  /\ Return(Goto(st, "AWAITING_HUMAN"))
  /\ UNCHANGED unseen

(* A PASS goes to the report unless the build check or the smoke tests     *)
(* turn it into a FAIL, or compiled files were merged without such a gate. *)
Passed ==
  /\ pc = "verdict" /\ st.verdict = "PASS"
  /\ \/ Return(Goto(st, "GENERATING_REPORT"))
     \/ Return([st EXCEPT !.verdict = "FAIL", !.status = "AWAITING_HUMAN"])
     \/ Return(Goto(st, "AWAITING_HUMAN"))
  /\ UNCHANGED unseen

NotPassed ==
  /\ pc = "verdict" /\ st.verdict = "FAIL"
  /\ Return(Goto(st, "AWAITING_HUMAN"))
  /\ UNCHANGED unseen

\* _assert_no_dropped_escalations, then COMPLETED whatever the report does.
Report ==
  /\ Dispatch("GENERATING_REPORT")
  /\ Return([st EXCEPT !.current_phase = "report", !.status = "COMPLETED",
                       !.dropped = {f \in File : st.records[f] = "esc"}])
  /\ UNCHANGED unseen

JudgeNext ==
  \/ JudgeStart \/ JudgeRun \/ JudgeRepair \/ OnlyHumanDecided \/ RebuttalAccepted
  \/ RebuttalRejected \/ JudgeGateFails \/ Passed \/ NotPassed \/ Report
=============================================================================
