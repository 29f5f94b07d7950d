------------------------------ MODULE WebBridge ------------------------------
(***************************************************************************)
(* The web UI's bridge (web/ws_bridge.py) and the loop that runs the       *)
(* orchestrator behind it (cli/commands/web.py).  Commands of the browsers *)
(* arrive between any two steps of the loop, whatever it is doing.  The    *)
(* run itself is reduced to the gates it stops at and the answers it       *)
(* takes; the Orchestrator module has the rest of it.                      *)
(***************************************************************************)
EXTENDS FiniteSets, Naturals

CONSTANTS
  AskedFile,    \* the files whose conflicts a person may be asked about
  MaxGates      \* bound: gates the run stops at

VARIABLES
  mode,       \* of the bridge: "setup" or "run"
  submitted,  \* _setup_complete
  serving,    \* what _serve, then _run_orchestrator, is doing
  status,     \* of the merge state: "busy", "awaiting_human" or "ended"
  review,     \* plan_human_review
  openItems,  \* pending_user_decisions without a choice, if any
  conflicts,  \* human_decision_requests
  hasVerdict, \* judge_verdict is there
  resolution, \* judge_resolution
  woken,      \* the events that are set
  cancelled,  \* _cancel_event
  gates       \* gates so far

Gate == {"plan", "conflicts", "judge"}
answers == <<review, openItems, conflicts, hasVerdict, resolution>>
setupVars == <<mode, submitted>>
loopVars == <<serving, status, gates>>
webVars == <<setupVars, loopVars, answers, woken, cancelled>>

Unanswered == {f \in AskedFile : conflicts[f] = "pending"}
HasConflicts == \E f \in AskedFile : conflicts[f] # "none"

\* A configuration on disk skips the form; a checkpoint may wait at a gate and
\* hold the answers of the session it was saved in.
WebInit ==
  /\ mode \in {"setup", "run"}
  /\ submitted = FALSE
  /\ serving = (IF mode = "setup" THEN "form" ELSE "connecting")
  /\ status \in (IF mode = "setup" THEN {"busy"} ELSE {"busy", "awaiting_human"})
  /\ review \in CASE mode = "setup" -> {"none"}
                  [] status = "busy" -> {"none", "approve"}
                  [] OTHER -> {"none", "approve", "reject", "modify"}
  /\ openItems \in (IF status = "busy" THEN {FALSE} ELSE BOOLEAN)
  /\ \E state \in (IF status = "busy" THEN {"none"} ELSE {"none", "pending", "decided"}) :
       conflicts = [f \in AskedFile |-> state]
  /\ hasVerdict \in (IF status = "busy" THEN {FALSE} ELSE BOOLEAN)
  /\ resolution \in (IF hasVerdict THEN {"none", "accept", "abort", "rerun"} ELSE {"none"})
  /\ woken = {} /\ cancelled = FALSE /\ gates = 0

-----------------------------------------------------------------------------
\* A form that is valid and could be applied; any other leaves all as it was.
SetupSubmit ==
  /\ mode = "setup" /\ ~submitted
  /\ submitted' = TRUE
  /\ UNCHANGED <<mode, loopVars, answers, woken, cancelled>>

TransitionToRun ==
  /\ serving = "form" /\ submitted
  /\ mode' = "run" /\ serving' = "connecting"
  /\ UNCHANGED <<submitted, status, gates, answers, woken, cancelled>>

\* A browser connects, or none does for 60 seconds.
Connected ==
  /\ serving = "connecting" /\ serving' = "running"
  /\ UNCHANGED <<setupVars, status, gates, answers, woken, cancelled>>

-----------------------------------------------------------------------------
(* The run: it stops at a gate, and has still to save and report before it    *)
(* returns; a failed verdict goes on to the human review phase instead.       *)
StopAt(gate, place) ==
  /\ serving = "running" /\ status = "busy" /\ gates < MaxGates
  /\ gates' = gates + 1
  /\ status' = "awaiting_human"
  /\ serving' = place
  /\ CASE gate = "plan" ->
            openItems' \in BOOLEAN /\ UNCHANGED <<review, conflicts, hasVerdict, resolution>>
       [] gate = "conflicts" ->
            /\ \E s \in SUBSET AskedFile \ {{}} :
                 conflicts' = [f \in AskedFile |-> IF f \in s THEN "pending" ELSE conflicts[f]]
            /\ UNCHANGED <<review, openItems, hasVerdict, resolution>>
       [] gate = "judge" ->
            hasVerdict' = TRUE /\ UNCHANGED <<review, openItems, conflicts, resolution>>
       [] OTHER -> hasVerdict' \in BOOLEAN /\ UNCHANGED <<review, openItems, conflicts, resolution>>
  /\ UNCHANGED <<setupVars, woken, cancelled>>

\* The budget may run out before the report on a verdict that passed.
RunStops ==
  \/ review = "none" /\ StopAt("plan", "returning")
  \/ StopAt("conflicts", "returning")
  \/ StopAt("judge", "running")
  \/ StopAt("budget", "returning")

RunEnds ==
  /\ serving = "running" /\ status = "busy"
  /\ status' = "ended" /\ serving' = "returning"
  /\ UNCHANGED <<setupVars, gates, answers, woken, cancelled>>

(* human_review.execute on what has been answered so far.                     *)
PausesFor ==
  \/ Unanswered # {}
  \/ hasVerdict /\ resolution = "none"
  \/ ~hasVerdict /\ ~HasConflicts /\ review \in {"none", "modify"}
  \/ ~hasVerdict /\ ~HasConflicts /\ review = "approve" /\ openItems

HumanReviewRuns ==
  /\ serving = "running" /\ status = "awaiting_human"
  /\ IF PausesFor THEN serving' = "returning" /\ UNCHANGED <<status, hasVerdict, resolution>>
     ELSE IF hasVerdict
     THEN IF resolution = "rerun"
          THEN status' = "busy" /\ hasVerdict' = FALSE /\ resolution' = "none" /\ UNCHANGED serving
          ELSE status' = "ended" /\ serving' = "returning" /\ UNCHANGED <<hasVerdict, resolution>>
     ELSE IF ~HasConflicts /\ review = "reject"
     THEN status' = "ended" /\ serving' = "returning" /\ UNCHANGED <<hasVerdict, resolution>>
     ELSE status' = "busy" /\ UNCHANGED <<serving, hasVerdict, resolution>>
  /\ UNCHANGED <<setupVars, gates, review, openItems, conflicts, woken, cancelled>>

RunReturns ==
  /\ serving = "returning" /\ serving' = "sending"
  /\ UNCHANGED <<setupVars, status, gates, answers, woken, cancelled>>

-----------------------------------------------------------------------------
\* The snapshot is sent; the loop ends or waits for the gate that is open.
OpenGate ==
  IF hasVerdict /\ resolution = "none" THEN "judge"
  ELSE IF Unanswered # {} THEN "conflicts" ELSE "plan"

AfterRun ==
  /\ serving = "sending"
  /\ serving' = IF status # "awaiting_human" \/ cancelled THEN "over" ELSE OpenGate
  /\ UNCHANGED <<setupVars, status, gates, answers, woken, cancelled>>

Wake ==
  /\ serving \in Gate /\ serving \in woken
  /\ woken' = woken \ {serving}
  /\ serving' = IF cancelled THEN "over" ELSE "resending"
  /\ UNCHANGED <<setupVars, status, gates, answers, cancelled>>

RunAgain ==
  /\ serving = "resending" /\ serving' = "running"
  /\ UNCHANGED <<setupVars, status, gates, answers, woken, cancelled>>

ServeNext ==
  \/ TransitionToRun \/ Connected \/ RunStops \/ RunEnds \/ HumanReviewRuns
  \/ RunReturns \/ AfterRun \/ Wake \/ RunAgain

-----------------------------------------------------------------------------
(* Commands.  In setup mode all but the form's are refused.                   *)
Accepted == mode = "run" /\ serving # "over"

\* Mutant: the last of several answers does not count as all of them.
DecisionsAllAtOnce(s) ==
  /\ Accepted /\ s # {} /\ s \subseteq {f \in AskedFile : conflicts[f] # "none"}
  /\ conflicts' = [f \in AskedFile |-> IF f \in s THEN "decided" ELSE conflicts[f]]
  /\ woken' = IF s = {f \in AskedFile : conflicts[f] # "none"} THEN woken \cup {"conflicts"} ELSE woken
  /\ UNCHANGED <<setupVars, loopVars, review, openItems, hasVerdict, resolution, cancelled>>

ApplyDecisions(s) ==
  /\ Accepted /\ s # {} /\ s \subseteq {f \in AskedFile : conflicts[f] # "none"}
  /\ conflicts' = [f \in AskedFile |-> IF f \in s THEN "decided" ELSE conflicts[f]]
  /\ woken' = IF Unanswered \subseteq s THEN woken \cup {"conflicts"} ELSE woken
  /\ UNCHANGED <<setupVars, loopVars, review, openItems, hasVerdict, resolution, cancelled>>

ApplyPlanReview ==
  /\ Accepted
  /\ review' \in {"approve", "reject", "modify"}
  /\ woken' = woken \cup {"plan"}
  /\ UNCHANGED <<setupVars, loopVars, openItems, conflicts, hasVerdict, resolution, cancelled>>

\* The items may be all or some; the plan is approved either way.
ApplyUserPlanDecisions ==
  /\ Accepted
  /\ openItems' \in {FALSE, openItems}
  /\ review' = "approve"
  /\ woken' = woken \cup {"plan"}
  /\ UNCHANGED <<setupVars, loopVars, conflicts, hasVerdict, resolution, cancelled>>

ApplyJudgeResolution ==
  /\ Accepted
  /\ resolution' \in {"accept", "abort", "rerun"}
  /\ woken' = woken \cup {"judge"}
  /\ UNCHANGED <<setupVars, loopVars, review, openItems, conflicts, hasVerdict, cancelled>>

\* Mutant: the judge's waiter sleeps on.
CancelWakesTwo ==
  /\ Accepted /\ status = "awaiting_human"
  /\ cancelled' = TRUE /\ woken' = woken \cup {"plan", "conflicts"}
  /\ UNCHANGED <<setupVars, loopVars, answers>>
HandleCancelRun ==
  /\ Accepted /\ status = "awaiting_human"
  /\ cancelled' = TRUE /\ woken' = Gate
  /\ UNCHANGED <<setupVars, loopVars, answers>>

Command ==
  \/ SetupSubmit \/ (\E s \in SUBSET AskedFile : ApplyDecisions(s)) \/ ApplyPlanReview
  \/ ApplyUserPlanDecisions \/ ApplyJudgeResolution \/ HandleCancelRun

WebNext == ServeNext \/ Command

-----------------------------------------------------------------------------
(* The loop never sleeps over an answer: where it waits for the verdict's     *)
(* resolution or for the conflicts' decisions and has them all, it is awake,  *)
(* however early, late, repeated or partial the answers came.                 *)
AnsweredGateWakes ==
  /\ serving = "judge" /\ resolution # "none" => "judge" \in woken
  /\ serving = "conflicts" /\ Unanswered = {} => "conflicts" \in woken

(* An accepted cancel ends the loop, whatever gate it waits at and whatever   *)
(* the run was about to do.                                                   *)
CancelEndsLoop == cancelled ~> (serving = "over")
=============================================================================
