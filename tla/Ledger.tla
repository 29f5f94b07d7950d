-------------------------------- MODULE Ledger --------------------------------
(***************************************************************************)
(* What a run has paid (tools/cost_tracker.py), as the orchestrator adds   *)
(* it up over processes: a tracker of this process's calls, the summary in *)
(* the merge state, the copy of it in the checkpoint, and the copy that    *)
(* each run() takes of the summary.                                        *)
(***************************************************************************)
EXTENDS Naturals

CONSTANTS
  MaxCost, MaxTokens,   \* the ceilings: max_cost_usd, max_total_tokens
  MaxSpent,             \* bound: what is paid in all
  MaxRuns               \* bound: runs, of all processes

VARIABLES
  doing,      \* "idle" between runs of a process, "loop", "phase", "over" or "dead"
  parked,     \* the status is AWAITING_HUMAN
  priorSummary,  \* _prior_cost_summary
  tracked,    \* the entries of the cost tracker
  summary,    \* state.cost_summary
  saved,      \* the summary in the checkpoint; absent before the first save
  paid,       \* what the calls really cost
  lost,       \* of it, what interrupted phases paid
  unsaved,    \* what this phase paid
  runs        \* runs so far

ledgerVars ==
  <<doing, parked, priorSummary, tracked, summary, saved, paid, lost, unsaved, runs>>

Nothing == [usd |-> 0, tokens |-> 0]
NoCheckpoint == [usd |-> 0, tokens |-> 0, absent |-> TRUE]
Plus(a, b) == [usd |-> a.usd + b.usd, tokens |-> a.tokens + b.tokens]

\* A call, of a model with or without a price.
Price == {"priced", "unpriced"}
CostOf(price) == [usd |-> IF price = "priced" THEN 1 ELSE 0, tokens |-> 1]

LedgerInit ==
  /\ doing = "idle" /\ parked = FALSE
  /\ priorSummary = Nothing /\ tracked = Nothing /\ summary = Nothing /\ saved = NoCheckpoint
  /\ paid = Nothing /\ lost = Nothing /\ unsaved = Nothing /\ runs = 0

\* _snapshot_telemetry, and the save that follows it.
SnapshotAndSave ==
  /\ summary' = Plus(priorSummary, tracked)
  /\ saved' = summary'
  /\ unsaved' = Nothing

-----------------------------------------------------------------------------
\* Mutant: what earlier processes paid is not taken over.
RunAfresh ==
  /\ doing = "idle" /\ doing' = "loop" /\ runs < MaxRuns /\ runs' = runs + 1
  /\ UNCHANGED <<parked, priorSummary, tracked, summary, saved, paid, lost, unsaved>>

\* Every run(), also the next one of the same process, copies the summary.
Run ==
  /\ doing = "idle" /\ doing' = "loop" /\ runs < MaxRuns
  /\ priorSummary' = summary /\ runs' = runs + 1
  /\ UNCHANGED <<parked, tracked, summary, saved, paid, lost, unsaved>>

OverCeiling == ~parked /\ priorSummary.usd + tracked.usd >= MaxCost

CeilingHalt ==
  /\ doing = "loop" /\ OverCeiling
  /\ SnapshotAndSave
  /\ parked' = TRUE /\ doing' = "idle"
  /\ UNCHANGED <<priorSummary, tracked, paid, lost, runs>>

StartPhase ==
  /\ doing = "loop" /\ ~OverCeiling
  /\ doing' = "phase"
  /\ UNCHANGED <<parked, priorSummary, tracked, summary, saved, paid, lost, unsaved, runs>>

(* The agents look at this process's spending only.  Human review calls       *)
(* models too, when it carries out decisions.                                 *)
OverBudget == tracked.tokens >= MaxTokens \/ tracked.usd >= MaxCost

Call(price) ==
  /\ doing = "phase" /\ ~OverBudget
  /\ paid.tokens < MaxSpent
  /\ tracked' = Plus(tracked, CostOf(price))
  /\ paid' = Plus(paid, CostOf(price))
  /\ unsaved' = Plus(unsaved, CostOf(price))
  /\ UNCHANGED <<doing, parked, priorSummary, summary, saved, lost, runs>>

\* RunBudgetExceeded, unless a caller on the way up catches every exception.
BudgetExceeded ==
  /\ doing = "phase" /\ OverBudget
  /\ SnapshotAndSave
  /\ parked' = TRUE /\ doing' = "idle"
  /\ UNCHANGED <<priorSummary, tracked, paid, lost, runs>>

\* A phase goes on to the next, waits for a person, ends the run or fails.
EndPhase ==
  /\ doing = "phase"
  /\ SnapshotAndSave
  /\ \/ doing' = "loop" /\ parked' \in BOOLEAN
     \/ doing' = "idle" /\ parked' = TRUE
     \/ doing' = "over" /\ UNCHANGED parked
  /\ UNCHANGED <<priorSummary, tracked, paid, lost, runs>>

(* A signal saves the state as it is, without a snapshot; the command line    *)
(* ends its process between runs, the web loop does not.                      *)
Die ==
  /\ doing \in {"idle", "loop", "phase"}
  /\ saved' \in IF doing = "idle" THEN {saved} ELSE {saved, summary}
  /\ doing' = "dead"
  /\ lost' = Plus(lost, unsaved)
  /\ tracked' = Nothing /\ priorSummary' = Nothing /\ unsaved' = Nothing
  /\ UNCHANGED <<parked, summary, paid, runs>>

Resume ==
  /\ doing = "dead" /\ saved # NoCheckpoint
  /\ summary' = saved /\ doing' = "idle"
  /\ UNCHANGED <<parked, priorSummary, tracked, saved, paid, lost, unsaved, runs>>

LedgerNext ==
  \/ Run \/ CeilingHalt \/ StartPhase \/ (\E price \in Price : Call(price))
  \/ BudgetExceeded \/ EndPhase \/ Die \/ Resume

-----------------------------------------------------------------------------
(* No spending of a phase that ended is forgotten, in whatever process it     *)
(* was: what the ceiling is compared with, and what the report shows, is at   *)
(* least what was paid, less what interrupted phases paid.  (It may be        *)
(* more: a process that runs again counts its own spending twice.)            *)
SpendIsCounted ==
  LET counted == Plus(priorSummary, tracked)
  IN doing \in {"loop", "phase"} =>
       /\ counted.usd + lost.usd >= paid.usd
       /\ counted.tokens + lost.tokens >= paid.tokens
=============================================================================
