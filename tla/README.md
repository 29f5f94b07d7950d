# Verification of the code-merge orchestrator

The repository merges an upstream branch into a long-lived fork with the help of
LLM agents. A *run* classifies the files both branches differ in, has a plan
reviewed, merges what it can by itself, asks a person about the rest, has the
result judged, and writes a report. A run lasts for hours, is interrupted,
resumed, answered from the command line or a browser, and must not lose a
decision or report on a tree nobody looked at. This directory specifies that
behaviour in TLA+, checks it with TLC on small instances and proves part of it
with TLAPS.

Paths below are relative to `src/src/`.

## 1. Inventory

| Component | State it keeps | Operations | What makes it correct |
|---|---|---|---|
| State machine (`core/state_machine.py`) | none (a table) | `transition`, `can_transition` | every status change of the program is in the table |
| Orchestrator (`core/orchestrator.py`) | the run's `MergeState`, cost tracker | `run`: dispatch a phase per status, halts, exception handlers, checkpoint | comes to rest; a halt or an error never corrupts the life cycle |
| Checkpoint (`core/checkpoint.py`) | `checkpoint.json` | `save`, `load`, signal handler | what is restored is a state the run can go on from |
| Planning (`core/phases/initialize.py`, `planning.py`, `plan_review.py`) | plan, items, conclusion | review rounds, revision, replan | no plan is executed that neither judge nor user approved |
| Auto merge (`core/phases/auto_merge.py`) | records, items, batches of the plan | replay, routing, pre-pass gate, layers, sub-review, accounting | every file of the plan is accounted for |
| Conflict analysis (`core/phases/conflict_analysis.py`) | analyses, requests | rules, analyst rounds, strategy | a question asked is a question answered |
| Human review (`core/phases/human_review.py`) | reads what the user decided | routes to one of seven statuses | the right gate is answered; no endless bouncing |
| Judge review, report (`core/phases/judge_review.py`, `report_generation.py`) | verdict, rounds | read the tree, dispute, gates, report | the verdict is about the tree that is reported |
| Gates (`core/phases/_gate_helpers.py`, `tools/gate_runner.py`) | failure counter | run commands, escalate | persistent failure reaches a person |
| Executor, patch applier (`agents/executor_agent.py`, `tools/patch_applier.py`) | records, files | write, refuse, roll back, repair | an operator's decision is not overwritten; a failure leaves the old file |
| User decisions (`cli/decisions_loader.py`, `tools/user_choice_dispatcher.py`, `web/ws_bridge.py`) | answers in `MergeState` | apply a decisions file, web commands | an answer takes effect once, where it was asked for |
| Agent call (`agents/base_agent.py`, `llm/error_classifier.py`, `llm/client.py`) | client in use, model, failure count and window, budget | retry, wait, fall back, override the model, one structured request in several forms | bounded requests; the provider in use is the one somebody switched to; every call ends |
| Credential pool (`llm/credential_pool.py`) | ring index, cooldowns | get, cool down, reset | never a cooling credential while one is free |
| Cost tracker (`tools/cost_tracker.py`) | entries | record, total | no spending forgotten over processes |
| Web bridge and run loop (`web/ws_bridge.py`, `cli/commands/web.py`) | events, clients, answers | commands, wait for gates | no lost wake-up; a cancel ends the loop |
| Planner (`agents/planner_agent.py`, `agents/planner_judge_agent.py`, `core/coordinator.py`) | plan, segments read | rate files, build batches, negotiate, split | order and levels kept; what is approved was read |
| Layers, parallel runner (`core/phases/_gate_helpers.py`, `core/parallel_file_runner.py`) | completed layers | order, skip, gather, dispute | a layer runs after those it depends on; a defect keeps it open |
| Conflict analyst (`agents/conflict_analyst_agent.py`, `tools/rule_resolver.py`) | breaker of the analysis | rules, rounds, bisection, chunks | no file of the worklist forgotten; both sides kept |
| Commit replay, commits (`tools/commit_replayer.py`, `tools/git_committer.py`) | git branch, worktree | cherry-pick, abort, commit | recorded as upstream's means upstream's last version |
| Memory (`memory/`) | lessons of all runs, the tracker of one | add, inject, blame, suppress, consolidate, evict | advisory, but a file's lessons outlive consolidation |
| Classifiers and checks (`tools/file_classifier.py`, `tools/syntax_checker.py`, `tools/preservation_auditor.py`) | none | pure functions | no risk lowered, no loss taken for nothing |
| Setup (`cli/commands/setup.py`, `models/setup.py`) | the setup form | validate, write env and configuration | nothing written from a form that is refused |
| Prompts, reports, dependency extraction, profile drafting, command line | none that a run's control depends on | pure functions, output | out of scope, see 6 |

How they interact: the loop of `run()` looks up a phase by status, awaits it,
saves the state under the tag the phase returns, and goes on until the phase
says it is paused, the status is terminal or has no phase. Phases change the
status themselves, through the state machine; agents are called by phases and
write records through the patch applier. The user's answers are written into
`MergeState` from outside between two calls of `run()`: by `merge resume` into
a state loaded from the checkpoint, by the web bridge into the live one.

What is hard: a status (`AWAITING_HUMAN`) shared by four different gates; phases
that return early after changing half their state; a signal handler that saves
in the middle of a phase; local lists of a phase that a restart forgets;
re-entry of every phase after a resume, a rerun or a bounce; repairs after a
verdict; exceptions that are logged and swallowed per file; handlers that ask
for a transition the current status does not have. `PROJECT.json` lists these
hazards at their lines.

## 2. Modules

| Module | Models |
|---|---|
| `StateMachine` | the statuses, `PHASE_MAP`, `VALID_TRANSITIONS`; no state |
| `RunLifecycle` | abstract specification: status and saved status; moves along the table, saves, restores |
| `MergeState` | constants, variables, the `MergeState` record, and what all phases share: leaving an action, records, dispatch and repair outcomes |
| `PlanningPhases` | `initialize.py`, `planning.py`, `plan_review.py` |
| `AutoMergePhase` | `auto_merge.py` |
| `ConflictAnalysisPhase` | `conflict_analysis.py` |
| `HumanReviewPhase` | `human_review.py`, `execute_human_decision` |
| `JudgeReviewPhase` | `judge_review.py`, `report_generation.py` |
| `Orchestrator` | `run()` around the phases, faults, the user; `Spec`, `FairSpec` |
| `RunProperties` | the properties, and the refinement of `RunLifecycle` |
| `MCOrchestrator` | constants of the instances; the `MC*.cfg` files are its runs |
| `OrchestratorProofs` | type correctness |
| `LifecycleProofs` | status and control agree; refinement; finality |
| `GateProofs` | no decision without an accepted plan, no report without consent |
| `TreeProofs` | a PASS covers the tree, records are kept, disputes and dry runs change none |
| `AccountProofs` | every upstream file decided, no question skipped |
| `PartProofs` | the parts with state, the calls of an agent among them |
| `AlgorithmProofs` | the algorithms: lemmas about lists, lemmas for any input, theorems about the answers |
| `DataProofs` | the algorithms that cut a list into lists: batches, conversations, chunks, staged files, drafted plans |

What the phases call is modelled in parts of their own, because a product of
all of them with the run would be too large to check and would show nothing new:
the orchestrator's model takes any outcome a part can have.

| Part | Models | Kind |
|---|---|---|
| `AgentCall` | `_call_llm_with_retry`, the kinds of failure | several coroutines, liveness |
| `CredentialPool` | the ring of keys and its rotation | state machine |
| `LLMClient` | how one structured request is sent in ever plainer forms | state machine |
| `LayerDispute` | Judge and Executor over one layer | state machine |
| `JudgeRun` | the Judge's rounds and its deterministic checks | state machine, operators |
| `ConflictRouting` | rules, commit rounds, bisection, breaker, decisions | state machine |
| `LayerRun` | the layers of one auto merge | state machine |
| `PlanNegotiation` | segments, safelist, precheck, the planner's answers | state machine |
| `CommitReplay` | cherry-picks, native merge, pause, commit, death of the process | state machine |
| `WebBridge` | browsers, bridge and the loop that serves the run | state machine, liveness |
| `Ledger` | spending over calls, runs and processes | state machine |
| `Memory` | lessons in the shared database, the tracker of one run | state machine |
| `FileRouting` | what initialisation makes of one file: category, risk level, route; how the planner rates it anew | operators |
| `MergeStrategy` | rules, strategy, an analysis in chunks | operators |
| `SemanticMerge`, `TextChecks` | merging one file, carrying out a choice, checks of a text | operators |
| `LayeredPlan` | building the plan, splitting its batches | operators |
| `PromptBudget` | what is shown of a long file, counted and rendered; what is kept of a long conversation | operators |
| `GateRunner` | gates, build check, smoke tests after a PASS | operators |
| `SetupForm` | the setup form | operators |
| `Lists` | `sorted()`, `sum()`, a comprehension with a condition | operators |
| `Tools` | all parts side by side; one behaviour exercises one part | composition |
| `ToolProperties`, `MCTools` | what the operators promise; constants | |

In a part with state an action is a stretch of code between two awaits, as in
the orchestrator; the guards are the code's conditions. An algorithm is an
operator from a case (a record of what the code reads) to its result; `Tools` asks
each of them one question of a set that covers the branches (`Ask...`), and
`ToolProperties` relates question and answer. Where a part is a set of calls of
one class of object, its variables are that object's attributes under the names
of the code.

State. `st` is the `MergeState` object; it is one record because the checkpoint
saves and loads it as one. `disk` is `checkpoint.json`. `pc` is where the
coroutine stands: idle, in the loop, or at an `await` inside a phase, the points
where a signal, a crash, an exception or the cost ceiling can strike between two
changes of the state. `round`, `work` and `queue` are local variables of the
phase; they do not survive it. `unseen` is a history variable: the files written
since the Judge last read the tree; the working tree survives a crash, so a
crash does not reset it.

Actions. A stretch of code between two awaits that matter is one action, with
every assignment and save in it. `Step` stays in the phase, `Return` is a
`PhaseOutcome` with a checkpoint tag (the loop saves and dispatches again),
`Pause` one with `extra.paused`. `SaveInPhase` is a checkpoint a phase takes by
itself, which lacks the cost snapshot.

Data. A file is a model value with a category (upstream only, or changed on both
sides) and a risk level. A decision record is reduced to who made it and whether
it escalates: the code's tests of `decision` and `decision_source` distinguish
no more. One of its classes, `chosen`, is not distinguished by the code: it is
a record with source `AUTO_EXECUTOR` that carries out the user's choice. A
pending item is reduced to whether it is undecided and to the class of key
chosen: dispatched, downgrade, deferral, or a key no code path tests. LLM answers, gate results,
analyses and the contents of files are nondeterministic. `FAIL` stands for every
verdict but `PASS`.

In auto merge a replay takes any file of its commit that has no record, whatever its place
in the plan; a lock file or dependency bump of a commit that cannot be replayed is taken
from upstream or, where that fails, escalated; and a layer may save in its middle, since
`phase2_batch_N` is saved at every tenth file.

Abstractions to know of. The layers of a plan are one layer, so skipped layers
do not occur. An action of a phase treats all its files at once where the code
saves nothing in between; the conflict strategy and the user's decisions, which
can be interrupted between files, go file by file. The fork-preservation audit
at the end of `auto_merge` is left out (its fatal outcome is that of
`DriftIsFatal`, its other outcome adds files to the unhandled ones). Categories
other than upstream-only and both-changed, deleted-only and excluded batches,
git commits, phase results, logs and memory are left out. `PLAN_DISPUTE_PENDING`
is in the table but no phase calls `ExecutorAgent.run`, the only place that
raises a plan dispute, so no action leads there; `PAUSED` is never entered.

Environment. The constant `Env` names the outcomes an instance allows (`kill`,
`interrupt`, `error`, `budget`, `drift`, `gate`, `apply`, `replan`, `early`), so
that each run can afford the ones its questions are about.

## 3. Runs

| Run | Instance | Shows |
|---|---|---|
| `MCTwoFiles` | an upstream-only and a both-changed file, both gates' failures, fatal drift, failing decisions, two dispute rounds | `TypeOK`, `PassCoversTree`, `UpstreamFilesAccounted`, `HumanRecordsSurviveDisputes` |
| `MCFaults` | one both-changed file, every plan, dry and real runs, signals, death, exceptions, the cost ceiling, replans, one rerun | `UnapprovedPlanNeverRuns`, `NoQuestionSkipped`, `LifecycleImplemented`, `RecordsAreKept`, `DryRunWritesNothing` |
| `MCProgress` | one both-changed file (in a non-replayable commit), exceptions, failing decisions, early answers, one rerun; fairness | `ReportNeedsConsent`, `ComesToRest`, `AnsweredRunEnds` |
| `MCTools` | every part on its own small instance | the properties of the parts, below |
| `MCRepair`, `MCGate`, `MCInterrupt`, `MCSurfaced`, `MCDeferred`, `MCOverspend`, `MCRules`, `MCReplayAgain` | the smallest instance that shows it | a promise of a comment or document that the code does not keep (below) |

Bounds of the orchestrator. Files do not interact except through emptiness of sets (no item open, no
request pending, nothing unhandled), so two files of different categories show
the interactions and one file suffices where faults multiply the states.
`MaxPlanRounds = 1` allows one revision; `MaxDisputes = 2` a repair followed by a
second reading (with 1 the last round is the first and repairs never happen);
`MaxReruns = 1` a rerun and a refused one. All three are configuration values of
the code, not artificial bounds: no counter of the model is capped otherwise.

Bounds of the parts (`MCTools.cfg`). Two callers make three calls in all, with two
attempts and two waits each: one call holds the breaker's swap while the other
fails, and a third begins after either. `Threshold`, `WindowSize` and `MinSamples` (3, 20 and
10 in the code) are lowered to what those calls can reach; five symptoms (`BadDay`) stand
for the kinds of error that are handled differently. Four keys let the free one
lie anywhere in the ring. `LayerFile`, `PlanFile`, `RiskyFile`: one file more would only
repeat a case, since files meet in a round's emptiness; a chunk holds both files of
a layer (`BatchSize`), which share its failure. The Judge's second round is judged
against the first (`LastDispute = 1`), as a third would be against the second. Three layers with
dependencies on earlier layers, on later ones and in a ring. `Bail = 1` (3 in the
code) with a history of three commits, one partial: the bail-out has a
commit before and after it. The ledger runs over three `run()`s of any split into
processes. The database of the memory takes four additions, consolidates above three
entries and evicts above three, so that both happen; a merged entry holds three texts, one
file and two tags (`MaxContents`, `MaxPaths`, `MaxTags`; 5, 20 and 10 in the code), so
that the fourth lesson of a group is left out of it. `RatedFiles` are files far from
and near to a person's level, some with fields a rule speaks of, which meet in pairs. `Outputs` are what a test command may print: names alone, one summary of all, a
summary that counts errors apart, and two suites of which the first fails nothing; the code
keeps the last lines of it (`TailLines`, 3 for 20). Lines of a long file may hold
characters of more than a byte (`wide`). `MaxCalls`, `MaxGates`,
`MaxDeaths`, `MaxRuns`, `MaxSpent`, `MaxAdds`, `LastDispute` and `MaxLines` bound
counters that the code leaves open; the other numbers are configuration values or
constants of the code.

Fairness. `FairSpec` is `WF_vars(RunStep)`: the event loop keeps running the
coroutine as long as it can go on. Faults and the user are not fair.
In `ToolsFairness` the loop over a layer's dispute is fair (`DisputeNext`: each
review and repair answers or fails, since a call sends a bounded number of requests,
each with a timeout), and so is the loop of the web command (`ServeNext`);
browsers, other runs and deaths are not.
`AnsweredRunEnds` assumes a diligent user in its premise (`DiligentUser`):
someone who infinitely often has a chance to answer what is asked, or to resume,
eventually does (strong fairness, because a fault may take the gate away and
bring it back). `ComesToRest` is checked without gate failures, drift and
replans, under which the code does loop: the first is a finding, the others
are listed as hazards.

What the properties say, in short:

- `PassCoversTree`: a report without the user's acceptance covers no write the
  Judge has not read; repairs, dispatched choices and a crashed process's work count.
- `ReportNeedsConsent`, `UnapprovedPlanNeverRuns`, `NoQuestionSkipped`: the three
  gates (verdict, plan, requests) hold on every path, bounces and restarts included.
- `UpstreamFilesAccounted`, `RecordsAreKept`, `HumanRecordsSurviveDisputes`: no file is
  forgotten, no record lost except by a rerun of a failed file, the sanity
  check, or a restart; no dispute overwrites a record of source `HUMAN`.
- `DryRunWritesNothing`: until resumed as a real run.
- `LifecycleImplemented`: the run implements `RunLifecycle`, of which `EndIsFinal` is a consequence
  (stated for the run as a theorem).
- `ComesToRest`, `AnsweredRunEnds`: progress.

And of the parts:

- `RequestsBounded`, `ProviderIsRight`: whatever mixture of errors the overlapping
  calls of an agent meet, each sends a bounded number of requests, and the fallback is in use exactly as long as somebody switched to
  it. `FormsInOrder`: a plainer form is sent only when the one before was
  refused. `RotationSound`: no cooling key while another is free.
- `NoDefectSlipsThrough`, `DisputeEnds`, `PassIsEarned`, `TreeIssuesFail`: a file with a marker or a
  syntax error keeps its layer from approval through any sequence of repairs and
  disputes, which comes to an end; a PASS repeats no finding of the verdict before.
- `NothingForgotten`, `RulesKeepBothSides`: the analysis loses no file, and no line
  either side added. `ChunkVetoHolds`: one chunk that failed, is sensitive or asks for a
  person sends the file to one. The exception is the code's: when every chunk that was read
  asks for it with confidence, the merged analysis keeps the *first* chunk's kind of conflict,
  and if that is "both sides mean the same" upstream's side may be taken, whatever the
  others said of theirs.
- `LayersSkippedForCause`, `PlanKeepsOrder`, `BatchesKeepOrder`, `RouteSound`, `RiskSound`,
  `ApprovedMeansRead`: the plan holds every file once, in an order its dependencies allow
  (unless they form a ring), not laxer than classified; a batch cut up loses none, and what
  was approved was read as it stands. `RiskSound` follows a file's level and its score apart, from
  the classification over the rules about fields to the planner's rating and bump: markers,
  categories and the budget of ratings hold, a rating moves a file by one level. It excludes
  what the code does not keep: the level a rule about fields demanded, which may fall by
  two, and the level of a central file both sides changed; that of one only upstream
  changed is never lowered by the bump.
- `PickedIsUpstream`: a record that says a file is upstream's means its last version.
- `NoHalfMerge`, `UpstreamCovered`: what is in the tree is what the record says; no
  part of upstream is left out of a file merged in pieces. `StagedFits`: what is *counted* of
  a long file fits the budget; what is rendered (lists of methods, omission lines and
  separators are not counted) exceeds it by a bounded part; no chunk is shown
  at the cost of a more relevant one. A parsed file is cut by the byte offsets of the parser, so
  for a file with wide characters the property promises chunks that are disjoint by
  their line numbers, and nothing of their text. `EndsKept`: the ends of a
  conversation stay, and what is kept exceeds the budget at most by the notice that
  the code inserts after it has counted, unless only the ends are left.
- `AnsweredGateWakes`, `CancelEndsLoop`: the web loop never sleeps over an answer, and
  a cancel ends it.
- `SpendIsCounted`: a lower bound. The upper one does not hold: in the web loop a
  process that runs again counts its own spending twice.
- `LessonsKept`: a lesson goes when a later phase has learnt about its files, when the text
  of it lives on in the entry its group became, when it is the least confident of a full
  database, or when that merged entry is full and says that it leaves texts out. The last is
  a loss of the code's design; pinned and suppressed entries never suffer it.
- `GatesSound`: a gate that allows no *new* failure compares names and is exact. One that may not
  get worse compares the first number its pattern finds in each output; it is promised
  only for outputs that end in one summary that counts every failure.
- `FormSound`: the setup form.

### Disagreements between the code and what is said of it

1. `MCRepair`: the dispute repair may re-merge a file the operator decided. The
   guard looks for source `HUMAN`; a dispatched item choice, and a manual patch,
   are written through the patch applier, which records `AUTO_EXECUTOR`.
2. `MCGate`: gates that keep failing are never put before a person once the
   plan has been approved by one; the run alternates between two statuses.
3. `MCInterrupt`: a signal during `planner.revise_plan` saves `PLAN_REVISING`,
   which has no phase; the run cannot be resumed.
4. `MCSurfaced`: an escalation surfaced as an item does not hold the run when
   requests exist.
5. `MCDeferred`: a both-changed `AUTO_SAFE` file is deferred to an analysis
   that does not take it up, and reaches the Judge undecided.
6. `MCOverspend`: the ceiling met between two attempts raises inside the `try` of the
   call, which takes it for one failure more and sends another request.
7. `MCRules`: what a rule merged is not written: the phase keeps the rule's
   confidence and recommendation, and upstream's text replaces the fork's.
8. `MCReplayAgain`: after a replay with partial picks only, a resume replays
   again, and the reset of an aborted pick throws away native merges whose
   records stay.

Some things met on the way have no run of their own; the properties are stated so that
they hold in spite of them.

- The level a rule about fields demands is said to be a floor (`tools/field_sensitivity.py:18`); the
  planner's rescoring derives the level anew from a score that does not know the rule
  (`agents/planner_agent.py:1580`). A file that has to go to a person becomes `auto_safe`.
- The bump of central files "only raises risk" (`agents/planner_agent.py:1707`). It derives the
  level from the raised score, which can be lower than one the model gave without a score;
  and a long file both sides changed goes to a person when its score is
  *small* but not when the bump has taken it out of the lowest band.
- A gate "not worse than the baseline" passes with more failing tests when the first
  number in the output is not their count (`tools/gate_runner.py:292`).
- `always_require_human` (`models/config.py:253`) is read by nothing: a file of a strict
  pattern goes to a person by its score alone, and a rescoring can take it to `auto_risky`.
- Of several issues about one file the merge of precheck and judge keeps one
  (`agents/planner_judge_agent.py:190`), so that a remark that the file belongs later is
  not heard when it has another issue.

## 4. Proofs

The theorems of the run hold for every set of files, categories, plans and bounds
that satisfy `ConstantsAssumption`, and for every `Env`.

- `OrchestratorProofs!TypeCorrect`: `Spec => []TypeOK`. `TypeOK` is inductive.
  One lemma per phase, one step per action; helper lemmas say that changing one
  field (`FieldTypes`), recording (`RecordType`), routing, downgrading and
  surfacing keep a state well formed.
- `LifecycleProofs!StatusIsWhereItSays`: `Spec => [](TypeOK /\ Located)`. The
  code does not test the status before it asks for a transition; that it is
  allowed to rests on where control is. `Located` is that invariant, and the
  strengthening without which the next theorem is not inductive.
- `LifecycleProofs!ImplementsLifecycle`: `Spec => LifecycleImplemented`. Every
  action moves the status to a successor of the status `Located` gives it,
  saves what it has, or restores what was saved. The error handlers are safe
  because they test the table first; the cost ceiling because it falls back on
  `FAILED`, which each status that can meet it allows.
- `LifecycleProofs!TheEndIsFinal`: `Spec => EndIsFinal`, from the refinement and
  the fact that the table has no edge out of a terminal status.

- `GateProofs!NoPlanWithoutApproval` and `GateProofs!NoReportWithoutConsent`:
  `Spec => []UnapprovedPlanNeverRuns` and `Spec => []ReportNeedsConsent`. Neither
  is inductive. A request, a verdict or a surfaced escalation would each let the
  human review decide over a file although nobody accepted the plan, so
  `GateInv` keeps all three, and not only the records, out of a run without
  consent (`Untouched`); it says in which statuses a consent exists
  (`PlanGate`), with `Located` for the phases at work; and it holds of `disk` as
  well, since a crash returns to it. Consents are never withdrawn: the user
  cannot replace an approval, and no status past the planning ones leads back.

- `TreeProofs!PassCoversTheTree`: `Spec => []PassCoversTree`. `PassInv` adds
  that the Judge's loop writes nothing between its last reading and the verdict, and
  that a checkpoint in `GENERATING_REPORT` is that of a run still there, so that no
  crash brings a report back with files written since.
- `TreeProofs!NoRecordIsLost`, `DisputesSpareHumans`: no invariant but `TypeOK`;
  each phase keeps (`Keeps`) or overwrites records only where the code tests for one.
- `TreeProofs!DryRunIsHarmless`: a dry run is told apart by nothing but its halt in
  auto merge, so `DryInv` keeps everything out of it that could lead around that
  halt: `AWAITING_HUMAN` is a status of it, but no request, verdict or record is
  there to send it on. A dry run never has the checkpoint of a real one behind it.
- `AccountProofs!EveryFileIsAccounted`, `NoQuestionIsSkipped`: the invariant
  `SettledInv` says what each status owes to the one before: an upstream file
  that left its batch has a record; the analysis enters with nothing open but
  both-changed files and those handed to it, and leaves with nothing it was asked
  about; and the phase's lists (`Listed`) hold what is open while strategies
  are executed. It speaks of `disk` too, since a restart begins the phase anew.

Of the parts, all for every behaviour of `ToolsSpec`; by `PartsStandApart` a step
of the whole is a step of a part or leaves it alone:

- `PartProofs!CallsAreTyped`, `ProviderStaysRight`, `RequestsStayBounded`: `CallInv` for any number of callers. Types are not inductive
  without `ProviderAgrees`: a switch for good drops the swap of a call, which is sound
  because there is none then. A call accounts for its requests by its attempts and
  waits and one budget more after the only switch for good.
- `PartProofs!FormsAreTriedInOrder`: what was sent is a prefix of the client's forms.
- `DefectsNeverSlipThrough`: every open defect has an issue that must be fixed, which
  a dispute cannot close.
- `SpendingIsCounted`: `LedgerInv` keeps one account for each of memory, summary and
  checkpoint, with what the running phase paid on the side of the last two.
- `AnsweredGatesWake`: inductive as it stands, over all orders of answer and wait.
- `LayersAreSkippedForCause`: layers are taken up in ascending order, so that none of
  those still to come is complete when one is looked at.
- `RotationFindsTheFreeKey`: the arithmetic of the ring; the search comes round.
- `EveryPassIsEarned`: a first round has no prior findings; a check finds the same
  whatever the file is called.
- `PickedFilesAreUpstreams`: the drift check passes over files that left their batch;
  those were never picked, which has to hold of the checkpoint as well.
- `ApprovedPlansWereRead`: `PlanInv` says what a cached answer of a segment was heard on.
- `NoFileIsForgotten`: `RoutingInv` says where a file of the worklist waits at each
  step. It rests on `RoundsCoverTheStream`: each commit of the stream is in a round.
  `CommitRounds` is a recursive function, and that such a function exists and
  obeys its equation needs an induction; `RoundsAreBuilt` makes it by the least
  length for which there is none.
- `AlgorithmProofs`: `RouteIsSound`, `FormIsSound`, `MergeIsWhole`, `ChoiceIsWhole`,
  `ChunksVeto`, `GateIsSound` and `FinishIsSound` speak of any blobs, models, number of
  chunks, tests and length of output, not only of the cases TLC asks. By `AnswerInv` the
  answer of a behaviour is the algorithm's to its question, which gives `RouteSound`,
  `FormSound`, `NoHalfMerge`, `ChunkVetoHolds` and `GatesSound`; `CaseInv` is the same for the
  algorithms over lists.
- `RiskIsWellPlaced`: the level a file starts with is the classification's or one a rule about
  fields raised it to, while its score stays; rescoring, reclassifying and bumping each
  classify anew from the score they make (`Rescored`, `Bumped`), so the lemmas speak of level and score
  apart; a higher score gives no lower a level to a file only upstream changed (`ClassifyClimbs`). The files a model rates are the first ones of a list cut at the budget.
- `GatesAreSound`: rests on no assumption about the count; that a gate passes with no more
  failures is proved from `SumsUp`, the form of output for which the first number is the
  number of failing tests.
- `ChunksHaveAVeto`: the kind of conflict of the merged analysis is that of the first chunk read.
- `TreeIssuesFound`: a text of brackets is whole (`WholeIsPaired`) exactly when taking
  out adjacent pairs leaves nothing, while the code runs a stack over it (`RunsAgree`); that
  the two agree needs that taking out one pair changes neither (`PairsDoNotMatter`).
- `RulesKeepTheirPromise`: each rule that resolves keeps the additions of both sides
  (`ImportsKeep`, `EditsKeep`, `AdditionsKeep`), for texts of any length that repeat no line.
- `DataProofs!UpstreamIsCovered`: the middles of chunks ascend, so the nearest chunk does too.
- `EndsAreKept`: contents are cut in the middle only (`CutsRun`), where a cut makes sense and with the
  marker it leaves; messages are dropped from the oldest of the middle on, as far as the excess
  asks or until it is used up (`DroppedIs`); then the notice is inserted.
- `BatchesAreWhole`: grouping keeps the order within a directory (`GroupsAre`); the cuts by
  count and by tokens keep the concatenation (`FlattenTwice`).
- `StagesFit`: the starts of chunks climb, joined chunks keep the lines, and a demotion
  takes the least relevant chunk that still has a level to lose (`DemotesRun`). What is
  rendered is bounded chunk by chunk against what is counted of it.
- `PlansKeepOrder`, for any files, settings and import graph: the files' modules
  (`ModulesAre`) are merged in the order of their needs (`MergeOrderIs`, `NeededFirst`) or there
  is a ring (`RingOfModules`); files come in the order of their imports or there is a ring
  (`TopologyIs`), and so do the ranks by which a batch is sorted (`RanksAre`, `BatchIs`); each
  file has one slot (`HasHome`, `OneHome`) and each slot one place (`BatchListIs`, `PlanIs`).

A loop over a list is a recursive function of its length. The library's induction takes the
statement as an operator, which the provers cannot instantiate, so `UpTo` states it for a *set*
of numbers that begins at 0 and is closed under the next, and `Recursion` gives
the list of results of a step function. Each loop has a lemma (`...Run`) that applies the two
and says what holds after any number of passes; the theorems then reason about the
end of the loop.

The assumptions are those the modules name (`...Assumption`): bounds and limits are
numbers, positive where the code divides or counts by them, the sets of cases consist
of values of the form the code builds (`TextsAssumption`, `SourceFilesAssumption`, `DraftAssumption`
for texts, long files and plans to be drafted), no layer depends on itself, and a set of files
or layers is finite where the code takes its size or its least member.

Some places of the model came out different from the attempt to prove about them:

- `Category` was a `CASE` whose guards overlap where the code has an order: TLC takes
  the first that holds, TLA+ any, and `RouteSound` does not follow from any. It is a chain.
- `CommitRounds` went by commit; it now goes file by file as the code does, with the order
  of the worklist, and `RoutingAssumption` says what a worklist is (a sequence of kinds of
  file, and one of sets of files for the commits).
- The draft of a plan claimed that needs are always kept. The code falls back on the
  alphabet when modules need each other in a ring, and on what is left of a ring of imports;
  `PlanKeepsOrder` now says so.
- `StagedFits` showed the chunks of a file that begins with an indented line to lose it
  unless the first line starts a chunk whatever it is, as in the code (`Heads`).
- The community modules' sorting and selecting rest on operators that TLC implements and
  TLA+ does not define for the prover; `Lists` defines the few the code uses.
- One property over all texts and plans became five, so that each has its own mutants.
- A level that is always the band of its score, a number that is always the count of the
  failures, chunks that are always ranges of lines and a merged lesson that keeps every text
  made four proofs shorter and the model wrong: the code keeps level and score, number and
  failures, bytes and lines apart, and so do the definitions now.

Only model-checked, and why:

- `ComesToRest`, `AnsweredRunEnds`, `DisputeEnds`, `CancelEndsLoop`: liveness under
  fairness is out of the prover's reach.
- `LessonsKept`: an invariant would have to say that a merged lesson is told apart by
  its text, which is not so: two groups whose united texts agree make one key, and a
  suppressed one can give way to a later merger that is evicted. Such a database takes
  more additions than `MaxAdds`; within it the property holds.

## 5. Plan

Done: the core, the parts it calls, and every safety property proved but `LessonsKept`. Next:

1. `LessonsKept` with the condition under which it holds for any number of additions.
2. Properties for reruns (a cleared record whose file left the plan) and for
   records of source `HUMAN` under the drift repair.

## 6. Not modelled

- Texts: prompts, reports, logs, the wording of a record, the parsing of source files
  into dependencies, the drafting of fork profiles. They are functions of data the
  model does not keep; where a result matters (an edge, an issue, an answer the
  parser refuses) the model takes any.
- What a model answers: nondeterministic everywhere.
- Argument handling, configuration defaults, file serving, browser snapshots.
- `ExecutorAgent.run` and plan disputes, the planner's path that asks a model
  for the whole plan, `PAUSED`: the code does not reach them.
- The parts do not run inside the orchestrator's model. That each outcome of a part is
  one of those the phase's action allows is by construction of both from the
  same code, not checked.
- Deadlock is checked in the runs of `MCOrchestrator` (resuming a run that
  has ended changes nothing), not in those of `MCTools`, where a part stops when its work is done.
