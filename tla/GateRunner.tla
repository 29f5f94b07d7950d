----------------------------- MODULE GateRunner -----------------------------
(***************************************************************************)
(* The commands that judge the merged tree: gates compared with a baseline *)
(* (tools/gate_runner.py, baseline_parsers), and the build check and smoke *)
(* tests that may withdraw a PASS (core/phases/judge_review.py,            *)
(* tools/smoke_runner.py, tools/compile_gate.py).                          *)
(***************************************************************************)
EXTENDS Naturals, Sequences, FiniteSets, FiniteSetsExt

CONSTANT Outputs   \* what commands may print: see OutputLine

TailLines == 3   \* 20 in the code: what is kept of a command's output

(* A line of an output names a failing test, or sums a suite up: how many     *)
(* failed and how many ended in an error.  A framework may leave a number out.*)
NoTest == ""
NoCount == 99
OutputLine == [test : STRING, failed : Nat, errors : Nat]
Names(t) == [test |-> t, failed |-> NoCount, errors |-> NoCount]
Counts(k, m) == [test |-> NoTest, failed |-> k, errors |-> m]

ASSUME OutputsAssumption == Outputs \subseteq Seq(OutputLine)

(* A command ends with an exit code, or does not end or start.                *)
EndedRuns == [end : {"exit"}, code : {0, 1}, prints : Outputs]
BrokenRuns == [end : {"timeout", "launch"}, code : {1}, prints : {<<>>}]
CommandRuns == EndedRuns \cup BrokenRuns
NeverRun == [end |-> "never", code |-> 0, prints |-> <<>>]

GateCase ==
  [criteria : {"exit_zero", "not_worse_than_baseline", "no_new_regression"},
   parser : {"none", "unknown", "known"}, before : CommandRuns \cup {NeverRun},
   now : CommandRuns]

TestsOf(lines) == {lines[i].test : i \in DOMAIN lines} \ {NoTest}

(* run_gate: only the tail of an output that came to its end is kept.         *)
TailOf(run) == LET n == Len(run.prints)
               IN SubSeq(run.prints, IF n > TailLines THEN n - TailLines + 1 ELSE 1, n)
ParsedIds(run) == TestsOf(TailOf(run))

(* _extract_failed_count: the first number of failed tests in the tail, and   *)
(* the first number of errors when there is none; not their sum, and not the  *)
(* sum over the suites.                                                       *)
FailedCount(run) ==
  LET tail == TailOf(run)
      failed == {i \in DOMAIN tail : tail[i].failed # NoCount}
      errors == {i \in DOMAIN tail : tail[i].errors # NoCount}
  IN IF failed # {} THEN tail[Min(failed)].failed
     ELSE IF errors # {} THEN tail[Min(errors)].errors
     ELSE NoCount

(* record_baseline stores a snapshot, in which no count can be found later,   *)
(* or the tail.                                                               *)
HasBaseline(x) == x.before.end # "never"
BaselineCount(x) == IF x.parser = "known" THEN NoCount ELSE FailedCount(x.before)
BaselineIds(x) == IF HasBaseline(x) THEN ParsedIds(x.before) ELSE {}

NewWhenMore(before, now) ==   \* mutant
  IF Cardinality(now) <= Cardinality(before) THEN {} ELSE now \ before
NewFailures(before, now) == now \ before   \* diff_new_failures

NotWorse(x) ==
  /\ HasBaseline(x) /\ BaselineCount(x) # NoCount /\ FailedCount(x.now) # NoCount
  /\ FailedCount(x.now) <= BaselineCount(x)

ExitZero(x) == x.now.end = "exit" /\ x.now.code = 0
Regressions(x) ==
  IF x.criteria = "no_new_regression" /\ x.parser = "known"
  THEN NewFailures(BaselineIds(x), ParsedIds(x.now)) ELSE {}

(* run_all_gates.  A gate without new failures passes whatever its exit code, *)
(* and a command that never ran names none.                                   *)
GatePassed(x) ==
  CASE x.criteria = "no_new_regression" /\ x.parser = "known" -> Regressions(x) = {}
    [] x.criteria = "not_worse_than_baseline" -> ExitZero(x) \/ NotWorse(x)
    [] OTHER -> ExitZero(x)

Comparison(x) ==
  IF ~HasBaseline(x) /\ x.criteria # "no_new_regression" THEN "no_baseline"
  ELSE IF GatePassed(x) THEN "passed" ELSE "regressed"
RunGate(x) ==
  [passed |-> GatePassed(x), regressions |-> Regressions(x), comparison |-> Comparison(x)]

------------------------------------------------------------------------------
(* After a PASS.  A smoke case runs a command or asks a server; what cannot   *)
(* be run is an error, which fails the suite as a failure does.               *)
SmokeEvent ==
  {"exit0", "exit1", "timeout", "launch", "no_command", "expected", "other_status", "unreachable",
   "unknown_kind"}
SmokeStatus(event) ==
  CASE event \in {"exit0", "expected"} -> "pass"
    [] event \in {"exit1", "other_status"} -> "fail"
    [] OTHER -> "error"

(* A language of which files were merged without a person, and what the       *)
(* configured commands compile: theirs, none (a linter), or perhaps anything. *)
(* A smoke suite is its events, or "crash" when the harness did not start.    *)
Language == {"ts", "go"}
CompileCommand == {"none", "tsc", "lint", "opaque"}
Compiles(c) ==   \* _classify_command
  CASE c = "tsc" -> {"ts"} [] c = "opaque" -> Language [] OTHER -> {}
AtRisk(x) == x.merged \ (Compiles(x.buildCommand) \cup Compiles(x.gateCommand))

AfterPassCase ==
  [buildCommand : CompileCommand, build : {"exit0", "exit1", "timeout", "launch"},
   gateCommand : CompileCommand,
   smoke : {<<>>, <<"crash">>, <<"exit0", "timeout">>} \cup {<<a>> : a \in SmokeEvent},
   block : BOOLEAN, strict : BOOLEAN, merged : {{"ts"}, Language}]

BuildFails(x) == x.buildCommand # "none" /\ x.build # "exit0"
SmokeFails(x) ==
  /\ x.smoke # <<>> /\ x.block
  /\ \E i \in DOMAIN x.smoke : SmokeStatus(x.smoke[i]) # "pass"

(* The build first, the smoke tests only on a tree that builds.               *)
AfterPass(x) ==
  IF BuildFails(x) THEN [verdict |-> "fail", goes |-> "awaiting_human", smoked |-> FALSE]
  ELSE IF SmokeFails(x) THEN [verdict |-> "fail", goes |-> "awaiting_human", smoked |-> TRUE]
  ELSE [verdict |-> "pass", smoked |-> x.smoke # <<>>,
        goes |-> IF x.strict /\ AtRisk(x) # {} THEN "awaiting_human" ELSE "generating_report"]
==============================================================================
