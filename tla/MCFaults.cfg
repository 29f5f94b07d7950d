SPECIFICATION Spec
CONSTANTS
  b = b
  c = c
  File = {c}
  BothChanged = {c}
  NonReplayable = {}
  Plans <- AllPlans
  MaxPlanRounds = 1
  MaxDisputes = 1
  MaxReruns = 1
  Env = {"kill", "interrupt", "error", "replan", "budget"}
INVARIANTS UnapprovedPlanNeverRuns NoQuestionSkipped
PROPERTIES LifecycleImplemented RecordsAreKept DryRunWritesNothing
