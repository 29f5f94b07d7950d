SPECIFICATION FairSpec
CONSTANTS
  b = b
  c = c
  File = {c}
  BothChanged = {c}
  NonReplayable = {c}
  Plans <- SureOrAsked
  MaxPlanRounds = 1
  MaxDisputes = 1
  MaxReruns = 1
  Env = {"apply", "error", "early"}
INVARIANTS ReportNeedsConsent
PROPERTIES ComesToRest AnsweredRunEnds
