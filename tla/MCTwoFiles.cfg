SPECIFICATION Spec
CONSTANTS
  b = b
  c = c
  File = {b, c}
  BothChanged = {c}
  NonReplayable = {}
  Plans <- OnePlan
  MaxPlanRounds = 1
  MaxDisputes = 2
  MaxReruns = 0
  Env = {"drift", "apply", "gate"}
INVARIANTS TypeOK PassCoversTree UpstreamFilesAccounted
PROPERTY HumanRecordsSurviveDisputes
