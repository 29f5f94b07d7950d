SPECIFICATION Spec
CONSTANTS
  b = b
  c = c
  File = {c}
  BothChanged = {c}
  NonReplayable = {}
  Plans <- AllPlans
  MaxPlanRounds = 1
  MaxDisputes = 2
  MaxReruns = 0
  Env = {}
PROPERTIES OperatorDecisionSurvivesRepair
