SPECIFICATION Spec
CONSTANTS
  b = b
  c = c
  File = {b, c}
  BothChanged = {c}
  NonReplayable = {}
  Plans <- AllPlans
  MaxPlanRounds = 1
  MaxDisputes = 1
  MaxReruns = 0
  Env = {}
INVARIANTS SurfacedItemsHoldTheRun
