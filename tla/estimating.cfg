SPECIFICATION Spec
CONSTANTS
  Kinds <- MCKinds
  WindowSize = 2
  MaxObs = 6
  MaxResets = 2
INVARIANTS EstimateOfThisPeriod GatheredIsUsed
