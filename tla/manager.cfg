SPECIFICATION Spec
CONSTANTS
  Setups <- MCSetups
  Warmup = 1
  OrderPlus = 2
  TrainMin = 2
  BatchMin = 2
  RelFailMax = 2
  SysIdMin = 1
  MaxControls = 4
  MaxResets = 2
  Faults = {"vm", "file", "model"}
INVARIANTS InformedControl SharesKept ObservationsUsedOnce CountersAddUp EscapesExplained
