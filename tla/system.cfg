SPECIFICATION Spec
CONSTANTS
  FullCap = 2
  MaxMem = 3
  N = 2
  Trackings = {{1}, {1, 2}}
  AskedCpu = {1, 6, 8}
  AskedMem = {2, 16}
  CapsBefore = {0, 1, 2}
  MemsBefore = {1}
  MaxControls = 2
  MaxRuns = 2
  CanFail = TRUE
INVARIANTS StatisticsOfThisRun SharesGivenBack
PROPERTY ImplementsContracts
