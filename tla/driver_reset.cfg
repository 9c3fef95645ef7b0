SPECIFICATION Spec
CONSTANTS
  Followers <- MCRain
  MaxRuns = 2
  PipeCap = 1
  EarlyErr = 0
  Faults = {}
INVARIANT ResetStopsThreads
