SPECIFICATION Spec
CONSTANTS
  Followers <- MCRain
  MaxRuns = 1
  PipeCap = 1
  EarlyErr = 0
  Faults = {}
INVARIANT DestructorRemovesThreads
