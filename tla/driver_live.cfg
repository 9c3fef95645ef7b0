SPECIFICATION FairSpec
CONSTANTS
  Followers <- MCYcsb
  MaxRuns = 1
  PipeCap = 2
  EarlyErr = 2
  Faults = {}
PROPERTIES CallReturns MarkMakesReady PipesDrained ThreadsEnd
