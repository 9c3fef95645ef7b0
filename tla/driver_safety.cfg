SPECIFICATION Spec
CONSTANTS
  Followers <- MCYcsb
  MaxRuns = 1
  PipeCap = 2
  EarlyErr = 2
  Faults = {"terminate", "process", "thread", "file"}
INVARIANTS TypeOK ReadyOnlyAfterMark SoleReader Joined
PROPERTIES MarkReadByMonitor ImplementsDriverContract
