\* One VM, two runs, scheduling fairness.
SPECIFICATION FairSpec
CONSTANTS
  v1 = v1
  v2 = v2
  VMs = {v1}
  Shares = {1, 2}
  MaxRuns = 2
  Faults <- MCCleanFaults
PROPERTIES
  RunReturns
  ReadyIsManaged
  ImplementsContract
