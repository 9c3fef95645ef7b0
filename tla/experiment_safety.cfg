\* Two VMs, two values of a share, two runs, every exception that does not hit save or restore.
SPECIFICATION Spec
CONSTANTS
  v1 = v1
  v2 = v2
  VMs <- MCVMs
  Shares = {1, 2}
  MaxRuns = 2
  Faults <- MCCleanFaults
SYMMETRY MCSymmetry
INVARIANTS
  TypeOK
  ManagerQuiescent
  SampleControlExclusive
  ManagedOnlyWhenReady
  NothingLeftSaved
  RestoredByDestructor
  StackNeverEmpty
PROPERTIES
  RestoredOnReturn
