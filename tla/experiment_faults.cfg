\* A VM refuses a share once while run() restores it.
SPECIFICATION Spec
CONSTANTS
  v1 = v1
  v2 = v2
  VMs = {v1}
  Shares = {1, 2}
  MaxRuns = 1
  Faults = {"restore"}
PROPERTIES
  RestoresWhatWasSaved
