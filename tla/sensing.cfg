SPECIFICATION FairSpec
CONSTANTS
  Sensors = {"response_time", "throughput", "ycsb"}
  LineLen = 2
  MaxLines = 4
  ZeroLines <- MCZeroLines
  MaxRuns = 2
  MaxResets = 1
INVARIANTS LinesReadInOrder NoLineTwice
PROPERTIES EveryLineRead PassReadsAll
