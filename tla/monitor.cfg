SPECIFICATION FairSpec
CONSTANTS
  c1 = c1
  c2 = c2
  Clients = {c1, c2}
  Packets <- MCPackets
  Builds <- MCBuilds
  QueueCap = 2
  MaxPackets = 4
  Faults = {"store", "device", "decode"}
INVARIANTS StatusFollowsPackets StatisticsExplained AnalysedInOrder NoDrain
PROPERTY EndsOrHangs
