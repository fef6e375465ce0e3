SPECIFICATION FairSpec
CONSTANTS
  w1 = w1
  w2 = w2
  t1 = t1
  t2 = t2
  NoWorker = NoWorker
  Workers = {w1, w2}
  Slots = {t1, t2}
  WorkerOf <- TwoProcesses
  s1 = s1
  s2 = s2
  Servers = {s1}
  N = 2
  Span = 2
  Parallelism = 2
  MaxRetries = 1
  MaxBatch = 2
  MaxPieces = 2
  MaxRebalances = 1
  MaxFaults = 2
  MaxAborts = 0
  MaxCommands = 2
  MaxFlowWrites = 1
INVARIANT DoneMeansCopied
PROPERTY CopyEnds
CHECK_DEADLOCK FALSE
