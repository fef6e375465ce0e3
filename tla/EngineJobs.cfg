SPECIFICATION FairSpec
CONSTANTS
  w1 = w1
  w2 = w2
  t1 = t1
  t2 = t2
  NoWorker = NoWorker
  Workers = {w1, w2}
  Slots = {t1, t2}
  WorkerOf <- TwoWorkers
  MaxRetries = 1
  MaxJobs = 2
  MaxFaults = 1
  MaxRefusals = 1
  MaxCommands = 2
INVARIANTS
  OneReader
  QuietAtCutover
PROPERTY ReaderComesBack
CHECK_DEADLOCK FALSE
