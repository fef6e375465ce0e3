SPECIFICATION Spec
CONSTANTS
  w1 = w1
  w2 = w2
  t1 = t1
  t2 = t2
  NoWorker = NoWorker
  Workers = {w1, w2}
  Slots = {t1, t2}
  WorkerOf <- TwoWorkers
  MaxRetries = 1
  MaxJobs = 2
  MaxFaults = 0
  MaxRefusals = 0
  MaxCommands = 2
INVARIANTS
  SourceRetained
CHECK_DEADLOCK FALSE
