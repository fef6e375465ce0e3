SPECIFICATION Spec
CONSTANTS
  w1 = w1
  w2 = w2
  t1 = t1
  t2 = t2
  NoWorker = NoWorker
  Workers = {w1, w2}
  Slots = {t1, t2}
  WorkerOf <- OneProcess
  s1 = s1
  s2 = s2
  Servers = {s1}
  N = 3
  Span = 2
  Parallelism = 2
  MaxRetries = 1
  MaxBatch = 1
  MaxPieces = 2
  MaxRebalances = 2
  MaxFaults = 2
  MaxAborts = 1
  MaxCommands = 0
  MaxFlowWrites = 0
INVARIANTS
  TypeOK
  RowsCovered
  CheckpointBehindWrites
  ChunksDisjoint
PROPERTY SuccessIsFinal
SYMMETRY Symmetry
CHECK_DEADLOCK FALSE
