SPECIFICATION Spec
CONSTANTS
  Txs = {1, 2}
  Scenarios <- Interleaved
INVARIANT RestartCovers
CHECK_DEADLOCK FALSE
