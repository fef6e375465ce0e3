SPECIFICATION Spec
CONSTANTS
  Txs = {1, 2, 3}
  Servers = {1, 2}
  Scenarios <- MCScenarios
INVARIANTS
  PendingReadable
  AckedKept
CHECK_DEADLOCK FALSE
