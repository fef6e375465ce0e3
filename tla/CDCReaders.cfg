SPECIFICATION FairSpec
CONSTANTS
  Txs = {1, 2, 3}
  Scenarios <- MCScenarios
INVARIANTS
  RestartCovers
  AcksMoveForward
PROPERTIES
  DeliveredOnceInOrder
  EveryCommitArrives
CHECK_DEADLOCK FALSE
