SPECIFICATION FairSpec
CONSTANTS
  Streams = {1, 2}
  Sources <- MCSources
  MaxTxs = 3
INVARIANTS
  NothingPassed
  AcksMoveForward
PROPERTIES
  DeliveredOnceInOrder
  EveryCommitArrives
CHECK_DEADLOCK FALSE
