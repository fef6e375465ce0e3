CONSTANTS
  s1 = s1
  s2 = s2
  h1 = h1
  h2 = h2
  Servers = {s1}
  Handlers = {h1, h2}
  ServerOf <- OneServer
  MaxTx = 3
  Heartbeats = {2}
  DDL = {3}
  Decisions = {}
  Replayed = {}
  MaxFaults = 1
  MaxMisses = 0
  MaxCrashes = 1
  MaxGiveUps = 1
  MaxLate = 0
  MaxCommands = 0
  MaxValidations = 1
SPECIFICATION FairSpec
INVARIANTS
  AppliedOnceInOrder
  CheckpointBehindTarget
  BarrierHolds
PROPERTIES
  AppliesInOrder
  CheckpointMoves
  UncertainKept
  FrozenWhileValidating
  AckedReachesTarget
CHECK_DEADLOCK FALSE
