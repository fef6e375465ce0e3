CONSTANTS
  s1 = s1
  s2 = s2
  h1 = h1
  h2 = h2
  Servers = {s1, s2}
  Handlers = {h1, h2}
  ServerOf <- TwoServers
  MaxTx = 2
  Heartbeats = {}
  DDL = {}
  Decisions = {"COMMITTED", "NOT_COMMITTED"}
  Replayed = {"OPEN", "REPLAY_REQUIRED", "RESOLVED"}
  MaxFaults = 1
  MaxMisses = 1
  MaxCrashes = 0
  MaxGiveUps = 0
  MaxLate = 1
  MaxCommands = 1
  MaxValidations = 1
SPECIFICATION Spec
INVARIANTS
  CheckpointBehindTarget
  AckedIsDurable
SYMMETRY Symmetry
CHECK_DEADLOCK FALSE
