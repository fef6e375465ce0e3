CONSTANTS
  s1 = s1
  s2 = s2
  h1 = h1
  h2 = h2
  Servers = {s1, s2}
  Handlers = {h1, h2}
  ServerOf <- TwoServers
  MaxTx = 3
  Heartbeats = {2}
  DDL = {}
  Decisions = {}
  Replayed = {}
  MaxFaults = 0
  MaxMisses = 0
  MaxCrashes = 0
  MaxGiveUps = 1
  MaxLate = 0
  MaxCommands = 0
  MaxValidations = 1
SPECIFICATION Spec
PROPERTIES
  FrozenWhileValidating
CHECK_DEADLOCK FALSE
