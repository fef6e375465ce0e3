CONSTANTS
  s1 = s1
  s2 = s2
  h1 = h1
  h2 = h2
  Servers = {s1}
  Handlers = {h1, h2}
  ServerOf <- OneServer
  MaxTx = 3
  Heartbeats = {2}
  DDL = {}
  Decisions = {"NOT_COMMITTED"}
  Replayed = {}
  MaxFaults = 1
  MaxMisses = 0
  MaxCrashes = 1
  MaxGiveUps = 0
  MaxLate = 0
  MaxCommands = 1
  MaxValidations = 0
SPECIFICATION Spec
PROPERTIES
  UncertainKept
CHECK_DEADLOCK FALSE
