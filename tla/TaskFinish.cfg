SPECIFICATION Spec
CONSTANTS
  Servers = {s1, s2}
  NoServer = NoServer
  Calls = {c1}
  Runners = {r1, r2}
  NoRunner = NoRunner
  Starts <- FullCopy
  MaxTx = 1
INVARIANTS FinishedIsFinal
CHECK_DEADLOCK FALSE
