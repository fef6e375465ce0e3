SPECIFICATION Spec
CONSTANTS
  Servers = {s1, s2}
  NoServer = NoServer
  Calls = {c1}
  Runners = {r1, r2}
  NoRunner = NoRunner
  Starts <- FullCopyFault
  MaxTx = 1
PROPERTIES RecoveryHarmless
CHECK_DEADLOCK FALSE
