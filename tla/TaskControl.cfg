SPECIFICATION Spec
CONSTANTS
  Servers = {s1, s2}
  NoServer = NoServer
  Calls = {c1}
  Runners = {r1, r2}
  NoRunner = NoRunner
  Starts <- MCStarts
  MaxTx = 1
INVARIANTS RunnersBounded PreparedOnce CutoverComplete
PROPERTIES Recovered
CHECK_DEADLOCK FALSE
