SPECIFICATION Spec
CONSTANTS
  Scenarios <- MCScenarios
  IntBits = 4
  Keys = {1, 2, 3}
  Workers = {w1, w2}
  BatchRows = 1
INVARIANTS
  TargetFollowsSource
  PlansPartition
PROPERTY CatchesUp
CHECK_DEADLOCK FALSE
