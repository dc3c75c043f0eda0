SPECIFICATION FairSpec
CONSTANTS
  Ports = {at, diag}
  Workers = {w1, w2}
  Targets <- TwoTargets
INVARIANTS FlagMeansReset
PROPERTIES CommandedTarget CommandsTakeDown PowerOffComes
