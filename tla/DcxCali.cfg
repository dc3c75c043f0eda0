SPECIFICATION FairSpec
CONSTANTS
  Coarse = 4
  Fine = 3
  Cdacs = {1, 258}
INVARIANTS HighPowerKept CircuitAtRest
PROPERTIES SearchFindsBest CalibrationEnds
