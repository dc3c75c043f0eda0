SPECIFICATION Spec
CONSTANTS
  Ports = {at, diag}
  Cpus = 2
  Speeds = {95, 100}
  Half = 128
  Requests <- SomeRequests
SYMMETRY Symmetric
INVARIANTS OwnScores VerdictTells ThreadsJoined
