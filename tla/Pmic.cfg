SPECIFICATION PmicSpec
CONSTANTS
  MaxMishaps = 1
INVARIANTS AckedIsDone SettledReading
PROPERTIES BitsKept
