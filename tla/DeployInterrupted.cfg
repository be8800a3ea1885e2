CONSTANTS
  d1 = d1
  d2 = d2
  b1 = b1
  b2 = b2
  Runs <- TwoRuns
  Nobody = Nobody
  BuildOf <- TwoBuilds
  Outsiders = FALSE
  MaxStarts = 2
SPECIFICATION Spec
INVARIANTS InterruptedRunFails
CHECK_DEADLOCK FALSE
