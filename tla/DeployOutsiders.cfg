CONSTANTS
  d1 = d1
  d2 = d2
  b1 = b1
  b2 = b2
  Runs <- OneRun
  Nobody = Nobody
  BuildOf <- TwoBuilds
  Outsiders = TRUE
  MaxStarts = 3
SPECIFICATION Spec
INVARIANTS AttestationTrue
CHECK_DEADLOCK FALSE
