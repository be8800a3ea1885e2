CONSTANTS
  d1 = d1
  d2 = d2
  b1 = b1
  b2 = b2
  Runs <- TwoRuns
  Nobody = Nobody
  BuildOf <- TwoBuilds
  Outsiders = FALSE
  MaxStarts = 3
SPECIFICATION FairSpec
INVARIANTS TypeOK WritesExclusive
PROPERTIES ClaimReturned PluginGuarded ContractKept
CHECK_DEADLOCK FALSE
