CONSTANTS
  Required <- MCRequired
  KnownFailures = {"rows"}
  MaxProcess = 2
  MaxRoute = 2
  MaxSignals = 2
SPECIFICATION FairSpec
INVARIANTS TypeOK SuccessIsWhole OneDeployment EvidenceTrue FailureRetracts
PROPERTIES FailedStays InterruptEnds
CHECK_DEADLOCK FALSE
