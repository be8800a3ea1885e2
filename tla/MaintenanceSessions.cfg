SPECIFICATION Spec
CONSTANTS
  Uris <- MCUris
  Identity <- MCIdentity
  Managed <- MCManaged
  Inside <- MCInside
  Ids = {1, 2}
  UriOf <- ManagedUris
  Deletable <- MCUris
  Ops = {o1, o2}
  Readers = {q1}
  Roots <- MCRoots
  Retentions = {0, 2}
  MinRetention = 2
  PageSize = 1
  WriteBound = 1
  SweepBound = 1
  MaxSnapshot = 2
  MaxTime = 5
CHECK_DEADLOCK FALSE
SYMMETRY SessionSymmetry
INVARIANTS ReaderGrace TypeOK InFlightFilesProtected
PROPERTIES RowOutlivesObject ExpirySparesYoung RetentionKept
