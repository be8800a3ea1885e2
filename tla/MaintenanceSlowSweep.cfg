SPECIFICATION Spec
CONSTANTS
  Uris <- MCUris
  Identity <- MCIdentity
  Managed <- MCManaged
  Inside <- MCInside
  Ids = {1, 2}
  UriOf <- ManagedUris
  Deletable <- MCUris
  Ops = {o1}
  Readers = {}
  Roots <- MCRoots
  Retentions = {0, 3}
  MinRetention = 3
  PageSize = 1
  WriteBound = 2
  SweepBound = 2
  MaxSnapshot = 2
  MaxTime = 6
CHECK_DEADLOCK FALSE
INVARIANTS InFlightFilesProtected
