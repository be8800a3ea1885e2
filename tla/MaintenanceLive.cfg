SPECIFICATION LiveSpec
CONSTANTS
  Uris <- MCUris
  Identity <- MCIdentity
  Managed <- MCManaged
  Inside <- MCInside
  Ids = {1, 2}
  UriOf <- AliasedUris
  Deletable <- MCUris
  Ops = {o1}
  Readers = {}
  Roots <- OneRoot
  Retentions = {1}
  MinRetention = 1
  PageSize = 1
  WriteBound = 1
  SweepBound = 0
  MaxSnapshot = 3
  MaxTime = 4
CHECK_DEADLOCK FALSE
PROPERTIES QueueDrains DeadFilesScheduled AbortedReclaimed
