SPECIFICATION Spec
CONSTANTS
  r1 = r1
  r2 = r2
  r3 = r3
  r4 = r4
  r5 = r5
  r6 = r6
  f1 = f1
  f2 = f2
  f3 = f3
  f4 = f4
  id = id
  name = name
  ns = ns
  Null = Null
  Rows <- ThreeRows
  Records = {r1, r2, r3, r4, r5, r6}
  Columns = {id, name, ns}
  Value <- Stores
  MaxChar = 2
  Nanos = {ns}
  BucketColumn = id
  Arity = 3
  Hash <- Hashes
  Filters <- AllFilters
  FilterA <- BeginsWithOne
  FilterB <- OneOrThree
  Files = {f1, f2, f3, f4}
  Queries = {q1}
  Filtered = {TRUE, FALSE}
  Layouts = {"hive", "native"}
  Limits = {0, 2}
  InlinedReads = {TRUE, FALSE}
  Racing = FALSE
  MaxSnapshot = 4
SYMMETRY FileSymmetry
CHECK_DEADLOCK FALSE
INVARIANTS TypeOK PruningKeepsMatches NoMissingRows LayoutMatches
PROPERTIES LatestServed ReadsOfSnapshots
