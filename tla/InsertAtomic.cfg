CONSTANTS
  s1 = s1
  s2 = s2
  s3 = s3
  f1 = f1
  f2 = f2
  f3 = f3
  Stmts <- Statements
  Output <- TwoOneNone
  MaxVersion = 2
SPECIFICATION Spec
INVARIANTS TypeOK PublishedOnce PublishedKept StampMatchesLayout
PROPERTIES Atomic
CHECK_DEADLOCK FALSE
