SPECIFICATION RepositorySpec
CONSTANTS
  Oid <- MCOid
  Garbage = Garbage
  Malformed = Malformed
  Absent = Absent
  Odd = Odd
  NumPacks = 3
  NewPack = 3
  Kind <- MCKind
  Size <- MCSize
  ProgramSize = 1
  MaxPairs = 2
  MaxLocations = 2
  MaxDepth = 1
  MaxInflate = 49
  MaxIntermediate = 2
  MaxDeltaWork = 3
  MaxCache = 10
  Layout <- MCLayout
  Commit = {c1, c7}
  TreeOf <- MCTreeOf
  Items <- MCItems
  Target <- MCTarget
  Lfs = {big}
  GitModules = 0
  Dot <- MCDot
  DotDot <- MCDotDot
  MaxEntries = 5
  MaxFiles = 2
  MaxFileBytes = 3
  MaxTotalBytes = 4
  MaxPathDepth = 2
  MaxTargetBytes = 1
  MaxGitmodulesBytes = 2
  MaxGitlinks = 1
  MaxExpansions = 2
  Ceiling = 3
  c1 = c1
  c2 = c2
  c3 = c3
  c4 = c4
  c5 = c5
  c6 = c6
  c7 = c7
  t7 = t7
  c8 = c8
  t8 = t8
  t6 = t6
  lg = lg
  t1 = t1
  t2 = t2
  t3 = t3
  t4 = t4
  t5 = t5
  sub = sub
  x = x
  y = y
  big = big
  ln = ln
  lc = lc
  BoundaryInputs <- MCBoundaryInputs
  GitlinkLimit = 2
  MaxSections = 2
  MaxKeys = 4
  MaxNested = 2
  MaxGaps = 4
  MaxReportRecords = 9
INVARIANTS
  ObjectsGenuine
  WithinBudgets
  AcceptedIsOneCommit
  AcceptedUndisturbed
  LinksStayInside
  
  ReportIsAnswerable
PROPERTY ScanEnds
CHECK_DEADLOCK FALSE
