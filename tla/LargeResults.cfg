\* 500, 200 and 100 in units of 100; a window the sizes do not divide; projects
\* of seven issues, of which a search returns two; historical points.
SPECIFICATION LargeSpec
CONSTANTS
  f1 = f1
  f2 = f2
  Fetches = {f1, f2}
  FallbackPageSizes <- Sizes
  MinPageSizeSlowRetries = 1
  ResultWindowLimit = 9
  RequestedSizes = {3, 5}
  PageLimits = {0, 3}
  Totals = {0, 10}
  HiddenItems = {{}, {2}}
  Issue <- MCIssue
  Server = {"honours", "ignores", "rejects"}
  SlicedProjects <- MCProjects
  ResultCeiling = 2
  Today = 6
  MaxDepth = 6
  MaxBuckets = 3
  MaxMoves = 2
  MaxTroubles = 1
  Point <- MCPoint
SYMMETRY Interchangeable
INVARIANTS
  PagingInv
  
  RecordsAreHonest
  SnapshotAddsUp
PROPERTY
  EveryFetchEnds
