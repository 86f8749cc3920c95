\* Two projects sharing the gates, with cancellation, refusals and failed calls;
\* a limiter whose backend becomes slower and faster; three callers of a rate
\* limiter; a page that loses its connection.
SPECIFICATION ConcurrentSpec
CONSTANTS
  p1 = p1  p2 = p2  master = master  develop = develop  feature = feature
  NoBranch = NoBranch
  Project <- TwoProjects
  Branch = {master, develop, feature}
  Branches <- TwoBranches
  SrcMain <- TwoMains
  DefaultMain = master
  FirstDates <- DatesTwo
  HistoryDates = {}
  Unbuildable <- FeaturesUnbuildable
  ProjectLimit = 2
  BranchLimit = 2
  BuildLimit = 1
  Faults = {"cancel", "reject", "submit", "list", "rename"}
  MaxAttempts = 1
  MaxDate = 2
  Initial = 0
  Target = 1500
  Ceiling = 40
  Latencies = {20, 500, 2000}
  MaxSamples = 3
  MaxShifts = 3
  Callers = {c1, c2, c3}
  MaxPerMinute = 2
  Window = 3
  MaxConns = 2
  MaxRuns = 2
  MaxPrompts = 2
  MaxReloads = 1
INVARIANTS
  BranchesAreAccounted
  WindowInv
  PageInv
  OneWizard
PROPERTIES
  EveryRunEnds
  FigureIsSteady
  NobodyStarves
  CancelEnds
