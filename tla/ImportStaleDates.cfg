\* A crash between the import of main and its rename; master is also a branch of the source.
SPECIFICATION Spec
CONSTANTS
  p1 = p1  p2 = p2  master = master  develop = develop  feature = feature
  NoBranch = NoBranch
  Project <- OneProject
  Branch = {master, develop, feature}
  Branches <- MainAndMaster
  SrcMain <- RenamedMain
  DefaultMain = master
  FirstDates <- DatesOne
  HistoryDates = {}
  Unbuildable <- NoPairs
  ProjectLimit = 1
  BranchLimit = 1
  BuildLimit = 1
  Faults = {"crash"}
  MaxAttempts = 2
  MaxDate = 2
INVARIANT
  CompleteRowsAreMigrated
