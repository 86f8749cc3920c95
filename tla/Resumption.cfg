\* One project with every fault, imported again and resumed; two extracts and a
\* resume; two wizard sessions that are killed.
SPECIFICATION ResumptionSpec
CONSTANTS
  p1 = p1  p2 = p2  master = master  develop = develop  feature = feature
  NoBranch = NoBranch
  Project <- OneProject
  Branch = {master, develop, feature}
  Branches <- MainAndFeature
  SrcMain <- RenamedMain
  DefaultMain = master
  FirstDates <- DatesOne
  HistoryDates = {1}
  Unbuildable <- NoPairs
  ProjectLimit = 1
  BranchLimit = 1
  BuildLimit = 1
  Faults <- Environment
  MaxAttempts = 2
  MaxDate = 3
  Projects = {"a", "b"}
  Portfolios = {"f"}
  ProjectTasks <- OfProjects
  PortfolioTasks <- OfFolios
  ServerTasks = {"gates"}
  ListProjects = "projects"
  Details = "details"
  ListFolios = "folios"
  Scopes <- MCScopes
  Flags <- MCFlags
  Deletable = {"b"}
  Halves <- MCHalves
  MaxExtracts = 2
  MaxResumes = 1
  MaxFailures = 1
  NumOrgs = 2
  MaxWizardExtracts = 2
  MaxStructures = 2
  MaxKills = 1
  MaxSessions = 3
  MaxBacks = 2
INVARIANTS
  CompleteRowsAreMigrated
  BranchReportsAreAnchored
  TooOldMeansHeld
  BranchesAreAccounted
  
  
PROPERTY
  EarlierWorkStands
