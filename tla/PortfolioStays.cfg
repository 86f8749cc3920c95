\* Three objects; the portfolios are the section that matters.
SPECIFICATION ReportSpec
CONSTANTS
    o1 = o1
    o2 = o2
    o3 = o3
    here = here
    there = there
    Object <- MCObject
    NameOf <- MCNameOf
    GoesTo <- MCGoesTo
    NoObject = NoObject
    BranchName = {"main", "feature"}
    MainName = "main"
    Importing = {o1}
    Evidence <- MCEvidence
    MaxRows = 3
INVARIANT
  PortfolioStays
CHECK_DEADLOCK FALSE
