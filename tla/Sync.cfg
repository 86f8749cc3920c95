\* Two findings and two issues; two projects and two settings; two gates of
\* three rows.
SPECIFICATION SideSpec
CONSTANTS
  Source = {1, 2}
  c1 = c1
  c2 = c2
  CloudIssue = {c1, c2}
  Worlds <- MCWorlds
  MaxIssueComments = 2
  Threshold = 6
  Slots = 2
  MaxTries = 2
  MaxRuns = 2
  MaxFaults = 1
  MaxEdits = 1
  bank = bank
  shop = shop
  pay = pay
  loan = loan
  jacoco = jacoco
  lang = lang
  Proj <- MCProj
  OrgSeq <- MCOrgSeq
  HomeOf <- MCHomeOf
  Key <- MCKey
  Scenarios <- MCScenarios
  MaxAttempts = 3
  MaxOutages = 1
  GateRow <- MCGateRow
  TargetGate <- MCTargetGate
  TargetOf <- MCTargetOf
  GateSetups <- MCGateSetups
  Replacement <- MCReplacement
  SomeCondition <- MCSome
  NoGate <- MCNoGate
  MaxGateRuns = 2
  MaxGateFaults = 2
  MaxGateEdits = 1
INVARIANTS
  
  
  GatesAreMigrated
PROPERTY
  PeoplesWorkStays
CHECK_DEADLOCK FALSE
