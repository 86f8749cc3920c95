\* Two phases, an outage after two failures in a row, and a resumed run.
SPECIFICATION FairSpec
CONSTANTS
  issues = issues  measures = measures  rules = rules
  p1 = p1  p2 = p2  p3 = p3
  Projects = {p1, p2, p3}
  Plan <- TwoPhases
  PerProject = {issues, measures}
  MaxConsecutive = 2
  Slots = 2
  Denied = {p1}
  MaxRuns = 2
  MaxCrashes = 1
INVARIANTS
  DoneTasksAreWhole
  WrittenOnce
PROPERTY
  EveryExtractEnds
