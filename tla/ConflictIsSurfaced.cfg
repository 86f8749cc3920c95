\* A comment says that a gate that was not cleared is noticed.
SPECIFICATION GatesSpec
CONSTANTS
  GateRow <- MCGateRow
  TargetGate <- MCTargetGate
  TargetOf <- MCTargetOf
  GateSetups <- MCGateSetups
  Replacement <- MCReplacement
  SomeCondition <- MCSome
  NoGate <- MCNoGate
  MaxGateRuns = 1
  MaxGateFaults = 1
  MaxGateEdits = 0
INVARIANT ConflictIsSurfaced
CHECK_DEADLOCK FALSE
