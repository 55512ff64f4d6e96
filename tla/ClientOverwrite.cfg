SPECIFICATION Spec
CONSTANTS
  Files = {f1, f2}
  Modes = {"serve"}
  RefreshIdle = 0
  SecondTicks = 2
  FsTicks = 1
  MaxProcs = 1
  MaxTime = 4
  MaxSaves = 1
  MaxRuleEdits = 0
  MaxFaults = 0
  FaultKinds <- NoFaults
PROPERTIES
  NewerAnalysisIsKept
