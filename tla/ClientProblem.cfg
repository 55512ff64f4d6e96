SPECIFICATION Spec
CONSTANTS
  Files = {f1}
  Modes = {"serve"}
  RefreshIdle = 0
  SecondTicks = 2
  FsTicks = 1
  MaxProcs = 2
  MaxTime = 4
  MaxSaves = 0
  MaxRuleEdits = 1
  MaxFaults = 1
  FaultKinds = {"garbled"}
INVARIANTS
  ServeFailureIsTrue
