SPECIFICATION Spec
CONSTANTS
  Files = {f1, f2}
  Modes = {"serve", "oneshot"}
  RefreshIdle = 0
  SecondTicks = 3
  FsTicks = 3
  MaxProcs = 3
  MaxTime = 7
  MaxSaves = 2
  MaxRuleEdits = 1
  MaxFaults = 2
  FaultKinds <- AllFaults
CONSTRAINT SavesOrFaults
SYMMETRY FileSymmetry
INVARIANTS
  TypeOK
  RulesNeverStale
  NoLeakedServe
  FallbackSettlesRequests
  AnswerIsOnItsWay
PROPERTIES
  SilentOnlyBeforeInvalidation
  LintIsFresh
  CallsGoForward
