SPECIFICATION Spec
CONSTANTS
  f1 = f1 f2 = f2 r1 = r1 r2 = r2 a = a b = b v1 = v1 v2 = v2 v3 = v3 v4 = v4
  NoKey = none
  Paths = {f1}
  Rules = {r1}
  Keys = {a, b}
  Violations = {v1, v2, v3, v4}
  Runs = {p, q}
  MaxRuns = 2
  MaxEdits = 0
  MaxFaults = 1
  PathOf <- CountPathOf
  RuleOf <- CountRuleOf
  KeyOf <- CountKeyOf
  Options <- CountOptions
  InitialDisks <- CountDisks
  InitialLocks <- CountLocks
  InitialCode <- CountCode
  InitialRules <- CountRules
  Restorable <- CountRestorable
CONSTRAINT CountConstraint
SYMMETRY RunSymmetry
CHECK_DEADLOCK FALSE
INVARIANTS
  PruneChangesNoReport
  RecordLeavesNoViolation
  LockedSuppressionsSuffice
  CleanIsTight
  EveryWriteIsReadable
  AbandonedDamageStays
