SPECIFICATION Spec
CONSTANTS
  f1 = f1 f2 = f2 r1 = r1 r2 = r2 a = a b = b v1 = v1 v2 = v2 v3 = v3 v4 = v4
  NoKey = none
  Paths = {f1, f2}
  Rules = {r1, r2}
  Keys = {a}
  Violations = {v1, v2}
  Runs = {p}
  MaxRuns = 1
  MaxEdits = 1
  MaxFaults = 1
  PathOf <- RulePathOf
  RuleOf <- RuleRuleOf
  KeyOf <- RuleKeyOf
  Options <- RuleOptions
  InitialDisks <- RuleDisks
  InitialLocks <- RuleLocks
  InitialCode <- RuleCode
  InitialRules <- RuleRules
  Restorable <- RuleDisks
CHECK_DEADLOCK FALSE
INVARIANTS
  TypeOK
  UnevaluatedRuleKeepsSuppressions
