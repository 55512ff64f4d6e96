SPECIFICATION Spec
CONSTANTS
  f = f
  g = g
  r = r
  s = s
  failure = failure
  noRule = noRule
  Files = {f, g}
  Texts = {t1, t2}
  Rules = {r, s}
  Analysis = analysis
  Message = message
  Diagnostics <- MCDiagnostics
  Problems = {failure, noRule}
  LoadErrors = {loadError}
  Results <- MCResults
  Nothing = nothing
  MaxPasses = 2
CONSTRAINT DiskConstraint
SYMMETRY TextSymmetry
INVARIANTS TypeOK ReportedOnce ReadingIsCurrent ProblemsAreShown
CHECK_DEADLOCK FALSE
