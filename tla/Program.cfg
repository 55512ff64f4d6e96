SPECIFICATION FairSpec
CONSTANTS
  edge = edge
  symbol = symbol
  hasSymbols = hasSymbols
  runtime = runtime
  reach = reach
  fact = fact
  v = v
  w = w
  Symbols <- MCSymbols
  Atoms <- MCAtoms
  Symbol <- MCSymbol
  Base = {edge, symbol}
  PreludeDecls = {hasSymbols, runtime, reach}
  Prelude <- MCPrelude
  Units <- MCUnits
  Located <- MCLocated
  FactLimit = 3
  MaxStratum = 2
INVARIANTS TypeOK EndsAsWhole DerivesOnlyWhatIsRead
PROPERTIES EvaluationEnds
CHECK_DEADLOCK FALSE
