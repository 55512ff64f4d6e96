SPECIFICATION FairSpec
CONSTANTS
  c1 = c1 c2 = c2
  Configs <- MCConfigs
  NoId = none
  Nothing = nothing
  MaxRequests = 3
  MaxPipe = 1
  MaxWorld = 1
CHECK_DEADLOCK FALSE
INVARIANTS
  TypeOK
  FileAnswersAreNewest
  OneResponseInOrder
PROPERTIES
  ImplementsContract
  RequestsAreAnswered
  EndOfInputEnds
