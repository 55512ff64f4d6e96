SPECIFICATION FairSpec
CONSTANTS
  Channels = {c, d}
  Runs = {r}
  Nobody = nobody
  MaxChunks = 2
  MaxCalls = 3
  Quiet = {d}
  MaxWork = 3
CONSTRAINT WorkConstraint
INVARIANTS TypeOK WaitingIsScheduled
PROPERTIES ImplementsContract RunsReturn EndsAreTold OutputArrives OrphansEnd
CHECK_DEADLOCK FALSE
