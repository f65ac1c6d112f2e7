SPECIFICATION Spec
CONSTANTS
  epic = epic
  a = a
  Ids <- Tickets
  Children <- AUnderIt
  Pids = {1, 2}
  BatchIds = {"core", "docs"}
  SkipKeys = {"review"}
  Knobs <- BothStarts
INVARIANTS
  OrderInv
  DoneSubsInv
  BatchInv
PROPERTIES
  RunEndsAlone
CHECK_DEADLOCK FALSE
