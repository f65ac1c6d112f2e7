SPECIFICATION DrainSpec
CONSTANTS
  a = a
  b = b
  c = c
  NoId = NoId
  Ids <- TwoTickets
  Children <- Flat
  Blockers <- Flat
  Pids = {1, 2}
  BatchIds = {}
  SkipKeys = {}
  Knobs <- Plain
  AutoTries = 0
  SelfReload = FALSE
  Exits = {"clean", "gave-up", "paused", "faulted"}
  Faults = {}
  Gestures = {"enqueue", "start", "crash"}
  MaxGestures = 4
INVARIANTS
  OneChild
CHECK_DEADLOCK FALSE
