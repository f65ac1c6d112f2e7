SPECIFICATION DrainSpec
CONSTANTS
  a = a
  b = b
  c = c
  NoId = NoId
  Ids <- TwoTickets
  Children <- BUnderA
  Blockers <- Flat
  Pids = {1, 2}
  BatchIds = {"core"}
  SkipKeys = {}
  Knobs <- Both
  AutoTries = 0
  SelfReload = TRUE
  Exits = {"clean", "gave-up", "paused", "faulted", "handoff"}
  Faults = {"crash", "lost", "launch"}
  Gestures = {"enqueue", "dequeue", "start", "file", "batch", "pause", "run", "stop", "close", "crash"}
  MaxGestures = 3
PROPERTIES
  ImplementsStore
CHECK_DEADLOCK FALSE
