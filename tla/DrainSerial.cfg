SPECIFICATION DrainSpec
CONSTANTS
  a = a
  b = b
  c = c
  NoId = NoId
  Ids <- Three
  Children <- EpicAndC
  Blockers <- NoBlocks
  Pids = {1, 2}
  BatchIds = {}
  SkipKeys = {}
  Knobs <- Plain
  AutoTries = 0
  SelfReload = TRUE
  Exits = {"clean", "gave-up", "handoff"}
  Faults = {"crash"}
  Gestures = {"enqueue", "start", "stop", "pause"}
  MaxGestures = 4
INVARIANTS
  OneChild
PROPERTIES
  DrainSettlesTheDead
  
CHECK_DEADLOCK FALSE
