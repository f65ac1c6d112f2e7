SPECIFICATION FairDrainSpec
CONSTANTS
  a = a
  b = b
  c = c
  NoId = NoId
  Ids <- TwoTickets
  Children <- BUnderA
  Blockers <- Flat
  Pids = {1, 2}
  BatchIds = {}
  SkipKeys = {}
  Knobs <- Plain
  AutoTries = 1
  SelfReload = FALSE
  Exits = {"clean", "handoff", "paused"}
  Faults = {"crash"}
  Gestures = {"enqueue", "start", "pause"}
  MaxGestures = 4
PROPERTIES
  ReleaseGateOpens
  Quiesces
CHECK_DEADLOCK FALSE
