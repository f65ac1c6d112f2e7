SPECIFICATION FairDrainSpec
CONSTANTS
  a = a
  b = b
  c = c
  NoId = NoId
  Ids <- TwoTickets
  Children <- Flat
  Blockers <- BUnderA
  Pids = {1, 2}
  BatchIds = {}
  SkipKeys = {}
  Knobs <- Plain
  AutoTries = 0
  SelfReload = TRUE
  Exits = {"clean", "gave-up", "faulted"}
  Faults = {"crash", "lost"}
  Gestures = {"enqueue", "start", "stop", "crash", "close"}
  MaxGestures = 4

  
PROPERTIES
  DeadRunsSettle
  BootRecoversRuns
  ReloadLands
CHECK_DEADLOCK FALSE
