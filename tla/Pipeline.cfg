SPECIFICATION Spec
CONSTANTS
  Setups <- Kept
  MaxRepairs = 1
  MaxBugfixes = 1
  Troubles = {"paused", "faulted", "refused", "push", "forge", "foreign", "conflict", "tracker"}
  Gestures = {"kill", "reboot", "stop", "outage", "merge", "close", "drift", "finish", "clear", "reset", "requeue", "reconcile", "advance", "rerun"}
  MaxGestures = 2
  MaxBuilds = 2
  MaxPRs = 2
PROPERTIES
  LandsOnlyVerified
  
  
  RunEnds
  ShippedIsSettled
CHECK_DEADLOCK FALSE
