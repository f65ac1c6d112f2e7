SPECIFICATION Spec
CONSTANTS
  Kids <- KidsC
  Setups <- SetupsC
  MaxRepairs = 1
  Resumes = 2
  Troubles <- TroublesC
  Gestures <- GesturesC
  MaxGestures = 2
  MaxPRs = 2
INVARIANTS EpicMeansShipped LandedWorkKept  
PROPERTIES ReleasesWhole ReleaseEnds
CHECK_DEADLOCK FALSE
