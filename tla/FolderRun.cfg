SPECIFICATION Spec
CONSTANTS
  Kids <- KidsC
  Setups <- SetupsC
  Troubles <- TroublesC
  Gestures <- GesturesC
  MaxAccidents = 3
  MaxAttempts = 2

  
PROPERTIES
  LandsWhole
  OwnWorkStands
  HalfLandedSettles
CHECK_DEADLOCK FALSE
