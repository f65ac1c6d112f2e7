SPECIFICATION Spec
CONSTANTS
  Slices <- TwoSlices
  Blocks <- InOrder
  Setups <- Kinds
  MaxAccidents = 1

  
  
PROPERTIES
  AppliedMeansFiled
CHECK_DEADLOCK FALSE
