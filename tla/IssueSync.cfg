SPECIFICATION Spec
CONSTANTS
  Issues = {"i", "j"}
  Targets = {"old", "new"}
  First = "old"
  Setups <- Apart
  MaxActs = 3
  MaxFaults = 1
INVARIANTS
  MissesNothing
  RetiredStaysOut
PROPERTIES
  MirrorConverges
  LabelsHeal
CHECK_DEADLOCK FALSE
