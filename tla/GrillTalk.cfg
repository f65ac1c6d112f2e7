SPECIFICATION Spec
CONSTANTS
  Members = {"x", "y"}
  Setups <- Interviews
  Poses <- Asking
  Gestures = {"message", "answers", "resume", "stop", "abandon", "auto", "choose", "apply", "close", "restart"}

  
PROPERTIES
  
  FinishesOnNews
  StopStands
CHECK_DEADLOCK FALSE
