SPECIFICATION FairButtonSpec
CONSTANTS
  Timers = {"button", "hold", "other"}
  Repeating = {"other"}
  OpQueueSize = 2
  ButtonCount = 2
  SleepButton = 2
INVARIANTS
  ButtonTypeOK
  SleepNeedsPress
  DetectionArmed
  ArmedInv
PROPERTIES
  ReleaseSleeps
CHECK_DEADLOCK FALSE
