SPECIFICATION ClientsSpec
CONSTANTS
  Timers = {poll, leds, button}
  Repeating = {poll, button}
  OpQueueSize = 2
  poll = poll
  leds = leds
  button = button
INVARIANTS
  ClientsTypeOK
  CycleNeedsLateStop
  RequestsServed
  ClientsInv
PROPERTIES
  StopSticks
CHECK_DEADLOCK FALSE
