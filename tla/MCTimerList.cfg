SPECIFICATION ListSpec
CONSTANTS
  Timers = {"poll", "leds"}
  Repeating = {"poll"}
  OpQueueSize = 2
  Interval <- MCInterval
  CounterSize = 22
  CompareOffset = 2
  Slack = 2
  Wait <- MCWait
INVARIANTS
  ListTypeOK
  
PROPERTIES
  ImplementsQueue
  
VIEW Distances
CHECK_DEADLOCK FALSE
