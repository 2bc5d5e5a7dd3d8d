SPECIFICATION FairSpec
CONSTANTS
  Timers = {"poll", "leds"}
  Repeating = {"poll"}
  OpQueueSize = 2
  MaxEvents = 2
  PollPeriod = 1
  Retries = 1
PROPERTY
  ScanResumes
CHECK_DEADLOCK FALSE
