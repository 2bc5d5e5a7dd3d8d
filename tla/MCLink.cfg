SPECIFICATION FairSpec
CONSTANTS
  Timers = {"poll", "leds"}
  Repeating = {"poll"}
  OpQueueSize = 2
  MaxEvents = 2
  PollPeriod = 1
  Retries = 3
INVARIANTS
  TypeOK
  ScanNeverRefused
  DiscoveryNeverBusy
  SessionBacked
  ScreenFollowsSession
  PollingArmed
  NoRequestStranded
  Blinking
  LedsInv
  EventInv
  TimerInv
PROPERTIES
  RequestsOnlyToKnownLink
  ImplementsSession
  SessionEndsInScan
  SessionPolls
CHECK_DEADLOCK FALSE
