SPECIFICATION AdvSpec
CONSTANTS
  Peers <- MCPeers
  MaxChars = 5
  MaxLinks = 4
  Adverts <- MCAdverts
INVARIANTS
  DiscTypeOK
  RightWhileItFits
  SameScooterStaysRight
  RecognisesNus
PROPERTIES
  WalkEnds
CHECK_DEADLOCK FALSE
