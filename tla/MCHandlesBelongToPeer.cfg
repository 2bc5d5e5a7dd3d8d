SPECIFICATION DiscSpec
CONSTANTS
  Peers <- MCPeers
  MaxChars = 5
  MaxLinks = 4
INVARIANTS
  HandlesBelongToPeer
CHECK_DEADLOCK FALSE
