SPECIFICATION DataSpec
CONSTANTS
  Registers <- MCRegisters
  Width = 128
  CutAt = {5, 9, 11}
  DamageAt = {1, 3, 6, 11}
  DamagedTo = {3, 4, 5, 255}
  MaxFaults = 3
VIEW MCView
INVARIANTS
  DataTypeOK
  OneLossPerFault
  HalvesWouldJoin
  DrawingEnds
PROPERTIES
  AcceptedIsGenuine
  WholeIsShown
CHECK_DEADLOCK FALSE
