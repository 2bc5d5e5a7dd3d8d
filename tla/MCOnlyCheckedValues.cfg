SPECIFICATION DataSpec
CONSTANTS
  Registers <- MCRegisters
  Width = 128
  CutAt = {5, 9, 11}
  DamageAt = {1, 3, 6, 8, 11}
  DamagedTo = {0, 5, 255}
  MaxFaults = 3
PROPERTY
  OnlyCheckedValues
CHECK_DEADLOCK FALSE
