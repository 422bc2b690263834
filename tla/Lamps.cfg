SPECIFICATION Spec
CONSTANTS
  NCHIPS = 3
  NLAMPS = 12
  Chip <- MCChip
  Pin <- MCPin
  PowerUp <- MCPowerUp
  MaxFaults = 1
INVARIANTS
  LampsTrue
CHECK_DEADLOCK FALSE
