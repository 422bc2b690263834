SPECIFICATION FairSpec
CONSTANTS
  DIGITS = 2
  NPACKETS = 5
  BUFFER = 9
  MaxLost = 3
INVARIANTS
  OnlyPacketsSent
  LossIsBounded
  NothingSkipped
  NeverWaitsInVain
PROPERTIES
  AllAccepted
CHECK_DEADLOCK FALSE
