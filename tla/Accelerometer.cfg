SPECIFICATION FairBoard
CONSTANTS
  numSamples = 2
  MARGIN = 3
  Low = 9
  High = 11
  Readings <- MCReadings
  Accelerations <- MCAccelerations
  Garbage <- MCGarbage
  SelfTestBias = 6
  MaxTries = 5
INVARIANTS
  BoardTypeOK
  TrueRestIsQuiet
  TruePullIsHeard
  QuietAtRest
  PullIsSeen
PROPERTIES
  SetupEnds
CHECK_DEADLOCK FALSE
