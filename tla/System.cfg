SPECIFICATION FairSystem
CONSTANTS
  NOBJECTS = 2
  NLAMPS = 1
  NBOARDS = 3
  TIMER_MAX_TASKS = 0
  FLASHES = 1
  LightMs = 20
  MaxData = 65535
  Sensors = {1, 2}
  Commands <- OneTrial
  CarefulHost = TRUE
  Senders = {1, 2}
  IdOf <- MCIdOf
  MaxInFlight = 1
INVARIANTS
  VerdictsAreMotions
  HeldIsAnswered
PROPERTIES
  MotionEndsTrial
CHECK_DEADLOCK FALSE
