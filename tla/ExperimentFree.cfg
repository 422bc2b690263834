SPECIFICATION Spec
CONSTANTS
  NOBJECTS = 2
  NLAMPS = 3
  NBOARDS = 5
  TIMER_MAX_TASKS = 1
  FLASHES = 2
  LightMs = 20
  MaxData = 65535
  Sensors = {1, 2, 3}
  Commands <- FreeCommands
  CarefulHost = FALSE
INVARIANTS
  TypeOK
  TrialInSequence
  SampleShowsLastOutcome
PROPERTIES
  StreamTaskStays
  SilenceMeansRefused
CHECK_DEADLOCK FALSE
