SPECIFICATION FairSpec
CONSTANTS
  NOBJECTS = 2
  NLAMPS = 3
  NBOARDS = 5
  TIMER_MAX_TASKS = 2
  FLASHES = 2
  LightMs = 20
  MaxData = 65535
  Sensors = {1, 2, 3}
  Commands <- CarefulCommands
  CarefulHost = TRUE
INVARIANTS
  InBounds
  ReportedUnlessLast
  SteadyIsSeen
  LampsFollowTrial
PROPERTIES
  TrialsAdvance
  ImplementsProtocol
  TrialsFinish
  SetupCompletes
