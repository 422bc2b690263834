SPECIFICATION FairSpec
CONSTANTS
  NOBJECTS = 2
  NLAMPS = 3
  NBOARDS = 5
  TIMER_MAX_TASKS = 2
  FLASHES = 2
  LightMs = 20
  MaxData = 65535
  Sensors = {1, 2}
  Commands <- CarefulCommands
  CarefulHost = TRUE
PROPERTY SetupCompletes
