SPECIFICATION Spec
CONSTANTS
  MaxTasks = 2
  Wrap = 6
  Delays = {0, 2, 5}
  MaxAge = 8
INVARIANTS
  NeverEarly
  NeverMissed
  TickRunsAllDue
PROPERTIES
  DeadlinesKept
  ImplementsAlarms
