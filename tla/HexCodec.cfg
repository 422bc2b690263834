SPECIFICATION Spec
CONSTANTS
  NOBJECTS = 11
  Ids <- MCIds
  Values <- MCValues
  Misjudged <- MCMisjudged
  Spare <- MCSpare
INVARIANTS
  ReadsBack
  RefusedExactly
CHECK_DEADLOCK FALSE
