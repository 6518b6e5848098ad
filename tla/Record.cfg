SPECIFICATION Spec
CONSTANTS
  Titles = {t1, t2}
  MaxQueue = 1
  MaxStops = 1
SYMMETRY Symmetry
INVARIANTS TypeOK StaysDeleted DecisionsStick StopLeavesFlag ContinuedOnce
CHECK_DEADLOCK FALSE
