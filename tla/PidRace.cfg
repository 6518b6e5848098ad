SPECIFICATION FairSpec
CONSTANTS
  Procs = {p1, p2, p3}
  Desktop = {p2, p3}
  NoFile = NoFile
  MaxStarters = 3
INVARIANT FailsOnlyWhenContended
PROPERTIES OustedHolderStops StartEnds
CHECK_DEADLOCK FALSE
