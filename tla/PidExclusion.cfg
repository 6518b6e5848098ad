SPECIFICATION Spec
CONSTANTS
  Procs = {p1, p2}
  Desktop = {}
  NoFile = NoFile
  MaxStarters = 2
INVARIANT MutualExclusion
CHECK_DEADLOCK FALSE
