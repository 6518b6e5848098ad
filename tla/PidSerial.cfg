SPECIFICATION Spec
CONSTANTS
  Procs = {p1, p2, p3, p4}
  Desktop = {}
  NoFile = NoFile
  MaxStarters = 1
SYMMETRY Symmetry
INVARIANTS TypeOK MutualExclusion FailsOnlyWhenContended
CHECK_DEADLOCK FALSE
