SPECIFICATION Spec
CONSTANTS
  Agents = {a1, a2}
  MaxChanges = 2
  MaxHead = 3
  MaxFetches = 2
  MaxExtras = 1
  MaxDisconnects = 1
SYMMETRY Symmetry
INVARIANTS TypeOK LostOnlyBehindCursor
PROPERTY NeverBackwards
CHECK_DEADLOCK FALSE
