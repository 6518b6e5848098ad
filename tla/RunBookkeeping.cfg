SPECIFICATION Spec
CONSTANTS
  Callers = {c1, c2}
  Turns = {t1, t2}
  NoTurn = NoTurn
  NoCaller = NoCaller
  Anonymous = Anonymous
  Untagged = TRUE
  MaxEvents = 1
SYMMETRY Symmetry
INVARIANTS TypeOK ForegroundIsTracked RunningIsTracked
CHECK_DEADLOCK FALSE
