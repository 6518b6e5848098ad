SPECIFICATION Spec
CONSTANTS
  Callers = {c1, c2}
  Turns = {t1, t2}
  NoTurn = NoTurn
  NoCaller = NoCaller
  Anonymous = Anonymous
  Untagged = FALSE
  MaxEvents = 2
INVARIANT NothingInFlightMeansIdle
CHECK_DEADLOCK FALSE
