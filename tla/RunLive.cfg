SPECIFICATION FairSpec
CONSTANTS
  Callers = {c1, c2}
  Turns = {t1, t2}
  NoTurn = NoTurn
  NoCaller = NoCaller
  Anonymous = Anonymous
  Untagged = FALSE
  MaxEvents = 1
INVARIANT NoStreamLeftBehind
PROPERTIES TurnEndsForCause CancelAnswered StreamFinishes
CHECK_DEADLOCK FALSE
