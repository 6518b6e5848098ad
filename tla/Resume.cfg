SPECIFICATION FairSpec
CONSTANTS
  MaxAttempts = 2
  MaxEnds = 3
  Resumes = {r1, r2}
  MaxSilent = 2
  MaxStreak = 14
INVARIANTS TypeOK PublishedIffQueued QueuedOnlyIfEnabled GivesUp
PROPERTY NotForgotten
CHECK_DEADLOCK FALSE
