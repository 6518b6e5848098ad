SPECIFICATION FairSpec
CONSTANTS
  Conns = {c1}
  BufferLimit = 2
  MaxFrames = 3
  MaxCuts = 2
  MaxData = 6
  MaxFailures = 1
INVARIANTS TypeOK FramesContiguous FarewellIsFinal
PROPERTY StayingClientServed
CHECK_DEADLOCK FALSE
