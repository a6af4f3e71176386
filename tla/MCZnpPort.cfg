SPECIFICATION FairSpec
CONSTANTS
  Frame <- MCFrame
  MaxFrames = 3
  MaxNoise = 1
  MaxCorrupt = 1
  Garbled <- MCGarbled
INVARIANT TypeOK
INVARIANT OneFrameLostPerError
PROPERTY ImplementsFrameLink
PROPERTY EveryFrameIsRead
CHECK_DEADLOCK FALSE
