SPECIFICATION Spec
CONSTANTS
  BufLen = 12
  Guess = 6
  MinSize = 2
  HeadLen = 3
  Streams <- MCStreams
  ReadSizes = {1, 7}
  MaxStreams = 2
INVARIANTS
  FramesInSequence
  CleanStreamPlays
CHECK_DEADLOCK FALSE
