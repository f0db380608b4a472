SPECIFICATION Spec
CONSTANTS
  mt = mt
  MaxThreads = 2
  MaxJobs = 16
  Plans <- MCPlans
  PrefixSize = 1
  WindowSize = 2
  Ldm = TRUE
  Checksum = TRUE
  RsyncMin = 1
  Rooms = {3}
INVARIANTS OutputInOrder RoundBufferIntact CutsAreContentDefined
PROPERTIES ReleasedOnlyAtRest FramesEnd
