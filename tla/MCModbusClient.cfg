CONSTANTS
  End <- MCEnd
  WordMax = 1
  BrokenSets <- MCBrokenSets
  ZeroRejected = FALSE
SPECIFICATION Spec
INVARIANT TypeOK
INVARIANT SoundServerPasses
INVARIANT PassMeansSeenWorks
