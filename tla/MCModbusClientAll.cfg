CONSTANTS
  End <- MCEnd
  WordMax = 1
  BrokenSets <- MCBrokenSets
  ZeroRejected = FALSE
SPECIFICATION Spec
INVARIANT PassMeansAllWorks
