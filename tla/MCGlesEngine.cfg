CONSTANTS
  Windows = {w1, w2}
  NoWindow = NoWindow
  EglMayFail = TRUE
SPECIFICATION FairSpec
INVARIANT TypeOK
INVARIANT FlagNeedsWindow
INVARIANT EngineReleasedAtExit
PROPERTY ImplementsMonitor
PROPERTY TermWindowCompletes
PROPERTY WindowGetsFrame
