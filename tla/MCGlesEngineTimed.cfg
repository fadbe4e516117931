CONSTANTS
  Windows = {w1, w2}
  NoWindow = NoWindow
  EglMayFail = FALSE
  MaxDelay = 2
  RenderCycleWait = 5
  DataCycleWait = 3
  RenderStop = 22
  DataStop = 12
  CommandGap = 5
  FocusFirst = TRUE
SPECIFICATION TimedFairSpec
INVARIANT TimedTypeOK
INVARIANT NoUseAfterFree
INVARIANT OrderlyFrameHasEngine
PROPERTY ShutdownCompletes
