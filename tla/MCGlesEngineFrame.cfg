CONSTANTS
  Windows = {w1, w2}
  NoWindow = NoWindow
  EglMayFail = FALSE
SPECIFICATION Spec
INVARIANT FrameHasEngine
