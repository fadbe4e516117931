CONSTANTS
  CycleTime = 1000
  FrameTimes = {150, 200, 350}
  MinFrame = 150
  MaxFrame = 350
  Pauses = {700, 2500, 28000, 34000}
  Setbacks = {400, 900}
  MaxBack = 1300
  LongMax = 16400
  Unset = Unset
SPECIFICATION Spec
INVARIANT TypeOK
INVARIANT FpsInRange
INVARIANT FpsNotWrapped
