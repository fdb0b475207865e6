SPECIFICATION MouthSpec
CONSTANTS
  hpixels = 8
  vlines = 8
  HDisplay = 4
  HSyncFirst = 5
  HSyncEnd = 7
  VDisplay = 3
  VSyncFirst = 5
  Frames = 3
PROPERTIES
  FrameTime
  SteadyPicture
  TicksNeverStop
