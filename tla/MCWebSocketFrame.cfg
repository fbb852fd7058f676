CONSTANTS
  Versions = {6, 7}
  Traffic <- MCTraffic
  MaxBuffer = 22
  Huge = 1000000
CHECK_DEADLOCK FALSE
SPECIFICATION Spec
INVARIANT FramesDecoded
