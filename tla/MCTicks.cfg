CONSTANTS
  Delays = {1, 3}
  Times = {0, 1, 2}
  CoreDelay = 2
  MaxTimers = 4
  NONE = NONE
SPECIFICATION FairSpec
PROPERTIES
  MeetsContract
  CoreTimerRuns
