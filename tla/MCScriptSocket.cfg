CONSTANTS
  Bytes = {"a", "b", "c"}
  Calls <- MCCalls
  Block = 2
  MaxSent = 3
  MaxLives = 2
  ListenAgain = FALSE
  Says <- MCSays
  Alphabet = {"x", "n"}
  NewLine = "n"
  MaxText = 3
  Traffic <- MCTraffic
  MaxLine = 2
  BufSize = 2
CHECK_DEADLOCK FALSE
SPECIFICATION FairSocketSpec
INVARIANTS
  InOrder
  CompleteBeforeShutdown
  WithinAllocation
  HandlesLive
  HeardInOrder
  ReadsWhole
  NothingMissed
PROPERTIES
  HearsBack
  DeferredShutdown
