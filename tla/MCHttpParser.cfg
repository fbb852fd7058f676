CONSTANTS
  Streams <- MCStreams
  FirstSize = 3
  MaxContent = 2
  KeyBytes = 2
  NULL = NULL
CHECK_DEADLOCK FALSE
SPECIFICATION Spec
INVARIANTS
  SplitIndependent
  PointersFresh
  RoomToRead
