CONSTANTS
  Bytes <- MCBytes
  Depth = 3
  BufSize = 3
  MaxText = 64
  Openings <- MCOpenings
  Completions <- MCCompletions
  Keys <- MCKeys
  Leaves <- MCLeaves
  MaxItems = 4
CHECK_DEADLOCK FALSE
SPECIFICATION Spec
INVARIANTS
  AssertsHold
  ReadsTheGrammar
  FreedOnce
  RoundTrip
  LookupFinds
