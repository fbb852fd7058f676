CONSTANTS
  s1 = s1
  s2 = s2
  s3 = s3
  o1 = o1
  o2 = o2
  Me = Me
  NULL = NULL
  OFF = OFF
  Subs = {s1, s2}
  Others = {o1}
  Cells = {1, 2, 3, 4, 5}
  LowSize = 2
  HighSize = 2
  AddSize = 2
  MaxQueue = 3
SPECIFICATION Spec
SYMMETRY Symmetry
INVARIANTS
  RefCountExact
  ChainsTerminated
  ClientsCatchUp
