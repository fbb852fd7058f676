CONSTANTS
  f1 = f1
  f2 = f2
  f3 = f3
  s1 = s1
  s2 = s2
  u1 = u1
  u2 = u2
  h1 = h1
  h2 = h2
  h3 = h3
  NULL = NULL
  UINT = 2
  Sockets = {f1, f2}
  Subs = {s1, s2}
  Users = {u1, u2}
  Hosts = {h1}
  LongHosts = {}
  Transports = {"poll", "stream", "ws"}
  Kinds = {"http", "ws"}
  Replies = {"continue", "hang", "refuse"}
SPECIFICATION Spec
SYMMETRY Symmetry
CHECK_DEADLOCK FALSE
INVARIANTS
  
  OneListener
  
