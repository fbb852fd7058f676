CONSTANTS
  u1 = u1
  u2 = u2
  u3 = u3
  room = room
  star = star
  ipA = ipA
  ipB = ipB
  Users = {u1, u2}
  Names = {room, star}
  StarNames = {star}
  Ips = {ipA, ipB}
  IpOf <- MCIpOf
  AutoOp = {u2}
  LevelMax = 2
  BanTerms = {1}
  MaxTime = 1
SPECIFICATION Spec
INVARIANTS
  NoEmptyAutodestroy
  RosterExact
