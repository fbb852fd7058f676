CONSTANTS
  u1 = u1
  u2 = u2
  u3 = u3
  room = room
  star = star
  ipA = ipA
  ipB = ipB
  Users = {u1, u2, u3}
  Names = {star}
  StarNames = {star}
  Ips = {ipA, ipB}
  IpOf <- MCIpOf
  AutoOp = {u3}
  LevelMax = 3
  BanTerms = {0, 1}
  MaxTime = 2
SPECIFICATION Spec
INVARIANTS
  MembershipSymmetric
  NoBannedMember
  LevelsGranted
PROPERTIES
  BanLasts
