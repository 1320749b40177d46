SPECIFICATION FairSpec
CONSTANTS
  u1 = u1
  u2 = u2
  NoBev = NoBev
  NoUid = NoUid
  ThreadNum = 2
  Bev = {b1, b2}
  Uid = {u1, u2}
  Friends <- Mutual
  MaxConns = 3
  MaxRequests = 3
INVARIANTS ListMatchesLogins TargetIsAddressee
PROPERTY GoneIsForgotten
