SPECIFICATION GroupSpec
CONSTANTS
  u1 = u1
  u2 = u2
  u3 = u3
  NoGid = NoGid
  NoUid = NoUid
  Thread = {t1, t2}
  Uid = {u1, u2, u3}
  Registered = {u1, u2, u3}
  Gid = {g1}
  Within <- Apart
  MaxRequests = 3
  MaxFaults = 0
SYMMETRY Symmetry
INVARIANT ToldIsDurable
