SPECIFICATION GroupSpec
CONSTANTS
  u1 = u1
  u2 = u2
  u3 = u3
  NoGid = NoGid
  NoUid = NoUid
  Thread = {t1, t2}
  Uid = {u1, u2, u3}
  Registered = {u1, u2, u3}
  Gid = {g1, g2}
  Within <- Nested
  MaxRequests = 3
  MaxFaults = 0
CONSTRAINT Undisturbed
SYMMETRY Symmetry
INVARIANTS PlacesAgree
PROPERTY TableIsDirectory
