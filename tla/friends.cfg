SPECIFICATION FriendSpec
CONSTANTS
  Thread = {t1, t2}
  Uid = {u1, u2, u3}
  NoUid = NoUid
  Name = {n1, n2}
  NoName = NoName
  MaxRequests = 4
  MaxFaults = 1
SYMMETRY Symmetry
INVARIANTS ListsNameUsers Mutual ToldNamesake
PROPERTY FriendsKept
