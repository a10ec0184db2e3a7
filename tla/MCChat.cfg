SPECIFICATION ChatSpec
CONSTANTS
  Users = {u1, u2, u3}
  RoomIds = {c1}
  Requests = {r1}
  Sockets = {s1, s2}
  NoUser = NoUser
  NoRoom = NoRoom
SYMMETRY Symmetry
INVARIANTS
  SocketsTypeOK
  ListenersWereMembers
PROPERTY KeepsChannel
