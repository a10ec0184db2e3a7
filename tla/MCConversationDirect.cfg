SPECIFICATION Spec
CONSTANTS
  Users = {u1, u2}
  RoomIds = {c1}
  Requests = {r1, r2}
  NoUser = NoUser
  NoRoom = NoRoom
SYMMETRY Symmetry
INVARIANT DirectAnswerIsMine
