SPECIFICATION Spec
CONSTANTS
  Users = {u1, u2, u3}
  RoomIds = {c1, c2}
  Requests = {r1, r2}
  NoUser = NoUser
  NoRoom = NoRoom
SYMMETRY Symmetry
CONSTRAINT Bounds
INVARIANTS
  TypeOK
  DirectStaysPair
  SecondRoomTakesRace
PROPERTY FrozenForGood
