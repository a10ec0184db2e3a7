SPECIFICATION MsgSpec
CONSTANTS
  member = member
  stranger = stranger
  Users = {member, stranger}
  c1 = c1
  c2 = c2
  RoomIds = {c1, c2}
  Sockets = {s1}
  MessageIds = {1, 2}
  Keys = {k1}
  Tasks = {t1, t2}
  MaxFiles = 2
  Nobody = Nobody
  Nowhere = Nowhere
SYMMETRY Symmetry
CONSTRAINT Bounds
INVARIANTS
  MsgTypeOK
  StoredFilesExist
  OrphansTakeFailure
  ToldOnce
  PositionHasReceipt
PROPERTY PassesAmongMembers
